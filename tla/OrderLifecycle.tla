--------------------------- MODULE OrderLifecycle ---------------------------
(***************************************************************************)
(* The life of a shop order in the PassDock server: payment review,        *)
(* fulfilment, delivery, cancellation, expiry, refund and the asynchronous *)
(* fulfilment retry (apps/server/internal/service).                        *)
(*                                                                         *)
(* Every handler of the server that changes an order runs in one database  *)
(* transaction.  On the default database (SQLite, WAL) a transaction that  *)
(* read a row another one has since written cannot commit, so a handler    *)
(* that reads through its own transaction is one atomic action here.  Two  *)
(* buyer handlers read the order through another connection, before their  *)
(* transaction, and save the whole row they read: they are two actions, a  *)
(* read and a write, and anything may happen in between.                   *)
(*                                                                         *)
(* Each effect takes the row the handler read as a parameter, so the same  *)
(* definitions serve an interleaved reading as well as an atomic one.      *)
(*                                                                         *)
(* Abstracted: amounts, event and log rows, tickets, proofs; the contents  *)
(* of the codes; clock values (a deadline may have passed or not).         *)
(* "issuing" and "running" are written and replaced in one transaction, so *)
(* no committed state shows them.                                          *)
(***************************************************************************)
EXTENDS Integers, FiniteSets, Sequences

CONSTANTS
    Orders,         \* order numbers
    Quantity,       \* [Orders -> Nat \ {0}]: units of the product an order takes
    Channel,        \* [Orders -> Channels]: channel of the order's delivery strategy
    IssuesCodes,    \* the orders whose strategy issues codes (not manual_delivery)
    Inventories,    \* inventory values an operator may save in the product form
    MaxRetries,     \* max_retries of the fulfilment strategy's retry policy
    Requests,       \* buyer requests in flight at once
    MaxRefunds      \* bound: refund records of one order

Channels == {"web", "telegram", "manual"}   \* "manual" stands for email too

ASSUME QuantityAssumption == Quantity \in [Orders -> Nat \ {0}]
ASSUME ChannelAssumption == Channel \in [Orders -> Channels]
ASSUME IssuesCodesAssumption == IssuesCodes \subseteq Orders
ASSUME InventoriesAssumption == Inventories \subseteq Int
ASSUME RetriesAssumption == MaxRetries \in Nat
ASSUME RefundsAssumption == MaxRefunds \in Nat

VARIABLES
    order,      \* orders: status, payment status, delivery status
    ful,        \* status of the order's latest fulfilment record
    issue,      \* status of the order's code issue record
    dlv,        \* the order's latest delivery record
    oldTelegram,\* orders with an older delivery record of channel telegram
    stock,      \* product.metadata.inventory
    queued,     \* attempt number of the pending fulfilment retry job, or 0
    running,    \* attempt number of the claimed job being executed, or 0
    refunds,    \* the order's refund records, oldest first
    req,        \* buyer requests: the row each has read and not yet written
    stockBase,  \* history: inventory at the last edit of the product
    sold        \* history: orders fulfilled since the last edit of the product

recordVars == <<ful, issue, dlv, oldTelegram>>
stockVars  == <<stock, stockBase, sold>>
jobVars    == <<queued, running>>
vars == <<order, recordVars, stockVars, jobVars, refunds, req>>

Statuses == {"awaiting_payment", "paid_pending_review", "payment_confirmed",
             "delivery_pending", "completed", "cancelled", "expired",
             "failed", "refunded"}
PaymentStatuses  == {"unpaid", "pending_review", "paid", "failed", "refunded"}
DeliveryStatuses == {"pending", "sent", "cancelled"}
Row == [status : Statuses, pay : PaymentStatuses, del : DeliveryStatuses]

BuyerOps == {"mark_paid", "cancel"}
Idle == [op |-> "idle"]

RefundRecord == [type : {"mark", "original"},
                 st   : {"processing", "succeeded", "failed"},
                 live : BOOLEAN]    \* a request is waiting for the provider

\* Units taken by a set of orders, one element per unit.
Units(S) == UNION {{o} \X (1 .. Quantity[o]) : o \in S}

TypeOK ==
    /\ order \in [Orders -> Row]
    /\ ful \in [Orders -> {"none", "success", "failed"}]
    /\ issue \in [Orders -> {"none", "success", "failed"}]
    /\ dlv \in [Orders -> [st : {"none", "pending", "sent"}, ch : Channels]]
    /\ oldTelegram \subseteq Orders
    /\ stock \in Int
    /\ queued \in [Orders -> 0 .. MaxRetries]
    /\ running \in [Orders -> 0 .. MaxRetries]
    /\ refunds \in [Orders -> Seq(RefundRecord)]
    /\ req \in [Requests -> {Idle} \cup [op : BuyerOps, o : Orders, row : Row]]
    /\ stockBase \in Int
    /\ sold \subseteq Orders

(***************************************************************************)
(* Orders start as CreateOrder leaves them: nothing is reserved and the    *)
(* product's inventory was only looked at.                                 *)
(***************************************************************************)
NewOrder == [status |-> "awaiting_payment", pay |-> "unpaid", del |-> "pending"]

Init ==
    /\ order = [o \in Orders |-> NewOrder]
    /\ ful = [o \in Orders |-> "none"]
    /\ issue = [o \in Orders |-> "none"]
    /\ dlv = [o \in Orders |-> [st |-> "none", ch |-> "web"]]
    /\ oldTelegram = {}
    /\ stock \in Inventories
    /\ queued = [o \in Orders |-> 0]
    /\ running = [o \in Orders |-> 0]
    /\ refunds = [o \in Orders |-> << >>]
    /\ req = [r \in Requests |-> Idle]
    /\ stockBase = stock
    /\ sold = {}

\* A handler saves the whole row it read, with the fields it set.
Save(o, status, pay, del) ==
    order' = [order EXCEPT ![o] = [status |-> status, pay |-> pay, del |-> del]]

\* Mutant of CancelQueued: the pending job outlives what made it pointless.
LeaveQueued(o) == UNCHANGED queued
CancelQueued(o) == queued' = [queued EXCEPT ![o] = 0]

\* Statuses no fulfilment, delivery or confirmation starts from.
Closed == {"cancelled", "expired", "refunded"}

-----------------------------------------------------------------------------
(* The buyer: a read outside the transaction, then a save of that row.     *)

BuyerMayAct(row) == row.pay # "paid" /\ row.status # "completed"

EndRequest(r) == req' = [req EXCEPT ![r] = Idle]

BuyerRead(r, o, op) ==
    /\ req[r] = Idle
    /\ BuyerMayAct(order[o])
    /\ req' = [req EXCEPT ![r] = [op |-> op, o |-> o, row |-> order[o]]]
    /\ UNCHANGED <<order, recordVars, stockVars, jobVars, refunds>>

\* MarkStorefrontOrderPaid saves the row it read, whatever it has become.
BuyerMarkPaid(r) ==
    /\ req[r].op = "mark_paid"
    /\ Save(req[r].o, "paid_pending_review", "pending_review", req[r].row.del)
    /\ EndRequest(r)
    /\ UNCHANGED <<recordVars, stockVars, jobVars, refunds>>

\* CancelStorefrontOrder leaves the payment status and pending jobs alone.
BuyerCancel(r) ==
    /\ req[r].op = "cancel"
    /\ Save(req[r].o, "cancelled", req[r].row.pay, "cancelled")
    /\ EndRequest(r)
    /\ UNCHANGED <<recordVars, stockVars, jobVars, refunds>>

\* The buyer's transaction fails (database locked): nothing is saved.
BuyerAbort(r) ==
    /\ req[r] # Idle
    /\ EndRequest(r)
    /\ UNCHANGED <<order, recordVars, stockVars, jobVars, refunds>>

-----------------------------------------------------------------------------
(* Payment review and the order's own ends.                                *)

\* A row already paid is confirmed again only out of "paid_pending_review";
\* the other repeats of ConfirmAdminOrderPayment change nothing.
ConfirmPayment(o, row) ==
    /\ row.status \notin Closed
    /\ row.pay = "paid" => row.status = "paid_pending_review"
    /\ Save(o, "payment_confirmed", "paid", row.del)
    /\ UNCHANGED <<recordVars, stockVars, jobVars, refunds, req>>

RejectPayment(o, row) ==
    /\ row.pay = "pending_review"
    /\ Save(o, "awaiting_payment", "unpaid", row.del)
    /\ UNCHANGED <<recordVars, stockVars, jobVars, refunds, req>>

\* Mutant of ReviewTimeout: trusts the list of overdue orders the sweep read.
ReviewTimeoutUnchecked(o, row) ==
    /\ Save(o, "failed", "failed", row.del)
    /\ UNCHANGED <<recordVars, stockVars, jobVars, refunds, req>>

\* FailOrderPaymentReviewTimeout, once the review deadline has passed.
ReviewTimeout(o, row) ==
    /\ row.pay = "pending_review" \/ row.status = "paid_pending_review"
    /\ Save(o, "failed", "failed", row.del)
    /\ UNCHANGED <<recordVars, stockVars, jobVars, refunds, req>>

ExpireOrder(o, row) ==
    /\ row.status = "awaiting_payment"
    /\ Save(o, "expired", row.pay, row.del)
    /\ UNCHANGED <<recordVars, stockVars, jobVars, refunds, req>>

CancelAdminOrder(o, row) ==
    /\ row.pay # "paid"
    /\ row.status \notin {"completed", "refunded"}
    /\ Save(o, "cancelled", row.pay, "cancelled")
    /\ CancelQueued(o)
    /\ UNCHANGED <<recordVars, stockVars, running, refunds, req>>

-----------------------------------------------------------------------------
(* Fulfilment.  A record "success" is final; a failed one may be followed  *)
(* by another attempt.  Inventory is taken before the provider is called   *)
(* and put back in the same transaction if the call fails.                 *)

\* Mutant of MayFulfil: the latest fulfilment record is not looked at.
MayFulfilAgain(o, row) == row.pay = "paid" /\ row.status \notin Closed
MayFulfil(o, row) ==
    /\ row.pay = "paid"
    /\ row.status \notin Closed
    /\ ful[o] # "success"

Reserve(o) ==
    /\ stock >= Quantity[o]
    /\ stock' = stock - Quantity[o]

\* buildFulfillmentResult: codes come from the provider, or for a retry from an
\* issue record that succeeded earlier or from the provider's memory of it.
CodesAtHand(o, retry) == issue[o] = "success" => retry

FulfilSucceeds(o, row, retry) ==
    /\ MayFulfil(o, row)
    /\ Reserve(o)
    /\ CodesAtHand(o, retry)
    /\ Save(o, "delivery_pending", row.pay, "pending")
    /\ ful' = [ful EXCEPT ![o] = "success"]
    /\ issue' = IF o \in IssuesCodes THEN [issue EXCEPT ![o] = "success"] ELSE issue
    /\ CancelQueued(o)
    /\ sold' = sold \cup {o}
    /\ UNCHANGED <<dlv, oldTelegram, stockBase, refunds, req>>

\* Mutant of ScheduleRetry: one retry more than the policy allows.
ScheduleOneMore(o, attempt) ==
    queued' = IF attempt <= MaxRetries
                THEN [queued EXCEPT ![o] = attempt + 1]
                ELSE queued

\* scheduleFulfillmentRetryIfNeededTx: a new pending job replaces the old.
ScheduleRetry(o, attempt) ==
    queued' = IF attempt + 1 <= MaxRetries
                THEN [queued EXCEPT ![o] = attempt + 1]
                ELSE queued

\* Mutant of FulfilFails: what was reserved is not put back.
FulfilFailsUnrestored(o, row, attempt) ==
    /\ MayFulfil(o, row)
    /\ Reserve(o) \/ (stock < Quantity[o] /\ UNCHANGED stock)
    /\ Save(o, "failed", row.pay, row.del)
    /\ ful' = [ful EXCEPT ![o] = "failed"]
    /\ issue' = IF o \in IssuesCodes THEN [issue EXCEPT ![o] = "failed"] ELSE issue
    /\ ScheduleRetry(o, attempt)
    /\ UNCHANGED <<dlv, oldTelegram, stockBase, sold, refunds, req>>

\* The provider fails or the inventory does not suffice; codes are wiped.
FulfilFails(o, row, attempt) ==
    /\ MayFulfil(o, row)
    /\ Save(o, "failed", row.pay, row.del)
    /\ ful' = [ful EXCEPT ![o] = "failed"]
    /\ issue' = IF o \in IssuesCodes THEN [issue EXCEPT ![o] = "failed"] ELSE issue
    /\ ScheduleRetry(o, attempt)
    /\ UNCHANGED <<dlv, oldTelegram, stockVars, refunds, req>>

\* FulfillAdminOrder, RetryAdminOrderFulfillment and payment automation.
Fulfil(o, retry) ==
    /\ FulfilSucceeds(o, order[o], retry) \/ FulfilFails(o, order[o], 0)
    /\ UNCHANGED running

-----------------------------------------------------------------------------
(* The worker of asynchronous jobs.  A sweep claims jobs, runs them in     *)
(* goroutines and waits for all of them before it claims again, so a job   *)
(* of an order is claimed only when the order's previous one has ended.    *)

ClaimJob(o) ==
    /\ queued[o] > 0
    /\ running[o] = 0
    /\ running' = [running EXCEPT ![o] = queued[o]]
    /\ queued' = [queued EXCEPT ![o] = 0]
    /\ UNCHANGED <<order, recordVars, stockVars, refunds, req>>

\* Mutant of Attempt: the job's number does not reach the failure handler.
AttemptForgotten(o) == 0

\* The attempt number a job's context carries into the failure handler.
Attempt(o) == running[o]

EndJob(o) == running' = [running EXCEPT ![o] = 0]

RunJob(o) ==
    /\ running[o] > 0
    /\ \/ FulfilSucceeds(o, order[o], TRUE)
       \/ FulfilFails(o, order[o], Attempt(o))
    /\ EndJob(o)

\* The order no longer takes a fulfilment: the job ends "cancelled".
RefuseJob(o) ==
    /\ running[o] > 0
    /\ ~ MayFulfil(o, order[o])
    /\ EndJob(o)
    /\ UNCHANGED <<order, recordVars, stockVars, queued, refunds, req>>

\* The transaction is refused by the database ("database is locked"), or its
\* first statement fails: the job ends "failed" and nothing is rescheduled.
LoseJob(o) ==
    /\ running[o] > 0
    /\ EndJob(o)
    /\ UNCHANGED <<order, recordVars, stockVars, queued, refunds, req>>

-----------------------------------------------------------------------------
(* Delivery.  Telegram is switched off in resolveDeliveryChannelTarget, so *)
(* a telegram strategy delivers to the web; the web channel never fails;   *)
(* manual delivery waits for an operator.                                  *)

\* Mutant of PayloadReady: a record is enough, whatever its result.
PayloadRecorded(o) == issue[o] # "none" \/ ful[o] # "none"

\* buildDeliveryPayload: the issued codes, or the text of a manual fulfilment.
PayloadReady(o) == IF issue[o] = "none" THEN ful[o] = "success"
                                        ELSE issue[o] = "success"

\* A new delivery record becomes the order's latest one.
AddDelivery(o, st, ch) ==
    /\ dlv' = [dlv EXCEPT ![o] = [st |-> st, ch |-> ch]]
    /\ oldTelegram' = IF dlv[o].ch = "telegram" THEN oldTelegram \cup {o} ELSE oldTelegram

DeliveryModes == {"deliver", "retry", "resend"}

MayDeliver(o, row, mode) ==
    /\ row.status \notin Closed
    /\ mode # "resend" => row.status \in {"delivery_pending", "completed"}
    /\ mode = "deliver" => /\ dlv[o].st # "sent"
                           /\ dlv[o] # [st |-> "pending", ch |-> "manual"]

\* Without a payload the transaction still commits the record it created:
\* persistDeliveryFailureTx looks for a record "sending" and finds none.
Deliver(o, row, mode) ==
    /\ MayDeliver(o, row, mode)
    /\ \/ /\ ~ PayloadReady(o)
          /\ AddDelivery(o, "pending", Channel[o])
          /\ UNCHANGED order
       \/ /\ PayloadReady(o)
          /\ Channel[o] = "manual"
          /\ AddDelivery(o, "pending", "manual")
          /\ Save(o, "delivery_pending", row.pay, "pending")
       \/ /\ PayloadReady(o)
          /\ Channel[o] # "manual"
          /\ AddDelivery(o, "sent", "web")
          /\ Save(o, "completed", row.pay, "sent")
    /\ UNCHANGED <<ful, issue, stockVars, jobVars, refunds, req>>

CompleteDelivery(o, row) ==
    /\ row.status \notin Closed
    /\ row.pay = "paid"
    /\ dlv[o] = [st |-> "pending", ch |-> "manual"]
    /\ dlv' = [dlv EXCEPT ![o] = [st |-> "sent", ch |-> @.ch]]
    /\ Save(o, "completed", row.pay, "sent")
    /\ UNCHANGED <<ful, issue, oldTelegram, stockVars, jobVars, refunds, req>>

\* RetryTelegramDelivery looks at the record and its payload, never at the
\* order; a failed send rolls everything back.
RetryTelegramDelivery(o, row) ==
    /\ PayloadReady(o)
    /\ \/ /\ dlv[o].ch = "telegram"
          /\ dlv' = [dlv EXCEPT ![o] = [st |-> "sent", ch |-> @.ch]]
       \/ /\ o \in oldTelegram
          /\ UNCHANGED dlv
    /\ Save(o, "completed", row.pay, "sent")
    /\ UNCHANGED <<ful, issue, oldTelegram, stockVars, jobVars, refunds, req>>

-----------------------------------------------------------------------------
(* Refunds.  An operator marks an order refunded, or asks the provider:    *)
(* prepare and finalize are two transactions with the call in between.     *)

MayRefund(o, row) ==
    /\ row.pay = "paid"
    /\ row.status # "refunded"
    /\ Len(refunds[o]) < MaxRefunds

ApplyRefund(o, row) ==
    /\ Save(o, "refunded", "refunded", "cancelled")
    /\ CancelQueued(o)

MarkRefund(o, row) ==
    /\ MayRefund(o, row)
    /\ refunds' = [refunds EXCEPT ![o] =
           Append(@, [type |-> "mark", st |-> "succeeded", live |-> FALSE])]
    /\ ApplyRefund(o, row)
    /\ UNCHANGED <<recordVars, stockVars, running, req>>

PrepareRefund(o, row) ==
    /\ MayRefund(o, row)
    /\ LET n == Len(refunds[o])
       IN  n > 0 => \/ refunds[o][n].type = "mark"
                    \/ refunds[o][n].st # "processing"
    /\ refunds' = [refunds EXCEPT ![o] =
           Append(@, [type |-> "original", st |-> "processing", live |-> TRUE])]
    /\ UNCHANGED <<order, recordVars, stockVars, jobVars, req>>

RefundOutcomes == {"succeeded", "processing", "failed"}

\* The order is not looked at again before it becomes refunded.
FinalizeRefund(o, i, outcome) ==
    /\ refunds[o][i].live
    /\ refunds' = [refunds EXCEPT ![o] = [@ EXCEPT ![i] =
                      [type |-> refunds[o][i].type, st |-> outcome, live |-> FALSE]]]
    /\ IF outcome = "succeeded" THEN ApplyRefund(o, order[o])
                                ELSE UNCHANGED <<order, queued>>
    /\ UNCHANGED <<recordVars, stockVars, running, req>>

-----------------------------------------------------------------------------
(* The operator's product form and the death of the server process.        *)

\* UpsertAdminProduct writes the whole metadata, inventory included.
EditProduct(n) ==
    /\ stock' = n
    /\ stockBase' = n
    /\ sold' = {}
    /\ UNCHANGED <<order, recordVars, jobVars, refunds, req>>

\* What only memory knew is lost: requests, claimed jobs (their rows stay
\* "running" and nothing takes them up) and refunds waiting for the provider.
Crash ==
    /\ running' = [o \in Orders |-> 0]
    /\ req' = [r \in Requests |-> Idle]
    /\ refunds' = [o \in Orders |-> [i \in DOMAIN refunds[o] |->
           [type |-> refunds[o][i].type, st |-> refunds[o][i].st, live |-> FALSE]]]
    /\ UNCHANGED <<order, recordVars, stockVars, queued>>

-----------------------------------------------------------------------------
Buyer ==
    \E r \in Requests :
        \/ \E o \in Orders, op \in BuyerOps : BuyerRead(r, o, op)
        \/ BuyerMarkPaid(r)
        \/ BuyerCancel(r)
        \/ BuyerAbort(r)

Review(o) ==
    \/ ConfirmPayment(o, order[o])
    \/ RejectPayment(o, order[o])
    \/ ReviewTimeout(o, order[o])
    \/ ExpireOrder(o, order[o])
    \/ CancelAdminOrder(o, order[o])

Operate(o) ==
    \/ \E retry \in BOOLEAN : Fulfil(o, retry)
    \/ \E mode \in DeliveryModes : Deliver(o, order[o], mode)
    \/ CompleteDelivery(o, order[o])
    \/ RetryTelegramDelivery(o, order[o])

Refund(o) ==
    \/ MarkRefund(o, order[o])
    \/ PrepareRefund(o, order[o])
    \/ \E i \in DOMAIN refunds[o], outcome \in RefundOutcomes :
           FinalizeRefund(o, i, outcome)

Worker(o) == ClaimJob(o) \/ RunJob(o) \/ RefuseJob(o) \/ LoseJob(o)

Next ==
    \/ Buyer
    \/ \E o \in Orders : Review(o) \/ Operate(o) \/ Refund(o) \/ Worker(o)
    \/ \E n \in Inventories : EditProduct(n)
    \/ Crash

Spec == Init /\ [][Next]_vars

\* The worker's loop runs for ever: every pending job is claimed in the end
\* and every claimed job ends.  Nothing is assumed of buyers and operators.
Fairness == \A o \in Orders : WF_vars(Worker(o))

FairSpec == Spec /\ Fairness

-----------------------------------------------------------------------------
(* Properties.                                                             *)

\* Inventory is neither lost nor counted twice: since the operator last set
\* it, it has gone down by exactly the units of the orders fulfilled since,
\* whatever failed, was retried, cancelled or refunded in between.
StockConserved == stock = stockBase - Cardinality(Units(sold))

\* An order holds units only if its fulfilment succeeded.
SoldIsFulfilled == \A o \in sold : ful[o] = "success"

\* A pending retry job belongs to an order whose latest fulfilment failed and
\* that is not refunded: a success or a refund never leaves a job behind that
\* would issue again (cancelPendingAsyncJobsTx in each of them).
QueuedRetryIsForFailed ==
    \A o \in Orders :
        queued[o] > 0 => ful[o] = "failed" /\ order[o].status # "refunded"

\* "completed" is backed by a payload except where an operator completes a
\* manual delivery by hand; on the web channel also by a sent record.
CompletedIsBacked ==
    \A o \in Orders :
        order[o].status = "completed" /\ Channel[o] # "manual" =>
            /\ ful[o] = "success"
            /\ Channel[o] = "web" => dlv[o].st = "sent"

\* A delivery, a refund, a retry or a later attempt never overwrites the
\* result of a successful fulfilment, and the codes are not issued again.
ResultsSurvive ==
    [][\A o \in Orders :
          ful[o] = "success" => ful'[o] = "success" /\ issue'[o] = issue[o]]_vars

\* A confirmed payment is un-confirmed by a refund, or by the save of a buyer's
\* request that read the order before it was paid (resolveOrderByNo outside the
\* transaction): no sweep, review, retry, delivery or crash ever does it.
PaymentKept ==
    [][\A o \in Orders :
          order[o].pay = "paid" /\ order'[o].pay # "paid" =>
              \/ order'[o].pay = "refunded"
              \/ \E r \in Requests :
                     /\ req[r] # Idle /\ req'[r] = Idle
                     /\ req[r].o = o /\ req[r].row.pay # "paid"]_vars

\* Once operators leave an order alone its retries end: every failed retry
\* carries its attempt number on, up to the policy's max_retries.
RetriesStop ==
    \A o \in Orders :
        <>[][\A retry \in BOOLEAN : ~ Fulfil(o, retry)]_vars
            => <>[](queued[o] = 0 /\ running[o] = 0)

\* The orders are an implementation of the ledger of goods.
Made == {o \in Orders : ful[o] = "success"}
Ledger == INSTANCE OrderLedger WITH made <- Made
LedgerKept == Ledger!Spec

-----------------------------------------------------------------------------
(* What the documents say of the program, and the code does not keep.      *)

Succeeded(o) == {i \in DOMAIN refunds[o] : refunds[o][i].st = "succeeded"}

\* passdock-api-draft.md:633: a refund is not carried out again on an order
\* that is refunded.
RefundsNotRepeated ==
    [][\A o \in Orders :
          order[o].pay = "refunded" => Succeeded(o)' = Succeeded(o)]_vars
=============================================================================
