---------------------------- MODULE PaymentIntake ----------------------------
(***************************************************************************)
(* How payments reach the orders: gateway callbacks, on-chain              *)
(* confirmations, the sweep of the OKX watcher and the operators' own      *)
(* confirmations, each followed by the channel's automation (fulfil, then  *)
(* deliver).  The orders are those of OrderLifecycle: every step here is   *)
(* one of its steps or leaves them alone.                                  *)
(*                                                                         *)
(* A call is a sequence of transactions with reads before the first one;   *)
(* other calls, buyers, operators, sweeps and the death of the process     *)
(* come in between.                                                        *)
(*                                                                         *)
(* Abstracted: amounts are right or wrong for an order (SameAmount);       *)
(* signatures; the two external references of a payment are one transfer.  *)
(* Retry jobs of a failed fulfilment are left to OrderLifecycle.           *)
(***************************************************************************)
EXTENDS OrderLifecycle, OkxMatching, Subsequences

CONSTANTS
    Transfers,      \* payments made by buyers (transaction number or hash)
    Timeline,       \* the transfers, oldest first
    ByAge,          \* the orders, oldest first
    Fit,            \* pairs <<order, transfer>> the sidecar may match
    SameAmount,     \* pairs <<order, transfer>> whose amounts agree
    Reports,        \* pairs <<order, transfer>> gateways and watchers report
    AutoFulfill,    \* the payment channel's autoFulfill
    AutoDeliver,    \* the payment channel's autoDeliver
    Calls,          \* HTTP calls the server handles at once
    Sweeper,        \* the watcher's sweep
    None

ASSUME CallsAssumption == Sweeper \notin Calls
ASSUME NoneAssumption == None \notin Transfers \cup Orders
ASSUME ReportsAssumption == Reports \subseteq Orders \X Transfers
ASSUME ListsAssumption ==
    /\ ByAge \in Seq(Orders) /\ \A j, k \in DOMAIN ByAge : ByAge[j] = ByAge[k] => j = k
    /\ Timeline \in Seq(Transfers) /\ \A j, k \in DOMAIN Timeline : Timeline[j] = Timeline[k] => j = k
ASSUME AutomationAssumption == AutoFulfill \in BOOLEAN /\ AutoDeliver \in BOOLEAN

VARIABLES
    log,        \* payment_callback_logs: the order a callback key confirmed
    watcher,    \* payment_watcher_records, by transfer
    payRef,     \* the external reference on an order's payment record
    call,       \* what each call is about to do
    sweep,      \* matches the running sweep has not handled yet
    seen,       \* the part of Timeline the sidecar's scan returns
    paidBy      \* history: the orders each transfer has confirmed, by route

intakeVars == <<log, watcher, payRef, call, sweep, seen, paidBy>>
allVars == <<vars, intakeVars>>

Slots == Calls \cup {Sweeper}
Routes == {"callback", "onchain"}
NoCall == [pc |-> "idle"]
Call == [pc : {"confirm", "fulfil", "deliver"}, route : Routes \cup {"admin"},
         t : Transfers \cup {None}, o : Orders, review : BOOLEAN]
NoRecord == [st |-> "none"]

IntakeTypeOK ==
    /\ log \in [Routes \X Transfers -> Orders \cup {None}]
    /\ watcher \in [Transfers -> {NoRecord} \cup
           [st : {"matched", "manual_review"}, o : Orders \cup {None}]]
    /\ payRef \in [Orders -> Transfers \cup {None}]
    /\ call \in [Slots -> {NoCall} \cup Call]
    /\ sweep \in Seq([o : Orders, t : Transfers, review : BOOLEAN])
    /\ seen \in (0 .. Len(Timeline)) \X (0 .. Len(Timeline))
    /\ paidBy \in [Routes \X Transfers -> SUBSET Orders]

IntakeInit ==
    /\ Init
    /\ log = [k \in Routes \X Transfers |-> None]
    /\ watcher = [t \in Transfers |-> NoRecord]
    /\ payRef = [o \in Orders |-> None]
    /\ call = [c \in Slots |-> NoCall]
    /\ sweep = << >>
    /\ seen = <<0, 0>>
    /\ paidBy = [k \in Routes \X Transfers |-> {}]

-----------------------------------------------------------------------------
(* The course of a call.                                                   *)

Begin(c, pc, route, t, o, review) ==
    /\ call[c] = NoCall
    /\ call' = [call EXCEPT ![c] =
           [pc |-> pc, route |-> route, t |-> t, o |-> o, review |-> review]]

Goto(c, pc) ==
    call' = [call EXCEPT ![c] =
        [pc |-> pc, route |-> call[c].route, t |-> call[c].t, o |-> call[c].o,
         review |-> call[c].review]]

\* The call answers; "invalid state" lets a sweep go on with its next match.
Answer(c) == call' = [call EXCEPT ![c] = NoCall] /\ UNCHANGED sweep

\* The call answers with another error, which also ends a sweep.
Fail(c) ==
    /\ call' = [call EXCEPT ![c] = NoCall]
    /\ sweep' = IF c = Sweeper THEN << >> ELSE sweep

\* ApplyPaymentPostConfirmAutomation, entered after a confirmation.
Automate(c) ==
    IF AutoFulfill \/ AutoDeliver THEN Goto(c, "fulfil") /\ UNCHANGED sweep
                                  ELSE Answer(c)

\* The order a callback key has confirmed; an operator's confirmation has none.
Logged(route, t) == IF route = "admin" THEN None ELSE log[<<route, t>>]

\* Orders whose payment record bears the reference.
Holders(t) == {o \in Orders : t # None /\ payRef[o] = t}

\* Paid, and not waiting for a review of that.
Settled(row) == row.pay = "paid" /\ row.status # "paid_pending_review"

-----------------------------------------------------------------------------
(* Where payments are heard of.                                            *)

\* HandlePaymentCallback up to the confirmation: what it reads here it reads
\* outside the transaction that confirms.  A callback already consumed, or a
\* reference known from another order, goes no further.
ReceiveCallback(c, t, o) ==
    /\ Logged("callback", t) = None
    /\ Holders(t) \subseteq {o}
    /\ ~ (o \in Holders(t) /\ Settled(order[o]))
    /\ Begin(c, "confirm", "callback", t, o, FALSE)
    /\ UNCHANGED <<vars, log, watcher, payRef, sweep, seen, paidBy>>

\* Mutant of RecordOnchain: the watcher record and the payment are one
\* transaction, and the order's status is not looked at in it.
RecordAndPay(c, t, o, review) ==
    /\ watcher[t] = NoRecord
    /\ watcher' = [watcher EXCEPT ![t] = [st |-> "matched", o |-> o]]
    /\ Save(o, "payment_confirmed", "paid", order[o].del)
    /\ call[c] = NoCall
    /\ UNCHANGED <<recordVars, stockVars, jobVars, refunds, req, log, payRef, call, seen, paidBy>>

\* HandleOnchainConfirmation up to the confirmation: the watcher record
\* commits on its own, and its unique key turns a second one away.
\* The order must be known, and the transfer must have a reference.
RecordOnchain(c, t, o, review) ==
    /\ o \in Orders /\ t \in Transfers
    /\ watcher[t] = NoRecord
    /\ IF <<o, t>> \in SameAmount
         THEN /\ watcher' = [watcher EXCEPT ![t] = [st |-> "matched", o |-> o]]
              /\ Begin(c, "confirm", "onchain", t, o, review)
         ELSE /\ watcher' = [watcher EXCEPT ![t] = [st |-> "manual_review", o |-> o]]
              /\ call[c] = NoCall
              /\ UNCHANGED call
    /\ UNCHANGED <<vars, log, payRef, seen, paidBy>>

\* The internal endpoint for on-chain confirmations.
OnchainRequest(c, t, o) == RecordOnchain(c, t, o, FALSE) /\ UNCHANGED sweep

\* An order number nobody knows is recorded all the same, and uses the key up.
UnknownOrder(t) ==
    /\ watcher[t] = NoRecord
    /\ watcher' = [watcher EXCEPT ![t] = [st |-> "manual_review", o |-> None]]
    /\ UNCHANGED <<vars, log, payRef, call, sweep, seen, paidBy>>

\* Mutant of ChainMoves: reads one transfer past the end.
ChainMovesPastEnd ==
    /\ seen[2] <= Len(Timeline) /\ seen' = <<seen[1], seen[2] + 1>>
    /\ UNCHANGED <<vars, log, watcher, payRef, call, sweep, paidBy>>

\* The chain moves on: the next transfer is made, or the oldest one leaves the
\* part of the chain the sidecar looks back on.
ChainMoves ==
    /\ \/ seen[2] < Len(Timeline) /\ seen' = <<seen[1], seen[2] + 1>>
       \/ seen[1] < seen[2] /\ seen' = <<seen[1] + 1, seen[2]>>
    /\ UNCHANGED <<vars, log, watcher, payRef, call, sweep, paidBy>>

Chain == SubSeq(Timeline, seen[1] + 1, seen[2])

\* listPendingOKXWatcherOrders.
Pending(o) ==
    /\ order[o].pay # "paid"
    /\ order[o].status \notin {"cancelled", "expired", "refunded", "failed", "completed"}
Candidates == Only(ByAge, {k \in DOMAIN ByAge : Pending(ByAge[k])})

Scan ==
    /\ sweep = << >> /\ call[Sweeper] = NoCall
    /\ sweep' = SelectMatches(Fit, Candidates, Chain)
    /\ UNCHANGED <<vars, log, watcher, payRef, call, seen, paidBy>>

\* The sweep takes its matches one after the other, flagged or not.
TakeMatch ==
    /\ sweep # << >> /\ call[Sweeper] = NoCall
    /\ sweep' = Tail(sweep)
    /\ LET m == Head(sweep)
       IN  \/ RecordOnchain(Sweeper, m.t, m.o, m.review)
           \/ /\ watcher[m.t] # NoRecord
              /\ UNCHANGED <<vars, log, watcher, payRef, call, seen, paidBy>>

-----------------------------------------------------------------------------
(* ConfirmAdminOrderPayment, one transaction.                              *)

Refused(route, t, o) ==
    \/ Logged(route, t) \notin {None, o}
    \/ /\ Logged(route, t) = None
       /\ \/ Holders(t) \ {o} # {}
          \/ order[o].status \in Closed
          \/ /\ Settled(order[o])
             /\ o \notin Holders(t)
             /\ order[o].status \notin {"payment_confirmed", "failed"}

Repeated(route, t, o) ==
    /\ ~ Refused(route, t, o)
    /\ Logged(route, t) = o \/ Settled(order[o])

\* The order is paid; its payment record takes the reference of this payment,
\* which is empty when an operator confirms, and the callback key is logged.
Pay(route, t, o) ==
    /\ ConfirmPayment(o, order[o])
    /\ payRef' = [payRef EXCEPT ![o] = t]
    /\ IF route = "admin" THEN UNCHANGED <<log, paidBy>>
       ELSE /\ log' = [log EXCEPT ![<<route, t>>] = o]
            /\ paidBy' = [paidBy EXCEPT ![<<route, t>>] = @ \cup {o}]

\* Mutant of Accept: relies on what was read before the transaction.
AcceptUnchecked(route, t, o) == Pay(route, t, o)
Accept(route, t, o) ==
    /\ ~ Refused(route, t, o)
    /\ ~ Repeated(route, t, o)
    /\ Pay(route, t, o)

\* An operator confirms the payment by hand.
ConfirmByHand(c, o) ==
    /\ \/ Accept("admin", None, o)
       \/ Repeated("admin", None, o) /\ UNCHANGED <<vars, log, payRef, paidBy>>
    /\ IF AutoFulfill \/ AutoDeliver
         THEN Begin(c, "fulfil", "admin", None, o, FALSE)
         ELSE call[c] = NoCall /\ UNCHANGED call
    /\ UNCHANGED <<watcher, sweep, seen>>

\* Mutant of Confirm: a repeated confirmation notes its reference too.
ConfirmNotingRepeats(c) ==
    /\ call[c].pc = "confirm"
    /\ LET route == call[c].route  t == call[c].t  o == call[c].o
       IN  \/ Accept(route, t, o)
           \/ /\ Repeated(route, t, o)
              /\ payRef' = [payRef EXCEPT ![o] = t]
              /\ UNCHANGED <<vars, log, paidBy>>
    /\ Automate(c)
    /\ UNCHANGED <<watcher, seen>>

Confirm(c) ==
    /\ call[c].pc = "confirm"
    /\ LET route == call[c].route  t == call[c].t  o == call[c].o
       IN  \/ Accept(route, t, o)
           \/ Repeated(route, t, o) /\ UNCHANGED <<vars, log, payRef, paidBy>>
    /\ Automate(c)
    /\ UNCHANGED <<watcher, seen>>

-----------------------------------------------------------------------------
(* The automation of the payment channel: two more transactions.           *)

AutomaticFulfil(c) ==
    /\ call[c].pc = "fulfil"
    /\ \/ /\ FulfilSucceeds(call[c].o, order[call[c].o], FALSE)
          /\ IF AutoDeliver THEN Goto(c, "deliver") /\ UNCHANGED sweep ELSE Answer(c)
       \/ /\ FulfilFails(call[c].o, order[call[c].o], 0)
          /\ Fail(c)
    /\ UNCHANGED <<running, log, watcher, payRef, seen, paidBy>>

AutomaticDeliver(c) ==
    /\ call[c].pc = "deliver"
    /\ Deliver(call[c].o, order[call[c].o], "deliver")
    /\ Answer(c)
    /\ UNCHANGED <<log, watcher, payRef, seen, paidBy>>

\* The next transaction of the call finds the order in the wrong state.
Refuse(c) ==
    /\ \/ /\ call[c].pc = "confirm"
          /\ Refused(call[c].route, call[c].t, call[c].o)
       \/ /\ call[c].pc = "fulfil"
          /\ ~ MayFulfil(call[c].o, order[call[c].o])
       \/ /\ call[c].pc = "deliver"
          /\ ~ MayDeliver(call[c].o, order[call[c].o], "deliver")
    /\ Answer(c)
    /\ UNCHANGED <<vars, log, watcher, payRef, seen, paidBy>>

\* The next transaction of the call fails ("database is locked").
Abort(c) ==
    /\ call[c] # NoCall
    /\ Fail(c)
    /\ UNCHANGED <<vars, log, watcher, payRef, seen, paidBy>>

-----------------------------------------------------------------------------
(* Everything else that happens to an order, and the death of the process. *)

Elsewhere ==
    /\ \/ Buyer
       \/ \E o \in Orders :
             \/ RejectPayment(o, order[o])
             \/ ReviewTimeout(o, order[o])
             \/ ExpireOrder(o, order[o])
             \/ CancelAdminOrder(o, order[o])
             \/ Operate(o)
             \/ Refund(o)
    /\ UNCHANGED intakeVars

Die ==
    /\ Crash
    /\ call' = [c \in Slots |-> NoCall]
    /\ sweep' = << >>
    /\ UNCHANGED <<log, watcher, payRef, seen, paidBy>>

Arrive ==
    \/ \E c \in Calls, p \in Reports :
          \/ ReceiveCallback(c, p[2], p[1])
          \/ OnchainRequest(c, p[2], p[1])
    \/ \E c \in Calls, o \in Orders : ConfirmByHand(c, o)
    \/ \E p \in Reports : UnknownOrder(p[2])

Proceed(c) ==
    \/ Confirm(c)
    \/ AutomaticFulfil(c)
    \/ AutomaticDeliver(c)
    \/ Refuse(c)
    \/ Abort(c)

Watch == ChainMoves \/ Scan \/ TakeMatch

IntakeNext == Arrive \/ (\E c \in Slots : Proceed(c)) \/ Watch \/ Elsewhere \/ Die

IntakeSpec == IntakeInit /\ [][IntakeNext]_allVars

-----------------------------------------------------------------------------
(* Properties.                                                             *)

\* By one route a transfer pays one order, in whatever order its callbacks, or
\* its confirmations and sweeps, come in and whatever happens in between.
TransferPaysOneOrder == \A k \in Routes \X Transfers : Cardinality(paidBy[k]) <= 1

\* While an order stays paid no later payment takes the place of the one that
\* paid it.
PaymentRecordKept ==
    [][\A o \in Orders : Settled(order[o]) => payRef'[o] = payRef[o]]_allVars

\* A sweep hands out every transfer once, and leaves an order without only if
\* older orders took every transfer that fits it.
SweepIsSound ==
    [][sweep = << >> /\ sweep' # << >> =>
          MatchesAreSound(Fit, Candidates, Chain, sweep')]_allVars

\* Whatever payments do, the orders live the life of OrderLifecycle.
OrdersKept == Spec
=============================================================================
