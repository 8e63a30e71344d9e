------------------------------ MODULE ListPages ------------------------------
(***************************************************************************)
(* The tables of the admin console's list pages as the fields their code   *)
(* names: the columns (sections.tsx), the answer read (map...Dto), the     *)
(* filters offered above the table, those sent with the request, and those *)
(* applied in the browser, to an answer (browsed) or to the demo records   *)
(* (demo).  A filter offered and applied nowhere, or a column nobody       *)
(* reads, is an error no compiler sees; ListConsole carries rows along     *)
(* these lists.                                                            *)
(*                                                                         *)
(* Then what an operator may do to a record: the guards of the row buttons *)
(* on the statuses shown, and what the local draft makes of it.  The       *)
(* filters fulfillmentStatus and deliveryStatus of the fulfilment page go  *)
(* by the field they are compared with, status.                            *)
(***************************************************************************)

OrderShown == {"orderNo", "product", "customer", "amount", "paymentMethod", "paymentStatus",
               "orderStatus", "deliveryStatus", "sourceChannel", "createdAt"}
OrderRead == OrderShown \cup {"key", "currency", "deliveryChannel", "deliveryRecordId",
                              "buyerRef", "paidAt"}
OrderOffered == {"orderNo", "orderStatus", "paymentStatus", "deliveryStatus", "paymentMethod",
                 "sourceChannel"}
\* Mutant of OrderAsked: the delivery status is not sent.
OrderAskedShort == OrderOffered \ {"deliveryStatus"}
OrderAsked == OrderOffered
OrderDemo == OrderOffered
Orders == [shown |-> OrderShown, read |-> OrderRead, offered |-> OrderOffered,
           asked |-> OrderAsked, browsed |-> {}, demo |-> OrderDemo,
           acts |-> {"confirm_payment", "reject_payment", "fulfill", "retry_fulfillment", "deliver",
                     "complete_delivery", "retry_delivery", "cancel", "refund_mark",
                     "refund_original", "resend"}]

PaymentShown == {"orderNo", "paymentMethod", "amount", "payerAccount", "status", "confirmedAt"}
PaymentRead == PaymentShown \cup {"key", "channelKey", "currency"}
PaymentOffered == {"orderNo", "status", "paymentMethod", "sourceChannel"}
PaymentAsked == {"orderNo", "status", "paymentMethod", "sourceChannel"}
\* The table of payments offers a source channel that no demo payment has.
PaymentDemo == {"orderNo", "status", "paymentMethod"}
Payments == [shown |-> PaymentShown, read |-> PaymentRead, offered |-> PaymentOffered,
             asked |-> PaymentAsked, browsed |-> {}, demo |-> PaymentDemo, acts |-> {}]

ProofShown == {"orderNo", "proofType", "paymentMethod", "amount", "sourceChannel", "buyerRef",
               "note", "reviewStatus", "createdAt"}
ProofRead == ProofShown \cup {"key", "objectUrl", "currency", "reviewedAt"}
ProofOffered == {"orderNo", "reviewStatus", "paymentMethod", "sourceChannel"}
ProofAsked == {"orderNo", "reviewStatus", "paymentMethod", "sourceChannel"}
ProofDemo == {"orderNo", "reviewStatus", "paymentMethod", "sourceChannel"}
Proofs == [shown |-> ProofShown, read |-> ProofRead, offered |-> ProofOffered,
           asked |-> ProofAsked, browsed |-> {}, demo |-> ProofDemo,
           acts |-> {"confirm_proof", "reject_proof"}]

CallbackShown == {"channelKey", "orderNo", "message", "status", "createdAt"}
CallbackRead == CallbackShown \cup {"key"}
Callbacks == [shown |-> CallbackShown, read |-> CallbackRead, offered |-> {}, asked |-> {},
              browsed |-> {}, demo |-> {}, acts |-> {}]
WatcherShown == {"orderNo", "hash", "amount", "status", "confirmedAt"}
WatcherRead == WatcherShown \cup {"key"}
Watchers == [shown |-> WatcherShown, read |-> WatcherRead, offered |-> {}, asked |-> {},
             browsed |-> {}, demo |-> {}, acts |-> {}]

FulfillmentShown == {"orderNo", "strategy", "fulfillmentType", "provider", "actionKey", "status",
                     "deliveryChannel", "target", "startedAt"}
FulfillmentRead == FulfillmentShown \cup {"key", "finishedAt"}
FulfillmentBrowsed == {"orderNo", "status", "deliveryChannel", "fulfillmentType"}
Fulfillments == [shown |-> FulfillmentShown, read |-> FulfillmentRead,
                 offered |-> {"orderNo", "status", "deliveryChannel", "fulfillmentType"},
                 asked |-> {}, browsed |-> FulfillmentBrowsed, demo |-> {},
                 acts |-> {"retry_record"}]

CodeIssueShown == {"orderNo", "codeType", "issueStatus", "provider", "actionKey", "issuedCount",
                   "maskedPreview", "errorMessage", "issuedAt"}
CodeIssueRead == CodeIssueShown \cup {"key"}
CodeIssues == [shown |-> CodeIssueShown, read |-> CodeIssueRead, offered |-> {"orderNo"},
               asked |-> {}, browsed |-> {"orderNo"}, demo |-> {}, acts |-> {"retry_issue"}]

DeliveryShown == {"orderNo", "deliveryChannel", "target", "status", "startedAt", "finishedAt"}
DeliveryRead == DeliveryShown \cup {"key"}
DeliveryBrowsed == {"orderNo", "status", "deliveryChannel"}
Deliveries == [shown |-> DeliveryShown, read |-> DeliveryRead,
               offered |-> {"orderNo", "status", "deliveryChannel"},
               asked |-> {}, browsed |-> DeliveryBrowsed, demo |-> {},
               acts |-> {"retry_record", "resend_record"}]

TicketShown == {"ticketNo", "subject", "customer", "priority", "status", "assignedTo", "createdAt"}
TicketRead == TicketShown \cup {"key"}
TicketOffered == {"ticketNo", "status", "priority", "assignedTo"}
TicketBrowsed == {"ticketNo", "status", "priority", "assignedTo"}
Tickets == [shown |-> TicketShown, read |-> TicketRead, offered |-> TicketOffered, asked |-> {},
            browsed |-> TicketBrowsed, demo |-> {}, acts |-> {"assign", "resolve"}]

CustomerShown == {"name", "region", "orders", "spend", "pendingReviewOrders", "openTickets",
                  "tier", "lastActivity"}
CustomerRead == CustomerShown \cup {"key", "spendValue", "lastOrder", "urgentTickets",
                 "resolvedTickets", "buyerRefs", "orderNos", "ticketNos", "assignedTo",
                 "ticketStatuses", "latestOrderNo", "latestTicketNo", "topPaymentMethod",
                 "topSourceChannel"}
\* The keyword is looked for in the name, among other fields.
CustomerOffered == {"name", "region", "tier", "ticketStatuses", "assignedTo"}
CustomerBrowsed == {"name", "region", "tier", "ticketStatuses", "assignedTo"}
Customers == [shown |-> CustomerShown, read |-> CustomerRead, offered |-> CustomerOffered,
              asked |-> {}, browsed |-> CustomerBrowsed, demo |-> {}, acts |-> {}]

BindingShown == {"displayName", "userRole", "userStatus", "telegramUsername", "telegramUserId",
                 "chatId", "boundAt", "lastLoginAt"}
BindingRead == BindingShown \cup {"key", "bindingId", "botKey", "userId", "email"}
Bindings == [shown |-> BindingShown, read |-> BindingRead, offered |-> {"botKey"},
             asked |-> {"botKey"}, browsed |-> {}, demo |-> {}, acts |-> {}]
BotDeliveryShown == {"orderNo", "target", "status", "startedAt", "finishedAt"}
BotDeliveryRead == BotDeliveryShown \cup {"key", "deliveryChannel"}
BotDeliveries == [shown |-> BotDeliveryShown, read |-> BotDeliveryRead, offered |-> {"botKey"},
                  asked |-> {"botKey"}, browsed |-> {}, demo |-> {}, acts |-> {"retry_delivered"}]

RecentOrderShown == {"orderNo", "customer", "amount", "paymentStatus", "orderStatus", "createdAt"}
RecentOrderRead == RecentOrderShown \cup {"key", "product", "currency", "paymentMethod",
                    "deliveryStatus", "sourceChannel", "buyerRef", "paidAt"}
RecentOrders == [shown |-> RecentOrderShown, read |-> RecentOrderRead, offered |-> {},
                 asked |-> {}, browsed |-> {}, demo |-> {}, acts |-> {}]
UrgentTicketShown == {"ticketNo", "customer", "priority", "status", "assignedTo", "createdAt"}
UrgentTicketRead == UrgentTicketShown \cup {"key", "subject"}
UrgentTickets == [shown |-> UrgentTicketShown, read |-> UrgentTicketRead, offered |-> {},
                  asked |-> {}, browsed |-> {}, demo |-> {}, acts |-> {}]
ProviderHealthShown == {"providerName", "providerKey", "baseUrl", "health"}
ProviderHealthRead == ProviderHealthShown \cup {"key", "authType", "retryTimes", "timeoutMs",
                       "enabled", "lastCheckedAt"}
ProviderHealth == [shown |-> ProviderHealthShown, read |-> ProviderHealthRead, offered |-> {},
                   asked |-> {}, browsed |-> {}, demo |-> {}, acts |-> {}]

---------------------------------------------------------------------------
(* Orders (actions.ts, draft.ts)                                           *)

Order(payment, order, delivery, channel) ==
    [paymentStatus |-> payment, orderStatus |-> order, deliveryStatus |-> delivery,
     deliveryChannel |-> channel]

\* orderConfigs
DemoOrders == {Order("paid", "completed", "sent", "telegram"),
               Order("paid", "issuing", "sending", "web"),
               Order("pending_review", "paid_pending_review", "pending", "manual"),
               Order("pending_review", "awaiting_payment", "pending", "web"),
               Order("refunded", "refunded", "cancelled", "web")}

UsesManualDelivery(o) == o.deliveryChannel \in {"manual", "email"}
HasPendingManualDelivery(o) == /\ UsesManualDelivery(o)
                               /\ o.orderStatus = "delivery_pending" /\ o.deliveryStatus = "pending"

\* Mutant of CanFulfill: the payment is not looked at.
CanFulfillUnpaid(o) == o.orderStatus \in {"payment_confirmed", "paid_pending_review"}

CanConfirmPayment(o) == o.paymentStatus = "pending_review" \/ o.orderStatus = "paid_pending_review"
CanRejectPayment(o) == o.paymentStatus = "pending_review"
CanFulfill(o) == /\ o.paymentStatus = "paid"
                 /\ o.orderStatus \in {"payment_confirmed", "paid_pending_review"}
CanRetryFulfillment(o) == o.orderStatus \in {"failed", "issuing"}
CanDeliver(o) == /\ ~HasPendingManualDelivery(o)
                 /\ o.orderStatus \in {"issued", "delivery_pending"}
CanRetryDelivery(o) == o.deliveryStatus = "failed"
CanCancel(o) == o.orderStatus \notin {"cancelled", "completed", "refunded", "failed"}
CanRefund(o) == o.paymentStatus = "paid" /\ o.orderStatus # "refunded"
CanResend(o) == /\ ~UsesManualDelivery(o)
                /\ o.deliveryStatus = "sent" \/ o.orderStatus \in {"delivered", "completed"}

\* canRunOrderAction, and the button that opens the confirmation of a payment
CanRunOrderAction(o, action) ==
    CASE action = "confirm_payment" -> CanConfirmPayment(o)
      [] action = "reject_payment" -> CanRejectPayment(o)
      [] action = "fulfill" -> CanFulfill(o)
      [] action = "retry_fulfillment" -> CanRetryFulfillment(o)
      [] action = "deliver" -> CanDeliver(o)
      [] action = "complete_delivery" -> HasPendingManualDelivery(o)
      [] action = "retry_delivery" -> CanRetryDelivery(o)
      [] action = "cancel" -> CanCancel(o)
      [] action \in {"refund_mark", "refund_original"} -> CanRefund(o)
      [] action = "resend" -> CanResend(o)

\* applyAdminOrderActionLocal
OrderAfter(o, action) ==
    LET Becomes(payment, order, delivery) == Order(payment, order, delivery, o.deliveryChannel)
    IN CASE action = "reject_payment" -> Becomes("unpaid", "awaiting_payment", "pending")
         [] action \in {"fulfill", "retry_fulfillment"} ->
              Becomes(o.paymentStatus, "issuing", "pending")
         [] action \in {"deliver", "retry_delivery"} /\ UsesManualDelivery(o) ->
              Becomes(o.paymentStatus, "delivery_pending", "pending")
         [] action = "deliver" /\ ~UsesManualDelivery(o) ->
              Becomes(o.paymentStatus, "delivered", "sent")
         [] action = "complete_delivery" -> Becomes(o.paymentStatus, "completed", "sent")
         [] action = "retry_delivery" /\ ~UsesManualDelivery(o) ->
              Becomes(o.paymentStatus, "delivery_pending", "sending")
         [] action = "cancel" -> Becomes(o.paymentStatus, "cancelled", "cancelled")
         [] action \in {"refund_mark", "refund_original"} ->
              Becomes("refunded", "refunded", "cancelled")
         [] action = "resend" -> Becomes(o.paymentStatus, o.orderStatus, "sent")

\* confirmAdminOrderPaymentLocal
OrderConfirmed(o) ==
    Order("paid", IF o.orderStatus \in {"paid_pending_review", "awaiting_payment"}
                  THEN "payment_confirmed" ELSE o.orderStatus,
          o.deliveryStatus, o.deliveryChannel)

---------------------------------------------------------------------------
(* Tickets, proofs and deliveries                                          *)

OpenTicket(status) == status \notin {"resolved", "closed"}
\* assignAdminTicketLocal, resolveAdminTicketLocal
TicketAfter(status, action) ==
    IF action = "resolve" THEN "resolved" ELSE IF status = "open" THEN "processing" ELSE status

Pending(status) == status = "pending"
RetryableRecord(status) == status = "failed"
RetryableDelivery(status) == status # "sent"
=============================================================================
