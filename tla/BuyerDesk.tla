------------------------------ MODULE BuyerDesk ------------------------------
(***************************************************************************)
(* The signed-in buyer's desk, in one browser tab of a remote session: the *)
(* account page (StorefrontAccountPage over useStorefrontAccountCenter)    *)
(* and the support panel of the order centre (StorefrontSupportPanel over  *)
(* useStorefrontSupport), which both read and write the same tickets.      *)
(*                                                                         *)
(* A handler runs to its first await and again from each answer.  The      *)
(* "loading" buttons take no click while their flag is set, but the order  *)
(* list takes one at any time, and each form has a flag of its own, so     *)
(* handlers of one page overlap.  The panel's effect on the order drops    *)
(* its call when the order changes ("live"); its submission does not.      *)
(*                                                                         *)
(* Abstractions: an order is its number and whether its result was sent;   *)
(* a ticket is its number and its order; the three lists of a reload are   *)
(* answered together; error texts are left out.  Bounds:                   *)
(* Cardinality(Orders), Cardinality(Tickets), MaxCalls.                    *)
(***************************************************************************)
EXTENDS Integers, Sequences, SequencesExt, Subsequences

CONSTANTS
    Orders,     \* the buyer's orders
    Tickets,    \* ticket numbers the server can give
    None,       \* no order, no detail, no result
    Waiting,    \* a call without an answer yet
    Failed,     \* a call refused, or whose answer is lost
    MaxCalls    \* handlers in progress at a time

TicketRows == [no : Tickets, order : Orders \cup {None}]
Details == [no : Orders, sent : BOOLEAN, result : Orders \cup {None}]
Lists == [orders : Seq(Orders), tickets : Seq(TicketRows)]
Replies == Lists \cup Details \cup Orders \cup TicketRows \cup Seq(TicketRows) \cup {Waiting, Failed}

\* A handler: what it does, the order it is about, the call it awaits, the answer, the ticket it
\* filed, and whether its page still listens.
Handler == [op : {"load", "select", "delivery", "ticket", "list", "file"},
            no : Orders \cup {None}, at : 1..2,
            ans : Replies, made : TicketRows \cup {None}, live : BOOLEAN]

ASSUME DeskAssumption ==
    None \notin Orders /\ None \notin Handler /\ MaxCalls \in Nat

VARIABLES
    placed,   \* server: the buyer's orders, newest first
    sent,     \* server: those whose result was sent
    filed,    \* server: the tickets filed, newest first
    page,     \* "away", "account" or "orders"
    account,  \* state of the account page
    panel,    \* state of the support panel
    calls,    \* handlers waiting for an answer
    told,     \* ghost: tickets the page, as shown now, told the buyer of while it read no list
    hasty     \* ghost: the buyer did something else while an answer was awaited

vars == <<placed, sent, filed, page, account, panel, calls, told, hasty>>

Detail(o) == [no |-> o, sent |-> o \in sent, result |-> IF o \in sent THEN o ELSE None]
Ticket(t, o) == [no |-> t, order |-> o]

FreshAccount == [orders |-> <<>>, tickets |-> <<>>, no |-> None, detail |-> None, delivery |-> None,
                 loading |-> FALSE, submitting |-> FALSE]
FreshPanel == [no |-> None, tickets |-> <<>>, loading |-> FALSE, submitting |-> FALSE,
               source |-> "remote"]

---------------------------------------------------------------------------
(* The calls of a handler, the server, and lost answers *)

Script(op) == CASE op = "load" -> <<"lists", "detail">>
                [] op = "select" -> <<"detail">>
                [] op = "delivery" -> <<"delivery">>
                [] op \in {"ticket", "file"} -> <<"create", "tickets">>
                [] op = "list" -> <<"tickets">>

\* The account page does not read its tickets again after it filed one.
Steps(op) == IF op = "ticket" THEN 1 ELSE Len(Script(op))

Call(op, o) == [op |-> op, no |-> o, at |-> 1, ans |-> Waiting, made |-> None, live |-> TRUE]

Busy == {i \in DOMAIN calls : calls[i] # None}
Ask(cs, call) == {[cs EXCEPT ![i] = call] :
                     i \in {j \in DOMAIN cs : cs[j] = None /\ \A k \in 1..(j - 1) : cs[k] # None}}
Acting == hasty' = (hasty \/ Busy # {})

NewTickets == {t \in Tickets : \A k \in DOMAIN filed : filed[k].no # t}
FiledOn(o) == Only(filed, {k \in DOMAIN filed : filed[k].order = o})

Serve(i) ==
    LET c == calls[i]
        what == Script(c.op)[c.at]
        Heard(ans) == calls' \in {[calls EXCEPT ![i].ans = ans], [calls EXCEPT ![i].ans = Failed]}
    IN /\ c # None /\ c.ans = Waiting
       /\ \/ what = "lists" /\ Heard([orders |-> placed, tickets |-> filed]) /\ UNCHANGED filed
          \/ what = "detail" /\ Heard(Detail(c.no)) /\ UNCHANGED filed
          \/ what = "delivery" /\ c.no \in sent /\ Heard(c.no) /\ UNCHANGED filed
          \/ what = "tickets" /\ Heard(FiledOn(c.no)) /\ UNCHANGED filed
          \/ /\ what = "create"
             /\ \E t \in NewTickets : /\ filed' = <<Ticket(t, c.no)>> \o filed
                                      /\ Heard(Ticket(t, c.no))
       /\ UNCHANGED <<placed, sent, page, account, panel, told, hasty>>

Fail(i) ==
    /\ calls[i] # None /\ calls[i].ans = Waiting
    /\ calls' = [calls EXCEPT ![i].ans = Failed]
    /\ UNCHANGED <<placed, sent, filed, page, account, panel, told, hasty>>

\* Elsewhere the buyer places an order or files a ticket, and the operator sends a result.
ServerMoves ==
    /\ \E o \in Orders :
         \/ /\ ~Contains(placed, o)
            /\ placed' = <<o>> \o placed /\ UNCHANGED <<sent, filed>>
         \/ /\ Contains(placed, o) /\ o \notin sent
            /\ sent' = sent \cup {o} /\ UNCHANGED <<placed, filed>>
         \/ /\ Contains(placed, o)
            /\ \E t \in NewTickets : filed' = <<Ticket(t, o)>> \o filed
            /\ UNCHANGED <<placed, sent>>
    /\ UNCHANGED <<page, account, panel, calls, told, hasty>>

---------------------------------------------------------------------------
(* Account page: useStorefrontAccountCenter *)

Reload ==
    /\ page = "account" /\ ~account.loading
    /\ account' = [account EXCEPT !.loading = TRUE]
    /\ calls' \in Ask(calls, Call("load", account.no))
    /\ Acting
    /\ UNCHANGED <<placed, sent, filed, page, panel, told>>

\* A click in the list, at any time.
SelectOrder ==
    /\ page = "account"
    /\ \E k \in DOMAIN account.orders : calls' \in Ask(calls, Call("select", account.orders[k]))
    /\ account' = [account EXCEPT !.loading = TRUE]
    /\ Acting
    /\ UNCHANGED <<placed, sent, filed, page, panel, told>>

LoadDeliveryResult ==
    /\ page = "account" /\ ~account.loading /\ account.no # None
    /\ account.detail # None /\ account.detail.sent          \* canLoadDeliveryResult
    /\ account' = [account EXCEPT !.loading = TRUE]
    /\ calls' \in Ask(calls, Call("delivery", account.no))
    /\ Acting
    /\ UNCHANGED <<placed, sent, filed, page, panel, told>>

\* createTicket, about no order in particular (one linked to an order is filed as the
\* panel files it, see ServerMoves).
SubmitTicket ==
    /\ page = "account" /\ ~account.submitting
    /\ calls' \in Ask(calls, Call("ticket", None))
    /\ account' = [account EXCEPT !.submitting = TRUE]
    /\ Acting
    /\ UNCHANGED <<placed, sent, filed, page, panel, told>>

\* The order a reload settles on: the one selected at the click if still listed, or the first.
Resolved(preferred, orders) ==
    IF Contains(orders, preferred) THEN preferred
    ELSE IF orders = <<>> THEN None ELSE orders[1]

ListsLanded(c) ==
    LET no == Resolved(c.no, c.ans.orders)
        next == [account EXCEPT !.orders = c.ans.orders, !.tickets = c.ans.tickets,
                                !.no = no, !.delivery = None]
    IN IF no # None THEN next ELSE [next EXCEPT !.detail = None, !.loading = FALSE]

\* "prev" is the order shown when the result arrives.
DeliveryLanded(c) ==
    [account EXCEPT !.loading = FALSE, !.delivery = c.ans,
                    !.detail = IF @ = None THEN @ ELSE [@ EXCEPT !.result = c.ans]]

\* Mutant of TicketLanded: the flag is not cleared in a finally.
TicketLandedOnly(c) == [account EXCEPT !.tickets = <<c.ans>> \o @]

TicketLanded(c) == [account EXCEPT !.submitting = FALSE, !.tickets = <<c.ans>> \o @]

LandInAccount(c) ==
    CASE c.op = "ticket" /\ c.ans = Failed -> [account EXCEPT !.submitting = FALSE]
      [] c.op # "ticket" /\ c.ans = Failed -> [account EXCEPT !.loading = FALSE]
      [] c.op = "ticket" /\ c.ans # Failed -> TicketLanded(c)
      [] c.op = "delivery" /\ c.ans # Failed -> DeliveryLanded(c)
      [] c.op = "load" /\ c.at = 1 /\ c.ans # Failed -> ListsLanded(c)
      [] c.op = "load" /\ c.at = 2 /\ c.ans # Failed ->
             [account EXCEPT !.loading = FALSE, !.detail = c.ans, !.delivery = c.ans.result]
      [] c.op = "select" /\ c.ans # Failed ->
             [account EXCEPT !.loading = FALSE, !.no = c.no, !.detail = c.ans, !.delivery = c.ans.result]

---------------------------------------------------------------------------
(* Support panel: useStorefrontSupport *)

\* Mutant of Reshown: the tickets of the order before stay until the answer.
ReshownKeeping(o) == [panel EXCEPT !.no = o]

Reshown(o) == [panel EXCEPT !.no = o, !.tickets = <<>>]

\* The order centre shows another order, or none: the effect drops its call and reads the
\* tickets of the new order.  With no order it returns before it touches "loading".
ShowOrder(o) ==
    LET dropped == [i \in DOMAIN calls |->
                       IF i \in Busy /\ calls[i].op = "list" THEN [calls[i] EXCEPT !.live = FALSE] ELSE calls[i]]
    IN /\ page = "orders" /\ o # panel.no
       /\ IF o = None THEN /\ panel' = [Reshown(o) EXCEPT !.source = "remote"]
                           /\ calls' = dropped
          ELSE /\ panel' = [Reshown(o) EXCEPT !.loading = TRUE]
               /\ calls' \in Ask(dropped, Call("list", o))
       /\ told' = {} /\ Acting
       /\ UNCHANGED <<placed, sent, filed, page, account>>

\* The form is disabled while a list or a submission is in progress.
FileTicket ==
    /\ page = "orders" /\ panel.no # None /\ ~panel.loading /\ ~panel.submitting
    /\ panel' = [panel EXCEPT !.submitting = TRUE]
    /\ calls' \in Ask(calls, Call("file", panel.no))
    /\ Acting
    /\ UNCHANGED <<placed, sent, filed, page, account, told>>

\* Mutant of Upsert: the created ticket is put first, as the account page does.
UpsertFirst(tickets, t) == <<t>> \o tickets

\* upsertStorefrontSupportTicket
Upsert(tickets, t) ==
    IF \E k \in DOMAIN tickets : tickets[k].no = t.no
    THEN [k \in DOMAIN tickets |-> IF tickets[k].no = t.no THEN t ELSE tickets[k]]
    ELSE <<t>> \o tickets

LandInPanel(c) ==
    LET ended == IF c.op = "file" THEN [panel EXCEPT !.submitting = FALSE] ELSE [panel EXCEPT !.loading = FALSE]
    IN CASE c.op = "list" /\ ~c.live -> panel
         [] c.op = "list" /\ c.live /\ c.ans = Failed ->
                [ended EXCEPT !.tickets = <<>>, !.source = "remote-error"]
         [] c.ans # Failed /\ (c.op = "file" \/ c.live) -> [ended EXCEPT !.tickets = c.ans, !.source = "remote"]
         [] c.op = "file" /\ c.at = 1 /\ c.ans = Failed -> ended
         [] c.op = "file" /\ c.at = 2 /\ c.ans = Failed ->
                [ended EXCEPT !.tickets = Upsert(@, c.made), !.source = "remote-error"]

---------------------------------------------------------------------------
\* The next call of the handler: the detail of the order settled on, or the ticket list.
GoesOn(c) == c.ans # Failed /\ c.at < Steps(c.op)
             /\ (c.op = "load" => Resolved(c.no, c.ans.orders) # None)
NextCall(c) ==
    [c EXCEPT !.at = 2, !.ans = Waiting,
              !.no = IF c.op = "load" THEN Resolved(c.no, c.ans.orders) ELSE @,
              !.made = IF c.op = "file" THEN c.ans ELSE @]

\* The page tells of a ticket once its handler is through: the account page at the answer,
\* the panel when it has read the list again, or failed to.
Tells(c) == CASE c.op = "ticket" /\ c.ans # Failed -> {c.ans}
              [] c.op = "file" /\ c.at = 2 -> {c.made}
              [] OTHER -> {}

\* A reading of the list, whose answer will replace it.
Reading(c) == (c.op = "load" /\ c.at = 1) \/ (c.op = "list" /\ c.live)

\* Only the page that asked is touched, and only while it stays mounted (page changes
\* take the calls of the page left off the table, see GoTo).
Land(i) ==
    LET c == calls[i] IN
    /\ c # None /\ c.ans # Waiting
    /\ calls' = [calls EXCEPT ![i] = IF GoesOn(c) THEN NextCall(c) ELSE None]
    /\ told' = IF \E j \in Busy : Reading(calls[j]) THEN told ELSE told \cup Tells(c)
    /\ IF page = "account" THEN account' = LandInAccount(c) /\ UNCHANGED panel
       ELSE /\ panel' = IF GoesOn(c) THEN panel ELSE LandInPanel(c)
            /\ UNCHANGED account
    /\ UNCHANGED <<placed, sent, filed, page, hasty>>

\* A page left is unmounted and its answers set nothing any more: its calls are forgotten
\* (a ticket the server takes late is one of ServerMoves).  A page entered starts afresh,
\* the account page with loadAll.
GoTo(p) ==
    /\ p # page
    /\ page' = p
    /\ panel' = FreshPanel
    /\ LET none == [i \in DOMAIN calls |-> None] IN
       IF p = "account" THEN /\ account' = [FreshAccount EXCEPT !.loading = TRUE]
                             /\ calls' \in Ask(none, Call("load", None))
       ELSE account' = FreshAccount /\ calls' = none
    /\ told' = {} /\ hasty' = FALSE
    /\ UNCHANGED <<placed, sent, filed>>

Init ==
    /\ placed \in {<<>>} \cup {<<o>> : o \in Orders}
    /\ sent = {} /\ filed = <<>>
    /\ page = "away" /\ account = FreshAccount /\ panel = FreshPanel
    /\ calls = [i \in 1..MaxCalls |-> None]
    /\ told = {} /\ hasty = FALSE

Account == Reload \/ SelectOrder \/ LoadDeliveryResult \/ SubmitTicket
Panel == FileTicket \/ \E o \in ToSet(placed) \cup {None} : ShowOrder(o)
Answers == \E i \in DOMAIN calls : Serve(i) \/ Fail(i) \/ Land(i)

Next == Account \/ Panel \/ Answers \/ ServerMoves \/ \E p \in {"away", "account", "orders"} : GoTo(p)

Spec == Init /\ [][Next]_vars

---------------------------------------------------------------------------
\* The two pages and their handlers keep to their types, and a form being submitted has a handler
\* that will enable it again.
TypeOK ==
    /\ ToSet(account.tickets) \cup ToSet(panel.tickets) \subseteq TicketRows
    /\ ToSet(account.orders) \cup ToSet(placed) \subseteq Orders
    /\ account.detail \in Details \cup {None} /\ account.delivery \in Orders \cup {None}
    /\ panel.source \in {"remote", "remote-error"}
    /\ \A i \in Busy : calls[i].at \in 1..Steps(calls[i].op)
    /\ account.submitting => \E i \in Busy : calls[i].op = "ticket"
    /\ panel.submitting => \E i \in Busy : calls[i].op = "file"

\* A buyer who lets each answer come sees one order at a time: on the account page the detail is
\* of the order selected and the delivery result is that order's, the panel lists the tickets of
\* the order shown.
OneOrderAtATime ==
    ~hasty =>
        /\ (~account.loading /\ account.detail # None) => account.detail.no = account.no
        /\ (~account.loading /\ account.detail # None /\ account.delivery # None) =>
               account.delivery = account.no /\ account.detail.result = account.no
        /\ \A t \in ToSet(panel.tickets) : t.order = panel.no

\* A ticket the page has told the buyer of stays in its list while the page, and the order in the
\* panel, are shown, whatever he clicks and whichever answers are lost or late: a refresh that
\* fails after the filing keeps it, and one that has it already (upsertStorefrontSupportTicket)
\* does not list it twice.  But not of a ticket told of while a reading of the list is on its way:
\* on the account page an older answer that lands after it takes it away (loadAll, setTickets).
ToldTicketsStay ==
    /\ \A k, m \in DOMAIN panel.tickets : panel.tickets[k].no = panel.tickets[m].no => k = m
    /\ page = "account" => told \subseteq ToSet(account.tickets)
    /\ page = "orders" => {t \in told : t.order = panel.no} \subseteq ToSet(panel.tickets)

=============================================================================
