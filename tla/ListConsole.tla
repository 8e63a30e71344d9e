----------------------------- MODULE ListConsole -----------------------------
(***************************************************************************)
(* The list pages of the admin console (orders, payments, fulfilment,      *)
(* support, customers, bots, dashboard), each open on one table: a hook    *)
(* reads the records, filters narrow them, row buttons and the selection   *)
(* bar act on them, a drawer shows one of them.                            *)
(*                                                                         *)
(* The effect of a hook reads again when a filter it sends changes, and    *)
(* the answer of the reading before is dropped; reload(), which the button *)
(* and every action use, keeps the filter it was started with and is never *)
(* dropped.  An action is a Promise.all over the records it was opened     *)
(* for, the first failure ends it and the rest may still arrive ("late");  *)
(* only the bots page waits for all of them.                               *)
(*                                                                         *)
(* Orders and tickets have a second tab, of the records to look at first,  *)
(* over the same selection; a tab without filters has a keyword search     *)
(* (AdminTabbedWorkbench).  Both only hide rows: what was picked stays.    *)
(*                                                                         *)
(* A record is its key, its order, its statuses, and on the page the       *)
(* fields the answer lost; any other field's value is the key, and a       *)
(* keyword finds the records with that value in a field.  One filter is    *)
(* set at a time.  Left out: paging, the tabs of summaries, of customers   *)
(* to attend to and of the dashboard's review queue, texts, metrics, the   *)
(* URL copy of a filter (a link followed to the page sets it too), typed   *)
(* notes, which of its three messages an original refund answers with, the *)
(* result drawer after a retry, the bot forms.                             *)
(* Bounds: Keys, MaxClicks, MaxCalls, MaxMoves.                            *)
(***************************************************************************)
EXTENDS Naturals, FiniteSets, ListPages

CONSTANTS
    Explored,   \* the tables opened
    Elsewhere,  \* the actions taken by others
    Keys,       \* the records there are
    None,       \* no record, no filter, no call, no value
    Waiting,    \* a call without an answer yet
    Failed,     \* a call refused, or whose answer is lost
    Done,       \* every write taken
    MaxClicks,  \* requests, row edits, tabs and keywords of the operator
    MaxCalls,   \* handlers in progress at a time
    MaxMoves    \* changes by the buyer, the workers and other operators

Tables == {"orders", "payments", "proofs", "callbacks", "watchers", "fulfillments", "codeIssues",
           "deliveries", "tickets", "customers", "bindings", "botDeliveries", "recentOrders",
           "urgentTickets", "providerHealth"}

ASSUME ListAssumption ==
    /\ Explored \subseteq Tables /\ IsFiniteSet(Keys) /\ None \notin Keys
    /\ Waiting # Failed /\ Waiting # Done /\ Failed # Done
    /\ {MaxClicks, MaxCalls, MaxMoves} \subseteq Nat

VARIABLES
    remote,    \* isRemoteApiEnabled
    table,     \* the table open
    store,     \* server: the records
    moves,     \* server: changes made by others
    stale,     \* ghost: the server changed since it last answered a list
    rows,      \* page: the records of the hook
    filter,    \* page: listFilters and its likes
    tab,       \* page: the active tab, of all the records or of those to look at first ("due")
    search,    \* page: the keyword above the table
    loading,   \* page: the table waits for a reading
    source,    \* page: "local", "remote" or "remote-error"
    picked,    \* page: selectedRowKeys
    panel,     \* page: the action being confirmed, its records, and whether it runs
    detail,    \* page: detailDrawer
    calls,     \* handlers waiting for an answer
    clicks,    \* how many of them were made
    taken,     \* ghost: writes the server took of the last action, by target
    told,      \* ghost: the targets the last success message speaks of, None after an error
    hasty      \* ghost: the operator acted while an answer was awaited

vars == <<remote, table, store, moves, stale, rows, filter, tab, search, loading, source, picked,
          panel, detail, calls, clicks, taken, told, hasty>>
fixed == <<remote, table>>
server == <<store, moves, stale>>
view == <<tab, search>>
listing == <<rows, loading, source>>
ghosts == <<clicks, taken, told, hasty>>

Page == CASE table = "orders" -> Orders
          [] table = "payments" -> Payments
          [] table = "proofs" -> Proofs
          [] table = "callbacks" -> Callbacks
          [] table = "watchers" -> Watchers
          [] table = "fulfillments" -> Fulfillments
          [] table = "codeIssues" -> CodeIssues
          [] table = "deliveries" -> Deliveries
          [] table = "tickets" -> Tickets
          [] table = "customers" -> Customers
          [] table = "bindings" -> Bindings
          [] table = "botDeliveries" -> BotDeliveries
          [] table = "recentOrders" -> RecentOrders
          [] table = "urgentTickets" -> UrgentTickets
          [] table = "providerHealth" -> ProviderHealth
OnBots == table \in {"bindings", "botDeliveries"}

\* The statuses of the demo records, which stand for those of the server too.
Demo == CASE table = "orders" -> DemoOrders
          [] table = "proofs" -> [reviewStatus : {"pending", "approved"}]
          [] table = "codeIssues" -> [issueStatus : {"success", "failed"}]
          [] table = "tickets" -> [status : {"open", "resolved"}, priority : {"high", "low"}]
                                   \ {[status |-> "resolved", priority |-> "low"]}
          [] table \in {"fulfillments", "deliveries", "botDeliveries"} ->
               [status : {"failed", "sent"}]
          [] OTHER -> {<<>>}
\* Orders the server has: one to review, one that failed.
Served == IF table = "orders"
          THEN {Order("pending_review", "paid_pending_review", "pending", "manual"),
                Order("paid", "failed", "failed", "telegram")}
          ELSE Demo

Record(key, order, is) == [key |-> key, order |-> order, is |-> is, lost |-> {}]
Value(r, f) == CASE f \in r.lost -> None
                 [] f \in DOMAIN r.is \ r.lost -> r.is[f]
                 [] f = "orderNo" /\ f \notin r.lost \cup DOMAIN r.is -> r.order
                 [] OTHER -> r.key
Matches(r, fields, fl) == fl = None \/ fl.field \notin fields \/ Value(r, fl.field) = fl.value
Mapped(r) == [r EXCEPT !.lost = (Page.shown \cup Page.browsed \cup DOMAIN r.is) \ Page.read]

---------------------------------------------------------------------------
(* What an operator may do to a record, and what becomes of it             *)

\* The record as the page sees it: a status that was lost is no status.
Seen(r) == [f \in DOMAIN r.is |-> Value(r, f)]
Eligible(r, action) ==
    CASE table = "orders" -> CanRunOrderAction(Seen(r), action)
      [] table = "proofs" -> Pending(Seen(r).reviewStatus)
      [] table = "codeIssues" -> RetryableRecord(Seen(r).issueStatus)
      [] action = "resend_record" -> Seen(r).status = "sent"
      [] action = "retry_record" -> RetryableRecord(Seen(r).status)
      [] table = "tickets" -> OpenTicket(Seen(r).status)
      [] table = "botDeliveries" -> RetryableDelivery(Seen(r).status)
After(is, action) ==
    CASE table = "orders" /\ action = "confirm_payment" -> OrderConfirmed(is)
      [] table = "orders" /\ action # "confirm_payment" -> OrderAfter(is, action)
      [] table = "proofs" ->
           [reviewStatus |-> IF action = "confirm_proof" THEN "approved" ELSE "rejected"]
      [] table = "codeIssues" -> [issueStatus |-> "success"]
      [] table = "tickets" -> [is EXCEPT !.status = TicketAfter(@, action)]
      [] OTHER -> [status |-> "sent"]

\* The buttons of the selection bar, the actions confirmed in a dialog, in a drawer, or at once
InBatch(action) == action \notin {"confirm_payment", "refund_original", "retry_record",
                                  "retry_issue", "resend_record"}
AtOnce(action) == action = "retry_delivered"
InDrawer(action, batch) == \/ action \in {"confirm_payment", "reject_payment", "complete_delivery",
                                          "cancel", "refund_mark", "refund_original",
                                          "reject_proof", "assign", "resolve"}
                           \/ action = "confirm_proof" /\ ~batch

\* Routes name an order, except those of tickets, code issues and bot deliveries.
Target(r) == IF table \in {"tickets", "codeIssues", "botDeliveries"} THEN r.key ELSE r.order
\* dedupeProofOrders, and one request per record elsewhere
Requests(rs) == {<<Target(r), IF table = "proofs" THEN None ELSE r.key>> : r \in rs}

---------------------------------------------------------------------------
(* The server                                                              *)

Change(target, action) ==
    /\ \E r \in store : Target(r) = target /\ Eligible(r, action)
    /\ store' = {IF Target(r) = target /\ Eligible(r, action)
                 THEN [r EXCEPT !.is = After(@, action)] ELSE r : r \in store}
Take(request, action) ==
    /\ Change(request[1], action)
    /\ stale' = TRUE /\ taken' = [taken EXCEPT ![request[1]] = @ + 1]
    /\ UNCHANGED moves

ServerMoves ==
    /\ remote /\ moves < MaxMoves /\ moves' = moves + 1
    /\ \E r \in store, action \in Page.acts \cap Elsewhere : Change(Target(r), action)
    /\ stale' = TRUE
    /\ UNCHANGED <<fixed, view, listing, filter, picked, panel, detail, calls, ghosts>>

Script(op) == CASE op \in {"load", "reload"} -> <<"list">>
                [] op = "act" -> <<"write", "list">>
                [] op = "detail" -> <<"probe">>
Call(op, action, batch, left, fl, key) ==
    [op |-> op, action |-> action, batch |-> batch, at |-> 1, left |-> left,
     targets |-> {w[1] : w \in left}, failed |-> FALSE, fl |-> fl, key |-> key, ans |-> Waiting]
Busy == {i \in DOMAIN calls : calls[i] # None}
Ask(cs, call) == {[cs EXCEPT ![i] = call] :
                     i \in {j \in DOMAIN cs : cs[j] = None /\ \A k \in 1..(j - 1) : cs[k] # None}}
More == clicks < MaxClicks
Acting == hasty' = (hasty \/ Busy # {})
Clicks == More /\ clicks' = clicks + 1 /\ Acting

Listed(fl) == {Mapped(r) : r \in {s \in store : Matches(s, Page.asked, fl)}}

ServeList(i) ==
    /\ calls[i] # None /\ calls[i].ans = Waiting /\ calls[i].op # "late"
    /\ Script(calls[i].op)[calls[i].at] = "list"
    /\ \/ calls' = [calls EXCEPT ![i].ans = Listed(calls[i].fl)] /\ stale' = FALSE
       \/ calls' = [calls EXCEPT ![i].ans = Failed] /\ UNCHANGED stale
    /\ UNCHANGED <<fixed, view, store, moves, listing, filter, picked, panel, detail, ghosts>>

ServeDetail(i) ==
    /\ calls[i] # None /\ calls[i].ans = Waiting /\ calls[i].op = "detail"
    /\ calls' \in {[calls EXCEPT ![i].ans = calls[i].key], [calls EXCEPT ![i].ans = Failed]}
    /\ UNCHANGED <<fixed, view, server, listing, filter, picked, panel, detail, ghosts>>

\* Mutant of Settled: Promise.allSettled, its rejections not looked at.
SettledAnyway(c, w, ok) == IF ~OnBots /\ ~ok THEN Failed ELSE IF c.left = {w} THEN Done ELSE Waiting
\* What the handler makes of the answer ok to w: Promise.all ends with the first failure, the
\* bots page waits for all.
Settled(c, w, ok) == CASE ~OnBots /\ ~ok -> Failed
                       [] c.left = {w} /\ (c.failed \/ ~ok) -> Failed
                       [] c.left = {w} /\ ~c.failed /\ ok -> Done
                       [] OTHER -> Waiting

\* A write is taken, or refused, or its answer is lost.
ServeWrite(i) ==
    LET c == calls[i]
        Heard(w, ok) == [calls EXCEPT ![i].left = @ \ {w}, ![i].failed = @ \/ ~ok,
                                      ![i].ans = Settled(c, w, ok)]
    IN /\ c # None /\ c.op = "act" /\ c.at = 1 /\ c.ans = Waiting
       /\ \E w \in c.left, ok \in BOOLEAN :
            /\ \/ Take(w, c.action)
               \/ ~ok /\ UNCHANGED <<server, taken>>
            /\ calls' = Heard(w, ok)
       /\ UNCHANGED <<fixed, view, listing, filter, picked, panel, detail, clicks, told, hasty>>

\* A write of a batch already reported as failed reaches the server, or does not.
ServeLate(i) ==
    LET c == calls[i]
    IN /\ c # None /\ c.op = "late"
       /\ \E w \in c.left :
            /\ \/ Change(w[1], c.action) /\ stale' = TRUE
               \/ UNCHANGED <<store, stale>>
            /\ calls' = [calls EXCEPT ![i] = IF c.left = {w} THEN None ELSE [c EXCEPT !.left = @ \ {w}]]
       /\ UNCHANGED <<fixed, view, moves, listing, filter, picked, panel, detail, ghosts>>

---------------------------------------------------------------------------
(* The operator                                                            *)

NoPanel == [action |-> None, on |-> {}, batch |-> FALSE, busy |-> FALSE]
NoDetail == [on |-> None, loading |-> FALSE, data |-> None]
Unmasked == panel.action = None /\ detail.on = None
Narrowed == {r \in rows : Matches(r, Page.browsed, filter)}
\* reviewQueue, urgentTickets
Due(r) == CASE table = "orders" -> \/ Value(r, "paymentStatus") = "pending_review"
                                   \/ Value(r, "orderStatus") = "paid_pending_review"
            [] table = "tickets" -> Value(r, "priority") = "high"
Tabs == IF table \in {"orders", "tickets"} THEN {"all", "due"} ELSE {"all"}
\* filterRecordsByQuery, on the tabs without filters of their own
Searched == table \in {"callbacks", "watchers", "bindings", "botDeliveries", "recentOrders",
                       "urgentTickets", "providerHealth"}
Words == {Value(r, f) : r \in store, f \in Page.read}
Found(r) == search = None \/ \E f \in Page.read : Value(r, f) = search
OnScreen(rs) == {r \in rs : (tab = "due" => Due(r)) /\ Found(r)}
Visible == OnScreen(Narrowed)
\* The demo records of a local page; the bots page has none.
LocalRows(fl) == {r \in store : ~OnBots /\ Matches(r, Page.demo, fl)}
Filters == {[field |-> f, value |-> Value(r, f)] : f \in Page.offered, r \in store}
BeginReading == loading' = TRUE /\ source' = "remote" /\ UNCHANGED rows

\* The cleanup of the effect: the answer of its reading is not looked at any more.
Dropped(cs) == [i \in DOMAIN cs |-> IF cs[i] # None /\ cs[i].op = "load" THEN None ELSE cs[i]]

\* Mutant of Unticked: the selection outlives the filter it was made under.
UntickedNot == picked
Unticked == IF table \in {"fulfillments", "codeIssues", "deliveries", "customers"} THEN picked ELSE {}

\* A filter is set, cleared, or comes with a link: the hooks that send it read again, and the
\* demo records of a local page start over.
ChangeFilter ==
    /\ Unmasked /\ More /\ clicks' = clicks + 1
    /\ \E fl \in Filters \cup {None} : fl # filter /\ filter' = fl
    /\ picked' = Unticked
    /\ CASE ~remote /\ Page.browsed = {} ->
              rows' = LocalRows(filter') /\ UNCHANGED <<loading, source, calls, hasty>>
         [] remote /\ Page.asked # {} ->
              /\ BeginReading
              /\ hasty' = (hasty \/ \E i \in Busy : calls[i].op # "load")
              /\ calls' \in Ask(Dropped(calls), Call("load", None, FALSE, {}, filter', None))
         [] Page.browsed # {} ->
              Acting /\ UNCHANGED <<rows, loading, source, calls>>
    /\ UNCHANGED <<fixed, view, server, panel, detail, taken, told>>

\* The reload button; on the pages with a selection it is cleared at once.
Reload ==
    /\ Unmasked /\ Clicks
    /\ IF remote
       THEN BeginReading /\ calls' \in Ask(calls, Call("reload", None, FALSE, {}, filter, None))
       ELSE /\ rows' = LocalRows(filter)
            /\ UNCHANGED <<loading, source, calls>>
    /\ picked' = IF OnBots THEN picked ELSE {}
    /\ UNCHANGED <<fixed, view, server, filter, panel, detail, taken, told>>

\* The tabs of the workbench: the keyword is cleared, the selection is not.
SwitchTab ==
    /\ Unmasked /\ More /\ clicks' = clicks + 1
    /\ tab' \in Tabs /\ search' = None /\ view' # view
    /\ UNCHANGED <<fixed, server, listing, filter, picked, panel, detail, calls, taken, told, hasty>>

SearchRows ==
    /\ Unmasked /\ More /\ clicks' = clicks + 1
    /\ Searched /\ search' \in Words \cup {None} /\ search' # search
    /\ UNCHANGED <<fixed, tab, server, listing, filter, picked, panel, detail, calls, taken, told, hasty>>

\* A box ticked, or the selection cleared; what is ticked on another tab is kept
\* (preserveSelectedRowKeys).
Tick ==
    /\ Unmasked /\ More /\ Acting
    /\ \/ /\ ~loading
          /\ \E r \in Visible, action \in Page.acts : InBatch(action) /\ picked' = picked \cup {r.key}
       \/ picked' = {}
    /\ picked' # picked
    /\ UNCHANGED <<fixed, view, server, listing, filter, panel, detail, calls, clicks, taken, told>>

\* The records a batch is opened for: picked, still in the hook's records, and eligible.
Chosen(action) == {r \in rows : r.key \in picked /\ Eligible(r, action)}

Begin(action, batch, rs) ==
    /\ calls' \in Ask(calls, Call("act", action, batch, Requests(rs), filter, None))
    /\ taken' = [k \in DOMAIN taken |-> 0] /\ told' = None /\ Clicks

\* Buttons of the proofs are hidden, those of the fulfilment page answer that the server is
\* needed, unless the page is remote.
Offered(action) == action \in Page.acts /\ (table \in {"orders", "tickets"} \/ source = "remote")

OpenAction ==
    /\ Unmasked /\ More
    /\ \E action \in Page.acts :
         /\ Offered(action) /\ ~AtOnce(action)
         /\ \/ \E r \in Visible :
                 /\ ~loading /\ Eligible(r, action)
                 /\ panel' = [action |-> action, on |-> {r}, batch |-> FALSE, busy |-> FALSE]
            \/ /\ InBatch(action) /\ Chosen(action) # {}
               /\ panel' = [action |-> action, on |-> Chosen(action), batch |-> TRUE, busy |-> FALSE]
    /\ UNCHANGED <<fixed, view, server, listing, filter, picked, detail, calls, ghosts>>

\* Mutant of Applied: the changed record is added to the draft.
AppliedBeside(rs, action) ==
    rows \cup {[r EXCEPT !.is = After(@, action)] : r \in rs}
Applied(rs, action) ==
    {IF \E s \in rs : Target(s) = Target(r) THEN [r EXCEPT !.is = After(@, action)] ELSE r : r \in rows}

\* onOk of the dialog, onSubmit of the drawer
SubmitAction ==
    /\ panel.action # None /\ ~panel.busy
    /\ CASE source = "remote" ->
              /\ Begin(panel.action, panel.batch, panel.on)
              /\ panel' = [panel EXCEPT !.busy = TRUE]
              /\ UNCHANGED <<rows, picked>>
         [] ~remote ->
              /\ rows' = Applied(panel.on, panel.action)
              /\ picked' = IF InDrawer(panel.action, panel.batch) \/ panel.batch THEN {} ELSE picked
              /\ panel' = NoPanel /\ told' = {} /\ Clicks
              /\ UNCHANGED <<calls, taken>>
         [] remote /\ source # "remote" ->
              /\ panel' = IF InDrawer(panel.action, panel.batch) THEN panel ELSE NoPanel
              /\ told' = None /\ Clicks
              /\ UNCHANGED <<rows, picked, calls, taken>>
    /\ UNCHANGED <<fixed, view, server, loading, source, filter, detail>>

\* runSingleRetry and handleBatchRetry of the bots page, without a dialog
RetryAtOnce ==
    /\ Unmasked
    /\ \E action \in Page.acts :
         /\ AtOnce(action)
         /\ \/ ~loading /\ \E r \in Visible : Eligible(r, action) /\ Begin(action, FALSE, {r})
            \/ Chosen(action) # {} /\ Begin(action, TRUE, Chosen(action))
    /\ UNCHANGED <<fixed, view, server, listing, filter, picked, panel, detail>>

CloseAction ==
    /\ panel.action # None /\ panel' = NoPanel
    /\ UNCHANGED <<fixed, view, server, listing, filter, picked, detail, calls, ghosts>>

\* openOrderDetail and its likes: a remote page asks, a local one shows the row.
OpenDetail ==
    /\ Unmasked /\ ~loading
    /\ \E r \in Visible :
         IF source = "remote" /\ table # "bindings"
         THEN /\ calls' \in Ask(calls, Call("detail", None, FALSE, {}, None, r.key))
              /\ detail' = [on |-> r.key, loading |-> TRUE, data |-> None]
              /\ Clicks
         ELSE /\ detail' = [on |-> r.key, loading |-> FALSE, data |-> r.key]
              /\ UNCHANGED <<calls, clicks, hasty>>
    /\ UNCHANGED <<fixed, view, server, listing, filter, picked, panel, taken, told>>

CloseDetail ==
    /\ detail.on # None /\ detail' = NoDetail
    /\ UNCHANGED <<fixed, view, server, listing, filter, picked, panel, calls, ghosts>>

---------------------------------------------------------------------------
(* Answers landing in the page                                             *)

Ends(i) == calls' = [calls EXCEPT ![i] = IF @.left = {} THEN None ELSE [@ EXCEPT !.op = "late"]]
GoesOn(i) == calls' = [calls EXCEPT ![i].at = @ + 1, ![i].ans = Waiting]

\* A dialog closes whatever comes of it, a drawer stays open on its records.
PanelFailed(c) == IF InDrawer(c.action, c.batch) THEN [panel EXCEPT !.busy = FALSE] ELSE NoPanel

WriteLanded(i) ==
    LET c == calls[i]
    IN /\ c # None /\ c.op = "act" /\ c.at = 1 /\ c.ans # Waiting
       /\ \/ /\ c.ans = Done
             /\ GoesOn(i) /\ BeginReading
             /\ told' = (IF OnBots THEN c.targets ELSE told)
             /\ picked' = (IF OnBots /\ c.batch THEN {} ELSE picked)
             /\ UNCHANGED panel
          \/ /\ c.ans = Failed
             /\ Ends(i) /\ panel' = PanelFailed(c) /\ told' = None
             /\ UNCHANGED <<listing, picked>>
       /\ UNCHANGED <<fixed, view, server, filter, detail, clicks, taken, hasty>>

ListLanded(i) ==
    LET c == calls[i]
        read == c.ans # Failed
        act == c.op = "act"
    IN /\ c # None /\ c.op \notin {"late", "detail"} /\ c.ans # Waiting
       /\ Script(c.op)[c.at] = "list"
       /\ rows' = IF read THEN c.ans ELSE IF OnBots THEN {} ELSE rows
       /\ loading' = FALSE
       /\ source' = IF read THEN "remote" ELSE "remote-error"
       /\ picked' = CASE OnBots -> {}
                      [] ~OnBots /\ act /\ read /\ (c.batch \/ InDrawer(c.action, c.batch))
                           /\ c.action # "confirm_payment" -> {}
                      [] OTHER -> picked
       /\ panel' = IF ~act THEN panel ELSE IF read THEN NoPanel ELSE PanelFailed(c)
       /\ told' = IF ~act THEN told ELSE IF read THEN c.targets ELSE None
       /\ Ends(i)
       /\ UNCHANGED <<fixed, view, server, filter, detail, clicks, taken, hasty>>

DetailLanded(i) ==
    LET c == calls[i]
    IN /\ c # None /\ c.op = "detail" /\ c.ans # Waiting
       /\ detail' = [on |-> c.key, loading |-> FALSE,
                     data |-> IF c.ans = Failed THEN None ELSE c.ans]
       /\ Ends(i)
       /\ UNCHANGED <<fixed, view, server, listing, filter, picked, panel, ghosts>>

---------------------------------------------------------------------------

OrderOf(k, first) == IF table = "proofs" THEN first ELSE k
Init ==
    /\ remote \in BOOLEAN /\ table \in Explored
    /\ \E is \in [Keys -> IF remote THEN Served ELSE Demo], first \in Keys :
         store = {Record(k, OrderOf(k, first), is[k]) : k \in Keys}
    /\ moves = 0 /\ stale = FALSE
    /\ filter = None /\ tab = "all" /\ search = None
    /\ rows = (IF remote THEN {} ELSE LocalRows(filter))
    /\ loading = remote /\ source = (IF remote THEN "remote" ELSE "local")
    /\ picked = {} /\ panel = NoPanel /\ detail = NoDetail
    /\ calls = [i \in 1..MaxCalls |->
                  IF remote /\ i = 1 THEN Call("load", None, FALSE, {}, None, None) ELSE None]
    /\ clicks = 0 /\ taken = [k \in Keys |-> 0] /\ told = None /\ hasty = FALSE

Operator == ChangeFilter \/ SwitchTab \/ SearchRows \/ Reload \/ Tick \/ OpenAction \/ SubmitAction \/ RetryAtOnce
            \/ CloseAction \/ OpenDetail \/ CloseDetail
Answers(i) == \/ ServeList(i) \/ ServeDetail(i) \/ ServeWrite(i) \/ ServeLate(i)
              \/ WriteLanded(i) \/ ListLanded(i) \/ DetailLanded(i)
Next == Operator \/ ServerMoves \/ \E i \in 1..MaxCalls : Answers(i)
Spec == Init /\ [][Next]_vars

---------------------------------------------------------------------------
(* Properties                                                              *)

TypeOK ==
    /\ {r.key : r \in store} = Keys /\ {r.key : r \in rows} \subseteq Keys
    /\ Cardinality(store) = Cardinality(Keys) /\ Cardinality(rows) <= Cardinality(Keys)
    /\ loading \in BOOLEAN /\ source \in {"local", "remote", "remote-error"}
    /\ tab \in Tabs /\ (search # None => Searched)
    /\ picked \subseteq Keys /\ detail.on \in Keys \cup {None}
    /\ panel.action \in Page.acts \cup {None} /\ panel.on \subseteq {r \in panel.on : r.key \in Keys}
    /\ \A i \in Busy : calls[i].op = "late" \/ calls[i].at \in DOMAIN Script(calls[i].op)
    /\ told = None \/ told \subseteq Keys

\* A page that says it is remote and is not loading shows exactly the records of the server that
\* match the filter above the table, and the tab and the keyword, in every column, unless the
\* server changed since.  Only of an operator who lets a reload or an action finish; a filter, a
\* tab or a keyword may be changed at any time.
TableIsServed ==
    LET Row(r) == <<r.key, [f \in Page.shown |-> Value(r, f)]>>
    IN (source = "remote" /\ ~loading /\ ~stale /\ ~hasty) =>
         {Row(r) : r \in Visible}
           = {Row(r) : r \in OnScreen({s \in store : Matches(s, Page.offered, filter)})}

\* A batch that would go to the server is of records that match the filter above the table,
\* whatever filters were set before and whichever answers were on their way; a tab or a keyword
\* may hide some of them.  Only of an operator who lets a reload or an action finish.
BatchMatchesFilter ==
    (source = "remote" /\ ~hasty) =>
        \A action \in Page.acts : InBatch(action) =>
            \A r \in Chosen(action) : Matches(r, Page.offered, filter)

\* After a success message the server did the action exactly once to each record it was for.
ToldIsDone == (~hasty /\ told # None) => \A target \in told : taken[target] = 1

\* In the local draft no order goes to fulfilment or delivery before it is paid, whatever the
\* operator does to it and in whatever order.
UnpaidIsNotDelivered ==
    (table = "orders" /\ ~remote) => \A r \in rows :
        r.is.orderStatus \in {"issuing", "delivery_pending", "delivered", "completed"}
            => r.is.paymentStatus = "paid"
=============================================================================
