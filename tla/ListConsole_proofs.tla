------------------------- MODULE ListConsole_proofs -------------------------
(***************************************************************************)
(* The invariants of ListConsole, for any records, any number of handlers  *)
(* in progress, clicks and moves by others.  TypeOK is not inductive: a    *)
(* call in progress, a dialog and an answer on its way carry records the   *)
(* page will hold next (Typed).  TableIsServed, BatchMatchesFilter and     *)
(* ToldIsDone hold of an operator who lets a handler finish before         *)
(* starting another, and then one handler is in progress at most           *)
(* (OneAtATime).                                                           *)
(***************************************************************************)
EXTENDS ListConsole, FiniteSetTheorems, TLAPS

\* A set of records, each of them whole and under a key of its own.
IsRecord(r) ==
    /\ r = [key |-> r.key, order |-> r.order, is |-> r.is, lost |-> r.lost]
    /\ r.key \in Keys /\ r.order \in Keys
    /\ table # "proofs" => r.order = r.key
    /\ table = "botDeliveries" => DOMAIN r.is = {"status"}
Keyed(rs) == /\ \A r \in rs : IsRecord(r)
             /\ \A r, s \in rs : r.key = s.key => r = s

\* The call waits for a list, or for the answers to its writes.
Reads(c) == c.op \in {"load", "reload"} \/ (c.op = "act" /\ c.at = 2)
Writes(c) == c.op = "act" /\ c.at = 1
IsCall(c) ==
    /\ c = [op |-> c.op, action |-> c.action, batch |-> c.batch, at |-> c.at, left |-> c.left,
            targets |-> c.targets, failed |-> c.failed, fl |-> c.fl, key |-> c.key, ans |-> c.ans]
    /\ c.op \in {"load", "reload", "act", "detail", "late"}
    /\ c.op \in {"load", "reload", "detail"} => c.at = 1 /\ c.left = {}
    /\ c.op = "act" => c.at \in {1, 2} /\ c.action \in Page.acts
    /\ c.op = "act" /\ (c.at = 2 \/ c.ans = Done) => c.left = {}
    /\ c.op = "detail" => c.key \in Keys
    /\ c.targets \subseteq Keys /\ c.failed \in BOOLEAN
    /\ \A w \in c.left : w[1] \in c.targets
    /\ \A v, w \in c.left : v[1] = w[1] => v = w
    /\ Reads(c) /\ c.ans \notin {Waiting, Failed} => Keyed(c.ans)

TypedServer == /\ stale \in BOOLEAN /\ taken \in [Keys -> Nat]
               /\ Keyed(store) /\ {r.key : r \in store} = Keys
               /\ \A r \in store : r.lost = {}
TypedPage ==
    /\ remote \in BOOLEAN /\ table \in Tables /\ loading \in BOOLEAN /\ hasty \in BOOLEAN
    /\ source \in {"local", "remote", "remote-error"} /\ (remote <=> source # "local")
    /\ Keyed(rows) /\ picked \subseteq Keys /\ detail.on \in Keys \cup {None}
    /\ filter # None => filter.field \in Page.offered
    /\ panel = [action |-> panel.action, on |-> panel.on, batch |-> panel.batch, busy |-> panel.busy]
    /\ panel.action \in Page.acts \cup {None} /\ Keyed(panel.on)
    /\ told = None \/ told \subseteq Keys
    /\ ~remote /\ OnBots => rows = {}
TypedCalls == /\ calls = [i \in 1..MaxCalls |-> calls[i]]
              /\ \A i \in Busy : IsCall(calls[i]) /\ remote
Typed == TypedServer /\ TypedPage /\ TypedCalls
TypedView == tab \in Tabs /\ (search # None => Searched)

OneAtATime == ~hasty => \A i, j \in Busy : i = j

\* An order of the draft: it went to fulfilment or delivery paid, and neither failed nor stands
\* issued.
IsSound(o) ==
    /\ o = Order(o.paymentStatus, o.orderStatus, o.deliveryStatus, o.deliveryChannel)
    /\ o.orderStatus \in {"issuing", "delivery_pending", "delivered", "completed"}
         => o.paymentStatus = "paid"
    /\ o.orderStatus \notin {"failed", "issued"} /\ o.deliveryStatus # "failed"
DraftIsSound ==
    (table = "orders" /\ ~remote) =>
        /\ \A r \in store \cup rows : r.lost = {} /\ IsSound(r.is)
        /\ panel.action # None => \A r \in panel.on : r \in rows /\ Eligible(r, panel.action)

\* What is picked was picked from rows of the filter now above the table, nothing while they are
\* read again (but on the bots page, which clears the selection with the answer), and a list on
\* its way is of that filter.  The rows a failed reading left, of any filter, go to no action.
HasBatches == table \in {"orders", "proofs", "tickets", "botDeliveries"}
Good == source = "remote" \/ OnBots
PicksMatch ==
    Good => /\ \A r \in rows : r.key \in picked => Matches(r, Page.offered, filter)
            /\ ~loading => \A r \in rows : Matches(r, Page.asked, filter)
Fits(c) ==
    /\ c.op \in {"load", "reload"} => picked = {} \/ OnBots
    /\ Reads(c) /\ c.ans \notin {Waiting, Failed} => \A r \in c.ans : Matches(r, Page.asked, filter)
    /\ Writes(c) => Good
PickedIsMatched ==
    (HasBatches /\ remote /\ ~hasty) => PicksMatch /\ \A i \in Busy : Fits(calls[i])

\* The writes of the one action in progress: each taken once it is answered, none before.
Counted(c) ==
    /\ Writes(c) => told = None
    /\ Writes(c) /\ c.ans = Waiting /\ ~c.failed =>
         \A k \in c.targets : taken[k] = IF \E w \in c.left : w[1] = k THEN 0 ELSE 1
    /\ c.op = "act" /\ (c.at = 2 \/ c.ans = Done) => \A k \in c.targets : taken[k] = 1
WritesAreCounted == ~hasty => \A i \in Busy : Counted(calls[i])

\* The reading in progress is of the filter above the table, and so are the rows.
Current(c) == /\ Reads(c) \/ Writes(c) => c.fl = filter
              /\ Reads(c) => loading
              /\ Reads(c) /\ c.ans \notin {Waiting, Failed} /\ ~stale => c.ans = Listed(filter)
RowsAreCurrent == source = "remote" /\ ~loading /\ ~stale => rows = Listed(filter)
ReadingIsCurrent == ~hasty => RowsAreCurrent /\ \A i \in Busy : Current(calls[i])

IInv == /\ Typed /\ TypedView /\ OneAtATime /\ DraftIsSound /\ PickedIsMatched
        /\ WritesAreCounted /\ ToldIsDone /\ ReadingIsCurrent

---------------------------------------------------------------------------
(* The tables *)

\* Every filter offered is sent or applied in the browser, and every column shown or filtered in
\* the browser is read from the answer.
IsPage(p) == /\ p.offered = p.asked \cup p.browsed
             /\ p.asked = {} \/ p.browsed = {}
             /\ p.shown \cup p.browsed \subseteq p.read

LEMMA FiltersAreApplied == table \in Tables => IsPage(Page)
<1>1. IsPage(Orders)
  BY DEF IsPage, Orders, OrderShown, OrderRead, OrderOffered, OrderAsked
<1>2. IsPage(Payments) /\ IsPage(Proofs)
  BY DEF IsPage, Payments, PaymentShown, PaymentRead, PaymentOffered, PaymentAsked,
         Proofs, ProofShown, ProofRead, ProofOffered, ProofAsked
<1>3. IsPage(Callbacks) /\ IsPage(Watchers)
  BY DEF IsPage, Callbacks, CallbackShown, CallbackRead, Watchers, WatcherShown, WatcherRead
<1>4. IsPage(Fulfillments) /\ IsPage(CodeIssues) /\ IsPage(Deliveries)
  BY DEF IsPage, Fulfillments, FulfillmentShown, FulfillmentRead, FulfillmentBrowsed,
         CodeIssues, CodeIssueShown, CodeIssueRead, Deliveries, DeliveryShown, DeliveryRead,
         DeliveryBrowsed
<1>5. IsPage(Tickets) /\ IsPage(Customers)
  BY DEF IsPage, Tickets, TicketShown, TicketRead, TicketOffered, TicketBrowsed,
         Customers, CustomerShown, CustomerRead, CustomerOffered, CustomerBrowsed
<1>6. IsPage(Bindings) /\ IsPage(BotDeliveries)
  BY DEF IsPage, Bindings, BindingShown, BindingRead, BotDeliveries, BotDeliveryShown,
         BotDeliveryRead
<1>7. IsPage(RecentOrders) /\ IsPage(UrgentTickets) /\ IsPage(ProviderHealth)
  BY DEF IsPage, RecentOrders, RecentOrderShown, RecentOrderRead, UrgentTickets,
         UrgentTicketShown, UrgentTicketRead, ProviderHealth, ProviderHealthShown,
         ProviderHealthRead
<1> QED BY <1>1, <1>2, <1>3, <1>4, <1>5, <1>6, <1>7 DEF Tables, Page

LEMMA OrdersPage ==
    ASSUME table = "orders"
    PROVE  Page = Orders /\ ~OnBots /\ Demo = DemoOrders /\ Page.browsed = {} /\ Page.asked # {}
BY DEF Page, Orders, Demo, OnBots, OrderAsked, OrderOffered

---------------------------------------------------------------------------
(* Records and requests *)

LEMMA StaysFixed ==
    ASSUME UNCHANGED fixed
    PROVE  /\ remote' = remote /\ table' = table
           /\ Page' = Page /\ (OnBots' <=> OnBots)
           /\ \A rs : Keyed(rs)' <=> Keyed(rs)
           /\ \A c : IsCall(c)' <=> IsCall(c)
<1>1. remote' = remote /\ table' = table
  BY DEF fixed
<1>2. Page' = Page /\ (OnBots' <=> OnBots)
  BY <1>1 DEF Page, OnBots
<1>3. \A r : IsRecord(r)' <=> IsRecord(r)
  BY <1>1 DEF IsRecord
<1>4. \A rs : Keyed(rs)' <=> Keyed(rs)
  BY <1>3 DEF Keyed
<1>5. \A c : IsCall(c)' <=> IsCall(c)
  BY <1>2, <1>4 DEF IsCall, Reads
<1> QED BY <1>1, <1>2, <1>4, <1>5

LEMMA PartOfKeyed ==
    ASSUME NEW rs, Keyed(rs), NEW some \in SUBSET rs
    PROVE  Keyed(some)
BY DEF Keyed

\* A server or a draft that changes what records are leaves their keys.
Changed(rs, chosen, action) ==
    {IF r \in chosen THEN [r EXCEPT !.is = After(@, action)] ELSE r : r \in rs}

LEMMA ChangedIsKeyed ==
    ASSUME NEW rs, Keyed(rs), NEW chosen, NEW action
    PROVE  /\ Keyed(Changed(rs, chosen, action))
           /\ {r.key : r \in Changed(rs, chosen, action)} = {r.key : r \in rs}
           /\ (\A r \in rs : r.lost = {}) => \A r \in Changed(rs, chosen, action) : r.lost = {}
<1> DEFINE F(r) == IF r \in chosen THEN [r EXCEPT !.is = After(@, action)] ELSE r
<1>1. \A r \in rs : IsRecord(F(r)) /\ F(r).key = r.key /\ F(r).lost = r.lost
  <2> TAKE r \in rs
  <2>1. r = [key |-> r.key, order |-> r.order, is |-> r.is, lost |-> r.lost]
    BY DEF Keyed, IsRecord
  <2>2. [r EXCEPT !.is = After(@, action)]
          = [key |-> r.key, order |-> r.order, is |-> After(r.is, action), lost |-> r.lost]
    BY <2>1
  <2>3. table = "botDeliveries" => DOMAIN After(r.is, action) = {"status"}
    BY DEF After
  <2> QED BY <2>2, <2>3 DEF Keyed, IsRecord
<1>2. Changed(rs, chosen, action) = {F(r) : r \in rs}
  BY DEF Changed
<1> HIDE DEF F
<1> QED BY <1>1, <1>2 DEF Keyed

\* The page keeps of a record all but what the answer loses.
LEMMA MappedFields ==
    ASSUME NEW r, IsRecord(r)
    PROVE  Mapped(r) = [key |-> r.key, order |-> r.order, is |-> r.is, lost |-> Mapped(r).lost]
<1> DEFINE lost == (Page.shown \cup Page.browsed \cup DOMAIN r.is) \ Page.read
<1>1. r = [key |-> r.key, order |-> r.order, is |-> r.is, lost |-> r.lost]
  BY DEF IsRecord
<1>2. Mapped(r) = [r EXCEPT !.lost = lost]
  BY DEF Mapped
<1> HIDE DEF lost
<1>3. Mapped(r) = [key |-> r.key, order |-> r.order, is |-> r.is, lost |-> lost]
  BY <1>1, <1>2
<1> QED BY <1>3

LEMMA ListedIsKeyed ==
    ASSUME Keyed(store), NEW fl
    PROVE  Keyed(Listed(fl))
<1>1. \A r \in store : Mapped(r) = [key |-> r.key, order |-> r.order, is |-> r.is, lost |-> Mapped(r).lost]
  BY MappedFields DEF Keyed
<1>2. \A r \in store : IsRecord(Mapped(r)) /\ Mapped(r).key = r.key
  <2> TAKE r \in store
  <2>1. PICK m : m = Mapped(r)
    OBVIOUS
  <2>2. m.key = r.key /\ m.order = r.order /\ m.is = r.is
    BY <1>1, <2>1
  <2> QED BY <1>1, <2>1, <2>2 DEF Keyed, IsRecord
<1> QED BY <1>2 DEF Keyed, Listed

\* A batch has one request for each target.
LEMMA OneRequestEach ==
    ASSUME NEW rs, Keyed(rs)
    PROVE  /\ \A w \in Requests(rs) : w[1] \in Keys
           /\ \A v, w \in Requests(rs) : v[1] = w[1] => v = w
<1>1. \A r \in rs : Target(r) \in Keys /\ (table # "proofs" => Target(r) = r.key)
  BY DEF Keyed, IsRecord, Target
<1>2. CASE table = "proofs"
  BY <1>1, <1>2 DEF Requests
<1>3. CASE table # "proofs"
  BY <1>1, <1>3 DEF Requests
<1> QED BY <1>2, <1>3

---------------------------------------------------------------------------
(* Calls *)

\* The call c at another place of its script, or with other answers.
With(c, at, left, failed, ans) ==
    [op |-> c.op, action |-> c.action, batch |-> c.batch, at |-> at, left |-> left,
     targets |-> c.targets, failed |-> failed, fl |-> c.fl, key |-> c.key, ans |-> ans]
\* What the answer ok to its write w makes of the call c.
Written(c, w, ok) == With(c, c.at, c.left \ {w}, c.failed \/ ~ok, Settled(c, w, ok))

\* A call whose answer, whose writes or whose place in the script changes.
LEMMA CallFields ==
    ASSUME NEW c, IsCall(c)
    PROVE  /\ \A ans : [c EXCEPT !.ans = ans] =
                [op |-> c.op, action |-> c.action, batch |-> c.batch, at |-> c.at, left |-> c.left,
                 targets |-> c.targets, failed |-> c.failed, fl |-> c.fl, key |-> c.key, ans |-> ans]
           /\ \A left : [c EXCEPT !.left = left] =
                [op |-> c.op, action |-> c.action, batch |-> c.batch, at |-> c.at, left |-> left,
                 targets |-> c.targets, failed |-> c.failed, fl |-> c.fl, key |-> c.key, ans |-> c.ans]
           /\ \A at, ans : [c EXCEPT !.at = at, !.ans = ans] =
                [op |-> c.op, action |-> c.action, batch |-> c.batch, at |-> at, left |-> c.left,
                 targets |-> c.targets, failed |-> c.failed, fl |-> c.fl, key |-> c.key, ans |-> ans]
           /\ [c EXCEPT !.op = "late"] =
                [op |-> "late", action |-> c.action, batch |-> c.batch, at |-> c.at, left |-> c.left,
                 targets |-> c.targets, failed |-> c.failed, fl |-> c.fl, key |-> c.key, ans |-> c.ans]
<1>1. PICK op, action, batch, at, left, targets, failed, fl, key, ans :
        c = [op |-> op, action |-> action, batch |-> batch, at |-> at, left |-> left,
             targets |-> targets, failed |-> failed, fl |-> fl, key |-> key, ans |-> ans]
  BY DEF IsCall
<1>2. \A x : [c EXCEPT !.ans = x] =
        [op |-> c.op, action |-> c.action, batch |-> c.batch, at |-> c.at, left |-> c.left,
         targets |-> c.targets, failed |-> c.failed, fl |-> c.fl, key |-> c.key, ans |-> x]
  BY <1>1
<1>3. \A x : [c EXCEPT !.left = x] =
        [op |-> c.op, action |-> c.action, batch |-> c.batch, at |-> c.at, left |-> x,
         targets |-> c.targets, failed |-> c.failed, fl |-> c.fl, key |-> c.key, ans |-> c.ans]
  BY <1>1
<1>4. ASSUME NEW x, NEW y
      PROVE  [c EXCEPT !.at = x, !.ans = y] =
        [op |-> c.op, action |-> c.action, batch |-> c.batch, at |-> x, left |-> c.left,
         targets |-> c.targets, failed |-> c.failed, fl |-> c.fl, key |-> c.key, ans |-> y]
  <2>1. PICK d : d = [c EXCEPT !.at = x]
    OBVIOUS
  <2>2. d = [op |-> op, action |-> action, batch |-> batch, at |-> x, left |-> left,
             targets |-> targets, failed |-> failed, fl |-> fl, key |-> key, ans |-> ans]
    BY <1>1, <2>1
  <2>3. [c EXCEPT !.at = x, !.ans = y] = [d EXCEPT !.ans = y]
    BY <2>1
  <2>4. [d EXCEPT !.ans = y] =
        [op |-> op, action |-> action, batch |-> batch, at |-> x, left |-> left,
         targets |-> targets, failed |-> failed, fl |-> fl, key |-> key, ans |-> y]
    BY <2>2
  <2> QED BY <1>1, <2>3, <2>4
<1>5. [c EXCEPT !.op = "late"] =
        [op |-> "late", action |-> c.action, batch |-> c.batch, at |-> c.at, left |-> c.left,
         targets |-> c.targets, failed |-> c.failed, fl |-> c.fl, key |-> c.key, ans |-> c.ans]
  BY <1>1
<1> QED BY <1>2, <1>3, <1>4, <1>5

\* Script, for the calls there are.
LEMMA ScriptOf ==
    ASSUME NEW c, IsCall(c), c.op # "late"
    PROVE  /\ c.at \in DOMAIN Script(c.op)
           /\ (Script(c.op)[c.at] = "list") <=> Reads(c)
BY DEF IsCall, Script, Reads

\* A call in a free place, or whatever becomes of the one in a place.
LEMMA PlaceTaken ==
    ASSUME UNCHANGED fixed, NEW cs, cs = [j \in 1..MaxCalls |-> cs[j]],
           \A j \in 1..MaxCalls : cs[j] # None => IsCall(cs[j]) /\ remote,
           NEW i \in 1..MaxCalls, NEW c, calls' = [cs EXCEPT ![i] = c],
           c # None => IsCall(c) /\ remote
    PROVE  TypedCalls'
<1>1. calls' = [j \in 1..MaxCalls |-> IF j = i THEN c ELSE cs[j]]
  OBVIOUS
<1>2. \A j \in 1..MaxCalls : calls'[j] # None => IsCall(calls[j])' /\ remote'
  BY <1>1, StaysFixed
<1> QED BY <1>1, <1>2 DEF TypedCalls, Busy

LEMMA NewCall ==
    ASSUME NEW op \in {"load", "reload", "act", "detail"}, NEW action, NEW batch, NEW left, NEW fl, NEW key,
           op # "act" => left = {}, op = "act" => action \in Page.acts, op = "detail" => key \in Keys,
           \A w \in left : w[1] \in Keys, \A v, w \in left : v[1] = w[1] => v = w
    PROVE  IsCall(Call(op, action, batch, left, fl, key))
BY ListAssumption DEF Call, IsCall, Reads

LEMMA AskTyped ==
    ASSUME UNCHANGED fixed, remote, NEW cs, cs = [j \in 1..MaxCalls |-> cs[j]],
           \A j \in 1..MaxCalls : cs[j] # None => IsCall(cs[j]) /\ remote,
           NEW c, IsCall(c), calls' \in Ask(cs, c)
    PROVE  TypedCalls'
<1>1. PICK i \in 1..MaxCalls : calls' = [cs EXCEPT ![i] = c]
  BY DEF Ask
<1> QED BY <1>1, PlaceTaken

---------------------------------------------------------------------------
(* Typed: the steps of the server *)

LEMMA PageUntouched ==
    ASSUME TypedPage, UNCHANGED <<fixed, listing, filter, picked, panel, detail, told, hasty>>
    PROVE  TypedPage'
BY StaysFixed DEF TypedPage, listing

LEMMA CallReplaced ==
    ASSUME Typed, UNCHANGED fixed, NEW i \in 1..MaxCalls, calls[i] # None, NEW c,
           calls' = [calls EXCEPT ![i] = c], c # None => IsCall(c)
    PROVE  TypedCalls'
<1>1. /\ calls = [j \in 1..MaxCalls |-> calls[j]] /\ remote
      /\ \A j \in 1..MaxCalls : calls[j] # None => IsCall(calls[j]) /\ remote
  BY DEF Typed, TypedCalls, Busy
<1> QED BY <1>1, PlaceTaken

LEMMA CallTyped ==
    ASSUME Typed, NEW i \in 1..MaxCalls, calls[i] # None
    PROVE  IsCall(calls[i]) /\ remote
BY DEF Typed, TypedCalls, Busy

LEMMA ChangeTyped ==
    ASSUME TypedServer, UNCHANGED fixed, NEW target, NEW action, Change(target, action)
    PROVE  /\ Keyed(store)' /\ {r.key : r \in store'} = Keys
           /\ \A r \in store' : r.lost = {}
<1> DEFINE chosen == {r \in store : Target(r) = target /\ Eligible(r, action)}
<1>1. store' = Changed(store, chosen, action)
  BY DEF Change, Changed
<1>2. /\ Keyed(store') /\ {r.key : r \in store'} = {r.key : r \in store}
      /\ \A r \in store' : r.lost = {}
  <2> HIDE DEF chosen
  <2> QED BY <1>1, ChangedIsKeyed DEF TypedServer
<1>3. Keyed(store)' <=> Keyed(store')
  BY StaysFixed DEF Keyed, IsRecord, fixed
<1> QED BY <1>2, <1>3 DEF TypedServer

LEMMA ServerMovesTyped == ASSUME Typed, ServerMoves PROVE Typed'
<1>1. TypedServer'
  BY ChangeTyped DEF ServerMoves, Typed, TypedServer, ghosts
<1>2. TypedPage'
  BY PageUntouched DEF ServerMoves, Typed, ghosts
<1>3. TypedCalls'
  BY StaysFixed DEF ServerMoves, Typed, TypedCalls, Busy
<1> QED BY <1>1, <1>2, <1>3 DEF Typed

LEMMA ServeListTyped == ASSUME Typed, NEW i \in 1..MaxCalls, ServeList(i) PROVE Typed'
<1> DEFINE c == calls[i]
<1>1. IsCall(c) /\ c.op # "late" /\ Reads(c)
  BY CallTyped, ScriptOf DEF ServeList
<1>2. PICK ans : /\ ans = Listed(c.fl) \/ ans = Failed
                 /\ calls' = [calls EXCEPT ![i].ans = ans]
  BY DEF ServeList
<1>3. [c EXCEPT !.ans = ans] =
        [op |-> c.op, action |-> c.action, batch |-> c.batch, at |-> c.at, left |-> c.left,
         targets |-> c.targets, failed |-> c.failed, fl |-> c.fl, key |-> c.key, ans |-> ans]
  BY <1>1, CallFields
<1>4. PICK d : calls' = [calls EXCEPT ![i] = d] /\ IsCall(d)
  <2>1. Keyed(Listed(c.fl))
    BY ListedIsKeyed DEF Typed, TypedServer
  <2>2. IsCall([c EXCEPT !.ans = ans])
    BY <1>1, <1>2, <1>3, <2>1 DEF IsCall, Reads
  <2> QED BY <1>2, <2>2
<1>5. TypedCalls'
  BY <1>4, CallReplaced DEF ServeList
<1>6. TypedServer'
  BY StaysFixed DEF ServeList, Typed, TypedServer, ghosts
<1>7. TypedPage'
  BY PageUntouched DEF ServeList, Typed, ghosts
<1> QED BY <1>5, <1>6, <1>7 DEF Typed

LEMMA ServeDetailTyped == ASSUME Typed, NEW i \in 1..MaxCalls, ServeDetail(i) PROVE Typed'
<1> DEFINE c == calls[i]
<1>1. IsCall(c) /\ c.op = "detail"
  BY CallTyped DEF ServeDetail
<1>2. PICK ans : calls' = [calls EXCEPT ![i].ans = ans]
  BY DEF ServeDetail
<1>3. IsCall([c EXCEPT !.ans = ans])
  BY <1>1, CallFields DEF IsCall, Reads
<1>4. TypedCalls'
  BY <1>2, <1>3, CallReplaced DEF ServeDetail
<1>5. TypedServer'
  BY StaysFixed DEF ServeDetail, Typed, TypedServer, server, ghosts
<1>6. TypedPage'
  BY PageUntouched DEF ServeDetail, Typed, ghosts
<1> QED BY <1>4, <1>5, <1>6 DEF Typed

LEMMA WritesOne ==
    ASSUME NEW c, IsCall(c), Writes(c), NEW w \in c.left, NEW ok \in BOOLEAN
    PROVE  [c EXCEPT !.left = @ \ {w}, !.failed = @ \/ ~ok, !.ans = Settled(c, w, ok)]
             = Written(c, w, ok)
<1>1. PICK failed \in BOOLEAN : failed = (c.failed \/ ~ok)
  BY DEF IsCall
<1>2. PICK d : d = [c EXCEPT !.left = @ \ {w}]
  OBVIOUS
<1>3. d = [op |-> c.op, action |-> c.action, batch |-> c.batch, at |-> c.at, left |-> c.left \ {w},
           targets |-> c.targets, failed |-> c.failed, fl |-> c.fl, key |-> c.key, ans |-> c.ans]
  BY <1>2 DEF IsCall
<1>4. PICK e : e = [d EXCEPT !.failed = failed]
  OBVIOUS
<1>5. e = [op |-> c.op, action |-> c.action, batch |-> c.batch, at |-> c.at, left |-> c.left \ {w},
           targets |-> c.targets, failed |-> failed, fl |-> c.fl, key |-> c.key, ans |-> c.ans]
  BY <1>3, <1>4
<1>6. PICK f : f = [e EXCEPT !.ans = Settled(c, w, ok)]
  OBVIOUS
<1>7. f = [op |-> c.op, action |-> c.action, batch |-> c.batch, at |-> c.at, left |-> c.left \ {w},
           targets |-> c.targets, failed |-> failed, fl |-> c.fl, key |-> c.key,
           ans |-> Settled(c, w, ok)]
  BY <1>5, <1>6
<1>8. f = [c EXCEPT !.left = @ \ {w}, !.failed = @ \/ ~ok, !.ans = Settled(c, w, ok)]
  <2>1. [d EXCEPT !.failed = @ \/ ~ok, !.ans = Settled(c, w, ok)]
          = [c EXCEPT !.left = @ \ {w}, !.failed = @ \/ ~ok, !.ans = Settled(c, w, ok)]
    BY <1>2
  <2>2. d.failed = c.failed
    BY <1>3
  <2>3. [d EXCEPT !.failed = @ \/ ~ok, !.ans = Settled(c, w, ok)]
          = [d EXCEPT !.failed = failed, !.ans = Settled(c, w, ok)]
    BY <1>1, <2>2
  <2>4. [d EXCEPT !.failed = failed, !.ans = Settled(c, w, ok)] = f
    BY <1>4, <1>6
  <2> QED BY <2>1, <2>3, <2>4
<1>9. f = Written(c, w, ok)
  BY <1>1, <1>7 DEF With, Written
<1> QED BY <1>8, <1>9

LEMMA WrittenTyped ==
    ASSUME NEW c, IsCall(c), Writes(c), NEW w \in c.left, NEW ok \in BOOLEAN
    PROVE  /\ IsCall(Written(c, w, ok))
           /\ Written(c, w, ok).failed \in BOOLEAN
           /\ Written(c, w, ok).failed <=> c.failed \/ ~ok
           /\ Written(c, w, ok).op = "act" /\ Written(c, w, ok).at = 1
           /\ Written(c, w, ok).left = c.left \ {w} /\ Written(c, w, ok).targets = c.targets
           /\ Written(c, w, ok).fl = c.fl /\ Written(c, w, ok).ans = Settled(c, w, ok)
<1>1. PICK failed \in BOOLEAN : failed = (c.failed \/ ~ok)
  BY DEF IsCall
<1>2. Written(c, w, ok)
        = [op |-> c.op, action |-> c.action, batch |-> c.batch, at |-> c.at, left |-> c.left \ {w},
           targets |-> c.targets, failed |-> failed, fl |-> c.fl, key |-> c.key,
           ans |-> Settled(c, w, ok)]
  BY <1>1 DEF With, Written
<1>3. Settled(c, w, ok) = Done => c.left = {w}
  BY ListAssumption DEF Settled, IsCall
<1>4. PICK d : d = Written(c, w, ok)
  OBVIOUS
<1>5. /\ d.op = "act" /\ d.at = 1 /\ d.left = c.left \ {w} /\ d.targets = c.targets
      /\ d.fl = c.fl /\ d.ans = Settled(c, w, ok) /\ d.failed = failed
  BY <1>2, <1>4 DEF Writes
<1>6. IsCall(d)
  BY <1>2, <1>3, <1>4 DEF IsCall, Reads, Writes
<1> QED BY <1>1, <1>4, <1>5, <1>6

LEMMA ServeWriteTyped == ASSUME Typed, NEW i \in 1..MaxCalls, ServeWrite(i) PROVE Typed'
<1> DEFINE c == calls[i]
<1>1. IsCall(c) /\ Writes(c)
  BY CallTyped DEF ServeWrite, Writes
<1>2. PICK w \in c.left, ok \in BOOLEAN :
        /\ Take(w, c.action) \/ UNCHANGED <<server, taken>>
        /\ calls' = [calls EXCEPT ![i].left = @ \ {w}, ![i].failed = @ \/ ~ok,
                                  ![i].ans = Settled(c, w, ok)]
  BY DEF ServeWrite
<1>3. TypedCalls'
  <2>1. calls' = [calls EXCEPT ![i] = [c EXCEPT !.left = @ \ {w}, !.failed = @ \/ ~ok,
                                              !.ans = Settled(c, w, ok)]]
    BY <1>2 DEF Typed, TypedCalls
  <2>2. [c EXCEPT !.left = @ \ {w}, !.failed = @ \/ ~ok, !.ans = Settled(c, w, ok)]
          = Written(c, w, ok)
    BY <1>1, WritesOne, Zenon
  <2>3. calls' = [calls EXCEPT ![i] = Written(c, w, ok)]
    BY <2>1, <2>2
  <2>4. IsCall(Written(c, w, ok))
    BY <1>1, WrittenTyped
  <2> QED BY <2>3, <2>4, CallReplaced DEF ServeWrite
<1>4. TypedServer'
  <2>1. UNCHANGED fixed
    BY DEF ServeWrite
  <2>2. CASE Take(w, c.action)
    <3>1. w[1] \in Keys
      BY <1>1 DEF IsCall
    <3>2. Keyed(store)' /\ {r.key : r \in store'} = Keys /\ \A r \in store' : r.lost = {}
      BY <2>1, <2>2, ChangeTyped DEF Take, Typed
    <3> QED BY <2>2, <3>1, <3>2 DEF Take, Typed, TypedServer
  <2>3. CASE UNCHANGED <<server, taken>>
    BY <2>1, <2>3, StaysFixed DEF Typed, TypedServer, server
  <2> QED BY <1>2, <2>2, <2>3
<1>5. TypedPage'
  BY PageUntouched DEF ServeWrite, Typed
<1> QED BY <1>3, <1>4, <1>5 DEF Typed

LEMMA ServeLateTyped == ASSUME Typed, NEW i \in 1..MaxCalls, ServeLate(i) PROVE Typed'
<1> DEFINE c == calls[i]
<1>1. IsCall(c) /\ c.op = "late"
  BY CallTyped DEF ServeLate
<1>2. PICK w \in c.left :
        /\ (Change(w[1], c.action) /\ stale' = TRUE) \/ UNCHANGED <<store, stale>>
        /\ calls' = [calls EXCEPT ![i] = IF c.left = {w} THEN None ELSE [c EXCEPT !.left = @ \ {w}]]
  BY DEF ServeLate
<1>3. TypedCalls'
  <2>1. IsCall([c EXCEPT !.left = @ \ {w}])
    BY <1>1, CallFields DEF IsCall, Reads
  <2> QED BY <1>2, <2>1, CallReplaced DEF ServeLate
<1>4. TypedServer'
  BY <1>2, ChangeTyped, StaysFixed DEF ServeLate, Typed, TypedServer, ghosts
<1>5. TypedPage'
  BY PageUntouched DEF ServeLate, Typed, ghosts
<1> QED BY <1>3, <1>4, <1>5 DEF Typed

---------------------------------------------------------------------------
(* Typed: the answers that land in the page *)

LEMMA EndsTyped ==
    ASSUME Typed, UNCHANGED fixed, NEW i \in 1..MaxCalls, calls[i] # None, Ends(i)
    PROVE  TypedCalls'
<1> DEFINE c == calls[i]
<1>1. IsCall(c)
  BY CallTyped
<1>2. [c EXCEPT !.op = "late"] =
        [op |-> "late", action |-> c.action, batch |-> c.batch, at |-> c.at, left |-> c.left,
         targets |-> c.targets, failed |-> c.failed, fl |-> c.fl, key |-> c.key, ans |-> c.ans]
  BY <1>1, CallFields
<1>3. IsCall([c EXCEPT !.op = "late"])
  BY <1>1, <1>2 DEF IsCall, Reads
<1>4. calls' = [calls EXCEPT ![i] = IF c.left = {} THEN None ELSE [c EXCEPT !.op = "late"]]
  BY DEF Ends
<1> QED BY <1>3, <1>4, CallReplaced

LEMMA GoesOnTyped ==
    ASSUME Typed, UNCHANGED fixed, NEW i \in 1..MaxCalls, calls[i] # None, Writes(calls[i]),
           calls[i].ans = Done, GoesOn(i)
    PROVE  /\ TypedCalls'
           /\ calls' = [calls EXCEPT ![i] = With(calls[i], 2, {}, calls[i].failed, Waiting)]
<1> DEFINE c == calls[i]
<1>1. IsCall(c) /\ c.left = {}
  BY CallTyped DEF IsCall, Writes
<1>2. PICK d : d = [c EXCEPT !.at = 2, !.ans = Waiting]
  OBVIOUS
<1>3. d = [op |-> c.op, action |-> c.action, batch |-> c.batch, at |-> 2, left |-> c.left,
           targets |-> c.targets, failed |-> c.failed, fl |-> c.fl, key |-> c.key, ans |-> Waiting]
  BY <1>1, <1>2, CallFields
<1>4. IsCall(d)
  BY <1>1, <1>3, ListAssumption DEF IsCall, Reads, Writes
<1>5. calls' = [calls EXCEPT ![i] = d]
  <2>1. PICK cs : cs = [calls EXCEPT ![i].at = @ + 1]
    OBVIOUS
  <2>2. calls' = [cs EXCEPT ![i].ans = Waiting]
    BY <2>1 DEF GoesOn
  <2>3. c.at + 1 = 2
    BY DEF Writes
  <2>4. cs = [calls EXCEPT ![i] = [c EXCEPT !.at = 2]]
    BY <2>1, <2>3
  <2>5. cs = [j \in 1..MaxCalls |-> IF j = i THEN [c EXCEPT !.at = 2] ELSE calls[j]]
    BY <2>4 DEF Typed, TypedCalls
  <2>6. d = [[c EXCEPT !.at = 2] EXCEPT !.ans = Waiting]
    BY <1>2
  <2>7. calls' = [j \in 1..MaxCalls |-> IF j = i THEN d ELSE calls[j]]
    BY <2>2, <2>5, <2>6
  <2> QED BY <2>7 DEF Typed, TypedCalls
<1> QED BY <1>1, <1>3, <1>4, <1>5, CallReplaced DEF With

LEMMA PanelFailedTyped ==
    ASSUME TypedPage, NEW c
    PROVE  /\ PanelFailed(c) = [action |-> PanelFailed(c).action, on |-> PanelFailed(c).on,
                                batch |-> PanelFailed(c).batch, busy |-> PanelFailed(c).busy]
           /\ PanelFailed(c).action \in Page.acts \cup {None} /\ Keyed(PanelFailed(c).on)
           /\ PanelFailed(c) = NoPanel \/ (PanelFailed(c).action = panel.action /\ PanelFailed(c).on = panel.on)
<1>1. [panel EXCEPT !.busy = FALSE]
        = [action |-> panel.action, on |-> panel.on, batch |-> panel.batch, busy |-> FALSE]
  <2>1. PICK action, on, batch, busy :
          panel = [action |-> action, on |-> on, batch |-> batch, busy |-> busy]
    BY DEF TypedPage
  <2>2. \A x : [panel EXCEPT !.busy = x]
                = [action |-> panel.action, on |-> panel.on, batch |-> panel.batch, busy |-> x]
    BY <2>1
  <2> QED BY <2>2
<1>2. Keyed({})
  BY DEF Keyed
<1> QED BY <1>1, <1>2 DEF TypedPage, PanelFailed, NoPanel

LEMMA WriteLandedTyped == ASSUME Typed, NEW i \in 1..MaxCalls, WriteLanded(i) PROVE Typed'
<1> DEFINE c == calls[i]
<1>1. IsCall(c) /\ Writes(c) /\ remote
  BY CallTyped DEF WriteLanded, Writes
<1>2. TypedServer'
  BY StaysFixed DEF WriteLanded, Typed, TypedServer, server
<1>3. CASE c.ans = Done /\ GoesOn(i) /\ BeginReading
             /\ told' = (IF OnBots THEN c.targets ELSE told)
             /\ picked' = (IF OnBots /\ c.batch THEN {} ELSE picked) /\ UNCHANGED panel
  <2>1. TypedCalls'
    BY <1>1, <1>3, GoesOnTyped DEF WriteLanded
  <2>2. TypedPage'
    BY <1>1, <1>3, StaysFixed DEF WriteLanded, BeginReading, Typed, TypedPage, IsCall
  <2> QED BY <1>2, <2>1, <2>2 DEF Typed
<1>4. CASE Ends(i) /\ panel' = PanelFailed(c) /\ told' = None /\ UNCHANGED <<listing, picked>>
  <2>1. TypedCalls'
    BY <1>1, <1>4, EndsTyped DEF WriteLanded
  <2>2. TypedPage'
    <3> DEFINE p == PanelFailed(c)
    <3>1. /\ p = [action |-> p.action, on |-> p.on, batch |-> p.batch, busy |-> p.busy]
          /\ p.action \in Page.acts \cup {None} /\ Keyed(p.on)
      BY PanelFailedTyped DEF Typed
    <3> HIDE DEF p
    <3> QED BY <1>1, <1>4, <3>1, StaysFixed DEF p, WriteLanded, Typed, TypedPage, listing
  <2> QED BY <1>2, <2>1, <2>2 DEF Typed
<1> QED BY <1>3, <1>4 DEF WriteLanded

LEMMA ListLandedTyped == ASSUME Typed, NEW i \in 1..MaxCalls, ListLanded(i) PROVE Typed'
<1> DEFINE c == calls[i]
<1>1. IsCall(c) /\ Reads(c) /\ remote /\ calls[i] # None /\ UNCHANGED fixed
  BY CallTyped, ScriptOf DEF ListLanded
<1>2. TypedServer'
  BY StaysFixed DEF ListLanded, Typed, TypedServer, server
<1>3. TypedCalls'
  BY <1>1, EndsTyped DEF ListLanded
<1>4. /\ panel' = [action |-> panel'.action, on |-> panel'.on, batch |-> panel'.batch,
                   busy |-> panel'.busy]
      /\ panel'.action \in Page.acts \cup {None} /\ Keyed(panel'.on)
  <2>1. panel' = panel \/ panel' = NoPanel \/ panel' = PanelFailed(c)
    BY DEF ListLanded
  <2>2. Keyed({})
    BY DEF Keyed
  <2> QED BY <2>1, <2>2, PanelFailedTyped DEF Typed, TypedPage, NoPanel
<1>5. Keyed(rows')
  <2>1. Keyed({})
    BY DEF Keyed
  <2> QED BY <1>1, <2>1 DEF ListLanded, IsCall, Typed, TypedPage
<1>6. /\ picked' \subseteq Keys /\ loading' = FALSE /\ source' \in {"remote", "remote-error"}
      /\ told' = None \/ told' \subseteq Keys
      /\ UNCHANGED <<fixed, filter, detail, hasty>>
  BY <1>1 DEF ListLanded, IsCall, Typed, TypedPage
<1>7. TypedPage'
  BY <1>1, <1>4, <1>5, <1>6, StaysFixed DEF Typed, TypedPage
<1> QED BY <1>2, <1>3, <1>7 DEF Typed

LEMMA DetailLandedTyped == ASSUME Typed, NEW i \in 1..MaxCalls, DetailLanded(i) PROVE Typed'
<1>1. IsCall(calls[i]) /\ calls[i].key \in Keys /\ UNCHANGED fixed
  BY CallTyped DEF DetailLanded, IsCall
<1>2. TypedServer'
  BY StaysFixed DEF DetailLanded, Typed, TypedServer, server, ghosts
<1>3. TypedCalls'
  BY <1>1, EndsTyped DEF DetailLanded
<1>4. TypedPage'
  BY <1>1, StaysFixed DEF DetailLanded, Typed, TypedPage, listing, ghosts
<1> QED BY <1>2, <1>3, <1>4 DEF Typed

---------------------------------------------------------------------------
(* Typed: the steps of the operator *)

LEMMA CallsUntouched == ASSUME Typed, UNCHANGED <<fixed, calls>> PROVE TypedCalls'
BY StaysFixed DEF Typed, TypedCalls, Busy

LEMMA ServerUntouched == ASSUME Typed, UNCHANGED <<fixed, server, taken>> PROVE TypedServer'
BY StaysFixed DEF Typed, TypedServer, server

LEMMA LocalRowsAreServed ==
    ASSUME NEW fl
    PROVE  LocalRows(fl) \subseteq store /\ (OnBots => LocalRows(fl) = {})
BY DEF LocalRows

\* A filter that changes starts over the demo records, starts a reading, or only narrows the table.
LEMMA FilterChanges ==
    ASSUME Typed, ChangeFilter
    PROVE  /\ \/ /\ ~remote /\ Page.browsed = {}
                 /\ rows' = LocalRows(filter') /\ UNCHANGED <<loading, source, calls, hasty>>
              \/ /\ remote /\ Page.asked # {} /\ BeginReading
                 /\ hasty' = (hasty \/ \E i \in Busy : calls[i].op # "load")
                 /\ calls' \in Ask(Dropped(calls), Call("load", None, FALSE, {}, filter', None))
              \/ Page.browsed # {} /\ Acting /\ UNCHANGED <<rows, loading, source, calls>>
           /\ filter' # None => filter'.field \in Page.offered
           /\ UNCHANGED <<fixed, server, panel, detail, taken, told>>
           /\ picked' = Unticked
<1>1. PICK fl \in Filters \cup {None} : fl # filter /\ filter' = fl
  BY DEF ChangeFilter
<1>2. fl # None => fl.field \in Page.offered
  BY <1>1 DEF Filters
<1>3. Page.asked # {} \/ Page.browsed # {}
  BY <1>1, <1>2, FiltersAreApplied DEF IsPage, Typed, TypedPage
<1>4. (~remote /\ Page.browsed = {}) \/ (remote /\ Page.asked # {}) \/ Page.browsed # {}
  BY <1>3
<1>5. CASE ~remote /\ Page.browsed = {}
  BY <1>1, <1>2, <1>5 DEF ChangeFilter
<1>6. CASE remote /\ Page.asked # {}
  BY <1>1, <1>2, <1>6 DEF ChangeFilter
<1>7. CASE Page.browsed # {} /\ ~(remote /\ Page.asked # {})
  BY <1>1, <1>2, <1>7 DEF ChangeFilter
<1> QED BY <1>4, <1>5, <1>6, <1>7

LEMMA ChangeFilterTyped == ASSUME Typed, ChangeFilter PROVE Typed'
<1>1. /\ UNCHANGED <<fixed, server, panel, detail, taken, told>> /\ picked' = Unticked
      /\ filter' # None => filter'.field \in Page.offered
  BY FilterChanges
<1>2. TypedServer'
  BY <1>1, ServerUntouched
<1>3. Keyed(rows') /\ loading' \in BOOLEAN /\ (source' = source \/ (remote /\ source' = "remote"))
      /\ (~remote /\ OnBots => rows' = {}) /\ hasty' \in BOOLEAN
  <2>1. Keyed(LocalRows(filter')) /\ (OnBots => LocalRows(filter') = {})
    BY LocalRowsAreServed, PartOfKeyed DEF Typed, TypedServer
  <2>2. (hasty \/ \E i \in Busy : calls[i].op # "load") \in BOOLEAN /\ (hasty \/ Busy # {}) \in BOOLEAN
    BY DEF Typed, TypedPage
  <2> QED BY <2>1, <2>2, FilterChanges DEF Typed, TypedPage, BeginReading, Acting
<1>4. TypedPage'
  <2>1. picked' \subseteq Keys
    BY <1>1 DEF Unticked, Typed, TypedPage
  <2> QED BY <1>1, <1>3, <2>1, StaysFixed DEF Typed, TypedPage
<1>5. TypedCalls'
  <2>1. CASE UNCHANGED calls
    BY <1>1, <2>1, CallsUntouched
  <2>2. CASE remote /\ calls' \in Ask(Dropped(calls), Call("load", None, FALSE, {}, filter', None))
    <3>1. /\ Dropped(calls) = [j \in 1..MaxCalls |-> Dropped(calls)[j]]
          /\ \A j \in 1..MaxCalls : Dropped(calls)[j] # None => IsCall(Dropped(calls)[j]) /\ remote
      BY DEF Typed, TypedCalls, Dropped, Busy
    <3>2. IsCall(Call("load", None, FALSE, {}, filter', None))
      BY NewCall
    <3> QED BY <1>1, <2>2, <3>1, <3>2, AskTyped
  <2> QED BY <2>1, <2>2, FilterChanges
<1> QED BY <1>2, <1>4, <1>5 DEF Typed

LEMMA AskOfPage ==
    ASSUME Typed, UNCHANGED fixed, remote, NEW c, IsCall(c), calls' \in Ask(calls, c)
    PROVE  TypedCalls'
BY AskTyped DEF Typed, TypedCalls, Busy

LEMMA ActingTyped == ASSUME Typed, Acting \/ UNCHANGED hasty PROVE hasty' \in BOOLEAN
BY DEF Typed, TypedPage, Acting

LEMMA ReloadTyped == ASSUME Typed, Reload PROVE Typed'
<1>1. TypedServer'
  BY ServerUntouched DEF Reload
<1>2. TypedPage'
  <2>1. hasty' \in BOOLEAN
    BY ActingTyped DEF Reload, Clicks
  <2>2. picked' \subseteq Keys /\ UNCHANGED <<fixed, filter, panel, detail, told>>
    BY DEF Reload, Typed, TypedPage
  <2>3. Keyed(LocalRows(filter)) /\ (OnBots => LocalRows(filter) = {})
    BY LocalRowsAreServed, PartOfKeyed DEF Typed, TypedServer
  <2>4. /\ Keyed(rows') /\ loading' \in BOOLEAN /\ (~remote /\ OnBots => rows' = {})
        /\ source' = source \/ (remote /\ source' = "remote")
    BY <2>3 DEF Reload, Typed, TypedPage, BeginReading
  <2> QED BY <2>1, <2>2, <2>4, StaysFixed DEF Typed, TypedPage
<1>3. TypedCalls'
  <2>1. CASE remote
    <3>1. IsCall(Call("reload", None, FALSE, {}, filter, None))
      BY NewCall
    <3> QED BY <2>1, <3>1, AskOfPage DEF Reload
  <2>2. CASE ~remote
    BY <2>2, CallsUntouched DEF Reload
  <2> QED BY <2>1, <2>2
<1> QED BY <1>1, <1>2, <1>3 DEF Typed

LEMMA TickTyped == ASSUME Typed, Tick PROVE Typed'
<1>1. TypedServer' /\ TypedCalls'
  BY ServerUntouched, CallsUntouched DEF Tick
<1>2. hasty' \in BOOLEAN
  BY ActingTyped DEF Tick
<1>3. picked' \subseteq Keys
  BY DEF Tick, Visible, Narrowed, OnScreen, Typed, TypedPage, Keyed, IsRecord
<1>4. TypedPage'
  BY <1>2, <1>3, StaysFixed DEF Tick, Typed, TypedPage, listing
<1> QED BY <1>1, <1>4 DEF Typed

LEMMA OpenActionTyped == ASSUME Typed, OpenAction PROVE Typed'
<1>1. TypedServer' /\ TypedCalls'
  BY ServerUntouched, CallsUntouched DEF OpenAction, ghosts
<1>2. PICK action \in Page.acts, on \in SUBSET rows, batch \in BOOLEAN :
        panel' = [action |-> action, on |-> on, batch |-> batch, busy |-> FALSE]
  BY DEF OpenAction, Visible, Narrowed, OnScreen, Chosen
<1>3. Keyed(on)
  BY PartOfKeyed DEF Typed, TypedPage
<1>4. TypedPage'
  BY <1>2, <1>3, StaysFixed DEF OpenAction, Typed, TypedPage, listing, ghosts
<1> QED BY <1>1, <1>4 DEF Typed

LEMMA BeginTyped ==
    ASSUME Typed, UNCHANGED fixed, remote, NEW action \in Page.acts, NEW batch, NEW rs, Keyed(rs),
           Begin(action, batch, rs)
    PROVE  /\ TypedCalls' /\ taken' \in [Keys -> Nat]
           /\ told' = None /\ hasty' \in BOOLEAN
<1>1. IsCall(Call("act", action, batch, Requests(rs), filter, None))
  BY NewCall, OneRequestEach
<1>2. TypedCalls'
  BY <1>1, AskOfPage DEF Begin
<1>3. hasty' \in BOOLEAN
  BY ActingTyped DEF Begin, Clicks
<1>4. taken' \in [Keys -> Nat]
  BY DEF Begin, Typed, TypedServer
<1> QED BY <1>2, <1>3, <1>4 DEF Begin

LEMMA AppliedIsChanged ==
    ASSUME NEW rs, NEW action
    PROVE  Applied(rs, action)
             = Changed(rows, {r \in rows : \E s \in rs : Target(s) = Target(r)}, action)
BY DEF Applied, Changed

\* A remote page sends the action, a local one applies it to its draft, and one whose reading
\* failed refuses it.
LEMMA Submits ==
    ASSUME Typed, SubmitAction
    PROVE  /\ panel.action # None /\ UNCHANGED <<fixed, server, loading, source, filter, detail>>
           /\ \/ /\ remote /\ Begin(panel.action, panel.batch, panel.on)
                 /\ panel' = [panel EXCEPT !.busy = TRUE]
                 /\ UNCHANGED <<rows, picked>>
              \/ /\ ~remote /\ rows' = Applied(panel.on, panel.action)
                 /\ picked' = (IF InDrawer(panel.action, panel.batch) \/ panel.batch THEN {} ELSE picked)
                 /\ panel' = NoPanel /\ told' = {} /\ Clicks
                 /\ UNCHANGED <<calls, taken>>
              \/ /\ panel' \in {panel, NoPanel} /\ told' = None /\ Clicks
                 /\ UNCHANGED <<rows, picked, calls, taken>>
<1>1. source = "remote" => remote
  BY DEF Typed, TypedPage
<1>2. CASE source = "remote"
  BY <1>1, <1>2 DEF SubmitAction
<1>3. CASE ~remote
  BY <1>1, <1>3 DEF SubmitAction
<1>4. CASE remote /\ source # "remote"
  BY <1>4 DEF SubmitAction
<1> QED BY <1>2, <1>3, <1>4

LEMMA SubmitActionTyped == ASSUME Typed, SubmitAction PROVE Typed'
<1>1. panel.action \in Page.acts /\ UNCHANGED <<fixed, server, loading, source, filter, detail>>
  BY Submits DEF Typed, TypedPage
<1>2. CASE /\ remote /\ Begin(panel.action, panel.batch, panel.on)
           /\ panel' = [panel EXCEPT !.busy = TRUE] /\ UNCHANGED <<rows, picked>>
  <2>1. /\ TypedCalls' /\ taken' \in [Keys -> Nat] /\ told' = None /\ hasty' \in BOOLEAN
    BY <1>1, <1>2, BeginTyped DEF Typed, TypedPage
  <2>2. panel' = [action |-> panel.action, on |-> panel.on, batch |-> panel.batch, busy |-> TRUE]
    <3>1. PICK action, on, batch, busy :
            panel = [action |-> action, on |-> on, batch |-> batch, busy |-> busy]
      BY DEF Typed, TypedPage
    <3>2. \A x : [panel EXCEPT !.busy = x]
                  = [action |-> panel.action, on |-> panel.on, batch |-> panel.batch, busy |-> x]
      BY <3>1
    <3> QED BY <1>2, <3>2
  <2>3. TypedPage'
    BY <1>1, <1>2, <2>1, <2>2, StaysFixed DEF Typed, TypedPage
  <2>4. TypedServer'
    BY <1>1, <2>1, StaysFixed DEF Typed, TypedServer, server
  <2> QED BY <2>1, <2>3, <2>4 DEF Typed
<1>3. CASE /\ ~remote /\ rows' = Applied(panel.on, panel.action)
           /\ picked' = (IF InDrawer(panel.action, panel.batch) \/ panel.batch THEN {} ELSE picked)
           /\ panel' = NoPanel /\ told' = {} /\ Clicks /\ UNCHANGED <<calls, taken>>
  <2>1. Keyed(rows') /\ (rows = {} => rows' = {})
    <3>1. Keyed(Applied(panel.on, panel.action))
      BY AppliedIsChanged, ChangedIsKeyed DEF Typed, TypedPage
    <3>2. rows = {} => Applied(panel.on, panel.action) = {}
      BY DEF Applied
    <3> QED BY <1>3, <3>1, <3>2
  <2>2. hasty' \in BOOLEAN
    BY <1>3, ActingTyped DEF Clicks
  <2>3. Keyed({})
    BY DEF Keyed
  <2>4. TypedPage'
    BY <1>1, <1>3, <2>1, <2>2, <2>3, StaysFixed DEF Typed, TypedPage, NoPanel
  <2> QED BY <1>1, <1>3, <2>4, ServerUntouched, CallsUntouched DEF Typed
<1>4. CASE panel' \in {panel, NoPanel} /\ told' = None /\ Clicks /\ UNCHANGED <<rows, picked, calls, taken>>
  <2>1. hasty' \in BOOLEAN
    BY <1>4, ActingTyped DEF Clicks
  <2>2. Keyed({})
    BY DEF Keyed
  <2>3. TypedPage'
    BY <1>1, <1>4, <2>1, <2>2, StaysFixed DEF Typed, TypedPage, NoPanel
  <2> QED BY <1>1, <1>4, <2>3, ServerUntouched, CallsUntouched DEF Typed
<1> QED BY <1>2, <1>3, <1>4, Submits

LEMMA RetryAtOnceTyped == ASSUME Typed, RetryAtOnce PROVE Typed'
<1>1. UNCHANGED <<fixed, server, listing, filter, picked, panel, detail>>
  BY DEF RetryAtOnce
<1>2. PICK action \in Page.acts, batch \in BOOLEAN, rs \in SUBSET rows :
        AtOnce(action) /\ rs # {} /\ Begin(action, batch, rs)
  BY DEF RetryAtOnce, Visible, Narrowed, OnScreen, Chosen
<1>3. remote
  <2>1. table = "botDeliveries"
    BY <1>2 DEF AtOnce, Typed, TypedPage, Tables, Page, Orders, Payments, Proofs, Callbacks,
                Watchers, Fulfillments, CodeIssues, Deliveries, Tickets, Customers, Bindings,
                BotDeliveries, RecentOrders, UrgentTickets, ProviderHealth
  <2> QED BY <1>2, <2>1 DEF Typed, TypedPage, OnBots
<1>4. Keyed(rs)
  BY PartOfKeyed DEF Typed, TypedPage
<1>5. TypedCalls' /\ taken' \in [Keys -> Nat] /\ told' = None /\ hasty' \in BOOLEAN
  BY <1>1, <1>2, <1>3, <1>4, BeginTyped
<1>6. TypedServer'
  BY <1>1, <1>5, StaysFixed DEF Typed, TypedServer, server
<1>7. TypedPage'
  BY <1>1, <1>5, StaysFixed DEF Typed, TypedPage, listing
<1> QED BY <1>5, <1>6, <1>7 DEF Typed

LEMMA CloseActionTyped == ASSUME Typed, CloseAction PROVE Typed'
<1>1. TypedServer' /\ TypedCalls'
  BY ServerUntouched, CallsUntouched DEF CloseAction, ghosts
<1>2. Keyed({})
  BY DEF Keyed
<1>3. TypedPage'
  BY <1>2, StaysFixed DEF CloseAction, NoPanel, Typed, TypedPage, listing, ghosts
<1> QED BY <1>1, <1>3 DEF Typed

LEMMA OpenDetailTyped == ASSUME Typed, OpenDetail PROVE Typed'
<1>1. UNCHANGED <<fixed, server, listing, filter, picked, panel, taken, told>>
  BY DEF OpenDetail
<1>2. PICK r \in rows :
        /\ \/ remote /\ calls' \in Ask(calls, Call("detail", None, FALSE, {}, None, r.key)) /\ Clicks
           \/ UNCHANGED <<calls, hasty>>
        /\ detail'.on = r.key
  <2>1. source = "remote" => remote
    BY DEF Typed, TypedPage
  <2>2. PICK r \in Visible :
           IF source = "remote" /\ table # "bindings"
           THEN /\ calls' \in Ask(calls, Call("detail", None, FALSE, {}, None, r.key))
                /\ detail' = [on |-> r.key, loading |-> TRUE, data |-> None]
                /\ Clicks
           ELSE /\ detail' = [on |-> r.key, loading |-> FALSE, data |-> r.key]
                /\ UNCHANGED <<calls, clicks, hasty>>
    BY DEF OpenDetail
  <2>3. \E l, d : detail' = [on |-> r.key, loading |-> l, data |-> d]
    BY <2>2, Zenon
  <2>4. r \in rows /\ detail'.on = r.key
    BY <2>3 DEF Visible, Narrowed, OnScreen
  <2>5. \/ source = "remote" /\ calls' \in Ask(calls, Call("detail", None, FALSE, {}, None, r.key)) /\ Clicks
        \/ UNCHANGED <<calls, hasty>>
    <3>1. CASE source = "remote" /\ table # "bindings"
      BY <2>2, <3>1
    <3>2. CASE ~(source = "remote" /\ table # "bindings")
      BY <2>2, <3>2
    <3> QED BY <3>1, <3>2
  <2> QED BY <2>1, <2>4, <2>5
<1>3. r.key \in Keys
  BY DEF Typed, TypedPage, Keyed, IsRecord
<1>4. TypedCalls'
  <2>1. IsCall(Call("detail", None, FALSE, {}, None, r.key))
    BY <1>3, NewCall
  <2> QED BY <1>1, <1>2, <2>1, AskOfPage, CallsUntouched
<1>5. hasty' \in BOOLEAN
  BY <1>2, ActingTyped DEF Clicks
<1>6. TypedPage'
  BY <1>1, <1>2, <1>3, <1>5, StaysFixed DEF Typed, TypedPage, listing
<1> QED BY <1>1, <1>4, <1>6, ServerUntouched DEF Typed

LEMMA CloseDetailTyped == ASSUME Typed, CloseDetail PROVE Typed'
<1>1. TypedServer' /\ TypedCalls'
  BY ServerUntouched, CallsUntouched DEF CloseDetail, ghosts
<1>2. TypedPage'
  BY StaysFixed DEF CloseDetail, NoDetail, Typed, TypedPage, listing, ghosts
<1> QED BY <1>1, <1>2 DEF Typed

LEMMA StutterTyped == ASSUME Typed, UNCHANGED vars PROVE Typed'
<1>1. TypedServer' /\ TypedCalls'
  BY ServerUntouched, CallsUntouched DEF vars, fixed, server
<1>2. TypedPage'
  BY PageUntouched DEF vars, fixed, listing, Typed
<1> QED BY <1>1, <1>2 DEF Typed

LEMMA InitTyped == Init => Typed
<1> SUFFICES ASSUME Init PROVE Typed
  OBVIOUS
<1>1. PICK is \in [Keys -> IF remote THEN Served ELSE Demo], first \in Keys :
        store = {Record(k, OrderOf(k, first), is[k]) : k \in Keys}
  BY DEF Init
<1>2. Keyed(store) /\ {r.key : r \in store} = Keys /\ \A r \in store : r.lost = {}
  <2> DEFINE R(k) == Record(k, OrderOf(k, first), is[k])
  <2>1. table = "botDeliveries" => \A k \in Keys : DOMAIN is[k] = {"status"}
    BY DEF Served, Demo
  <2>2. \A k \in Keys : IsRecord(R(k)) /\ R(k).key = k /\ R(k).lost = {}
    BY <2>1 DEF IsRecord, Record, OrderOf
  <2> HIDE DEF R
  <2>3. store = {R(k) : k \in Keys}
    BY <1>1 DEF R
  <2> QED BY <2>2, <2>3 DEF Keyed
<1>3. Keyed(rows) /\ (OnBots => rows = {})
  <2>1. Keyed({})
    BY DEF Keyed
  <2> QED BY <1>2, <2>1, LocalRowsAreServed, PartOfKeyed DEF Init
<1>4. TypedServer
  BY <1>2 DEF Init, TypedServer
<1>5. Keyed({})
  BY DEF Keyed
<1>6. TypedPage
  BY <1>3, <1>5, ListAssumption DEF Init, TypedPage, NoPanel, NoDetail
<1>7. TypedCalls
  <2>1. IsCall(Call("load", None, FALSE, {}, None, None))
    BY NewCall
  <2> QED BY <2>1 DEF Init, TypedCalls, Busy
<1> QED BY <1>4, <1>6, <1>7 DEF Typed

LEMMA LookTyped == ASSUME Typed, SwitchTab \/ SearchRows PROVE Typed'
<1>1. TypedServer' /\ TypedCalls'
  BY ServerUntouched, CallsUntouched DEF SwitchTab, SearchRows
<1>2. TypedPage'
  BY StaysFixed DEF SwitchTab, SearchRows, Typed, TypedPage, listing
<1> QED BY <1>1, <1>2 DEF Typed

LEMMA AnswersTyped == ASSUME Typed, NEW i \in 1..MaxCalls, Answers(i) PROVE Typed'
BY ServeListTyped, ServeDetailTyped, ServeWriteTyped, ServeLateTyped, WriteLandedTyped,
   ListLandedTyped, DetailLandedTyped DEF Answers

LEMMA NextTyped == ASSUME Typed, [Next]_vars PROVE Typed'
<1>1. CASE Operator
  BY <1>1, ChangeFilterTyped, LookTyped, ReloadTyped, TickTyped, OpenActionTyped, SubmitActionTyped,
     RetryAtOnceTyped, CloseActionTyped, OpenDetailTyped, CloseDetailTyped DEF Operator
<1>2. CASE ServerMoves
  BY <1>2, ServerMovesTyped
<1>3. CASE \E i \in 1..MaxCalls : Answers(i)
  BY <1>3, AnswersTyped
<1>4. CASE UNCHANGED vars
  BY <1>4, StutterTyped
<1> QED BY <1>1, <1>2, <1>3, <1>4 DEF Next

LEMMA FixedKept == [Next]_vars => UNCHANGED fixed
BY DEF Next, vars, fixed, Operator, ChangeFilter, SwitchTab, SearchRows, Reload, Tick, OpenAction,
       SubmitAction, RetryAtOnce, CloseAction, OpenDetail, CloseDetail, ServerMoves, Answers, ServeList,
       ServeDetail, ServeWrite, ServeLate, WriteLanded, ListLanded, DetailLanded

LEMMA ViewTyped == ASSUME TypedView, [Next]_vars PROVE TypedView'
<1>1. UNCHANGED fixed /\ (table' = table => Tabs' = Tabs /\ (Searched' <=> Searched))
  BY FixedKept DEF Tabs, Searched
<1>2. CASE UNCHANGED view
  BY <1>1, <1>2 DEF TypedView, fixed, view
<1>3. CASE SwitchTab \/ SearchRows
  BY <1>1, <1>3 DEF SwitchTab, SearchRows, TypedView, fixed
<1>4. UNCHANGED view \/ SwitchTab \/ SearchRows
  BY DEF Next, Operator, Answers, ChangeFilter, Reload, Tick, OpenAction, SubmitAction, RetryAtOnce,
         CloseAction, OpenDetail, CloseDetail, ServerMoves, ServeList, ServeDetail, ServeWrite,
         ServeLate, WriteLanded, ListLanded, DetailLanded, vars, view
<1> QED BY <1>2, <1>3, <1>4

LEMMA KeysBound ==
    ASSUME NEW rs, Keyed(rs)
    PROVE  /\ Cardinality(rs) <= Cardinality(Keys)
           /\ {r.key : r \in rs} = Keys => Cardinality(rs) = Cardinality(Keys)
<1> DEFINE f == [r \in rs |-> r.key]
<1>1. f \in Injection(rs, Keys)
  BY DEF Injection, IsInjective, Keyed, IsRecord
<1>2. {r.key : r \in rs} = Keys => f \in Surjection(rs, Keys)
  BY <1>1 DEF Injection, Surjection
<1> HIDE DEF f
<1>3. IsFiniteSet(Keys)
  BY ListAssumption
<1> QED BY <1>1, <1>2, <1>3, FS_Injection

LEMMA TypedIsTypeOK == Typed /\ TypedView => TypeOK
<1> SUFFICES ASSUME Typed, TypedView PROVE TypeOK
  OBVIOUS
<1>1. /\ {r.key : r \in store} = Keys /\ {r.key : r \in rows} \subseteq Keys
      /\ panel.on \subseteq {r \in panel.on : r.key \in Keys}
  BY DEF Typed, TypedServer, TypedPage, Keyed, IsRecord
<1>2. Cardinality(store) = Cardinality(Keys) /\ Cardinality(rows) <= Cardinality(Keys)
  BY <1>1, KeysBound DEF Typed, TypedServer, TypedPage
<1>3. \A i \in Busy : calls[i].op = "late" \/ calls[i].at \in DOMAIN Script(calls[i].op)
  BY ScriptOf DEF Typed, TypedCalls
<1> QED BY <1>1, <1>2, <1>3 DEF Typed, TypedPage, TypedView, TypeOK

\* The page holds one row for each record, and a selection, an open dialog or drawer, an answer on
\* its way and a success message speak of records there are; a handler stands at a step of its
\* script.
THEOREM ListIsTyped == Spec => []TypeOK
<1>1. Init => Typed /\ TypedView
  BY InitTyped DEF Init, TypedView, Tabs
<1>2. Typed /\ TypedView /\ [Next]_vars => (Typed /\ TypedView)'
  BY NextTyped, ViewTyped
<1>3. Typed /\ TypedView => TypeOK
  BY TypedIsTypeOK
<1> QED BY <1>1, <1>2, <1>3, PTL DEF Spec

---------------------------------------------------------------------------
(* One handler at a time *)

\* An operator who is not hasty asks when no handler is in progress.
LEMMA AskedAlone ==
    ASSUME Typed, NEW c, calls' \in Ask(calls, c), Acting, ~hasty'
    PROVE  ~hasty /\ \A i \in Busy' : calls'[i] = c /\ \A j \in Busy' : j = i
<1>1. PICK i \in 1..MaxCalls : calls' = [calls EXCEPT ![i] = c]
  BY DEF Ask, Typed, TypedCalls
<1>2. ~hasty /\ Busy = {}
  BY DEF Acting, Typed, TypedPage
<1>3. calls' = [j \in 1..MaxCalls |-> IF j = i THEN c ELSE calls[j]]
  BY <1>1 DEF Typed, TypedCalls
<1>4. \A j \in 1..MaxCalls : calls[j] = None
  BY <1>2 DEF Busy, Typed, TypedCalls
<1> QED BY <1>2, <1>3, <1>4 DEF Busy

\* A filter that starts a reading drops the one before it.
LEMMA FilteredAlone ==
    ASSUME Typed, NEW c, calls' \in Ask(Dropped(calls), c),
           hasty' = (hasty \/ \E i \in Busy : calls[i].op # "load"), ~hasty'
    PROVE  ~hasty /\ \A i \in Busy' : calls'[i] = c /\ \A j \in Busy' : j = i
<1> DEFINE cs == Dropped(calls)
<1>1. ~hasty /\ \A i \in Busy : calls[i].op = "load"
  BY DEF Typed, TypedPage
<1>2. cs = [j \in 1..MaxCalls |-> None]
  BY <1>1 DEF Dropped, Busy, Typed, TypedCalls
<1> HIDE DEF cs
<1>3. PICK i \in 1..MaxCalls : calls' = [cs EXCEPT ![i] = c]
  BY <1>2 DEF Ask, cs
<1>4. calls' = [j \in 1..MaxCalls |-> IF j = i THEN c ELSE None]
  BY <1>2, <1>3
<1> QED BY <1>1, <1>4 DEF Busy

\* An answer is to the one handler in progress.
LEMMA AnsweredAlone ==
    ASSUME Typed, OneAtATime, NEW i \in 1..MaxCalls, calls[i] # None, NEW d,
           calls' = [calls EXCEPT ![i] = d], UNCHANGED hasty, ~hasty'
    PROVE  ~hasty /\ i \in Busy /\ \A j \in Busy' : j = i /\ calls'[j] = d
<1>1. ~hasty /\ i \in Busy /\ \A j \in Busy : j = i
  BY DEF OneAtATime, Busy, Typed, TypedCalls
<1>2. calls' = [j \in 1..MaxCalls |-> IF j = i THEN d ELSE calls[j]]
  BY DEF Typed, TypedCalls
<1> QED BY <1>1, <1>2 DEF Busy

\* What an answer leaves in the place of its call.
LEMMA ListServed ==
    ASSUME Typed, NEW i \in 1..MaxCalls, ServeList(i)
    PROVE  /\ Reads(calls[i]) /\ calls[i].op # "late"
           /\ \E ans :
                /\ calls' = [calls EXCEPT ![i] = With(calls[i], calls[i].at, calls[i].left,
                                                      calls[i].failed, ans)]
                /\ \/ ans = Listed(calls[i].fl) /\ stale' = FALSE
                   \/ ans = Failed /\ UNCHANGED stale
<1>1. IsCall(calls[i]) /\ Reads(calls[i]) /\ calls[i].op # "late"
  BY CallTyped, ScriptOf DEF ServeList
<1>2. PICK ans : /\ \/ ans = Listed(calls[i].fl) /\ stale' = FALSE
                    \/ ans = Failed /\ UNCHANGED stale
                 /\ calls' = [calls EXCEPT ![i].ans = ans]
  BY DEF ServeList
<1> QED BY <1>1, <1>2, CallFields DEF With

LEMMA WriteServed ==
    ASSUME Typed, NEW i \in 1..MaxCalls, ServeWrite(i)
    PROVE  /\ IsCall(calls[i]) /\ Writes(calls[i]) /\ calls[i].ans = Waiting
           /\ \E w \in calls[i].left, ok \in BOOLEAN :
                /\ Take(w, calls[i].action) \/ (~ok /\ UNCHANGED <<server, taken>>)
                /\ calls' = [calls EXCEPT ![i] = Written(calls[i], w, ok)]
<1> DEFINE c == calls[i]
<1>1. IsCall(c) /\ Writes(c)
  BY CallTyped DEF ServeWrite, Writes
<1>2. PICK w \in c.left, ok \in BOOLEAN :
        /\ Take(w, c.action) \/ (~ok /\ UNCHANGED <<server, taken>>)
        /\ calls' = [calls EXCEPT ![i].left = @ \ {w}, ![i].failed = @ \/ ~ok,
                                  ![i].ans = Settled(c, w, ok)]
  BY DEF ServeWrite
<1>3. calls' = [calls EXCEPT ![i] = [c EXCEPT !.left = @ \ {w}, !.failed = @ \/ ~ok,
                                            !.ans = Settled(c, w, ok)]]
  BY <1>2 DEF Typed, TypedCalls
<1>4. [c EXCEPT !.left = @ \ {w}, !.failed = @ \/ ~ok, !.ans = Settled(c, w, ok)] = Written(c, w, ok)
  BY <1>1, WritesOne, Zenon
<1>5. calls' = [calls EXCEPT ![i] = Written(c, w, ok)]
  BY <1>3, <1>4
<1>6. c.ans = Waiting
  BY DEF ServeWrite
<1> QED BY <1>1, <1>2, <1>5, <1>6

\* Written or late, failed or read to the end: the call is gone, or is late.
LEMMA CallEnded ==
    ASSUME Typed, NEW i \in 1..MaxCalls, calls[i] # None, Ends(i)
    PROVE  \E d : calls' = [calls EXCEPT ![i] = d] /\ (d # None => d.op = "late")
<1>1. calls' = [calls EXCEPT ![i] = IF calls[i].left = {} THEN None ELSE [calls[i] EXCEPT !.op = "late"]]
  BY DEF Ends
<1>2. [calls[i] EXCEPT !.op = "late"].op = "late"
  <2> DEFINE c == calls[i]
  <2>1. IsCall(c)
    BY CallTyped
  <2> HIDE DEF c
  <2>2. [c EXCEPT !.op = "late"].op = "late"
    BY <2>1 DEF IsCall
  <2> QED BY <2>2 DEF c
<1> QED BY <1>1, <1>2

LEMMA LateServed ==
    ASSUME Typed, NEW i \in 1..MaxCalls, ServeLate(i)
    PROVE  \E d : calls' = [calls EXCEPT ![i] = d] /\ (d # None => d.op = "late")
<1>1. IsCall(calls[i]) /\ calls[i].op = "late"
  BY CallTyped DEF ServeLate
<1>2. PICK w : calls' = [calls EXCEPT ![i] = IF calls[i].left = {w} THEN None
                                            ELSE [calls[i] EXCEPT !.left = @ \ {w}]]
  BY DEF ServeLate
<1>3. [calls[i] EXCEPT !.left = @ \ {w}].op = "late"
  <2> DEFINE c == calls[i]
  <2>1. IsCall(c) /\ c.op = "late"
    BY <1>1
  <2> HIDE DEF c
  <2>2. [c EXCEPT !.left = @ \ {w}].op = "late"
    BY <2>1 DEF IsCall
  <2> QED BY <2>2 DEF c
<1> QED BY <1>2, <1>3

LEMMA AnswersReplace ==
    ASSUME Typed, NEW i \in 1..MaxCalls, Answers(i)
    PROVE  calls[i] # None /\ UNCHANGED hasty /\ \E d : calls' = [calls EXCEPT ![i] = d]
<1>1. CASE ServeList(i)
  BY <1>1, ListServed DEF ServeList, ghosts
<1>2. CASE ServeDetail(i)
  <2>1. \E ans : calls' = [calls EXCEPT ![i].ans = ans]
    BY <1>2 DEF ServeDetail
  <2> QED BY <1>2, <2>1 DEF ServeDetail, ghosts
<1>3. CASE ServeWrite(i)
  BY <1>3, WriteServed DEF ServeWrite
<1>4. CASE ServeLate(i)
  BY <1>4, LateServed DEF ServeLate, ghosts
<1>5. CASE WriteLanded(i)
  <2>1. calls[i] # None /\ Writes(calls[i]) /\ UNCHANGED fixed /\ UNCHANGED hasty
    BY <1>5 DEF WriteLanded, Writes
  <2>2. (calls[i].ans = Done /\ GoesOn(i)) \/ Ends(i)
    BY <1>5 DEF WriteLanded
  <2> QED BY <2>1, <2>2, GoesOnTyped, CallEnded
<1>6. CASE ListLanded(i)
  BY <1>6, CallEnded DEF ListLanded
<1>7. CASE DetailLanded(i)
  BY <1>7, CallEnded DEF DetailLanded, ghosts
<1> QED BY <1>1, <1>2, <1>3, <1>4, <1>5, <1>6, <1>7 DEF Answers

\* The steps of the operator that ask, and those that do not.
Asked == \E c : \/ calls' \in Ask(calls, c) /\ Acting
                \/ /\ calls' \in Ask(Dropped(calls), c)
                   /\ hasty' = (hasty \/ \E i \in Busy : calls[i].op # "load")
Unasked == UNCHANGED calls /\ (Acting \/ UNCHANGED hasty)

LEMMA OperatorAsks == ASSUME Typed, Operator PROVE Asked \/ Unasked
<1>1. CASE ChangeFilter
  BY <1>1, FilterChanges DEF Asked, Unasked
<1>2. CASE Reload
  BY <1>2 DEF Reload, Clicks, Asked, Unasked
<1>3. CASE SwitchTab \/ SearchRows \/ Tick \/ OpenAction \/ CloseAction \/ CloseDetail
  BY <1>3 DEF SwitchTab, SearchRows, Tick, OpenAction, CloseAction, CloseDetail, ghosts, Unasked
<1>4. CASE SubmitAction
  BY <1>4, Submits DEF Begin, Clicks, Asked, Unasked
<1>5. CASE RetryAtOnce
  BY <1>5 DEF RetryAtOnce, Begin, Clicks, Asked
<1>6. CASE OpenDetail
  <2>1. PICK r \in Visible :
           IF source = "remote" /\ table # "bindings"
           THEN /\ calls' \in Ask(calls, Call("detail", None, FALSE, {}, None, r.key))
                /\ detail' = [on |-> r.key, loading |-> TRUE, data |-> None]
                /\ Clicks
           ELSE /\ detail' = [on |-> r.key, loading |-> FALSE, data |-> r.key]
                /\ UNCHANGED <<calls, clicks, hasty>>
    BY <1>6 DEF OpenDetail
  <2>2. CASE source = "remote" /\ table # "bindings"
    BY <2>1, <2>2 DEF Clicks, Asked
  <2>3. CASE ~(source = "remote" /\ table # "bindings")
    BY <2>1, <2>3 DEF Unasked
  <2> QED BY <2>2, <2>3
<1> QED BY <1>1, <1>2, <1>3, <1>4, <1>5, <1>6 DEF Operator

LEMMA OneAtATimeKept == ASSUME Typed, OneAtATime, [Next]_vars PROVE OneAtATime'
<1> SUFFICES ASSUME ~hasty' PROVE \A i, j \in Busy' : i = j
  BY DEF OneAtATime
<1>1. CASE Operator
  <2>1. CASE Asked
    BY <2>1, AskedAlone, FilteredAlone DEF Asked
  <2>2. CASE Unasked
    BY <2>2 DEF Unasked, Acting, OneAtATime, Busy
  <2> QED BY <1>1, <2>1, <2>2, OperatorAsks
<1>2. CASE ServerMoves \/ UNCHANGED vars
  BY <1>2 DEF ServerMoves, vars, ghosts, OneAtATime, Busy
<1>3. CASE \E i \in 1..MaxCalls : Answers(i)
  BY <1>3, AnswersReplace, AnsweredAlone
<1> QED BY <1>1, <1>2, <1>3 DEF Next

---------------------------------------------------------------------------
(* The local draft of the orders *)

LEMMA WholeIsSeen ==
    ASSUME NEW r, r.lost = {}, r.is = [f \in DOMAIN r.is |-> r.is[f]]
    PROVE  Seen(r) = r.is
<1>1. \A f \in DOMAIN r.is : Value(r, f) = r.is[f]
  BY DEF Value
<1>2. Seen(r) = [f \in DOMAIN r.is |-> r.is[f]]
  BY <1>1 DEF Seen
<1> QED BY <1>2

\* An action the page allows leaves a sound order sound.
LEMMA OrderStep ==
    ASSUME NEW o, IsSound(o), NEW action \in Orders.acts, CanRunOrderAction(o, action)
    PROVE  IsSound(IF action = "confirm_payment" THEN OrderConfirmed(o) ELSE OrderAfter(o, action))
<1>1. PICK p, s, d, c : o = [paymentStatus |-> p, orderStatus |-> s, deliveryStatus |-> d, deliveryChannel |-> c]
  BY DEF IsSound, Order
<1>2. /\ o.paymentStatus = p /\ o.orderStatus = s /\ o.deliveryStatus = d /\ o.deliveryChannel = c
  BY <1>1
<1>3. /\ s \in {"issuing", "delivery_pending", "delivered", "completed"} => p = "paid"
      /\ s \notin {"failed", "issued"} /\ d # "failed"
  BY <1>2 DEF IsSound
<1>4. ASSUME NEW p1, NEW s1, NEW d1,
             s1 \in {"issuing", "delivery_pending", "delivered", "completed"} => p1 = "paid",
             s1 \notin {"failed", "issued"}, d1 # "failed"
      PROVE  IsSound(Order(p1, s1, d1, c))
  BY <1>4 DEF IsSound, Order
<1>5. CASE action = "confirm_payment"
  <2>1. OrderConfirmed(o)
          = Order("paid", IF s \in {"paid_pending_review", "awaiting_payment"}
                          THEN "payment_confirmed" ELSE s, d, c)
    BY <1>2 DEF OrderConfirmed
  <2> QED BY <1>3, <1>4, <1>5, <2>1
<1>6. CASE action = "reject_payment"
  <2>1. OrderAfter(o, action) = Order("unpaid", "awaiting_payment", "pending", c)
    BY <1>2, <1>6 DEF OrderAfter
  <2> QED BY <1>4, <1>6, <2>1
<1>7. CASE action \in {"fulfill", "retry_fulfillment"}
  <2>1. OrderAfter(o, action) = Order(p, "issuing", "pending", c)
    BY <1>2, <1>7 DEF OrderAfter
  <2>2. p = "paid"
    BY <1>2, <1>3, <1>7 DEF CanRunOrderAction, CanFulfill, CanRetryFulfillment
  <2> QED BY <1>4, <1>7, <2>1, <2>2
<1>8. CASE action = "deliver"
  <2>1. p = "paid"
    BY <1>2, <1>3, <1>8 DEF CanRunOrderAction, CanDeliver
  <2>2. \/ OrderAfter(o, action) = Order(p, "delivery_pending", "pending", c)
        \/ OrderAfter(o, action) = Order(p, "delivered", "sent", c)
    BY <1>2, <1>8 DEF OrderAfter
  <2> QED BY <1>4, <1>8, <2>1, <2>2
<1>9. CASE action = "complete_delivery"
  <2>1. p = "paid"
    BY <1>2, <1>3, <1>9 DEF CanRunOrderAction, HasPendingManualDelivery
  <2>2. OrderAfter(o, action) = Order(p, "completed", "sent", c)
    BY <1>2, <1>9 DEF OrderAfter
  <2> QED BY <1>4, <1>9, <2>1, <2>2
<1>10. CASE action = "retry_delivery"
  BY <1>2, <1>3, <1>10 DEF CanRunOrderAction, CanRetryDelivery
<1>11. CASE action = "cancel"
  <2>1. OrderAfter(o, action) = Order(p, "cancelled", "cancelled", c)
    BY <1>2, <1>11 DEF OrderAfter
  <2> QED BY <1>4, <1>11, <2>1
<1>12. CASE action \in {"refund_mark", "refund_original"}
  <2>1. OrderAfter(o, action) = Order("refunded", "refunded", "cancelled", c)
    BY <1>2, <1>12 DEF OrderAfter
  <2> QED BY <1>4, <1>12, <2>1
<1>13. CASE action = "resend"
  <2>1. OrderAfter(o, action) = Order(p, s, "sent", c)
    BY <1>2, <1>13 DEF OrderAfter
  <2> QED BY <1>3, <1>4, <1>13, <2>1
<1> QED BY <1>5, <1>6, <1>7, <1>8, <1>9, <1>10, <1>11, <1>12, <1>13 DEF Orders

LEMMA DraftStep ==
    ASSUME table = "orders", NEW r, IsRecord(r), r.lost = {}, IsSound(r.is),
           NEW action \in Page.acts, Eligible(r, action)
    PROVE  [r EXCEPT !.is = After(@, action)].lost = {} /\ IsSound([r EXCEPT !.is = After(@, action)].is)
<1>1. r.is = [f \in DOMAIN r.is |-> r.is[f]]
  BY DEF IsSound, Order
<1>2. action \in Orders.acts /\ action \notin {"resend_record", "retry_record"}
  BY OrdersPage DEF Orders
<1>3. CanRunOrderAction(r.is, action)
  BY <1>1, <1>2, WholeIsSeen DEF Eligible
<1>4. After(r.is, action) = IF action = "confirm_payment" THEN OrderConfirmed(r.is) ELSE OrderAfter(r.is, action)
  BY DEF After
<1>5. IsSound(After(r.is, action))
  BY <1>2, <1>3, <1>4, OrderStep
<1>6. [r EXCEPT !.is = After(@, action)]
        = [key |-> r.key, order |-> r.order, is |-> After(r.is, action), lost |-> r.lost]
  BY DEF IsRecord
<1> QED BY <1>5, <1>6

\* In the draft there is nobody to answer and no action without a dialog.
LEMMA LocalOrdersStep ==
    ASSUME Typed, table = "orders", ~remote, [Next]_vars
    PROVE  \/ ChangeFilter \/ Reload \/ OpenAction \/ SubmitAction
           \/ UNCHANGED <<store, rows>> /\ (panel' = panel \/ panel' = NoPanel)
<1>1. ASSUME NEW i \in 1..MaxCalls, Answers(i) PROVE FALSE
  BY <1>1, AnswersReplace DEF Typed, TypedCalls, Busy
<1>2. ~RetryAtOnce
  <2>1. "retry_delivered" \notin Page.acts
    BY OrdersPage DEF Orders
  <2> QED BY <2>1 DEF RetryAtOnce, AtOnce
<1>3. \/ SwitchTab \/ SearchRows \/ Tick \/ CloseAction \/ OpenDetail \/ CloseDetail \/ UNCHANGED vars
      => UNCHANGED <<store, rows>> /\ (panel' = panel \/ panel' = NoPanel)
  BY DEF SwitchTab, SearchRows, Tick, CloseAction, OpenDetail, CloseDetail, vars, server, listing
<1> QED BY <1>1, <1>2, <1>3 DEF Next, Operator, ServerMoves

LEMMA DraftKept == ASSUME Typed, DraftIsSound, [Next]_vars PROVE DraftIsSound'
<1>1. UNCHANGED fixed /\ remote' = remote /\ table' = table
  BY FixedKept, StaysFixed
<1> SUFFICES ASSUME table = "orders", ~remote PROVE DraftIsSound'
  BY <1>1 DEF DraftIsSound
<1>2. \A r \in store \cup rows : r.lost = {} /\ IsSound(r.is)
  BY DEF DraftIsSound
<1>3. \A r, action : Eligible(r, action)' <=> Eligible(r, action)
  BY <1>1 DEF Eligible
<1>4. ASSUME store' \subseteq store, rows' \subseteq store \cup rows,
             panel'.action # None => \A r \in panel'.on : r \in rows' /\ Eligible(r, panel'.action)
      PROVE  DraftIsSound'
  BY <1>2, <1>3, <1>4 DEF DraftIsSound
<1>5. CASE ChangeFilter
  <2>1. rows' \subseteq store /\ UNCHANGED <<store, panel>>
    BY <1>5, FilterChanges, LocalRowsAreServed, OrdersPage DEF server
  <2>2. panel.action = None
    BY <1>5 DEF ChangeFilter, Unmasked
  <2> QED BY <1>4, <2>1, <2>2
<1>6. CASE Reload
  <2>1. rows' \subseteq store /\ UNCHANGED <<store, panel>> /\ panel.action = None
    BY <1>6, LocalRowsAreServed DEF Reload, Unmasked, server
  <2> QED BY <1>4, <2>1
<1>7. CASE OpenAction
  <2>1. UNCHANGED <<store, rows>>
    BY <1>7 DEF OpenAction, server, listing
  <2>2. PICK action, on, batch :
          /\ panel' = [action |-> action, on |-> on, batch |-> batch, busy |-> FALSE]
          /\ \A r \in on : r \in rows /\ Eligible(r, action)
    BY <1>7 DEF OpenAction, Visible, Narrowed, OnScreen, Chosen
  <2> QED BY <1>4, <2>1, <2>2
<1>8. CASE SubmitAction
  <2>1. UNCHANGED store
    BY <1>8, Submits DEF server
  <2>2. CASE rows' = Applied(panel.on, panel.action) /\ panel' = NoPanel
    <3>1. panel.action # None /\ panel.action \in Page.acts
      BY <1>8, Submits DEF Typed, TypedPage
    <3>2. ASSUME NEW r \in rows, NEW s \in panel.on, Target(s) = Target(r) PROVE Eligible(r, panel.action)
      <4>1. s \in rows /\ Eligible(s, panel.action)
        BY <3>1 DEF DraftIsSound
      <4>2. r.key = s.key
        BY <3>2, <4>1 DEF Target, Typed, TypedPage, Keyed, IsRecord
      <4> QED BY <4>1, <4>2 DEF Typed, TypedPage, Keyed
    <3>3. \A r \in rows' : r.lost = {} /\ IsSound(r.is)
      <4>1. ASSUME NEW r \in rows, NEW s \in panel.on, Target(s) = Target(r)
            PROVE  LET d == [r EXCEPT !.is = After(@, panel.action)] IN d.lost = {} /\ IsSound(d.is)
        BY <1>2, <3>1, <3>2, <4>1, DraftStep DEF Typed, TypedPage, Keyed
      <4> QED BY <1>2, <2>2, <4>1 DEF Applied
    <3>4. panel'.action = None
      BY <2>2 DEF NoPanel
    <3> QED BY <1>2, <2>1, <3>3, <3>4 DEF DraftIsSound
  <2>3. CASE UNCHANGED rows /\ panel' \in {panel, NoPanel}
    BY <1>4, <2>1, <2>3 DEF DraftIsSound, NoPanel
  <2> QED BY <1>8, <2>2, <2>3, Submits
<1>9. CASE UNCHANGED <<store, rows>> /\ (panel' = panel \/ panel' = NoPanel)
  BY <1>4, <1>9 DEF DraftIsSound, NoPanel
<1> QED BY <1>5, <1>6, <1>7, <1>8, <1>9, LocalOrdersStep

LEMMA InitDraft == Init => DraftIsSound
<1> SUFFICES ASSUME Init, table = "orders", ~remote PROVE DraftIsSound
  BY DEF DraftIsSound
<1>1. \A o \in DemoOrders : IsSound(o)
  BY DEF DemoOrders, Order, IsSound
<1>2. PICK is \in [Keys -> DemoOrders], first \in Keys :
        store = {Record(k, OrderOf(k, first), is[k]) : k \in Keys}
  BY OrdersPage DEF Init
<1>3. \A r \in store : r.lost = {} /\ IsSound(r.is)
  BY <1>1, <1>2 DEF Record
<1>4. rows \subseteq store
  BY LocalRowsAreServed DEF Init
<1>5. panel.action = None
  BY DEF Init, NoPanel
<1> QED BY <1>3, <1>4, <1>5 DEF DraftIsSound

\* Whatever the operator does to the local draft of the orders, and in whatever order, none goes
\* to fulfilment or delivery before it is paid: the guards of the buttons, taken together, keep it.
THEOREM DraftIsPaidFirst == Spec => []UnpaidIsNotDelivered
<1>1. Init => Typed /\ DraftIsSound
  BY InitTyped, InitDraft
<1>2. Typed /\ DraftIsSound /\ [Next]_vars => (Typed /\ DraftIsSound)'
  BY NextTyped, DraftKept
<1>3. Typed /\ DraftIsSound => UnpaidIsNotDelivered
  BY DEF DraftIsSound, UnpaidIsNotDelivered, IsSound
<1> QED BY <1>1, <1>2, <1>3, PTL DEF Spec

---------------------------------------------------------------------------
(* The selection *)

---------------------------------------------------------------------------
(* The writes of an action *)

\* One write of the action is answered.
LEMMA WriteCounted ==
    ASSUME Typed, NEW c, IsCall(c), Writes(c), c.ans = Waiting, Counted(c),
           NEW w \in c.left, NEW ok \in BOOLEAN, NEW d, d = Written(c, w, ok),
           Take(w, c.action) \/ (~ok /\ UNCHANGED <<server, taken>>), UNCHANGED told
    PROVE  Counted(d)'
<1>1. /\ d.op = "act" /\ d.at = 1 /\ d.left = c.left \ {w} /\ d.targets = c.targets
      /\ d.ans = Settled(c, w, ok) /\ (d.failed <=> c.failed \/ ~ok)
  BY WrittenTyped
<1>2. told' = None
  BY DEF Counted
<1>3. Settled(c, w, ok) = Done => c.left = {w} /\ ok /\ ~c.failed
  BY ListAssumption DEF Settled
<1>4. ASSUME ok, ~c.failed
      PROVE  \A k \in c.targets : taken'[k] = IF \E v \in c.left \ {w} : v[1] = k THEN 0 ELSE 1
  <2>1. taken' = [taken EXCEPT ![w[1]] = @ + 1] /\ taken \in [Keys -> Nat] /\ w[1] \in Keys
    BY <1>4 DEF Take, Typed, TypedServer, IsCall
  <2>2. \A k \in c.targets : taken[k] = IF \E v \in c.left : v[1] = k THEN 0 ELSE 1
    BY <1>4 DEF Counted
  <2>3. w[1] \in c.targets /\ taken[w[1]] = 0 /\ taken'[w[1]] = 1
    BY <2>1, <2>2 DEF IsCall
  <2>4. ~\E v \in c.left \ {w} : v[1] = w[1]
    BY DEF IsCall
  <2>5. \A k \in c.targets : k # w[1] => taken'[k] = taken[k]
    BY <2>1 DEF IsCall
  <2> QED BY <2>2, <2>3, <2>4, <2>5
<1>5. d.ans = Done => \A k \in d.targets : taken'[k] = 1
  BY <1>1, <1>3, <1>4
<1> QED BY <1>1, <1>2, <1>4, <1>5 DEF Counted, Writes

LEMMA CountedKept ==
    ASSUME Typed, OneAtATime, WritesAreCounted, ToldIsDone, [Next]_vars
    PROVE  WritesAreCounted' /\ ToldIsDone'
<1> SUFFICES ASSUME ~hasty'
             PROVE  WritesAreCounted' /\ (told' # None => \A target \in told' : taken'[target] = 1)
  BY DEF WritesAreCounted, ToldIsDone
<1> DEFINE Goal == WritesAreCounted' /\ (told' # None => \A target \in told' : taken'[target] = 1)
<1>1. ASSUME ~hasty, UNCHANGED taken, UNCHANGED told \/ told' = None,
             \A i \in Busy' : (i \in Busy /\ calls'[i] = calls[i]) \/ calls'[i].op # "act"
      PROVE  Goal
  <2>1. told' # None => \A target \in told' : taken'[target] = 1
    BY <1>1 DEF ToldIsDone
  <2>2. \A i \in Busy' : Counted(calls[i])'
    BY <1>1 DEF WritesAreCounted, Counted, Writes
  <2> QED BY <2>1, <2>2 DEF WritesAreCounted
<1>2. ASSUME NEW d, \A i \in Busy' : calls'[i] = d, Counted(d)' \/ d = None
      PROVE  WritesAreCounted'
  BY <1>2 DEF WritesAreCounted, Counted, Writes, Busy
<1> HIDE DEF Goal
<1>3. CASE Operator
  <2>1. ASSUME UNCHANGED <<taken, told>>, Acting, NEW c, c.op # "act", calls' \in Ask(calls, c)
        PROVE  Goal
    <3>1. ~hasty /\ \A i \in Busy' : calls'[i] = c
      BY <2>1, AskedAlone
    <3> QED BY <1>1, <2>1, <3>1
  <2>2. ASSUME UNCHANGED fixed, NEW action, NEW batch, NEW rs, Keyed(rs), Begin(action, batch, rs)
        PROVE  Goal
    <3>0. PICK c : c = Call("act", action, batch, Requests(rs), filter, None)
      OBVIOUS
    <3>1. ~hasty /\ \A i \in Busy' : calls'[i] = c
      BY <2>2, <3>0, AskedAlone DEF Begin, Clicks
    <3>2. c.op = "act" /\ c.at = 1 /\ c.ans = Waiting /\ c.targets = {w[1] : w \in c.left} /\ c.left = Requests(rs)
      BY <3>0 DEF Call
    <3>3. \A w \in Requests(rs) : w[1] \in Keys
      BY <2>2, OneRequestEach
    <3>4. told' = None /\ \A k \in Keys : taken'[k] = 0
      BY <2>2 DEF Begin, Typed, TypedServer
    <3>5. Counted(c)'
      BY <3>2, <3>3, <3>4, ListAssumption DEF Counted, Writes
    <3> QED BY <1>2, <3>1, <3>4, <3>5 DEF Goal
  <2>3. ASSUME Acting, UNCHANGED calls
        PROVE  ~hasty /\ Busy' = {} /\ WritesAreCounted'
    BY <2>3 DEF Acting, WritesAreCounted, Busy, Typed, TypedPage
  <2>4. CASE ChangeFilter
    <3>1. UNCHANGED <<taken, told>>
      BY <2>4, FilterChanges
    <3>2. CASE UNCHANGED <<calls, hasty>> \/ (Acting /\ UNCHANGED calls)
      <4>1. ~hasty
        BY <3>2, <2>3
      <4> QED BY <1>1, <3>1, <3>2, <4>1 DEF Goal, Busy
    <3>3. CASE /\ hasty' = (hasty \/ \E i \in Busy : calls[i].op # "load")
               /\ calls' \in Ask(Dropped(calls), Call("load", None, FALSE, {}, filter', None))
      <4>1. ~hasty /\ \A i \in Busy' : calls'[i] = Call("load", None, FALSE, {}, filter', None)
        BY <3>3, FilteredAlone
      <4>2. Call("load", None, FALSE, {}, filter', None).op = "load"
        BY DEF Call
      <4> QED BY <1>1, <3>1, <4>1, <4>2 DEF Goal
    <3> QED BY <2>4, <3>2, <3>3, FilterChanges
  <2>5. CASE Reload
    <3>1. UNCHANGED <<taken, told>> /\ Acting
      BY <2>5 DEF Reload, Clicks
    <3>2. CASE UNCHANGED calls
      BY <1>1, <2>3, <3>1, <3>2 DEF Goal
    <3>3. CASE calls' \in Ask(calls, Call("reload", None, FALSE, {}, filter, None))
      <4>1. Call("reload", None, FALSE, {}, filter, None).op = "reload"
        BY DEF Call
      <4> QED BY <2>1, <3>1, <3>3, <4>1 DEF Goal
    <3> QED BY <2>5, <3>2, <3>3 DEF Reload
  <2>6. CASE Tick
    <3>1. UNCHANGED <<taken, told, calls>> /\ Acting
      BY <2>6 DEF Tick
    <3> QED BY <1>1, <2>3, <3>1 DEF Goal
  <2>7. CASE SwitchTab \/ SearchRows \/ OpenAction \/ CloseAction \/ CloseDetail
    <3>1. UNCHANGED <<taken, told, calls, hasty>>
      BY <2>7 DEF SwitchTab, SearchRows, OpenAction, CloseAction, CloseDetail, ghosts
    <3> QED BY <1>1, <3>1 DEF Busy, Goal
  <2>8. CASE SubmitAction
    <3>1. CASE Begin(panel.action, panel.batch, panel.on)
      BY <2>2, <2>8, <3>1, Submits DEF Typed, TypedPage, Goal
    <3>2. CASE told' \in {None, {}} /\ Clicks /\ UNCHANGED calls
      BY <2>3, <3>2 DEF Clicks, Goal
    <3> QED BY <2>8, <3>1, <3>2, Submits
  <2>9. CASE RetryAtOnce
    <3>1. PICK action \in Page.acts, batch \in BOOLEAN, rs \in SUBSET rows : Begin(action, batch, rs)
      BY <2>9 DEF RetryAtOnce, Visible, Narrowed, OnScreen, Chosen
    <3>2. Keyed(rs) /\ UNCHANGED fixed
      BY <2>9, PartOfKeyed DEF RetryAtOnce, Typed, TypedPage
    <3> QED BY <2>2, <3>1, <3>2 DEF Goal
  <2>10. CASE OpenDetail
    <3>1. PICK r \in Visible :
             IF source = "remote" /\ table # "bindings"
             THEN /\ calls' \in Ask(calls, Call("detail", None, FALSE, {}, None, r.key))
                  /\ detail' = [on |-> r.key, loading |-> TRUE, data |-> None]
                  /\ Clicks
             ELSE /\ detail' = [on |-> r.key, loading |-> FALSE, data |-> r.key]
                  /\ UNCHANGED <<calls, clicks, hasty>>
      BY <2>10 DEF OpenDetail
    <3>2. UNCHANGED <<taken, told>>
      BY <2>10 DEF OpenDetail
    <3>3. CASE source = "remote" /\ table # "bindings"
      <4>1. Call("detail", None, FALSE, {}, None, r.key).op = "detail"
        BY DEF Call
      <4> QED BY <2>1, <3>1, <3>2, <3>3, <4>1 DEF Clicks, Goal
    <3>4. CASE ~(source = "remote" /\ table # "bindings")
      BY <1>1, <3>1, <3>2, <3>4 DEF Busy, Goal
    <3> QED BY <3>3, <3>4
  <2> QED BY <1>3, <2>4, <2>5, <2>6, <2>7, <2>8, <2>9, <2>10 DEF Operator
<1>4. CASE ServerMoves \/ UNCHANGED vars
  <2>1. UNCHANGED <<taken, told, calls, hasty>>
    BY <1>4 DEF ServerMoves, vars, ghosts
  <2> QED BY <1>1, <2>1 DEF Busy, Goal
<1>5. CASE \E i \in 1..MaxCalls : Answers(i)
  <2>1. PICK i \in 1..MaxCalls : Answers(i)
    BY <1>5
  <2>0. PICK c : c = calls[i]
    OBVIOUS
  <2>2. c # None /\ IsCall(c) /\ ~hasty /\ i \in Busy /\ Counted(c)
    BY <2>0, <2>1, AnswersReplace, CallTyped DEF WritesAreCounted, Busy, Typed, TypedCalls
  <2>3. ASSUME NEW d, calls' = [calls EXCEPT ![i] = d] PROVE \A j \in Busy' : calls'[j] = d
    BY <2>1, <2>3, AnswersReplace, AnsweredAlone
  <2>4. ASSUME NEW d, calls' = [calls EXCEPT ![i] = d], d # None => d.op # "act",
               UNCHANGED taken, UNCHANGED told \/ told' = None
        PROVE  Goal
    BY <1>1, <2>2, <2>3, <2>4 DEF Busy
  <2>5. CASE ServeList(i)
    <3>1. Reads(c) /\ UNCHANGED <<taken, told>>
      BY <2>0, <2>5, ListServed DEF ServeList, ghosts
    <3>2. PICK ans : calls' = [calls EXCEPT ![i] = With(c, c.at, c.left, c.failed, ans)]
      BY <2>0, <2>5, ListServed
    <3>3. PICK d : d = With(c, c.at, c.left, c.failed, ans)
      OBVIOUS
    <3>4. d.op = c.op /\ d.at = c.at /\ d.targets = c.targets
      BY <3>3 DEF With
    <3>5. Counted(d)'
      BY <2>2, <3>1, <3>4 DEF Counted, Writes, Reads
    <3>6. told' # None => \A target \in told' : taken'[target] = 1
      BY <2>2, <3>1 DEF ToldIsDone
    <3> QED BY <1>2, <2>3, <3>2, <3>3, <3>5, <3>6 DEF Goal
  <2>6. CASE ServeDetail(i)
    <3>1. PICK ans : calls' = [calls EXCEPT ![i] = [c EXCEPT !.ans = ans]]
      BY <2>0, <2>6 DEF ServeDetail
    <3>2. [c EXCEPT !.ans = ans].op = c.op
      BY <2>2 DEF IsCall
    <3>3. c.op = "detail" /\ UNCHANGED <<taken, told>>
      BY <2>0, <2>6 DEF ServeDetail, ghosts
    <3> QED BY <2>4, <3>1, <3>2, <3>3 DEF Goal
  <2>7. CASE ServeWrite(i)
    <3>1. Writes(c) /\ c.ans = Waiting /\ UNCHANGED told
      BY <2>0, <2>7, WriteServed DEF ServeWrite
    <3>2. PICK w \in c.left, ok \in BOOLEAN :
            /\ Take(w, c.action) \/ (~ok /\ UNCHANGED <<server, taken>>)
            /\ calls' = [calls EXCEPT ![i] = Written(c, w, ok)]
      BY <2>0, <2>7, WriteServed
    <3>3. PICK d : d = Written(c, w, ok)
      OBVIOUS
    <3>5. Counted(d)'
      BY <2>2, <3>1, <3>2, <3>3, WriteCounted
    <3>4. told' = None
      BY <2>2, <3>1 DEF Counted
    <3> QED BY <1>2, <2>3, <3>2, <3>3, <3>4, <3>5 DEF Goal
  <2>8. CASE ServeLate(i)
    <3>1. UNCHANGED <<taken, told>>
      BY <2>8 DEF ServeLate, ghosts
    <3> QED BY <2>4, <2>8, <3>1, LateServed DEF Goal
  <2>9. CASE WriteLanded(i)
    <3>1. Writes(c) /\ UNCHANGED <<fixed, taken>>
      BY <2>0, <2>9 DEF WriteLanded, Writes
    <3>2. CASE c.ans = Done /\ GoesOn(i) /\ told' = (IF OnBots THEN c.targets ELSE told)
      <4>1. \A k \in c.targets : taken'[k] = 1
        BY <2>2, <3>1, <3>2 DEF Counted, Writes
      <4>2. calls' = [calls EXCEPT ![i] = With(c, 2, {}, c.failed, Waiting)]
        BY <2>0, <2>2, <3>1, <3>2, GoesOnTyped
      <4>3. PICK d : d = With(c, 2, {}, c.failed, Waiting)
        OBVIOUS
      <4>4. d.at = 2 /\ d.targets = c.targets
        BY <4>3 DEF With
      <4>5. Counted(d)'
        BY <4>1, <4>4 DEF Counted, Writes
      <4>6. told' # None => \A target \in told' : taken'[target] = 1
        BY <2>2, <3>1, <3>2, <4>1 DEF ToldIsDone
      <4> QED BY <1>2, <2>3, <4>2, <4>3, <4>5, <4>6 DEF Goal
    <3>3. CASE Ends(i) /\ told' = None
      BY <2>0, <2>2, <2>4, <3>1, <3>3, CallEnded DEF Goal
    <3> QED BY <2>0, <2>9, <3>2, <3>3 DEF WriteLanded
  <2>10. CASE ListLanded(i)
    <3>1. Reads(c) /\ UNCHANGED taken /\ Ends(i)
      BY <2>0, <2>2, <2>10, ScriptOf DEF ListLanded
    <3>2. PICK d : calls' = [calls EXCEPT ![i] = d] /\ (d # None => d.op = "late")
      BY <2>0, <2>2, <3>1, CallEnded
    <3>3. CASE UNCHANGED told \/ told' = None
      BY <2>4, <3>1, <3>2, <3>3 DEF Goal
    <3>4. CASE c.op = "act" /\ told' = c.targets
      <4>1. \A k \in c.targets : taken'[k] = 1
        BY <2>2, <3>1, <3>4 DEF Counted, Reads
      <4>2. d # None => Counted(d)'
        BY <3>2 DEF Counted, Writes
      <4> QED BY <1>2, <2>3, <3>2, <3>4, <4>1, <4>2
    <3> QED BY <2>0, <2>10, <3>3, <3>4 DEF ListLanded
  <2>11. CASE DetailLanded(i)
    <3>1. UNCHANGED <<taken, told>> /\ Ends(i)
      BY <2>11 DEF DetailLanded, ghosts
    <3> QED BY <2>0, <2>2, <2>4, <3>1, CallEnded DEF Goal
  <2> QED BY <2>1, <2>5, <2>6, <2>7, <2>8, <2>9, <2>10, <2>11 DEF Answers
<1> QED BY <1>3, <1>4, <1>5 DEF Next, Goal

\* A success message is true: the server took each write the action was made of, and took it once,
\* although the page only counts answers and the answer of a write that was taken may be lost.
THEOREM ListToldIsDone == Spec => []ToldIsDone
<1> DEFINE I == Typed /\ OneAtATime /\ WritesAreCounted /\ ToldIsDone
<1>1. Init => I
  <2> SUFFICES ASSUME Init PROVE I
    OBVIOUS
  <2>1. \A i \in Busy : calls[i] = Call("load", None, FALSE, {}, None, None) /\ i = 1
    BY DEF Init, Busy
  <2>2. Call("load", None, FALSE, {}, None, None).op = "load"
    BY DEF Call
  <2>3. WritesAreCounted
    BY <2>1, <2>2 DEF WritesAreCounted, Counted, Writes
  <2>4. OneAtATime /\ ToldIsDone
    BY <2>1 DEF Init, OneAtATime, ToldIsDone
  <2> QED BY <2>3, <2>4, InitTyped
<1>2. I /\ [Next]_vars => I'
  BY NextTyped, OneAtATimeKept, CountedKept
<1> QED BY <1>1, <1>2, PTL DEF Spec

---------------------------------------------------------------------------
(* The table *)

\* The answer holds each field the page shows or filters by as the server has it.
LEMMA MappedKeepsValues ==
    ASSUME IsPage(Page), NEW r, IsRecord(r), r.lost = {}, NEW f \in Page.shown \cup Page.browsed
    PROVE  Value(Mapped(r), f) = Value(r, f)
<1> DEFINE lost == (Page.shown \cup Page.browsed \cup DOMAIN r.is) \ Page.read
<1>1. Mapped(r) = [key |-> r.key, order |-> r.order, is |-> r.is, lost |-> lost]
  BY DEF Mapped, IsRecord
<1>2. f \notin lost
  BY DEF IsPage
<1> HIDE DEF lost
<1>3. PICK m : m = Mapped(r)
  OBVIOUS
<1>4. m.key = r.key /\ m.order = r.order /\ m.is = r.is /\ m.lost = lost
  BY <1>1, <1>3
<1>5. Value(m, f) = Value(r, f)
  BY <1>2, <1>4 DEF Value
<1> QED BY <1>3, <1>5

LEMMA OfferedIsApplied ==
    ASSUME IsPage(Page), NEW r, IsRecord(r), r.lost = {}, NEW fl
    PROVE  Matches(r, Page.asked, fl) /\ Matches(Mapped(r), Page.browsed, fl)
             <=> Matches(r, Page.offered, fl)
BY MappedKeepsValues DEF Matches, IsPage

\* A tab and a keyword let through the same records in the browser and on the server.
LEMMA MappedIsOnScreen ==
    ASSUME Typed, TypedView, NEW r \in store
    PROVE  /\ tab = "due" => (Due(Mapped(r)) <=> Due(r))
           /\ Found(Mapped(r)) <=> Found(r)
<1>1. IsPage(Page) /\ IsRecord(r) /\ r.lost = {}
  BY FiltersAreApplied DEF Typed, TypedPage, TypedServer, Keyed
<1>2. \A f \in Page.read \cup Page.shown : Value(Mapped(r), f) = Value(r, f)
  <2> TAKE f \in Page.read \cup Page.shown
  <2> DEFINE lost == (Page.shown \cup Page.browsed \cup DOMAIN r.is) \ Page.read
  <2>1. Mapped(r) = [key |-> r.key, order |-> r.order, is |-> r.is, lost |-> lost]
    BY <1>1 DEF Mapped, IsRecord
  <2>2. f \notin lost
    BY <1>1 DEF IsPage
  <2> HIDE DEF lost
  <2>3. PICK m : m = Mapped(r)
    OBVIOUS
  <2>4. m.key = r.key /\ m.order = r.order /\ m.is = r.is /\ m.lost = lost
    BY <2>1, <2>3
  <2>5. Value(m, f) = Value(r, f)
    BY <1>1, <2>2, <2>4 DEF Value
  <2> QED BY <2>3, <2>5
<1>3. tab = "due" => (Due(Mapped(r)) <=> Due(r))
  <2>1. CASE table = "orders"
    <3>1. {"paymentStatus", "orderStatus"} \subseteq Page.shown
      BY <2>1 DEF Page, Orders, OrderShown
    <3> QED BY <1>2, <2>1, <3>1 DEF Due
  <2>2. CASE table = "tickets"
    <3>1. "priority" \in Page.shown
      BY <2>2 DEF Page, Tickets, TicketShown
    <3> QED BY <1>2, <2>2, <3>1 DEF Due
  <2>3. CASE table \notin {"orders", "tickets"}
    BY <2>3 DEF TypedView, Tabs
  <2> QED BY <2>1, <2>2, <2>3
<1>4. Found(Mapped(r)) <=> Found(r)
  BY <1>2 DEF Found
<1> QED BY <1>3, <1>4

LEMMA CurrentIsServed == Typed /\ TypedView /\ ReadingIsCurrent => TableIsServed
<1> DEFINE Row(r) == <<r.key, [f \in Page.shown |-> Value(r, f)]>>
           Match == OnScreen({s \in store : Matches(s, Page.offered, filter)})
<1> SUFFICES ASSUME Typed, TypedView, ReadingIsCurrent, source = "remote", ~loading, ~stale, ~hasty
             PROVE  {Row(r) : r \in Visible} = {Row(r) : r \in Match}
  BY DEF TableIsServed
<1>1. rows = {Mapped(r) : r \in {s \in store : Matches(s, Page.asked, filter)}}
  BY DEF ReadingIsCurrent, RowsAreCurrent, Listed
<1>2. IsPage(Page) /\ \A r \in store : IsRecord(r) /\ r.lost = {}
  BY FiltersAreApplied DEF Typed, TypedPage, TypedServer, Keyed
<1>3. Visible = {Mapped(r) : r \in Match}
  <2>1. Narrowed = {Mapped(r) : r \in {s \in store : Matches(s, Page.offered, filter)}}
    BY <1>1, <1>2, OfferedIsApplied DEF Narrowed
  <2>2. \A r \in store : /\ (tab = "due" => Due(Mapped(r))) <=> (tab = "due" => Due(r))
                         /\ Found(Mapped(r)) <=> Found(r)
    BY <1>2, MappedIsOnScreen
  <2> QED BY <2>1, <2>2 DEF Visible, OnScreen
<1>4. \A r \in store : Row(Mapped(r)) = Row(r)
  <2> TAKE r \in store
  <2>1. Mapped(r).key = r.key
    BY <1>2, MappedFields
  <2>2. \A f \in Page.shown : Value(Mapped(r), f) = Value(r, f)
    BY <1>2, MappedKeepsValues
  <2> QED BY <2>1, <2>2
<1>5. Match \subseteq store
  BY DEF OnScreen
<1> HIDE DEF Row, Match
<1> QED BY <1>3, <1>4, <1>5

LEMMA ReadingKept ==
    ASSUME Typed, OneAtATime, ReadingIsCurrent, [Next]_vars
    PROVE  ReadingIsCurrent'
<1>0. UNCHANGED fixed /\ remote' = remote /\ Page' = Page /\ Typed'
  BY FixedKept, StaysFixed, NextTyped
<1>1. ASSUME UNCHANGED store PROVE \A fl : Listed(fl)' = Listed(fl)
  BY <1>0, <1>1 DEF Listed, Mapped
<1> SUFFICES ASSUME ~hasty' PROVE RowsAreCurrent' /\ \A i \in Busy' : Current(calls[i])'
  BY DEF ReadingIsCurrent
<1> DEFINE Goal == RowsAreCurrent' /\ \A i \in Busy' : Current(calls[i])'
<1>2. ASSUME RowsAreCurrent', NEW d, \A i \in Busy' : calls'[i] = d, Current(d)' PROVE Goal
  BY <1>2 DEF Current, Reads, Writes
\* The rows, the filter and the server as they were, or the server changed.
<1>3. ASSUME ~hasty, UNCHANGED <<rows, loading, source, filter>>,
             UNCHANGED <<store, stale>> \/ stale' = TRUE
      PROVE  RowsAreCurrent' /\ \A c : (Current(c) => Current(c)')
  <2>1. RowsAreCurrent
    BY <1>3 DEF ReadingIsCurrent
  <2>2. CASE stale' = TRUE
    BY <1>3, <2>1, <2>2 DEF RowsAreCurrent, Current, Reads, Writes
  <2>3. CASE UNCHANGED <<store, stale>>
    BY <1>1, <1>3, <2>1, <2>3 DEF RowsAreCurrent, Current, Reads, Writes
  <2> QED BY <1>3, <2>2, <2>3
<1>4. ASSUME ~hasty, UNCHANGED <<rows, loading, source, filter>>,
             UNCHANGED <<store, stale>> \/ stale' = TRUE, UNCHANGED calls
      PROVE  Goal
  <2>1. RowsAreCurrent' /\ \A i \in Busy : Current(calls[i])
    BY <1>3, <1>4 DEF ReadingIsCurrent
  <2>2. ASSUME NEW i \in Busy' PROVE Current(calls[i])'
    <3>1. PICK c : c = calls[i] /\ i \in Busy
      BY <1>4 DEF Busy
    <3>2. Current(c)'
      BY <1>3, <1>4, <2>1, <3>1
    <3> QED BY <1>4, <3>1, <3>2 DEF Current, Reads, Writes
  <2> QED BY <2>1, <2>2
<1>5. ASSUME ~remote PROVE Goal
  BY <1>0, <1>5 DEF Typed, TypedPage, TypedCalls, RowsAreCurrent
\* A reading begins, of the filter above the table.
<1>6. ASSUME NEW c, c.fl = filter', c.ans = Waiting, \A i \in Busy' : calls'[i] = c, BeginReading
      PROVE  Goal
  <2>1. loading' = TRUE
    BY <1>6 DEF BeginReading
  <2> QED BY <1>2, <1>6, <2>1 DEF Current, Reads, Writes, RowsAreCurrent
\* An action or a detail is asked for.
<1>7. ASSUME UNCHANGED <<store, stale, rows, loading, source, filter>>, Acting, NEW c,
             c.op \in {"act", "detail"}, c.at = 1, c.op = "act" => c.fl = filter, calls' \in Ask(calls, c)
      PROVE  Goal
  <2>1. ~hasty /\ \A i \in Busy' : calls'[i] = c
    BY <1>7, AskedAlone
  <2>2. RowsAreCurrent'
    BY <1>3, <1>7, <2>1
  <2>3. Current(c)'
    BY <1>7 DEF Current, Reads, Writes
  <2> QED BY <1>2, <2>1, <2>2, <2>3
<1> HIDE DEF Goal
<1>8. ASSUME Acting PROVE ~hasty /\ Busy = {}
  BY <1>8 DEF Acting, Typed, TypedPage
<1>9. CASE Operator
  <2>1. CASE ChangeFilter
    <3>1. CASE ~remote
      BY <1>5, <3>1 DEF Goal
    <3>2. CASE /\ BeginReading
               /\ hasty' = (hasty \/ \E i \in Busy : calls[i].op # "load")
               /\ calls' \in Ask(Dropped(calls), Call("load", None, FALSE, {}, filter', None))
      <4>1. PICK c : c = Call("load", None, FALSE, {}, filter', None)
        OBVIOUS
      <4>2. \A i \in Busy' : calls'[i] = c
        BY <3>2, <4>1, FilteredAlone
      <4>3. c.fl = filter' /\ c.ans = Waiting
        BY <4>1 DEF Call
      <4> QED BY <1>6, <3>2, <4>2, <4>3 DEF Goal
    <3>3. CASE Page.browsed # {} /\ Acting /\ UNCHANGED <<rows, loading, source, calls>>
      <4>1. ~hasty /\ Busy' = {} /\ RowsAreCurrent
        BY <1>8, <3>3 DEF Busy, ReadingIsCurrent
      <4>2. UNCHANGED <<store, stale>>
        BY <2>1, FilterChanges DEF server
      <4>3. Page.asked = {}
        BY <3>3, FiltersAreApplied DEF IsPage, Typed, TypedPage
      <4>4. \A r, fl : Matches(r, Page.asked, fl)
        BY <4>3 DEF Matches
      <4>5. Listed(filter') = Listed(filter)
        BY <4>4 DEF Listed
      <4>6. Listed(filter)' = Listed(filter)
        <5>1. PICK fl : fl = filter'
          OBVIOUS
        <5>2. Listed(fl)' = Listed(fl)
          BY <1>1, <4>2
        <5>3. Listed(filter)' = Listed(fl)'
          BY <5>1 DEF Listed
        <5> QED BY <4>5, <5>1, <5>2, <5>3
      <4> QED BY <3>3, <4>1, <4>2, <4>6 DEF Goal, RowsAreCurrent
    <3> QED BY <2>1, <3>1, <3>2, <3>3, FilterChanges
  <2>2. CASE Reload
    <3>1. CASE remote
      <4>1. PICK c : c = Call("reload", None, FALSE, {}, filter, None)
        OBVIOUS
      <4>2. Acting /\ BeginReading /\ UNCHANGED filter /\ calls' \in Ask(calls, c)
        BY <2>2, <3>1, <4>1 DEF Reload, Clicks
      <4>3. \A i \in Busy' : calls'[i] = c
        BY <4>2, AskedAlone
      <4>4. c.fl = filter' /\ c.ans = Waiting
        BY <4>1, <4>2 DEF Call
      <4> QED BY <1>6, <4>2, <4>3, <4>4 DEF Goal
    <3> QED BY <1>5, <3>1 DEF Goal
  <2>3. CASE Tick
    <3>1. UNCHANGED <<store, stale, rows, loading, source, filter, calls>> /\ Acting
      BY <2>3 DEF Tick, server, listing
    <3> QED BY <1>4, <1>8, <3>1 DEF Goal
  <2>4. CASE SwitchTab \/ SearchRows \/ OpenAction \/ CloseAction \/ CloseDetail
    <3>1. UNCHANGED <<store, stale, rows, loading, source, filter, calls, hasty>>
      BY <2>4 DEF SwitchTab, SearchRows, OpenAction, CloseAction, CloseDetail, server, listing, ghosts
    <3> QED BY <1>4, <3>1 DEF Goal
  <2>5. ASSUME UNCHANGED <<store, stale, rows, loading, source, filter>>,
               NEW action, NEW batch, NEW rs, Begin(action, batch, rs)
        PROVE  Goal
    <3>1. PICK c : c = Call("act", action, batch, Requests(rs), filter, None)
      OBVIOUS
    <3>2. c.op = "act" /\ c.at = 1 /\ c.fl = filter
      BY <3>1 DEF Call
    <3> QED BY <1>7, <2>5, <3>1, <3>2 DEF Begin, Clicks
  <2>6. CASE SubmitAction
    <3>1. UNCHANGED <<store, stale, loading, source, filter>>
      BY <2>6, Submits DEF server
    <3>2. CASE Begin(panel.action, panel.batch, panel.on) /\ UNCHANGED rows
      BY <2>5, <3>1, <3>2 DEF Goal
    <3>3. CASE ~remote
      BY <1>5, <3>3 DEF Goal
    <3>4. CASE Clicks /\ UNCHANGED <<rows, calls>>
      BY <1>4, <1>8, <3>1, <3>4 DEF Goal, Clicks
    <3> QED BY <2>6, <3>2, <3>3, <3>4, Submits
  <2>7. CASE RetryAtOnce
    <3>1. \E action, batch, rs : Begin(action, batch, rs)
      BY <2>7 DEF RetryAtOnce
    <3>2. UNCHANGED <<store, stale, rows, loading, source, filter>>
      BY <2>7 DEF RetryAtOnce, server, listing
    <3> QED BY <2>5, <3>1, <3>2 DEF Goal
  <2>8. CASE OpenDetail
    <3>1. PICK r \in Visible :
             IF source = "remote" /\ table # "bindings"
             THEN /\ calls' \in Ask(calls, Call("detail", None, FALSE, {}, None, r.key))
                  /\ detail' = [on |-> r.key, loading |-> TRUE, data |-> None]
                  /\ Clicks
             ELSE /\ detail' = [on |-> r.key, loading |-> FALSE, data |-> r.key]
                  /\ UNCHANGED <<calls, clicks, hasty>>
      BY <2>8 DEF OpenDetail
    <3>2. UNCHANGED <<store, stale, rows, loading, source, filter>>
      BY <2>8 DEF OpenDetail, server, listing
    <3>3. CASE source = "remote" /\ table # "bindings"
      <4>1. PICK c : c = Call("detail", None, FALSE, {}, None, r.key)
        OBVIOUS
      <4>2. c.op = "detail" /\ c.at = 1
        BY <4>1 DEF Call
      <4>3. calls' \in Ask(calls, c) /\ Acting
        BY <3>1, <3>3, <4>1 DEF Clicks
      <4>4. c.op # "act"
        BY <4>2
      <4> QED BY <1>7, <3>2, <4>2, <4>3, <4>4 DEF Goal
    <3>4. CASE ~(source = "remote" /\ table # "bindings")
      BY <1>4, <3>1, <3>2, <3>4 DEF Goal
    <3> QED BY <3>3, <3>4
  <2> QED BY <1>9, <2>1, <2>2, <2>3, <2>4, <2>6, <2>7, <2>8 DEF Operator
<1>10. CASE ServerMoves \/ UNCHANGED vars
  <2>1. /\ UNCHANGED <<rows, loading, source, filter, calls, hasty>>
        /\ UNCHANGED <<store, stale>> \/ stale' = TRUE
    BY <1>10 DEF ServerMoves, vars, server, listing, ghosts
  <2> QED BY <1>4, <2>1 DEF Goal
<1>11. CASE \E i \in 1..MaxCalls : Answers(i)
  <2>1. PICK i \in 1..MaxCalls : Answers(i)
    BY <1>11
  <2>2. PICK c : c = calls[i]
    OBVIOUS
  <2>3. c # None /\ IsCall(c) /\ ~hasty /\ i \in Busy
    BY <2>1, <2>2, AnswersReplace, CallTyped DEF Busy, Typed, TypedCalls
  <2>4. Current(c)
    BY <2>2, <2>3 DEF ReadingIsCurrent
  <2>5. ASSUME NEW d, calls' = [calls EXCEPT ![i] = d] PROVE \A j \in Busy' : calls'[j] = d
    BY <2>1, <2>5, AnswersReplace, AnsweredAlone
  <2>6. ASSUME NEW d, calls' = [calls EXCEPT ![i] = d], RowsAreCurrent', Current(d)' PROVE Goal
    BY <1>2, <2>5, <2>6 DEF Goal
  <2>7. ASSUME NEW d, d # None => d.op \in {"detail", "late"}, calls' = [calls EXCEPT ![i] = d], RowsAreCurrent'
        PROVE  Goal
    <3>1. d # None => Current(d)'
      BY <2>7 DEF Current, Reads, Writes
    <3>2. d = None => Busy' = {}
      BY <2>5, <2>7 DEF Busy
    <3> QED BY <2>6, <2>7, <3>1, <3>2 DEF Goal
  <2>8. ASSUME UNCHANGED <<rows, loading, source, filter>>, UNCHANGED <<store, stale>> \/ stale' = TRUE
        PROVE  RowsAreCurrent'
    BY <1>3, <2>3, <2>8
  <2>9. CASE ServeList(i)
    <3>1. Reads(c) /\ UNCHANGED <<store, rows, loading, source, filter>>
      BY <2>2, <2>9, ListServed DEF ServeList, listing
    <3>2. PICK ans : /\ calls' = [calls EXCEPT ![i] = With(c, c.at, c.left, c.failed, ans)]
                     /\ ans = Listed(c.fl) \/ ans = Failed
      BY <2>2, <2>9, ListServed
    <3>3. PICK d : d = With(c, c.at, c.left, c.failed, ans)
      OBVIOUS
    <3>4. d.op = c.op /\ d.at = c.at /\ d.fl = c.fl /\ d.ans = ans
      BY <3>3 DEF With
    <3>5. c.fl = filter /\ loading
      BY <2>4, <3>1 DEF Current
    <3>6. Listed(filter)' = Listed(c.fl)
      <4>1. Listed(c.fl)' = Listed(c.fl)
        BY <1>1, <3>1
      <4>2. Listed(filter)' = Listed(c.fl)'
        BY <3>1, <3>5 DEF Listed
      <4> QED BY <4>1, <4>2
    <3>7. Current(d)'
      BY <3>1, <3>2, <3>4, <3>5, <3>6 DEF Current, Reads, Writes
    <3>8. RowsAreCurrent'
      BY <3>1, <3>5 DEF RowsAreCurrent
    <3> QED BY <2>6, <3>2, <3>3, <3>7, <3>8 DEF Goal
  <2>10. CASE ServeDetail(i)
    <3>1. PICK ans : calls' = [calls EXCEPT ![i] = [c EXCEPT !.ans = ans]]
      BY <2>2, <2>10 DEF ServeDetail
    <3>2. [c EXCEPT !.ans = ans].op = c.op
      BY <2>3 DEF IsCall
    <3>3. c.op = "detail" /\ RowsAreCurrent'
      BY <2>2, <2>8, <2>10 DEF ServeDetail, server, listing
    <3> QED BY <2>7, <3>1, <3>2, <3>3 DEF Goal
  <2>11. CASE ServeWrite(i)
    <3>1. Writes(c) /\ UNCHANGED <<rows, loading, source, filter>>
      BY <2>2, <2>11, WriteServed DEF ServeWrite, listing
    <3>2. PICK w \in c.left, ok \in BOOLEAN :
            /\ Take(w, c.action) \/ (~ok /\ UNCHANGED <<server, taken>>)
            /\ calls' = [calls EXCEPT ![i] = Written(c, w, ok)]
      BY <2>2, <2>11, WriteServed
    <3>3. RowsAreCurrent'
      BY <2>8, <3>1, <3>2 DEF Take, server
    <3>4. PICK d : d = Written(c, w, ok)
      OBVIOUS
    <3>5. d.op = "act" /\ d.at = 1 /\ d.fl = c.fl
      BY <2>3, <3>1, <3>4, WrittenTyped
    <3>6. c.fl = filter
      BY <2>4, <3>1 DEF Current
    <3>7. Current(d)'
      BY <3>1, <3>5, <3>6 DEF Current, Reads, Writes
    <3> QED BY <2>6, <3>2, <3>3, <3>4, <3>7 DEF Goal
  <2>12. CASE ServeLate(i)
    <3>1. RowsAreCurrent'
      BY <2>8, <2>12 DEF ServeLate, listing
    <3> QED BY <2>7, <2>12, <3>1, LateServed DEF Goal
  <2>13. CASE WriteLanded(i)
    <3>1. Writes(c) /\ UNCHANGED <<fixed, store, stale, filter>>
      BY <2>2, <2>13 DEF WriteLanded, Writes, server
    <3>2. CASE c.ans = Done /\ GoesOn(i) /\ BeginReading
      <4>1. calls' = [calls EXCEPT ![i] = With(c, 2, {}, c.failed, Waiting)]
        BY <2>2, <2>3, <3>1, <3>2, GoesOnTyped
      <4>2. PICK d : d = With(c, 2, {}, c.failed, Waiting)
        OBVIOUS
      <4>3. d.fl = c.fl /\ d.ans = Waiting
        BY <4>2 DEF With
      <4>4. c.fl = filter
        BY <2>4, <3>1 DEF Current
      <4> QED BY <1>6, <2>5, <3>1, <3>2, <4>1, <4>2, <4>3, <4>4 DEF Goal
    <3>3. CASE Ends(i) /\ UNCHANGED listing
      <4>1. RowsAreCurrent'
        BY <2>8, <3>1, <3>3 DEF listing
      <4> QED BY <2>2, <2>3, <2>7, <3>3, <4>1, CallEnded DEF Goal
    <3> QED BY <2>2, <2>13, <3>2, <3>3 DEF WriteLanded
  <2>14. CASE ListLanded(i)
    <3>1. Reads(c) /\ Ends(i) /\ UNCHANGED <<store, stale, filter>> /\ c.ans # Waiting
      BY <2>2, <2>3, <2>14, ScriptOf DEF ListLanded, server
    <3>2. CASE c.ans # Failed
      <4>1. rows' = c.ans
        BY <2>2, <2>14, <3>2 DEF ListLanded
      <4>2. ~stale => c.ans = Listed(filter)
        BY <2>4, <3>1, <3>2 DEF Current
      <4>3. Listed(filter)' = Listed(filter)
        BY <1>1, <3>1 DEF Listed
      <4>4. RowsAreCurrent'
        BY <3>1, <4>1, <4>2, <4>3 DEF RowsAreCurrent
      <4> QED BY <2>2, <2>3, <2>7, <3>1, <4>4, CallEnded DEF Goal
    <3>3. CASE c.ans = Failed
      <4>1. source' = "remote-error"
        BY <2>2, <2>14, <3>3 DEF ListLanded
      <4>2. RowsAreCurrent'
        BY <4>1 DEF RowsAreCurrent
      <4> QED BY <2>2, <2>3, <2>7, <3>1, <4>2, CallEnded DEF Goal
    <3> QED BY <3>2, <3>3
  <2>15. CASE DetailLanded(i)
    <3>1. RowsAreCurrent' /\ Ends(i)
      BY <2>8, <2>15 DEF DetailLanded, server, listing
    <3> QED BY <2>2, <2>3, <2>7, <3>1, CallEnded DEF Goal
  <2> QED BY <2>1, <2>9, <2>10, <2>11, <2>12, <2>13, <2>14, <2>15 DEF Answers
<1> QED BY <1>9, <1>10, <1>11 DEF Next, Goal

LEMMA ReadingStarts == Init => Typed /\ OneAtATime /\ ReadingIsCurrent
<1> SUFFICES ASSUME Init PROVE Typed /\ OneAtATime /\ ReadingIsCurrent
  OBVIOUS
<1>1. \A i \in Busy : calls[i] = Call("load", None, FALSE, {}, None, None) /\ i = 1 /\ loading
  BY DEF Init, Busy
<1>2. Call("load", None, FALSE, {}, None, None).fl = None /\ Call("load", None, FALSE, {}, None, None).ans = Waiting
  BY DEF Call
<1>3. RowsAreCurrent
  BY DEF Init, RowsAreCurrent
<1>4. ReadingIsCurrent
  BY <1>1, <1>2, <1>3 DEF Init, ReadingIsCurrent, Current
<1>5. OneAtATime
  BY <1>1 DEF OneAtATime
<1> QED BY <1>4, <1>5, InitTyped

\* A page that is not waiting for the server shows the server's records that match the filter
\* above the table, all of them and no others, with the server's values in every column: whatever
\* filters were set while answers were on their way, sent with the request or applied in the
\* browser.
THEOREM ListIsServed == Spec => []TableIsServed
<1> DEFINE I == Typed /\ TypedView /\ OneAtATime /\ ReadingIsCurrent
<1>1. Init => I
  BY ReadingStarts DEF Init, TypedView, Tabs
<1>2. I /\ [Next]_vars => I'
  BY NextTyped, ViewTyped, OneAtATimeKept, ReadingKept
<1>3. I => TableIsServed
  BY CurrentIsServed
<1> QED BY <1>1, <1>2, <1>3, PTL DEF Spec
---------------------------------------------------------------------------
(* The selection *)

LEMMA BatchTables ==
    ASSUME table \in Tables, NEW action \in Page.acts, InBatch(action)
    PROVE  HasBatches
BY DEF Tables, Page, Orders, Payments, Proofs, Callbacks, Watchers, Fulfillments, CodeIssues,
       Deliveries, Tickets, Customers, Bindings, BotDeliveries, RecentOrders, UrgentTickets,
       ProviderHealth, InBatch, HasBatches

\* Of the tables with a selection that of tickets is filtered in the browser, and all its actions
\* end in a drawer; the others are filtered by the server.
LEMMA BatchPages ==
    ASSUME HasBatches
    PROVE  /\ Unticked = {}
           /\ table = "tickets" => /\ Page.asked = {} /\ ~OnBots
                                   /\ \A action \in Page.acts : /\ InDrawer(action, TRUE)
                                                                /\ InDrawer(action, FALSE)
                                                                /\ action # "confirm_payment"
           /\ table # "tickets" => Page.browsed = {}
           /\ \A action \in Page.acts : AtOnce(action) => OnBots
BY DEF HasBatches, Page, Orders, Proofs, Tickets, BotDeliveries, TicketBrowsed, InDrawer, OnBots,
       Unticked, AtOnce

\* Every filter offered above a table with a selection goes by a field the answer keeps.
LEMMA OfferedIsKept ==
    ASSUME HasBatches, NEW r, IsRecord(r), r.lost = {}, NEW f \in Page.offered
    PROVE  Value(Mapped(r), f) = Value(r, f)
<1> DEFINE lost == (Page.shown \cup Page.browsed \cup DOMAIN r.is) \ Page.read
<1>1. Mapped(r) = [key |-> r.key, order |-> r.order, is |-> r.is, lost |-> lost]
  BY DEF Mapped, IsRecord
<1>2. f \notin lost
  <2>1. CASE table = "orders"
    BY <2>1 DEF Page, Orders, OrderShown, OrderRead, OrderOffered
  <2>2. CASE table = "proofs"
    BY <2>2 DEF Page, Proofs, ProofShown, ProofRead, ProofOffered
  <2>3. CASE table = "tickets"
    BY <2>3 DEF Page, Tickets, TicketShown, TicketRead, TicketOffered
  <2>4. CASE table = "botDeliveries"
    <3>1. DOMAIN r.is = {"status"}
      BY <2>4 DEF IsRecord
    <3> QED BY <2>4, <3>1 DEF Page, BotDeliveries, BotDeliveryShown
  <2> QED BY <2>1, <2>2, <2>3, <2>4 DEF HasBatches
<1> HIDE DEF lost
<1>3. PICK m : m = Mapped(r)
  OBVIOUS
<1>4. m.key = r.key /\ m.order = r.order /\ m.is = r.is /\ m.lost = lost
  BY <1>1, <1>3
<1>5. Value(m, f) = Value(r, f)
  BY <1>2, <1>4 DEF Value
<1> QED BY <1>3, <1>5

LEMMA ListedMatches ==
    ASSUME Typed, HasBatches, NEW fl, NEW r \in Listed(fl)
    PROVE  Matches(r, Page.asked, fl)
<1>1. PICK s \in store : r = Mapped(s) /\ Matches(s, Page.asked, fl)
  BY DEF Listed
<1>2. IsRecord(s) /\ s.lost = {} /\ Page.asked \subseteq Page.offered
  BY FiltersAreApplied DEF Typed, TypedServer, TypedPage, Keyed, IsPage
<1>3. \A f \in Page.asked : Value(Mapped(s), f) = Value(s, f)
  BY <1>2, OfferedIsKept
<1> QED BY <1>1, <1>3 DEF Matches

\* A filter is sent or applied in the browser.
LEMMA AskedOrBrowsed ==
    ASSUME Typed, NEW r, NEW fl, Matches(r, Page.asked, fl), Matches(r, Page.browsed, fl)
    PROVE  Matches(r, Page.offered, fl)
BY FiltersAreApplied DEF Typed, TypedPage, IsPage, Matches

LEMMA PickedKept ==
    ASSUME Typed, OneAtATime, ReadingIsCurrent, PickedIsMatched, [Next]_vars
    PROVE  PickedIsMatched'
<1>0. UNCHANGED fixed /\ remote' = remote /\ table' = table /\ Page' = Page /\ (OnBots' <=> OnBots)
  BY FixedKept, StaysFixed
<1>1. \A r, fields, fl : Matches(r, fields, fl)' <=> Matches(r, fields, fl)
  BY DEF Matches, Value
<1> SUFFICES ASSUME HasBatches, remote, ~hasty' PROVE PicksMatch' /\ \A i \in Busy' : Fits(calls[i])'
  BY <1>0 DEF PickedIsMatched, HasBatches
<1> DEFINE Goal == PicksMatch' /\ \A i \in Busy' : Fits(calls[i])'
           Same == UNCHANGED <<rows, loading, source, filter, picked>>
<1>2. ASSUME PicksMatch', NEW d, \A i \in Busy' : calls'[i] = d, Fits(d)' PROVE Goal
  BY <1>2 DEF Fits, Reads, Writes, Good
<1>3. ASSUME ~hasty, Same PROVE PicksMatch' /\ \A c : (Fits(c) => Fits(c)')
  <2>1. PicksMatch
    BY <1>3 DEF PickedIsMatched
  <2> QED BY <1>0, <1>3, <2>1 DEF PicksMatch, Good, Fits, Reads, Writes, Matches, Value
<1>4. ASSUME ~hasty, Same, UNCHANGED calls PROVE Goal
  <2>1. PicksMatch' /\ \A i \in Busy : Fits(calls[i])
    BY <1>3, <1>4 DEF PickedIsMatched
  <2>2. ASSUME NEW i \in Busy' PROVE Fits(calls[i])'
    <3>1. PICK c : c = calls[i] /\ i \in Busy
      BY <1>4 DEF Busy
    <3>2. Fits(c)'
      BY <1>3, <1>4, <2>1, <3>1
    <3> QED BY <1>4, <3>1, <3>2 DEF Fits, Reads, Writes, Good
  <2> QED BY <2>1, <2>2
\* A reading begins.
<1>5. ASSUME NEW c, c.ans = Waiting, c.op \in {"load", "reload"} => picked' = {} \/ OnBots, ~Writes(c),
             \A i \in Busy' : calls'[i] = c, BeginReading,
             \A r \in rows : r.key \in picked' => Matches(r, Page.offered, filter')
      PROVE  Goal
  <2>1. loading' = TRUE /\ rows' = rows
    BY <1>5 DEF BeginReading
  <2>2. PicksMatch'
    BY <1>0, <1>5, <2>1 DEF PicksMatch, Matches, Value
  <2>3. Fits(c)'
    BY <1>0, <1>5 DEF Fits, Reads, Writes, OnBots
  <2> QED BY <1>2, <1>5, <2>2, <2>3
\* An action or a detail is asked for.
<1>6. ASSUME Same, Acting, NEW c, c.op \in {"act", "detail"}, c.at = 1, c.op = "act" => Good,
             calls' \in Ask(calls, c)
      PROVE  Goal
  <2>1. ~hasty /\ \A i \in Busy' : calls'[i] = c
    BY <1>6, AskedAlone
  <2>2. PicksMatch'
    BY <1>3, <1>6, <2>1
  <2>3. Fits(c)'
    BY <1>0, <1>6 DEF Fits, Reads, Writes, Good
  <2> QED BY <1>2, <2>1, <2>2, <2>3
<1> HIDE DEF Goal
<1>7. ASSUME Acting PROVE ~hasty /\ Busy = {}
  BY <1>7 DEF Acting, Typed, TypedPage
<1>8. CASE Operator
  <2>1. CASE ChangeFilter
    <3>1. picked' = {}
      BY <2>1, FilterChanges, BatchPages
    <3>2. CASE /\ BeginReading
               /\ hasty' = (hasty \/ \E i \in Busy : calls[i].op # "load")
               /\ calls' \in Ask(Dropped(calls), Call("load", None, FALSE, {}, filter', None))
      <4>1. PICK c : c = Call("load", None, FALSE, {}, filter', None)
        OBVIOUS
      <4>2. \A i \in Busy' : calls'[i] = c
        BY <3>2, <4>1, FilteredAlone
      <4>3. c.ans = Waiting /\ ~Writes(c)
        BY <4>1 DEF Call, Writes
      <4> QED BY <1>5, <3>1, <3>2, <4>2, <4>3 DEF Goal
    <3>3. CASE Page.browsed # {} /\ Acting /\ UNCHANGED <<rows, loading, source, calls>>
      <4>1. Busy' = {} /\ Page.asked = {}
        BY <1>7, <3>3, BatchPages DEF Busy
      <4>2. \A r : Matches(r, Page.asked, filter')
        BY <4>1 DEF Matches
      <4>3. PicksMatch'
        BY <1>0, <3>1, <4>2 DEF PicksMatch, Matches, Value
      <4> QED BY <4>1, <4>3 DEF Goal
    <3> QED BY <2>1, <3>2, <3>3, FilterChanges
  <2>2. CASE Reload
    <3>1. PICK c : c = Call("reload", None, FALSE, {}, filter, None)
      OBVIOUS
    <3>2. /\ Acting /\ BeginReading /\ UNCHANGED filter /\ calls' \in Ask(calls, c)
          /\ picked' = IF OnBots THEN picked ELSE {}
      BY <2>2, <3>1 DEF Reload, Clicks
    <3>3. ~hasty /\ \A i \in Busy' : calls'[i] = c
      BY <3>2, AskedAlone
    <3>4. c.ans = Waiting /\ ~Writes(c)
      BY <3>1 DEF Call, Writes
    <3>5. \A r \in rows : r.key \in picked' => Matches(r, Page.offered, filter')
      BY <3>2, <3>3 DEF PickedIsMatched, PicksMatch, Good
    <3> QED BY <1>5, <3>2, <3>3, <3>4, <3>5 DEF Goal
  <2>3. CASE Tick
    <3>1. ~hasty /\ Busy = {} /\ UNCHANGED <<rows, loading, source, filter, calls>>
      BY <1>7, <2>3 DEF Tick, listing
    <3>2. Busy' = {} /\ PicksMatch
      BY <3>1 DEF Busy, PickedIsMatched
    <3>3. CASE picked' = {}
      BY <1>0, <3>1, <3>2, <3>3 DEF Goal, PicksMatch, Good, Matches, Value
    <3>4. CASE ~loading /\ \E r \in Visible : picked' = picked \cup {r.key}
      <4>1. PICK r \in rows : Matches(r, Page.browsed, filter) /\ picked' = picked \cup {r.key}
        BY <3>4 DEF Visible, Narrowed, OnScreen
      <4>2. Good => Matches(r, Page.offered, filter)
        BY <3>2, <3>4, <4>1, AskedOrBrowsed DEF PicksMatch
      <4>3. \A s \in rows : s.key = r.key => s = r
        BY DEF Typed, TypedPage, Keyed
      <4>4. Good => \A s \in rows : s.key \in picked' => Matches(s, Page.offered, filter)
        BY <3>2, <4>1, <4>2, <4>3 DEF PicksMatch
      <4>5. Good' <=> Good
        BY <1>0, <3>1 DEF Good
      <4>6. PicksMatch'
        BY <1>0, <3>1, <3>2, <4>4, <4>5 DEF PicksMatch, Matches, Value
      <4> QED BY <3>2, <4>6 DEF Goal
    <3> QED BY <2>3, <3>3, <3>4 DEF Tick
  <2>4. CASE SwitchTab \/ SearchRows \/ OpenAction \/ CloseAction \/ CloseDetail
    <3>1. UNCHANGED <<rows, loading, source, filter, picked, calls, hasty>>
      BY <2>4 DEF SwitchTab, SearchRows, OpenAction, CloseAction, CloseDetail, listing, ghosts
    <3> QED BY <1>4, <3>1 DEF Goal
  <2>5. ASSUME Same, Good, NEW action, NEW batch, NEW rs, Begin(action, batch, rs)
        PROVE  Goal
    <3>1. PICK c : c = Call("act", action, batch, Requests(rs), filter, None)
      OBVIOUS
    <3>2. c.op = "act" /\ c.at = 1
      BY <3>1 DEF Call
    <3> QED BY <1>6, <2>5, <3>1, <3>2 DEF Begin, Clicks
  <2>6. CASE SubmitAction
    <3>1. UNCHANGED <<loading, source, filter>>
      BY <2>6, Submits
    <3>2. CASE source = "remote"
      <4>1. Begin(panel.action, panel.batch, panel.on) /\ UNCHANGED <<rows, picked>>
        BY <2>6, <3>2 DEF SubmitAction, Typed, TypedPage
      <4> QED BY <2>5, <3>1, <3>2, <4>1 DEF Good, Goal
    <3>3. CASE source # "remote"
      <4>1. Clicks /\ UNCHANGED <<rows, picked, calls>>
        BY <2>6, <3>3 DEF SubmitAction
      <4> QED BY <1>4, <1>7, <3>1, <4>1 DEF Goal, Clicks
    <3> QED BY <3>2, <3>3
  <2>7. CASE RetryAtOnce
    <3>1. PICK action \in Page.acts : AtOnce(action) /\ \E batch, rs : Begin(action, batch, rs)
      BY <2>7 DEF RetryAtOnce
    <3>2. Same /\ Good
      BY <2>7, <3>1, BatchPages DEF RetryAtOnce, listing, Good
    <3> QED BY <2>5, <3>1, <3>2 DEF Goal
  <2>8. CASE OpenDetail
    <3>1. PICK r \in Visible :
             IF source = "remote" /\ table # "bindings"
             THEN /\ calls' \in Ask(calls, Call("detail", None, FALSE, {}, None, r.key))
                  /\ detail' = [on |-> r.key, loading |-> TRUE, data |-> None]
                  /\ Clicks
             ELSE /\ detail' = [on |-> r.key, loading |-> FALSE, data |-> r.key]
                  /\ UNCHANGED <<calls, clicks, hasty>>
      BY <2>8 DEF OpenDetail
    <3>2. Same
      BY <2>8 DEF OpenDetail, listing
    <3>3. CASE source = "remote" /\ table # "bindings"
      <4>1. PICK c : c = Call("detail", None, FALSE, {}, None, r.key)
        OBVIOUS
      <4>2. c.op = "detail" /\ c.at = 1
        BY <4>1 DEF Call
      <4>3. calls' \in Ask(calls, c) /\ Acting
        BY <3>1, <3>3, <4>1 DEF Clicks
      <4>4. c.op # "act"
        BY <4>2
      <4> QED BY <1>6, <3>2, <4>2, <4>3, <4>4 DEF Goal
    <3>4. CASE ~(source = "remote" /\ table # "bindings")
      BY <1>4, <3>1, <3>2, <3>4 DEF Goal
    <3> QED BY <3>3, <3>4
  <2> QED BY <1>8, <2>1, <2>2, <2>3, <2>4, <2>6, <2>7, <2>8 DEF Operator
<1>9. CASE ServerMoves \/ UNCHANGED vars
  <2>1. UNCHANGED <<rows, loading, source, filter, picked, calls, hasty>>
    BY <1>9 DEF ServerMoves, vars, listing, ghosts
  <2> QED BY <1>4, <2>1 DEF Goal
<1>10. CASE \E i \in 1..MaxCalls : Answers(i)
  <2>1. PICK i \in 1..MaxCalls : Answers(i)
    BY <1>10
  <2>2. PICK c : c = calls[i]
    OBVIOUS
  <2>3. c # None /\ IsCall(c) /\ ~hasty /\ i \in Busy
    BY <2>1, <2>2, AnswersReplace, CallTyped DEF Busy, Typed, TypedCalls
  <2>4. Current(c) /\ Fits(c) /\ PicksMatch
    BY <2>2, <2>3 DEF ReadingIsCurrent, PickedIsMatched
  <2>5. ASSUME NEW d, calls' = [calls EXCEPT ![i] = d] PROVE \A j \in Busy' : calls'[j] = d
    BY <2>1, <2>5, AnswersReplace, AnsweredAlone
  <2>6. ASSUME NEW d, calls' = [calls EXCEPT ![i] = d], PicksMatch', Fits(d)' PROVE Goal
    BY <1>2, <2>5, <2>6 DEF Goal
  <2>7. ASSUME NEW d, d # None => d.op \in {"detail", "late"}, calls' = [calls EXCEPT ![i] = d], PicksMatch'
        PROVE  Goal
    <3>1. d # None => Fits(d)'
      BY <2>7 DEF Fits, Reads, Writes
    <3>2. d = None => Busy' = {}
      BY <2>5, <2>7 DEF Busy
    <3> QED BY <2>6, <2>7, <3>1, <3>2 DEF Goal, PicksMatch
  <2>8. ASSUME Same PROVE PicksMatch' /\ \A d : (Fits(d) => Fits(d)')
    BY <1>3, <2>3, <2>8
  <2>9. CASE ServeList(i)
    <3>1. Reads(c) /\ Same
      BY <2>2, <2>9, ListServed DEF ServeList, listing
    <3>2. PICK ans : /\ calls' = [calls EXCEPT ![i] = With(c, c.at, c.left, c.failed, ans)]
                     /\ ans = Listed(c.fl) \/ ans = Failed
      BY <2>2, <2>9, ListServed
    <3>3. PICK d : d = With(c, c.at, c.left, c.failed, ans)
      OBVIOUS
    <3>4. d.op = c.op /\ d.at = c.at /\ d.ans = ans
      BY <3>3 DEF With
    <3>5. ans # Failed => \A r \in ans : Matches(r, Page.asked, filter)
      BY <2>4, <3>1, <3>2, ListedMatches DEF Current
    <3>6. Fits(d)
      BY <2>4, <3>4, <3>5 DEF Fits, Reads, Writes
    <3> QED BY <2>6, <2>8, <3>1, <3>2, <3>3, <3>6 DEF Goal
  <2>10. CASE ServeDetail(i)
    <3>1. PICK ans : calls' = [calls EXCEPT ![i] = [c EXCEPT !.ans = ans]]
      BY <2>2, <2>10 DEF ServeDetail
    <3>2. [c EXCEPT !.ans = ans].op = c.op
      BY <2>3 DEF IsCall
    <3>3. c.op = "detail" /\ PicksMatch'
      BY <2>2, <2>8, <2>10 DEF ServeDetail, listing
    <3> QED BY <2>7, <3>1, <3>2, <3>3 DEF Goal
  <2>11. CASE ServeWrite(i)
    <3>1. Writes(c) /\ Same
      BY <2>2, <2>11, WriteServed DEF ServeWrite, listing
    <3>2. PICK w \in c.left, ok \in BOOLEAN : calls' = [calls EXCEPT ![i] = Written(c, w, ok)]
      BY <2>2, <2>11, WriteServed
    <3>3. PICK d : d = Written(c, w, ok)
      OBVIOUS
    <3>4. d.op = "act" /\ d.at = 1
      BY <2>3, <3>1, <3>3, WrittenTyped
    <3>5. Fits(d)
      BY <2>4, <3>1, <3>4 DEF Fits, Reads, Writes
    <3> QED BY <2>6, <2>8, <3>1, <3>2, <3>3, <3>5 DEF Goal
  <2>12. CASE ServeLate(i)
    <3>1. Same
      BY <2>12 DEF ServeLate, listing
    <3> QED BY <2>7, <2>8, <2>12, <3>1, LateServed DEF Goal
  <2>13. CASE WriteLanded(i)
    <3>1. Writes(c) /\ UNCHANGED <<fixed, filter>> /\ (picked' = picked \/ picked' = {})
      BY <2>2, <2>13 DEF WriteLanded, Writes
    <3>2. CASE c.ans = Done /\ GoesOn(i) /\ BeginReading
      <4>1. calls' = [calls EXCEPT ![i] = With(c, 2, {}, c.failed, Waiting)]
        BY <2>2, <2>3, <3>1, <3>2, GoesOnTyped
      <4>2. PICK d : d = With(c, 2, {}, c.failed, Waiting)
        OBVIOUS
      <4>3. d.op = c.op /\ d.at = 2 /\ d.ans = Waiting
        BY <4>2 DEF With
      <4>4. \A r \in rows : r.key \in picked' => Matches(r, Page.offered, filter')
        BY <2>4, <3>1 DEF PicksMatch, Fits
      <4>5. c.op = "act" /\ ~Writes(d)
        BY <3>1, <4>3 DEF Writes
      <4> QED BY <1>5, <2>5, <3>2, <4>1, <4>2, <4>3, <4>4, <4>5 DEF Goal
    <3>3. CASE Ends(i) /\ UNCHANGED <<listing, picked>>
      <4>1. Same
        BY <3>1, <3>3 DEF listing
      <4> QED BY <2>2, <2>3, <2>7, <2>8, <3>3, <4>1, CallEnded DEF Goal
    <3> QED BY <2>2, <2>13, <3>2, <3>3 DEF WriteLanded
  <2>14. CASE ListLanded(i)
    <3>1. Reads(c) /\ Ends(i) /\ UNCHANGED filter /\ c.ans # Waiting
      BY <2>2, <2>3, <2>14, ScriptOf DEF ListLanded
    <3>2. CASE c.ans # Failed
      <4>1. rows' = c.ans /\ (picked' = {} \/ picked' = picked)
        BY <2>2, <2>14, <3>2 DEF ListLanded
      <4>2. \A r \in rows' : Matches(r, Page.asked, filter)
        BY <2>4, <3>1, <3>2, <4>1 DEF Fits
      <4>3. picked' = {} \/ Page.browsed = {}
        <5>1. CASE table # "tickets"
          BY <5>1, BatchPages
        <5>2. CASE table = "tickets" /\ c.op \in {"load", "reload"}
          BY <2>4, <4>1, <5>2, BatchPages DEF Fits
        <5>3. CASE table = "tickets" /\ c.op = "act"
          <6>1. ~OnBots /\ InDrawer(c.action, c.batch) /\ c.action # "confirm_payment"
            BY <2>3, <5>3 DEF IsCall, OnBots, InDrawer, Page, Tickets
          <6> QED BY <2>2, <2>14, <3>2, <5>3, <6>1 DEF ListLanded
        <5> QED BY <3>1, <5>1, <5>2, <5>3 DEF Reads
      <4>4. \A r \in rows' : r.key \in picked' => Matches(r, Page.offered, filter)
        <5>1. Page.browsed = {} => \A r : Matches(r, Page.browsed, filter)
          BY DEF Matches
        <5> QED BY <4>2, <4>3, <5>1, AskedOrBrowsed
      <4>5. PicksMatch'
        BY <1>0, <3>1, <4>2, <4>4 DEF PicksMatch, Matches, Value
      <4> QED BY <2>2, <2>3, <2>7, <3>1, <4>5, CallEnded DEF Goal
    <3>3. CASE c.ans = Failed
      <4>1. source' = "remote-error" /\ (OnBots => rows' = {})
        BY <2>2, <2>14, <3>3 DEF ListLanded
      <4>2. PicksMatch'
        BY <1>0, <4>1 DEF PicksMatch, Good
      <4> QED BY <2>2, <2>3, <2>7, <3>1, <4>2, CallEnded DEF Goal
    <3> QED BY <3>2, <3>3
  <2>15. CASE DetailLanded(i)
    <3>1. Same /\ Ends(i)
      BY <2>15 DEF DetailLanded, listing
    <3> QED BY <2>2, <2>3, <2>7, <2>8, <3>1, CallEnded DEF Goal
  <2> QED BY <2>1, <2>9, <2>10, <2>11, <2>12, <2>13, <2>14, <2>15 DEF Answers
<1> QED BY <1>8, <1>9, <1>10 DEF Next, Goal

\* No batch that goes to the server is of records the filter above the table leaves out, whatever
\* filters were set before it, whichever of their answers came late, and whatever tabs and
\* keywords hid meanwhile.
THEOREM ListBatchMatchesFilter == Spec => []BatchMatchesFilter
<1> DEFINE I == Typed /\ OneAtATime /\ ReadingIsCurrent /\ PickedIsMatched
<1>1. Init => I
  <2>1. Init => PickedIsMatched
    <3> SUFFICES ASSUME Init, remote, NEW i \in Busy PROVE PicksMatch /\ Fits(calls[i])
      BY DEF PickedIsMatched, PicksMatch, Init, Busy
    <3>1. calls[i] = Call("load", None, FALSE, {}, None, None) /\ picked = {} /\ loading
      BY DEF Init, Busy
    <3> QED BY <3>1 DEF PicksMatch, Fits, Call, Reads, Writes
  <2> QED BY <2>1, ReadingStarts
<1>2. I /\ [Next]_vars => I'
  BY NextTyped, OneAtATimeKept, ReadingKept, PickedKept
<1>3. I => BatchMatchesFilter
  <2> SUFFICES ASSUME I, source = "remote", ~hasty, NEW action \in Page.acts, InBatch(action),
                      NEW r \in Chosen(action)
               PROVE  Matches(r, Page.offered, filter)
    BY DEF BatchMatchesFilter
  <2>1. HasBatches /\ remote
    BY BatchTables DEF Typed, TypedPage
  <2> QED BY <2>1 DEF PickedIsMatched, PicksMatch, Good, Chosen
<1> QED BY <1>1, <1>2, <1>3, PTL DEF Spec
=============================================================================
