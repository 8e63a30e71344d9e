-------------------------- MODULE StorefrontOrders --------------------------
(***************************************************************************)
(* The buyer's side of an order, in one browser tab: the checkout page of  *)
(* a product (ProductCheckoutPage over useStorefrontOrder), the order      *)
(* centre (StorefrontOrdersPage over useStorefrontOrdersCenter), and the   *)
(* session storage both share.  A handler runs up to its first await, and  *)
(* again from each answer to the next await; between them the buyer may    *)
(* press another button, move to another page, or come back.  What the     *)
(* handler remembers (the order, the product) is what was on the page at   *)
(* the click.                                                              *)
(*                                                                         *)
(* Leaving a page unmounts it: a later answer can still write the storage, *)
(* but what it sets on the page is dropped ("live").  The history buttons  *)
(* lead from one product to another without unmounting the checkout page.  *)
(*                                                                         *)
(* Abstractions: a status stands for the three statuses of an order; of a  *)
(* snapshot only the number, the product in buyer_ref and the status are   *)
(* kept; every answer carries the access token, so a known order can       *)
(* always be asked for.  Two writes to the storage never share a           *)
(* millisecond.  Bounds: Cardinality(Orders), Cardinality(Drafts), Limit,  *)
(* MaxCalls.                                                               *)
(***************************************************************************)
EXTENDS Integers, Sequences, FiniteSets, Subsequences

CONSTANTS
    Skus,       \* products on sale
    Orders,     \* order numbers the server can give
    Elsewhere,  \* those placed elsewhere (Telegram), whose buyer_ref names no product
    Drafts,     \* PD-LOCAL- numbers of the demo mode
    NoSku,      \* no product named
    NoOrder,    \* no order, no entry
    Waiting,    \* a call without an answer yet
    Failed,     \* a call that failed: refused, or its answer lost
    Limit,      \* entries kept in the storage (24 in the code)
    MaxCalls    \* handlers of the two pages in progress at a time

Statuses == {"awaiting", "review", "done", "cancelled"}
Snapshot == [no : Orders \cup Drafts, sku : Skus \cup {NoSku}, st : Statuses]
Entry == [sku : Skus \cup {NoSku}, order : Snapshot]

\* A handler that waits: where it was started, whether that page is still there, the order
\* it is about, what it remembers of it, its current call and the answer to that.
Operations == {"create", "lookup", "refresh", "markPaid", "cancel", "proof", "delivery"}
Handler == [op : Operations, from : Skus \cup {"orders"}, live : BOOLEAN,
            no : Orders \cup {NoOrder}, base : Snapshot \cup Entry \cup {NoOrder},
            at : 1..3, ans : Snapshot \cup {Waiting, Failed}]

\* The last two conjuncts: the marks are nothing the program handles.
ASSUME StorefrontAssumption ==
    /\ Elsewhere \subseteq Orders
    /\ Orders \cap Drafts = {}
    /\ Limit \in Nat \ {0}
    /\ {"orders", "away"} \cap Skus = {}
    /\ NoSku \notin Skus
    /\ NoOrder \notin Orders \cup Drafts \cup Snapshot \cup Entry \cup Handler
    /\ {Waiting, Failed} \cap Snapshot = {} /\ Waiting # Failed

VARIABLES
    remote,  \* isRemoteApiEnabled(): the same for the whole session
    server,  \* the orders of the server
    store,   \* session storage: entries, newest first
    page,    \* the page shown: a product, "orders", or "away"
    co,      \* state of the checkout page
    oc,      \* state of the order centre
    calls,   \* handlers waiting for an answer
    hasty    \* ghost: the buyer did something else while an answer was awaited

vars == <<remote, server, store, page, co, oc, calls, hasty>>

---------------------------------------------------------------------------
(* The server, as far as these pages see it *)

Snap(sv, o) == [no |-> o, sku |-> sv[o].sku, st |-> sv[o].st]

\* What the server makes of a call about order o: the orders that may follow.
Served(call, o) ==
    LET open == server[o].st \in {"awaiting", "review"}
        Becomes(st) == {[server EXCEPT ![o].st = st]}
    IN CASE call = "mark-paid" -> IF server[o].st = "awaiting" THEN Becomes("review") ELSE {}
         [] call = "payment-proof" -> IF open THEN Becomes("review") ELSE {}
         [] call = "cancel" -> IF open THEN Becomes("cancelled") ELSE {}
         [] call = "delivery" -> IF server[o].st = "done" THEN {server} ELSE {}
         [] OTHER -> {server}

\* A reviewer approves an order, or an automatic payment confirms it, and it is delivered.
OperatorDelivers ==
    /\ \E o \in Orders : /\ server[o].st \in {"awaiting", "review"}
                         /\ server' = [server EXCEPT ![o].st = "done"]
    /\ UNCHANGED <<remote, store, page, co, oc, calls, hasty>>

---------------------------------------------------------------------------
(* storage.ts *)

\* listStoredStorefrontOrders: a remote session does not see the drafts of the demo mode.
Listed(s) == Only(s, {k \in DOMAIN s : remote => s[k].order.no \notin Drafts})

\* The first entry among those at the positions given.
FirstOf(s, hits) == IF hits = {} THEN NoOrder ELSE s[CHOOSE k \in hits : \A m \in hits : k <= m]

EntryOf(s, no) == FirstOf(Listed(s), {k \in DOMAIN Listed(s) : Listed(s)[k].order.no = no})

OrderOf(entry) == IF entry = NoOrder THEN NoOrder ELSE entry.order

\* Mutant of LatestFor: the newest order, whatever it bought.
LatestOfAny(s, sku) == OrderOf(IF Listed(s) = <<>> THEN NoOrder ELSE Listed(s)[1])
\* getLatestStoredStorefrontOrderForProduct
LatestFor(s, sku) ==
    OrderOf(FirstOf(Listed(s), {k \in DOMAIN Listed(s) : Listed(s)[k].sku = sku}))

Others(s, no) == Only(s, {k \in DOMAIN s : s[k].order.no # no})

\* Mutant of Persist: the oldest entries are kept as well.
PersistAll(s, sku, o) == <<[sku |-> sku, order |-> o]>> \o Others(s, o.no)
\* persistStoredStorefrontOrder: the entry becomes the newest, the oldest beyond Limit go.
Persist(s, sku, o) ==
    LET all == <<[sku |-> sku, order |-> o]>> \o Others(s, o.no)
    IN SubSeq(all, 1, IF Len(all) < Limit THEN Len(all) ELSE Limit)

\* Mutant of ProductOf: the page's product at the click.
ProductOfPage(o, fallback) == fallback
\* resolveOrderProductSku: the product in buyer_ref, else the page's.
ProductOf(o, fallback) == IF o.sku # NoSku THEN o.sku ELSE fallback

---------------------------------------------------------------------------
(* The calls a handler makes, in order *)

Script(op) ==
    CASE op = "create" -> <<"create">>
      [] op \in {"lookup", "refresh"} -> <<"detail">>
      [] op = "markPaid" -> <<"mark-paid", "detail">>
      [] op = "cancel" -> <<"cancel", "detail">>
      [] op = "proof" -> <<"upload", "payment-proof", "detail">>
      [] op = "delivery" -> <<"delivery">>

Call(op, no, base) ==
    [op |-> op, from |-> page, live |-> TRUE, no |-> no, base |-> base, at |-> 1, ans |-> Waiting]

Busy == {i \in DOMAIN calls : calls[i] # NoOrder}
Ask(call) == \E i \in DOMAIN calls \ Busy :
                /\ \A j \in DOMAIN calls \ Busy : i <= j
                /\ calls' = [calls EXCEPT ![i] = call]

\* The server takes the call, and the answer arrives or is lost on the way.
Serve(i) ==
    LET c == calls[i] IN
    /\ c # NoOrder /\ c.ans = Waiting
    /\ \E o \in Orders, heard \in BOOLEAN :
         /\ IF c.op = "create"
            THEN /\ server[o].st = "none"
                 /\ server' = [server EXCEPT ![o].st = "awaiting", ![o].sku = c.from]
            ELSE /\ o = c.no /\ server[o].st # "none"
                 /\ server' \in Served(Script(c.op)[c.at], o)
         /\ calls' = [calls EXCEPT ![i].ans = IF heard THEN Snap(server', o) ELSE Failed]
    /\ UNCHANGED <<remote, store, page, co, oc, hasty>>

\* The call is refused or never arrives.
Fail(i) ==
    /\ calls[i] # NoOrder /\ calls[i].ans = Waiting
    /\ calls' = [calls EXCEPT ![i].ans = Failed]
    /\ UNCHANGED <<remote, server, store, page, co, oc, hasty>>

---------------------------------------------------------------------------
(* Order centre: useStorefrontOrdersCenter *)

First(s) == IF s = <<>> THEN NoOrder ELSE s[1].order.no
IsListed(s, no) == \E k \in DOMAIN s : s[k].order.no = no
Shown(centre) == IF IsListed(centre.entries, centre.sel) THEN centre.sel ELSE NoOrder
ShownEntry(centre) ==
    CHOOSE e \in {centre.entries[k] : k \in DOMAIN centre.entries} : e.order.no = centre.sel

FreshCentre(s) == [entries |-> Listed(s), sel |-> First(Listed(s)), loading |-> FALSE]

\* The effect on products and selection: the storage is read again, a selection it no
\* longer lists moves to the newest order.
ReadAgain(centre, s) ==
    [centre EXCEPT !.entries = Listed(s),
                   !.sel = IF IsListed(Listed(s), @) THEN @ ELSE First(Listed(s))]

\* syncEntries, and the effect when that moved the selection.
Sync(centre, s, no) ==
    LET next == [centre EXCEPT !.entries = Listed(s), !.sel = no]
    IN IF no = centre.sel THEN next ELSE ReadAgain(next, s)

SelectOrder ==
    /\ page = "orders"
    /\ \E k \in DOMAIN oc.entries :
         LET no == oc.entries[k].order.no IN
         /\ no # oc.sel
         /\ oc' = ReadAgain([oc EXCEPT !.sel = no], store)
         /\ hasty' = (hasty \/ oc.loading)
    /\ UNCHANGED <<remote, server, store, page, co, calls>>

\* The catalogue arrived again (the language changed): the effect reads the storage.
CatalogReloaded ==
    /\ page = "orders"
    /\ oc' = ReadAgain(oc, store)
    /\ UNCHANGED <<remote, server, store, page, co, calls, hasty>>

CentreBusy == [oc EXCEPT !.loading = TRUE]

RefreshSelected ==
    /\ page = "orders" /\ ~oc.loading /\ remote /\ Shown(oc) # NoOrder
    /\ oc' = CentreBusy
    /\ Ask(Call("refresh", oc.sel, ShownEntry(oc)))
    /\ UNCHANGED <<remote, server, store, page, co, hasty>>

LoadSelectedDelivery ==
    /\ page = "orders" /\ ~oc.loading /\ remote /\ Shown(oc) # NoOrder
    /\ ShownEntry(oc).order.st = "done"                      \* canLoadDeliveryResult
    /\ oc' = CentreBusy
    /\ Ask(Call("delivery", oc.sel, ShownEntry(oc)))
    /\ UNCHANGED <<remote, server, store, page, co, hasty>>

LookupInCentre ==
    /\ page = "orders" /\ ~oc.loading /\ remote
    /\ \E o \in Orders : /\ server[o].st # "none"
                         /\ oc' = CentreBusy
                         /\ Ask(Call("lookup", o, EntryOf(store, o)))
    /\ UNCHANGED <<remote, server, store, page, co, hasty>>

\* The demo mode: the stored draft is selected, or not found.
LookupDraftInCentre ==
    /\ page = "orders" /\ ~oc.loading /\ ~remote
    /\ \E d \in Drafts :
         EntryOf(store, d) # NoOrder /\ oc' = Sync(oc, store, d)
    /\ UNCHANGED <<remote, server, store, page, co, calls, hasty>>

\* The answer to a handler of the centre.
LandInCentre(c) ==
    LET ok == c.ans # Failed
        sku == IF c.base # NoOrder /\ c.base.sku # NoSku THEN c.base.sku ELSE c.ans.sku
        idle == [oc EXCEPT !.loading = FALSE]
        found == \/ ok /\ c.op # "delivery"
                 \/ ~ok /\ c.op = "lookup" /\ c.base # NoOrder
    IN /\ store' = IF ok /\ c.op # "delivery" THEN Persist(store, sku, c.ans) ELSE store
       /\ IF ~c.live THEN UNCHANGED <<oc>>
          ELSE oc' = IF found THEN Sync(idle, store', c.no) ELSE idle
       /\ UNCHANGED <<co>>

---------------------------------------------------------------------------
(* Checkout page: useStorefrontOrder *)

FreshCheckout(order) == [order |-> order, loading |-> FALSE, modal |-> FALSE]
Idle == FreshCheckout(NoOrder)
OnCheckout == page \in Skus
CheckoutBusy == [co EXCEPT !.loading = TRUE]

\* buildFallbackOrder, which an answer replaces, or which is the order in the demo mode.
Draft(d) == [no |-> d, sku |-> page, st |-> "awaiting"]

CreateOrder ==
    /\ OnCheckout /\ ~co.loading /\ remote
    /\ co' = CheckoutBusy
    /\ Ask(Call("create", NoOrder, NoOrder))
    /\ UNCHANGED <<remote, server, store, page, oc, hasty>>

\* Mutant of CanDo: the status of the order is not looked at.
CanDoAlways(op, o) == co.modal
\* The buttons of the payment dialog, and the handlers the hook offers beside them (no page
\* calls these three yet).
CanDo(op, o) ==
    CASE op = "markPaid" -> co.modal /\ o.st = "awaiting"
      [] op = "cancel" -> co.modal /\ o.st \notin {"cancelled", "done"}
      [] op \in {"refresh", "proof", "delivery"} -> TRUE

ActOnOrder(op) ==
    /\ OnCheckout /\ ~co.loading /\ remote /\ co.order # NoOrder
    /\ CanDo(op, co.order)
    /\ co' = CheckoutBusy
    /\ Ask(Call(op, co.order.no, co.order))
    /\ UNCHANGED <<remote, server, store, page, oc, hasty>>

\* applyOrderState: the order is shown and stored.
Apply(c, o, modal) ==
    /\ store' = Persist(store, ProductOf(o, c.from), o)
    /\ co' = IF c.live THEN [order |-> o, loading |-> FALSE, modal |-> modal] ELSE co

\* The answer to a handler of the checkout page.  A delivery result is put on the order as
\* it was at the click; a filed proof whose refresh fails is shown with that order too.
LandInCheckout(c) ==
    LET ok == c.ans # Failed
        filed == c.op = "proof" /\ c.at = Len(Script(c.op))
        opens == (co.modal \/ c.op = "create") /\ c.op # "cancel"
    IN /\ CASE ok /\ c.op # "delivery" -> Apply(c, c.ans, opens)
            [] IF ok THEN c.op = "delivery" ELSE filed -> Apply(c, c.base, co.modal)
            [] ~ok /\ ~filed -> /\ co' = IF c.live THEN [co EXCEPT !.loading = FALSE] ELSE co
                               /\ UNCHANGED store
       /\ UNCHANGED <<oc>>

\* An answer continues its handler: the next call, or the rest of the handler.
Land(i) ==
    LET c == calls[i] IN
    /\ c # NoOrder /\ c.ans # Waiting
    /\ IF c.ans # Failed /\ c.at < Len(Script(c.op))
       THEN /\ calls' = [calls EXCEPT ![i].at = @ + 1, ![i].ans = Waiting]
            /\ UNCHANGED <<store, co, oc>>
       ELSE /\ calls' = [calls EXCEPT ![i] = NoOrder]
            /\ IF c.from \in Skus THEN LandInCheckout(c) ELSE LandInCentre(c)
    /\ UNCHANGED <<remote, server, page, hasty>>

\* The demo mode: no server, every handler ends at once.
ActOnDraft ==
    LET Show(o, modal) == /\ store' = Persist(store, ProductOf(o, page), o)
                          /\ co' = [order |-> o, loading |-> FALSE, modal |-> modal]
    IN /\ OnCheckout /\ ~remote
       /\ \/ \E d \in Drafts : EntryOf(store, d) = NoOrder /\ Show(Draft(d), TRUE)
          \/ /\ co.order # NoOrder /\ CanDo("markPaid", co.order)
             /\ Show([co.order EXCEPT !.st = "review"], co.modal)
          \/ /\ co.order # NoOrder /\ CanDo("cancel", co.order)
             /\ Show([co.order EXCEPT !.st = "cancelled"], FALSE)
          \/ co.order # NoOrder /\ Show(co.order, co.modal)      \* a proof is added
       /\ UNCHANGED <<remote, server, page, oc, calls, hasty>>

ToggleDialog ==
    /\ OnCheckout /\ co.order # NoOrder
    /\ co' = [co EXCEPT !.modal = ~@]
    /\ UNCHANGED <<remote, server, store, page, oc, calls, hasty>>

---------------------------------------------------------------------------
(* Moving between pages *)

\* Another page is mounted with fresh state; from one product to another (the history
\* buttons) the checkout page stays, and its effect on product.sku reads the storage.
GoTo(p) ==
    /\ p # page
    /\ page' = p
    /\ LET stays == OnCheckout /\ p \in Skus
           centre == IF p = "orders" THEN FreshCentre(store) ELSE FreshCentre(<<>>)
       IN /\ co' = IF stays THEN [FreshCheckout(LatestFor(store, p)) EXCEPT !.loading = co.loading, !.modal = co.modal]
                   ELSE IF p \in Skus THEN FreshCheckout(LatestFor(store, p)) ELSE Idle
          /\ oc' = centre
          /\ calls' = IF stays THEN calls
                      ELSE [i \in DOMAIN calls |-> IF i \in Busy THEN [calls[i] EXCEPT !.live = FALSE] ELSE NoOrder]
    /\ hasty' = (hasty \/ Busy # {})
    /\ UNCHANGED <<remote, server, store>>

Init ==
    /\ remote \in BOOLEAN
    /\ server = [o \in Orders |-> [st |-> IF o \in Elsewhere THEN "awaiting" ELSE "none",
                                   sku |-> NoSku]]
    /\ \/ store = <<>>
       \/ \E d \in Drafts, k \in Skus :     \* left by the demo mode in this tab
            remote /\ store = <<[sku |-> k, order |-> [no |-> d, sku |-> k, st |-> "awaiting"]]>>
    /\ page = "away"
    /\ co = Idle /\ oc = FreshCentre(<<>>)
    /\ calls = [i \in 1..MaxCalls |-> NoOrder]
    /\ hasty = FALSE

Answers == \E i \in DOMAIN calls : Serve(i) \/ Fail(i) \/ Land(i)
Checkout == \/ CreateOrder \/ ActOnDraft \/ ToggleDialog
            \/ \E op \in {"markPaid", "cancel", "refresh", "proof", "delivery"} : ActOnOrder(op)
Centre == \/ SelectOrder \/ CatalogReloaded \/ RefreshSelected \/ LoadSelectedDelivery
          \/ LookupInCentre \/ LookupDraftInCentre

Next == \/ Answers \/ Checkout \/ Centre \/ OperatorDelivers
        \/ \E p \in Skus \cup {"orders", "away"} : GoTo(p)

\* Every call is answered or given up by the browser, and every answer runs its handler on.
Spec == Init /\ [][Next]_vars
             /\ \A i \in 1..MaxCalls : WF_vars(Serve(i) \/ Fail(i)) /\ WF_vars(Land(i))

---------------------------------------------------------------------------
\* The variables keep to their types, the storage to its limit, and a page that waits has a
\* handler that will end it.
TypeOK ==
    /\ remote \in BOOLEAN /\ hasty \in BOOLEAN
    /\ page \in Skus \cup {"orders", "away"}
    /\ Len(store) <= Limit /\ \A k \in DOMAIN store : store[k] \in Entry
    /\ co.order \in Snapshot \cup {NoOrder}
    /\ oc.sel \in Orders \cup Drafts \cup {NoOrder}
    /\ calls \in [1..MaxCalls -> Handler \cup {NoOrder}]
    /\ co.loading => \E i \in Busy : calls[i].live /\ calls[i].from \in Skus
    /\ oc.loading => \E i \in Busy : calls[i].live /\ calls[i].from = "orders"

\* An order that names its product is filed under that product, whichever page its answer
\* landed on, and the storage holds no order twice.
FiledUnderItsProduct ==
    /\ \A k \in DOMAIN store : store[k].order.sku # NoSku => store[k].sku = store[k].order.sku
    /\ \A k, m \in DOMAIN store : store[k].order.no = store[m].order.no => k = m

\* A demo draft is never shown by a remote session.  And unless the buyer moved on while an
\* answer was awaited, each page shows what belongs to it: the checkout page an order of its
\* product, the centre an order whenever it lists one.
PatientBuyerSeesItsOwn ==
    /\ remote => /\ co.order = NoOrder \/ co.order.no \notin Drafts
                 /\ \A k \in DOMAIN oc.entries : oc.entries[k].order.no \notin Drafts
    /\ ~hasty => /\ (OnCheckout /\ co.order # NoOrder /\ co.order.sku # NoSku) => co.order.sku = page
                 /\ (page = "orders" /\ oc.entries # <<>>) => Shown(oc) # NoOrder

\* Unless the buyer moved on while an answer was awaited, no stored order goes back to an
\* earlier status.
Rank(st) == CASE st = "awaiting" -> 0 [] st = "review" -> 1 [] st \in {"done", "cancelled"} -> 2
NeverTurnsBack ==
    [][~hasty => \A k \in DOMAIN store, m \in DOMAIN store' :
           store[k].order.no = store'[m].order.no => Rank(store[k].order.st) <= Rank(store'[m].order.st)]_vars
=============================================================================
