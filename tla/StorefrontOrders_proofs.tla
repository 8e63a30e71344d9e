---------------------- MODULE StorefrontOrders_proofs ----------------------
(***************************************************************************)
(* Theorems about StorefrontOrders, for any products, orders, drafts,      *)
(* length of the storage and number of handlers in progress.               *)
(***************************************************************************)
EXTENDS StorefrontOrders, FiniteSetTheorems, WellFoundedInduction, TLAPS

-----------------------------------------------------------------------------
(* The inductive invariant                                                 *)

Numbers == Orders \cup Drafts
ServerRows == [Orders -> [st : Statuses \cup {"none"}, sku : Skus \cup {NoSku}]]
CheckoutStates == [order : Snapshot \cup {NoOrder}, loading : BOOLEAN, modal : BOOLEAN]
CentreStates == [entries : Seq(Entry), sel : Numbers \cup {NoOrder}, loading : BOOLEAN]

Typed ==
    /\ remote \in BOOLEAN /\ hasty \in BOOLEAN
    /\ page \in Skus \cup {"orders", "away"}
    /\ server \in ServerRows
    /\ co \in CheckoutStates
    /\ oc \in CentreStates
    /\ calls \in [1..MaxCalls -> Handler \cup {NoOrder}]

\* What a page, an answer or the storage says of an order was true of it once: the server
\* has the order, for that product, and no earlier in its life.  The demo mode knows drafts.
Stands(sv, o) ==
    o.no \in Orders =>
        /\ remote
        /\ sv[o.no].st # "none" /\ sv[o.no].sku = o.sku
        /\ Rank(o.st) <= Rank(sv[o.no].st)

Filed(e) == e.order.sku # NoSku => e.sku = e.order.sku
Visible(o) == remote => o.no \notin Drafts

StoreOK(sv, s) ==
    /\ s \in Seq(Entry) /\ Len(s) <= Limit
    /\ \A k \in DOMAIN s : Stands(sv, s[k].order) /\ Filed(s[k])
    /\ \A k, m \in DOMAIN s : s[k].order.no = s[m].order.no => k = m

CheckoutOK(sv, c) == c.order # NoOrder => Stands(sv, c.order) /\ Visible(c.order)
EntriesOK(sv, s) ==
    \A k \in DOMAIN s : Stands(sv, s[k].order) /\ Filed(s[k]) /\ Visible(s[k].order)

\* A handler is about the order it remembers, and so is the answer it got.
HandlerOK(sv, c) ==
    /\ c.op = "create" => c.from \in Skus
    /\ c.op # "create" => c.no \in Orders /\ sv[c.no].st # "none"
    /\ c.from \in Skus /\ c.op # "create" =>
           /\ c.base \in Snapshot /\ c.base.no = c.no
           /\ Stands(sv, c.base)
    /\ c.from = "orders" =>
           /\ c.op \in {"lookup", "refresh", "delivery"}
           /\ c.base # NoOrder =>
                  /\ c.base \in Entry /\ c.base.order.no = c.no
                  /\ Stands(sv, c.base.order) /\ Filed(c.base)
    /\ c.ans \in Snapshot =>
           /\ c.ans.no \in Orders /\ Stands(sv, c.ans)
           /\ IF c.op = "create" THEN c.ans.sku = c.from ELSE c.ans.no = c.no

HandlersOK(sv, cs) == \A i \in DOMAIN cs : cs[i] # NoOrder => remote /\ HandlerOK(sv, cs[i])

\* A page that waits has a handler that will end it.
CheckoutWaits == co.loading => \E i \in Busy : calls[i].live /\ calls[i].from \in Skus
CentreWaits == oc.loading => \E i \in Busy : calls[i].live /\ calls[i].from = "orders"

\* A buyer who waits has one handler in progress, which the page shows.
OneAtATime ==
    \A i \in Busy :
        /\ \A j \in Busy : j = i
        /\ calls[i].live /\ calls[i].from = page
        /\ IF page = "orders" THEN oc.loading ELSE co.loading

\* The checkout page shows such a buyer the order as it is stored, if it still is.
CheckoutIsStored ==
    OnCheckout /\ co.order # NoOrder =>
        /\ co.order.sku \in {NoSku, page}
        /\ \A k \in DOMAIN store : store[k].order.no = co.order.no => store[k].order = co.order

\* What the handler remembers and what it was answered is not behind the storage.
HandlerIsCurrent ==
    \A i \in Busy :
        /\ calls[i].from \in Skus /\ calls[i].op # "create" => calls[i].base = co.order
        /\ calls[i].op = "lookup" /\ calls[i].base # NoOrder =>
               \E k \in DOMAIN store : store[k].order.no = calls[i].no
        /\ calls[i].ans \in Snapshot =>
               \A k \in DOMAIN store : store[k].order.no = calls[i].ans.no =>
                   Rank(store[k].order.st) <= Rank(calls[i].ans.st)

CentreShows == page = "orders" /\ oc.entries # <<>> => IsListed(oc.entries, oc.sel)

Patient == ~hasty => OneAtATime /\ CheckoutIsStored /\ HandlerIsCurrent /\ CentreShows

IInv ==
    /\ Typed
    /\ StoreOK(server, store)
    /\ CheckoutOK(server, co) /\ EntriesOK(server, oc.entries)
    /\ HandlersOK(server, calls)
    /\ CheckoutWaits /\ CentreWaits
    /\ Patient
-----------------------------------------------------------------------------
(* Filtered lists                                                          *)

\* The place of position i among those kept, as Only counts it.
Place(kept, i) == Cardinality({j \in kept : j <= i})

\* The places are 1, 2, ... in the order of the positions.
LEMMA PlacesCount ==
    ASSUME NEW n \in Nat, NEW kept \in SUBSET (1..n)
    PROVE  /\ IsFiniteSet(kept) /\ Cardinality(kept) \in Nat
           /\ \A i \in kept : Place(kept, i) \in 1..Cardinality(kept)
           /\ \A i, j \in kept : i < j => Place(kept, i) < Place(kept, j)
           /\ \A k \in 1..Cardinality(kept) : \E i \in kept : Place(kept, i) = k
<1>1. IsFiniteSet(kept) /\ Cardinality(kept) \in Nat
  <2>1. IsFiniteSet(1..n)
    BY FS_Interval
  <2> QED BY <2>1, FS_Subset, FS_CardinalityType
<1>2. ASSUME NEW i \in kept
      PROVE  Place(kept, i) \in 1..Cardinality(kept)
  <2> DEFINE upTo == {j \in kept : j <= i}
  <2>1. i \in upTo /\ upTo \subseteq kept
    OBVIOUS
  <2> HIDE DEF upTo
  <2>2. IsFiniteSet(upTo) /\ Cardinality(upTo) <= Cardinality(kept) /\ Cardinality(upTo) \in Nat
    BY <1>1, <2>1, FS_Subset, FS_CardinalityType
  <2>3. Cardinality(upTo) # 0
    BY <2>1, <2>2, FS_EmptySet
  <2>4. Cardinality(upTo) \in 1..Cardinality(kept)
    BY <1>1, <2>2, <2>3
  <2> QED BY <2>4 DEF Place, upTo
<1>3. ASSUME NEW i \in kept, NEW j \in kept, i < j
      PROVE  Place(kept, i) < Place(kept, j)
  <2> DEFINE toI == {h \in kept : h <= i}
             toJ == {h \in kept : h <= j}
  <2>0. \A h \in kept : h \in Nat
    OBVIOUS
  <2>1. toI \subseteq toJ /\ j \in toJ /\ j \notin toI /\ toJ \subseteq kept
    <3>1. \A h \in kept : h <= i => h <= j
      BY <1>3, <2>0
    <3>2. j <= j /\ ~(j <= i)
      BY <1>3, <2>0
    <3> QED BY <3>1, <3>2
  <2>2. Place(kept, i) = Cardinality(toI) /\ Place(kept, j) = Cardinality(toJ)
    BY DEF Place
  <2> HIDE DEF toI, toJ
  <2>3. IsFiniteSet(toJ)
    BY <1>1, <2>1, FS_Subset
  <2>4. IsFiniteSet(toI) /\ Cardinality(toI) <= Cardinality(toJ) /\ Cardinality(toI) # Cardinality(toJ)
    BY <2>1, <2>3, FS_Subset
  <2>5. Cardinality(toI) \in Nat /\ Cardinality(toJ) \in Nat
    BY <2>3, <2>4, FS_CardinalityType
  <2> QED BY <2>2, <2>4, <2>5
<1>4. \A k \in 1..Cardinality(kept) : \E i \in kept : Place(kept, i) = k
  <2> DEFINE place == [i \in kept |-> Place(kept, i)]
             places == 1..Cardinality(kept)
  <2>1. place \in [kept -> places]
    BY <1>2
  <2>2. \A i, j \in kept : place[i] = place[j] => i = j
    <3> SUFFICES ASSUME NEW i \in kept, NEW j \in kept, Place(kept, i) = Place(kept, j)
                 PROVE  i = j
      OBVIOUS
    <3>1. Place(kept, i) \in Nat /\ Place(kept, j) \in Nat
      BY <1>1, <1>2
    <3>2. ~(i < j) /\ ~(j < i)
      BY <1>3, <3>1
    <3> QED BY <3>2
  <2>3. IsFiniteSet(places) /\ Cardinality(places) = Cardinality(kept)
    <3> PICK c \in Nat : c = Cardinality(kept)
      BY <1>1
    <3>1. 1 \in Int /\ c \in Int
      OBVIOUS
    <3>2. IsFiniteSet(1..c) /\ Cardinality(1..c) = IF 1 > c THEN 0 ELSE c - 1 + 1
      BY <3>1, FS_Interval
    <3> QED BY <3>2
  <2>4. DOMAIN place = kept /\ \A i \in kept : place[i] = Place(kept, i)
    OBVIOUS
  <2> HIDE DEF place, places
  <2>5. place \in Injection(kept, places)
    BY <2>1, <2>2, <2>4 DEF Injection, IsInjective
  <2>6. place \in Surjection(kept, places)
    BY <2>3, <2>5, FS_Injection
  <2> QED BY <2>4, <2>6 DEF Surjection, places
<1> QED BY <1>1, <1>2, <1>3, <1>4

\* A filtered list has the elements at the positions kept, in their order.
LEMMA OnlyKeeps ==
    ASSUME NEW S, NEW s \in Seq(S), NEW kept \in SUBSET DOMAIN s
    PROVE  /\ Only(s, kept) \in Seq(S)
           /\ \E from \in [DOMAIN Only(s, kept) -> kept] :
                /\ \A k \in DOMAIN Only(s, kept) : Only(s, kept)[k] = s[from[k]]
                /\ \A k, l \in DOMAIN Only(s, kept) : k < l => from[k] < from[l]
                /\ \A i \in kept : \E k \in DOMAIN Only(s, kept) : from[k] = i
<1> DEFINE places == 1..Cardinality(kept)
           from == [k \in places |-> CHOOSE i \in kept : Place(kept, i) = k]
<1>1. Len(s) \in Nat /\ DOMAIN s = 1..Len(s) /\ \A i \in kept : s[i] \in S
  OBVIOUS
<1>2. /\ Cardinality(kept) \in Nat
      /\ \A i \in kept : Place(kept, i) \in places
      /\ \A i, j \in kept : i < j => Place(kept, i) < Place(kept, j)
      /\ \A k \in places : \E i \in kept : Place(kept, i) = k
  BY <1>1, PlacesCount
<1>3. \A k \in places : from[k] \in kept /\ Place(kept, from[k]) = k
  BY <1>2
<1>4. Only(s, kept) = [k \in places |-> s[from[k]]]
  BY DEF Only, Place
<1> HIDE DEF from
<1>5. Only(s, kept) \in Seq(S) /\ DOMAIN Only(s, kept) = places
  BY <1>1, <1>2, <1>3, <1>4
<1>6. \A k \in places : Only(s, kept)[k] = s[from[k]]
  BY <1>4
<1>7. from \in [places -> kept]
  BY <1>3 DEF from
<1>8. ASSUME NEW k \in places, NEW l \in places, k < l
      PROVE  from[k] < from[l]
  <2>1. from[k] \in kept /\ from[l] \in kept /\ from[k] \in Nat /\ from[l] \in Nat
    BY <1>1, <1>3
  <2>2. ~(from[l] < from[k]) /\ from[k] # from[l]
    BY <1>2, <1>3, <1>8, <2>1
  <2> QED BY <2>1, <2>2
<1>9. ASSUME NEW i \in kept
      PROVE  \E k \in places : from[k] = i
  <2>1. PICK k \in places : k = Place(kept, i)
    BY <1>2
  <2>2. from[k] \in kept /\ Place(kept, from[k]) = Place(kept, i)
    BY <1>3, <2>1
  <2>3. ~(from[k] < i) /\ ~(i < from[k])
    BY <1>2, <2>1, <2>2
  <2>4. from[k] \in Nat /\ i \in Nat
    BY <1>1, <2>2
  <2> QED BY <2>3, <2>4
<1> HIDE DEF places
<1> QED BY <1>5, <1>6, <1>7, <1>8, <1>9

\* Of the positions given the first is taken, if there is one.
LEMMA FirstIsOne ==
    ASSUME NEW s, NEW hits \in SUBSET Nat
    PROVE  /\ hits = {} => FirstOf(s, hits) = NoOrder
           /\ hits # {} => \E k \in hits : FirstOf(s, hits) = s[k]
<1>1. CASE hits = {}
  BY <1>1 DEF FirstOf
<1>2. CASE hits # {}
  <2>1. IsWellFoundedOn(OpToRel(<,Nat), Nat)
    BY NatLessThanWellFounded
  <2>2. PICK x \in hits : \A y \in hits : ~(<<y, x>> \in OpToRel(<,Nat))
    BY <1>2, <2>1, WFMin
  <2>3. \A y \in hits : ~(y < x)
    BY <2>2 DEF OpToRel
  <2>4. \A y \in hits : x <= y
    BY <2>3
  <2> QED BY <1>2, <2>4 DEF FirstOf
<1> QED BY <1>1, <1>2

-----------------------------------------------------------------------------
(* storage.ts                                                              *)

\* Entries have orders with a number of their own.
LEMMA Kinds ==
    /\ \A e \in Entry : e.order \in Snapshot /\ e.sku \in Skus \cup {NoSku} /\ e # NoOrder
    /\ \A o \in Snapshot : /\ o.no \in Numbers /\ o.st \in Statuses /\ o # NoOrder
                           /\ o.sku \in Skus \cup {NoSku} /\ o \notin {Waiting, Failed}
    /\ NoOrder \notin Numbers
    /\ \A h \in Handler : h # NoOrder
    /\ "orders" \notin Skus /\ "away" \notin Skus /\ NoSku \notin Skus
BY StorefrontAssumption DEF Entry, Snapshot, Numbers

\* The list is what is stored and visible.
LEMMA ListedIsVisible ==
    ASSUME NEW s \in Seq(Entry)
    PROVE  /\ Listed(s) \in Seq(Entry)
           /\ \A k \in DOMAIN Listed(s) :
                  \E j \in DOMAIN s : Listed(s)[k] = s[j] /\ Visible(s[j].order)
           /\ \A j \in DOMAIN s :
                  Visible(s[j].order) => \E k \in DOMAIN Listed(s) : Listed(s)[k] = s[j]
<1> DEFINE kept == {k \in DOMAIN s : Visible(s[k].order)}
<1>1. Listed(s) = Only(s, kept)
  BY DEF Listed, Visible
<1>2. kept \in SUBSET DOMAIN s
  OBVIOUS
<1>3. \A j \in kept : j \in DOMAIN s /\ Visible(s[j].order)
  OBVIOUS
<1>4. \A j \in DOMAIN s : Visible(s[j].order) => j \in kept
  OBVIOUS
<1> HIDE DEF kept
<1>5. /\ Listed(s) \in Seq(Entry)
      /\ \E from \in [DOMAIN Listed(s) -> kept] :
           /\ \A k \in DOMAIN Listed(s) : Listed(s)[k] = s[from[k]]
           /\ \A i \in kept : \E k \in DOMAIN Listed(s) : from[k] = i
  BY <1>1, <1>2, OnlyKeeps
<1>6. PICK from \in [DOMAIN Listed(s) -> kept] :
           /\ \A k \in DOMAIN Listed(s) : Listed(s)[k] = s[from[k]]
           /\ \A i \in kept : \E k \in DOMAIN Listed(s) : from[k] = i
  BY <1>5
<1>7. \A k \in DOMAIN Listed(s) : from[k] \in kept
  BY <1>6
<1> QED BY <1>3, <1>4, <1>5, <1>6, <1>7

\* The entry of a number, or none.
LEMMA EntryIsStored ==
    ASSUME NEW s \in Seq(Entry), NEW no
    PROVE  /\ EntryOf(s, no) = NoOrder =>
                  \A j \in DOMAIN s : Visible(s[j].order) => s[j].order.no # no
           /\ EntryOf(s, no) # NoOrder =>
                  \E j \in DOMAIN s : /\ EntryOf(s, no) = s[j] /\ s[j].order.no = no
                                      /\ Visible(s[j].order)
<1> DEFINE hits == {k \in DOMAIN Listed(s) : Listed(s)[k].order.no = no}
<1>1. EntryOf(s, no) = FirstOf(Listed(s), hits)
  BY DEF EntryOf
<1>2. Listed(s) \in Seq(Entry)
  BY ListedIsVisible
<1>3. hits \in SUBSET Nat
  BY <1>2
<1>4. \A k \in hits : k \in DOMAIN Listed(s) /\ Listed(s)[k].order.no = no
  OBVIOUS
<1>5. \A k \in DOMAIN Listed(s) : Listed(s)[k].order.no = no => k \in hits
  OBVIOUS
<1> HIDE DEF hits
<1>6. CASE hits = {}
  <2>1. EntryOf(s, no) = NoOrder
    BY <1>1, <1>3, <1>6, FirstIsOne
  <2>2. ASSUME NEW j \in DOMAIN s, Visible(s[j].order)
        PROVE  s[j].order.no # no
    BY <1>5, <1>6, <2>2, ListedIsVisible
  <2> QED BY <2>1, <2>2
<1>7. CASE hits # {}
  <2>1. PICK k \in hits : EntryOf(s, no) = Listed(s)[k]
    BY <1>1, <1>3, <1>7, FirstIsOne
  <2>2. k \in DOMAIN Listed(s) /\ Listed(s)[k].order.no = no /\ Listed(s)[k] \in Entry
    BY <1>2, <1>4
  <2>3. PICK j \in DOMAIN s : Listed(s)[k] = s[j] /\ Visible(s[j].order)
    BY <2>2, ListedIsVisible
  <2> QED BY <2>1, <2>2, <2>3, Kinds
<1> QED BY <1>6, <1>7

\* The newest visible order of a product, or none.
LEMMA LatestIsStored ==
    ASSUME NEW s \in Seq(Entry), NEW sku, LatestFor(s, sku) # NoOrder
    PROVE  \E j \in DOMAIN s : /\ LatestFor(s, sku) = s[j].order /\ s[j].sku = sku
                               /\ Visible(s[j].order)
<1> DEFINE hits == {k \in DOMAIN Listed(s) : Listed(s)[k].sku = sku}
<1>1. LatestFor(s, sku) = OrderOf(FirstOf(Listed(s), hits))
  BY DEF LatestFor
<1>2. Listed(s) \in Seq(Entry)
  BY ListedIsVisible
<1>3. hits \in SUBSET Nat
  BY <1>2
<1>4. \A k \in hits : k \in DOMAIN Listed(s) /\ Listed(s)[k].sku = sku
  OBVIOUS
<1> HIDE DEF hits
<1>5. hits # {}
  BY <1>1, <1>3, FirstIsOne DEF OrderOf
<1>6. PICK k \in hits : FirstOf(Listed(s), hits) = Listed(s)[k]
  BY <1>3, <1>5, FirstIsOne
<1>7. k \in DOMAIN Listed(s) /\ Listed(s)[k].sku = sku /\ Listed(s)[k] \in Entry
  BY <1>2, <1>4
<1>8. PICK j \in DOMAIN s : Listed(s)[k] = s[j] /\ Visible(s[j].order)
  BY <1>7, ListedIsVisible
<1>9. LatestFor(s, sku) = s[j].order
  BY <1>1, <1>6, <1>7, <1>8, Kinds DEF OrderOf
<1> QED BY <1>7, <1>8, <1>9

\* After its first entry, t has entries of s of other orders, each once.
Continues(t, s, no) ==
    \E from \in [2..Len(t) -> DOMAIN s] :
        /\ \A k \in 2..Len(t) : t[k] = s[from[k]] /\ s[from[k]].order.no # no
        /\ \A k, m \in 2..Len(t) : k # m => from[k] # from[m]

\* What is persisted is in front, and the rest is what was stored of other orders.
LEMMA PersistKeeps ==
    ASSUME NEW s \in Seq(Entry), NEW sku \in Skus \cup {NoSku}, NEW o \in Snapshot,
           NEW t, t = Persist(s, sku, o)
    PROVE  /\ t \in Seq(Entry) /\ Len(t) \in 1..Limit
           /\ t[1] = [sku |-> sku, order |-> o]
           /\ Continues(t, s, o.no)
<1> DEFINE kept == {k \in DOMAIN s : s[k].order.no # o.no}
           rest == Others(s, o.no)
           all == <<[sku |-> sku, order |-> o]>> \o rest
<1>1. rest = Only(s, kept)
  BY DEF Others
<1>2. kept \in SUBSET DOMAIN s
  OBVIOUS
<1>3. \A j \in kept : j \in DOMAIN s /\ s[j].order.no # o.no
  OBVIOUS
<1> HIDE DEF kept, rest
<1>4. /\ rest \in Seq(Entry)
      /\ \E from \in [DOMAIN rest -> kept] :
           /\ \A k \in DOMAIN rest : rest[k] = s[from[k]]
           /\ \A k, l \in DOMAIN rest : k < l => from[k] < from[l]
  BY <1>1, <1>2, OnlyKeeps
<1>5. PICK from \in [DOMAIN rest -> kept] :
           /\ \A k \in DOMAIN rest : rest[k] = s[from[k]]
           /\ \A k, l \in DOMAIN rest : k < l => from[k] < from[l]
  BY <1>4
<1>6. [sku |-> sku, order |-> o] \in Entry
  BY DEF Entry
<1>7. /\ all \in Seq(Entry) /\ Len(all) = Len(rest) + 1 /\ Len(rest) \in Nat
      /\ all[1] = [sku |-> sku, order |-> o]
      /\ \A k \in 2..Len(all) : all[k] = rest[k - 1] /\ k - 1 \in DOMAIN rest
  BY <1>4, <1>6
<1> HIDE DEF all
<1>8. t = SubSeq(all, 1, IF Len(all) < Limit THEN Len(all) ELSE Limit)
  BY DEF Persist, all, rest
<1>9. /\ t \in Seq(Entry) /\ Len(t) \in 1..Limit /\ Len(t) <= Len(all)
      /\ \A k \in 1..Len(t) : t[k] = all[k]
  <2>1. PICK n \in Nat : n = IF Len(all) < Limit THEN Len(all) ELSE Limit
    BY <1>7, StorefrontAssumption
  <2>2. n \in 1..Limit /\ n <= Len(all)
    BY <1>7, <2>1, StorefrontAssumption
  <2>3. t = SubSeq(all, 1, n)
    BY <1>8, <2>1
  <2>4. SubSeq(all, 1, n) \in Seq(Entry) /\ Len(SubSeq(all, 1, n)) = n
    BY <1>7, <2>2
  <2>5. \A k \in 1..n : SubSeq(all, 1, n)[k] = all[k]
    BY <1>7, <2>2
  <2> QED BY <2>2, <2>3, <2>4, <2>5
<1> DEFINE back == [k \in 2..Len(t) |-> from[k - 1]]
<1>10. ASSUME NEW k \in 2..Len(t)
       PROVE  /\ back[k] \in DOMAIN s /\ t[k] = s[back[k]] /\ s[back[k]].order.no # o.no
              /\ k - 1 \in DOMAIN rest /\ back[k] = from[k - 1]
  <2>1. t[k] = all[k] /\ all[k] = rest[k - 1] /\ k - 1 \in DOMAIN rest
    BY <1>7, <1>9
  <2> QED BY <1>3, <1>5, <2>1
<1>11. back \in [2..Len(t) -> DOMAIN s]
  BY <1>10
<1>12. ASSUME NEW k \in 2..Len(t), NEW m \in 2..Len(t), k # m
       PROVE  back[k] # back[m]
  <2>1. /\ k - 1 \in DOMAIN rest /\ m - 1 \in DOMAIN rest
        /\ k \in Nat /\ m \in Nat /\ (k - 1 < m - 1 \/ m - 1 < k - 1)
    BY <1>9, <1>10, <1>12
  <2>2. from[k - 1] \in Nat /\ from[m - 1] \in Nat
    BY <1>10
  <2>3. from[k - 1] # from[m - 1]
    BY <1>5, <2>1, <2>2
  <2> QED BY <1>10, <2>3
<1> HIDE DEF back
<1>13. t[1] = [sku |-> sku, order |-> o]
  BY <1>7, <1>9
<1>14. Continues(t, s, o.no)
  BY <1>10, <1>11, <1>12 DEF Continues
<1> QED BY <1>9, <1>13, <1>14

-----------------------------------------------------------------------------
(* The server                                                              *)

\* Known orders keep their product and go forward in their life.
Onward(a, b) ==
    \A o \in Orders : a[o].st # "none" =>
        /\ b[o].st # "none" /\ b[o].sku = a[o].sku
        /\ Rank(a[o].st) <= Rank(b[o].st)

LEMMA Ranks ==
    /\ \A st \in Statuses : Rank(st) \in 0..2
    /\ Rank("awaiting") = 0 /\ Rank("review") = 1 /\ Rank("done") = 2 /\ Rank("cancelled") = 2
BY DEF Rank, Statuses

LEMMA OnwardStays == ASSUME NEW a \in ServerRows PROVE Onward(a, a)
BY Ranks DEF Onward, ServerRows

Moved(a, o, st) == [a EXCEPT ![o].st = st]

\* An order that moves to a later status.
LEMMA OneMoves ==
    ASSUME NEW a \in ServerRows, NEW o \in Orders, NEW st \in Statuses,
           a[o].st # "none", Rank(a[o].st) <= Rank(st),
           NEW b, b = Moved(a, o, st)
    PROVE  b \in ServerRows /\ Onward(a, b) /\ b[o].st = st
<1>1. PICK r : r = [a[o] EXCEPT !.st = st]
  OBVIOUS
<1>2. /\ r \in [st : Statuses \cup {"none"}, sku : Skus \cup {NoSku}]
      /\ r.st = st /\ r.sku = a[o].sku
  BY <1>1 DEF ServerRows
<1>3. b = [a EXCEPT ![o] = r]
  BY <1>1 DEF Moved
<1>4. b \in ServerRows /\ b[o] = r /\ \A q \in Orders \ {o} : b[q] = a[q]
  BY <1>2, <1>3 DEF ServerRows
<1>5. \A q \in Orders : a[q].st # "none" => Rank(a[q].st) \in 0..2
  BY Ranks DEF ServerRows
<1>6. "none" \notin Statuses
  BY DEF Statuses
<1> QED BY <1>2, <1>4, <1>5, <1>6 DEF Onward

\* An order that is created.
LEMMA OneCreated ==
    ASSUME NEW a \in ServerRows, NEW o \in Orders, NEW sku \in Skus, a[o].st = "none",
           NEW b, b = [a EXCEPT ![o].st = "awaiting", ![o].sku = sku]
    PROVE  b \in ServerRows /\ Onward(a, b) /\ b[o].st = "awaiting" /\ b[o].sku = sku
<1>1. PICK r : r = [a[o] EXCEPT !.st = "awaiting"]
  OBVIOUS
<1>2. r \in [st : Statuses \cup {"none"}, sku : Skus \cup {NoSku}] /\ r.st = "awaiting"
  BY <1>1 DEF ServerRows, Statuses
<1>3. PICK d : d = [a EXCEPT ![o] = r]
  OBVIOUS
<1>4. d \in ServerRows /\ d[o] = r /\ \A q \in Orders \ {o} : d[q] = a[q]
  BY <1>2, <1>3 DEF ServerRows
<1>5. PICK t : t = [r EXCEPT !.sku = sku]
  OBVIOUS
<1>6. /\ t \in [st : Statuses \cup {"none"}, sku : Skus \cup {NoSku}]
      /\ t.st = "awaiting" /\ t.sku = sku
  BY <1>2, <1>5
<1>7. b = [d EXCEPT ![o].sku = sku]
  BY <1>1, <1>3
<1>8. b = [d EXCEPT ![o] = t]
  BY <1>4, <1>5, <1>7
<1>9. b \in ServerRows /\ b[o] = t /\ \A q \in Orders \ {o} : b[q] = a[q]
  BY <1>4, <1>6, <1>8 DEF ServerRows
<1>10. \A q \in Orders : a[q].st # "none" => Rank(a[q].st) \in 0..2
  BY Ranks DEF ServerRows
<1>11. ASSUME NEW q \in Orders, a[q].st # "none"
       PROVE  b[q].st # "none" /\ b[q].sku = a[q].sku /\ Rank(a[q].st) <= Rank(b[q].st)
  <2>1. b[q] = a[q]
    BY <1>9, <1>11
  <2> QED BY <1>10, <1>11, <2>1
<1> QED BY <1>6, <1>9, <1>11 DEF Onward

\* A call that is served moves its order forward or not at all.
LEMMA ServedGoesOn ==
    ASSUME server \in ServerRows, NEW o \in Orders, server[o].st # "none", NEW call,
           NEW next \in Served(call, o)
    PROVE  next \in ServerRows /\ Onward(server, next)
<1>1. /\ next = server
      \/ /\ server[o].st = "awaiting" /\ next = [server EXCEPT ![o].st = "review"]
      \/ /\ server[o].st \in {"awaiting", "review"}
         /\ \/ next = [server EXCEPT ![o].st = "review"]
            \/ next = [server EXCEPT ![o].st = "cancelled"]
  BY DEF Served
<1>2. "review" \in Statuses /\ "cancelled" \in Statuses
  BY DEF Statuses
<1>3. ASSUME NEW st \in {"review", "cancelled"}, server[o].st \in {"awaiting", "review"},
             next = [server EXCEPT ![o].st = st]
      PROVE  next \in ServerRows /\ Onward(server, next)
  <2>1. st \in Statuses /\ Rank(server[o].st) <= Rank(st)
    BY <1>2, <1>3, Ranks
  <2>2. next = Moved(server, o, st)
    BY <1>3 DEF Moved
  <2> QED BY <2>1, <2>2, OneMoves
<1>4. next = server => next \in ServerRows /\ Onward(server, next)
  BY OnwardStays
<1> QED BY <1>1, <1>3, <1>4

\* What stood of an order still does.
LEMMA OnwardKeeps ==
    ASSUME NEW a \in ServerRows, NEW b \in ServerRows, Onward(a, b)
    PROVE  /\ \A o \in Snapshot : Stands(a, o) => Stands(b, o)
           /\ \A s \in Seq(Entry) : StoreOK(a, s) => StoreOK(b, s)
           /\ \A s \in Seq(Entry) : EntriesOK(a, s) => EntriesOK(b, s)
           /\ \A c \in CheckoutStates : CheckoutOK(a, c) => CheckoutOK(b, c)
           /\ \A c \in Handler : HandlerOK(a, c) => HandlerOK(b, c)
<1>1. ASSUME NEW o \in Snapshot, Stands(a, o)
      PROVE  Stands(b, o)
  <2>1. CASE o.no \in Orders
    <3>1. /\ a[o.no].st \in Statuses /\ b[o.no].st \in Statuses /\ o.st \in Statuses
          /\ b[o.no].st # "none" /\ b[o.no].sku = a[o.no].sku
          /\ Rank(a[o.no].st) <= Rank(b[o.no].st)
      BY <1>1, <2>1, Kinds DEF Onward, Stands, ServerRows
    <3> QED BY <1>1, <2>1, <3>1, Ranks DEF Stands
  <2> QED BY <2>1 DEF Stands
<1>2. ASSUME NEW s \in Seq(Entry), NEW k \in DOMAIN s
      PROVE  s[k].order \in Snapshot
  BY Kinds
<1>3. \A s \in Seq(Entry) : StoreOK(a, s) => StoreOK(b, s)
  BY <1>1, <1>2 DEF StoreOK
<1>4. \A s \in Seq(Entry) : EntriesOK(a, s) => EntriesOK(b, s)
  BY <1>1, <1>2 DEF EntriesOK
<1>5. \A c \in CheckoutStates : CheckoutOK(a, c) => CheckoutOK(b, c)
  BY <1>1 DEF CheckoutOK, CheckoutStates
<1>6. ASSUME NEW c \in Handler, HandlerOK(a, c)
      PROVE  HandlerOK(b, c)
  <2>1. c.no \in Orders /\ a[c.no].st # "none" => b[c.no].st # "none"
    BY DEF Onward
  <2>2. c.base \in Snapshot /\ Stands(a, c.base) => Stands(b, c.base)
    BY <1>1
  <2>3. c.base \in Entry /\ Stands(a, c.base.order) => Stands(b, c.base.order)
    BY <1>1, Kinds
  <2>4. c.ans \in Snapshot /\ Stands(a, c.ans) => Stands(b, c.ans)
    BY <1>1
  <2> QED BY <1>6, <2>1, <2>2, <2>3, <2>4 DEF HandlerOK
<1> QED BY <1>1, <1>3, <1>4, <1>5, <1>6

-----------------------------------------------------------------------------
(* Handlers                                                                *)

\* A handler that was answered, or goes on to its next call.
Resumed(c, d) ==
    /\ d.op = c.op /\ d.from = c.from /\ d.live = c.live
    /\ d.no = c.no /\ d.base = c.base

LEMMA HandlerGoesOn ==
    ASSUME IInv, NEW i \in 1..MaxCalls, calls[i] # NoOrder,
           NEW d \in Handler, Resumed(calls[i], d),
           d.ans \in Snapshot =>
               /\ d.ans.no \in Orders /\ Stands(server', d.ans)
               /\ d.ans.st = server'[d.ans.no].st
               /\ IF d.op = "create" THEN d.ans.sku = d.from ELSE d.ans.no = d.no,
           calls' = [calls EXCEPT ![i] = d],
           server' \in ServerRows, Onward(server, server'),
           UNCHANGED <<remote, store, page, co, oc, hasty>>
    PROVE  IInv'
<1>1. /\ Typed /\ StoreOK(server, store) /\ CheckoutOK(server, co)
      /\ EntriesOK(server, oc.entries) /\ HandlersOK(server, calls)
      /\ CheckoutWaits /\ CentreWaits /\ Patient
  BY DEF IInv
<1>2. /\ calls' \in [1..MaxCalls -> Handler \cup {NoOrder}]
      /\ calls'[i] = d /\ \A j \in 1..MaxCalls \ {i} : calls'[j] = calls[j]
      /\ DOMAIN calls = 1..MaxCalls /\ DOMAIN calls' = 1..MaxCalls
      /\ calls[i] \in Handler /\ d # NoOrder
  BY <1>1, Kinds DEF Typed
<1>3. Typed'
  BY <1>1, <1>2 DEF Typed
<1>4. StoreOK(server, store)' /\ CheckoutOK(server, co)' /\ EntriesOK(server, oc.entries)'
  <2>1. store \in Seq(Entry) /\ co \in CheckoutStates /\ oc.entries \in Seq(Entry)
        /\ server \in ServerRows
    BY <1>1 DEF Typed, StoreOK, CentreStates
  <2>2. StoreOK(server', store) /\ CheckoutOK(server', co) /\ EntriesOK(server', oc.entries)
    BY <1>1, <2>1, OnwardKeeps
  <2> QED BY <2>2 DEF StoreOK, CheckoutOK, EntriesOK, Visible, Stands
<1>5. HandlersOK(server, calls)'
  <2>1. ASSUME NEW c \in Handler, HandlerOK(server, c)
        PROVE  HandlerOK(server', c)
    BY <1>1, <2>1, OnwardKeeps DEF Typed
  <2>2. remote /\ HandlerOK(server', calls[i])
    BY <1>1, <1>2, <2>1 DEF HandlersOK
  <2>3. HandlerOK(server', d)
    BY <2>2 DEF HandlerOK, Resumed
  <2>4. ASSUME NEW j \in 1..MaxCalls, j # i, calls[j] # NoOrder
        PROVE  HandlerOK(server', calls[j])
    BY <1>1, <1>2, <2>1, <2>4 DEF HandlersOK, Typed
  <2>5. ASSUME NEW j \in 1..MaxCalls, calls'[j] # NoOrder
        PROVE  HandlerOK(server', calls'[j])
    BY <1>2, <2>3, <2>4, <2>5
  <2>6. ASSUME NEW j \in 1..MaxCalls, calls'[j] # NoOrder
        PROVE  remote' /\ HandlerOK(server, calls[j])'
    <3>1. remote' = remote /\ HandlerOK(server', calls'[j])
      BY <2>5, <2>6
    <3> QED BY <2>2, <3>1 DEF HandlerOK, Stands
  <2> QED BY <1>2, <2>6 DEF HandlersOK
<1>6. Busy' = Busy /\ i \in Busy
  BY <1>2 DEF Busy
<1>7. \A j \in Busy : calls'[j].live = calls[j].live /\ calls'[j].from = calls[j].from
                      /\ calls'[j].op = calls[j].op /\ calls'[j].base = calls[j].base
                      /\ calls'[j].no = calls[j].no
  BY <1>2 DEF Resumed, Busy
<1>8. CheckoutWaits' /\ CentreWaits'
  BY <1>1, <1>6, <1>7 DEF CheckoutWaits, CentreWaits
<1>9. Patient'
  <2> SUFFICES ASSUME ~hasty
               PROVE  OneAtATime' /\ CheckoutIsStored' /\ HandlerIsCurrent' /\ CentreShows'
    BY DEF Patient
  <2>1. OneAtATime /\ CheckoutIsStored /\ HandlerIsCurrent /\ CentreShows
    BY <1>1 DEF Patient
  <2>2. OneAtATime'
    BY <1>6, <1>7, <2>1 DEF OneAtATime
  <2>3. CheckoutIsStored' /\ CentreShows'
    BY <2>1 DEF CheckoutIsStored, CentreShows, OnCheckout
  <2>4. ASSUME NEW j \in Busy
        PROVE  /\ calls'[j].from \in Skus /\ calls'[j].op # "create" => calls'[j].base = co.order
               /\ calls'[j].op = "lookup" /\ calls'[j].base # NoOrder =>
                      \E k \in DOMAIN store : store[k].order.no = calls'[j].no
    BY <1>7, <2>1 DEF HandlerIsCurrent
  <2>5. ASSUME NEW j \in Busy, calls'[j].ans \in Snapshot, NEW k \in DOMAIN store,
               store[k].order.no = calls'[j].ans.no
        PROVE  Rank(store[k].order.st) <= Rank(calls'[j].ans.st)
    <3>1. CASE j = i
      <4>1. /\ d.ans.no \in Orders /\ d.ans.st = server'[d.ans.no].st
            /\ store[k].order.no = d.ans.no /\ calls'[j].ans = d.ans
        BY <1>2, <2>5, <3>1
      <4>2. Stands(server', store[k].order)
        <5>1. StoreOK(server', store)
          BY <1>1, OnwardKeeps DEF Typed, StoreOK
        <5> QED BY <5>1 DEF StoreOK
      <4> QED BY <4>1, <4>2 DEF Stands
    <3>2. CASE j # i
      BY <1>2, <2>1, <2>5, <3>2 DEF HandlerIsCurrent, Busy
    <3> QED BY <3>1, <3>2
  <2>6. HandlerIsCurrent'
    BY <1>6, <2>4, <2>5 DEF HandlerIsCurrent
  <2> QED BY <2>1, <2>2, <2>3, <2>6
<1> QED BY <1>3, <1>4, <1>5, <1>8, <1>9 DEF IInv

\* The answer of a handler is put in its place.
LEMMA AnswerResumes ==
    ASSUME NEW c \in Handler, NEW a \in Snapshot \cup {Waiting, Failed}
    PROVE  LET d == [c EXCEPT !.ans = a]
           IN  d \in Handler /\ Resumed(c, d) /\ d.ans = a
BY DEF Handler, Resumed

LEMMA ServeKeeps ==
    ASSUME IInv, NEW i \in DOMAIN calls, Serve(i)
    PROVE  IInv'
<1> PICK c : c = calls[i]
  OBVIOUS
<1>1. /\ Typed /\ HandlersOK(server, calls) /\ DOMAIN calls = 1..MaxCalls
      /\ c # NoOrder /\ c.ans = Waiting
  BY DEF IInv, Typed, Serve
<1>2. c \in Handler /\ HandlerOK(server, c)
  BY <1>1 DEF Typed, HandlersOK
<1>3. PICK o \in Orders, heard \in BOOLEAN :
         /\ IF c.op = "create"
            THEN /\ server[o].st = "none"
                 /\ server' = [server EXCEPT ![o].st = "awaiting", ![o].sku = c.from]
            ELSE /\ o = c.no /\ server[o].st # "none"
                 /\ server' \in Served(Script(c.op)[c.at], o)
         /\ calls' = [calls EXCEPT ![i].ans = IF heard THEN Snap(server', o) ELSE Failed]
  BY DEF Serve
<1>4. /\ server' \in ServerRows /\ Onward(server, server') /\ server'[o].st # "none"
      /\ c.op = "create" => server'[o].sku = c.from
  <2>1. server \in ServerRows
    BY <1>1 DEF Typed
  <2>2. CASE c.op = "create"
    BY <1>2, <1>3, <2>1, <2>2, OneCreated DEF HandlerOK
  <2>3. CASE c.op # "create"
    <3>1. server' \in ServerRows /\ Onward(server, server')
      BY <1>3, <2>1, <2>3, ServedGoesOn
    <3> QED BY <1>3, <2>3, <3>1 DEF Onward
  <2> QED BY <2>2, <2>3
<1>5. PICK a : a = IF heard THEN Snap(server', o) ELSE Failed
  OBVIOUS
<1>6. /\ Snap(server', o) \in Snapshot /\ Snap(server', o).no = o
      /\ Snap(server', o).st = server'[o].st /\ Snap(server', o).sku = server'[o].sku
  <2>1. server'[o].st \in Statuses /\ server'[o].sku \in Skus \cup {NoSku}
    BY <1>4 DEF ServerRows
  <2> QED BY <2>1 DEF Snap, Snapshot
<1>7. a \in Snapshot \cup {Failed} /\ (a \in Snapshot => a = Snap(server', o))
  BY <1>5, <1>6, StorefrontAssumption
<1>8. PICK d : d = [c EXCEPT !.ans = a]
  OBVIOUS
<1>9. d \in Handler /\ Resumed(c, d) /\ d.ans = a
  BY <1>2, <1>7, <1>8, AnswerResumes
<1>10. calls' = [calls EXCEPT ![i] = d]
  BY <1>3, <1>5, <1>8
<1>11. d.ans \in Snapshot =>
           /\ d.ans.no \in Orders /\ Stands(server', d.ans)
           /\ d.ans.st = server'[d.ans.no].st
           /\ IF d.op = "create" THEN d.ans.sku = d.from ELSE d.ans.no = d.no
  <2> SUFFICES ASSUME a = Snap(server', o)
               PROVE  /\ a.no \in Orders /\ Stands(server', a)
                      /\ a.st = server'[a.no].st
                      /\ IF d.op = "create" THEN a.sku = d.from ELSE a.no = d.no
    BY <1>7, <1>9
  <2>1. server'[o].st \in Statuses
    BY <1>4 DEF ServerRows
  <2>2. Stands(server', a)
    BY <1>1, <1>4, <1>6, <2>1, Ranks DEF Stands, HandlersOK
  <2> QED BY <1>3, <1>4, <1>6, <1>9, <2>2 DEF Resumed
<1> QED BY <1>1, <1>4, <1>9, <1>10, <1>11, HandlerGoesOn DEF Serve

LEMMA FailKeeps ==
    ASSUME IInv, NEW i \in DOMAIN calls, Fail(i)
    PROVE  IInv'
<1> PICK c : c = calls[i]
  OBVIOUS
<1>1. /\ Typed /\ DOMAIN calls = 1..MaxCalls /\ c # NoOrder /\ c \in Handler
  BY DEF IInv, Typed, Fail
<1>2. PICK d : d = [c EXCEPT !.ans = Failed]
  OBVIOUS
<1>3. d \in Handler /\ Resumed(c, d) /\ d.ans = Failed
  BY <1>1, <1>2, AnswerResumes
<1>4. calls' = [calls EXCEPT ![i] = d]
  BY <1>2 DEF Fail
<1>5. server' \in ServerRows /\ Onward(server, server')
  BY <1>1, OnwardStays DEF Typed, Fail
<1> QED BY <1>1, <1>3, <1>4, <1>5, HandlerGoesOn, StorefrontAssumption DEF Fail

\* Nothing a page shows is ahead of the server when an operator delivers.
LEMMA DeliverKeeps ==
    ASSUME IInv, OperatorDelivers
    PROVE  IInv'
<1>1. PICK o \in Orders : /\ server[o].st \in {"awaiting", "review"}
                          /\ server' = [server EXCEPT ![o].st = "done"]
  BY DEF OperatorDelivers
<1>2. server' = Moved(server, o, "done") /\ "done" \in Statuses
  BY <1>1 DEF Moved, Statuses
<1>3. server \in ServerRows
  BY DEF IInv, Typed
<1>4. server' \in ServerRows /\ Onward(server, server')
  <2>1. server[o].st # "none" /\ Rank(server[o].st) <= Rank("done")
    BY <1>1, Ranks
  <2> QED BY <1>2, <1>3, <2>1, OneMoves
<1>5. UNCHANGED <<remote, store, page, co, oc, calls, hasty>>
  BY DEF OperatorDelivers
<1>6. Typed'
  BY <1>4, <1>5 DEF IInv, Typed
<1>7. /\ StoreOK(server', store) /\ CheckoutOK(server', co) /\ EntriesOK(server', oc.entries)
      /\ \A i \in DOMAIN calls : calls[i] # NoOrder => remote /\ HandlerOK(server', calls[i])
  <2>1. store \in Seq(Entry) /\ co \in CheckoutStates /\ oc.entries \in Seq(Entry)
        /\ \A i \in DOMAIN calls : calls[i] # NoOrder => calls[i] \in Handler
    BY DEF IInv, Typed, StoreOK, CentreStates
  <2> QED BY <1>3, <1>4, <2>1, OnwardKeeps DEF IInv, HandlersOK
<1>8. StoreOK(server, store)' /\ CheckoutOK(server, co)' /\ EntriesOK(server, oc.entries)'
      /\ HandlersOK(server, calls)'
  <2>1. \A o1 : Stands(server, o1)' <=> Stands(server', o1)
    BY <1>5 DEF Stands
  <2>2. HandlersOK(server, calls)'
    BY <1>5, <1>7 DEF HandlersOK, HandlerOK, Stands
  <2> QED BY <1>5, <1>7, <2>2 DEF StoreOK, CheckoutOK, EntriesOK, Visible, Stands
<1>9. CheckoutWaits' /\ CentreWaits' /\ Patient'
  BY <1>5 DEF IInv, CheckoutWaits, CentreWaits, Patient, OneAtATime, CheckoutIsStored,
              HandlerIsCurrent, CentreShows, Busy, OnCheckout
<1> QED BY <1>6, <1>8, <1>9 DEF IInv

-----------------------------------------------------------------------------
(* The storage and the pages                                               *)

\* Persisting what stands keeps the storage in order, and has the order in it.
LEMMA PersistOK ==
    ASSUME NEW s, StoreOK(server, s), NEW o \in Snapshot, Stands(server, o),
           NEW sku \in Skus \cup {NoSku}, o.sku # NoSku => sku = o.sku
    PROVE  /\ StoreOK(server, Persist(s, sku, o))
           /\ \E k \in DOMAIN Persist(s, sku, o) : Persist(s, sku, o)[k].order = o
           /\ \A k \in DOMAIN Persist(s, sku, o) :
                  \/ Persist(s, sku, o)[k].order = o
                  \/ /\ Persist(s, sku, o)[k].order.no # o.no
                     /\ \E j \in DOMAIN s : Persist(s, sku, o)[k] = s[j]
<1>1. PICK t : t = Persist(s, sku, o)
  OBVIOUS
<1>2. s \in Seq(Entry) /\ \A k \in DOMAIN s : Stands(server, s[k].order) /\ Filed(s[k])
  BY DEF StoreOK
<1>3. /\ t \in Seq(Entry) /\ Len(t) \in 1..Limit
      /\ t[1] = [sku |-> sku, order |-> o]
      /\ Continues(t, s, o.no)
  BY <1>1, <1>2, PersistKeeps
<1>4. PICK from \in [2..Len(t) -> DOMAIN s] :
           /\ \A k \in 2..Len(t) : t[k] = s[from[k]] /\ s[from[k]].order.no # o.no
           /\ \A k, m \in 2..Len(t) : k # m => from[k] # from[m]
  BY <1>3 DEF Continues
<1>5. \A k \in 2..Len(t) : from[k] \in DOMAIN s
  BY <1>4
<1>6. /\ DOMAIN t = 1..Len(t) /\ 1 \in DOMAIN t
      /\ \A k \in DOMAIN t : k = 1 \/ k \in 2..Len(t)
      /\ Len(t) <= Limit
  BY <1>3, StorefrontAssumption
<1>7. t[1].order = o /\ Filed(t[1]) /\ Stands(server, t[1].order)
  BY <1>3 DEF Filed
<1>8. \A k \in DOMAIN t : Stands(server, t[k].order) /\ Filed(t[k])
  BY <1>2, <1>4, <1>5, <1>6, <1>7
<1>9. ASSUME NEW k \in DOMAIN t, NEW m \in DOMAIN t, t[k].order.no = t[m].order.no
      PROVE  k = m
  <2>1. CASE k = 1 /\ m = 1
    BY <2>1
  <2>2. CASE k \in 2..Len(t) /\ m \in 2..Len(t)
    <3>1. s[from[k]].order.no = s[from[m]].order.no /\ from[k] \in DOMAIN s /\ from[m] \in DOMAIN s
      BY <1>4, <1>5, <1>9, <2>2
    <3>2. from[k] = from[m]
      BY <3>1 DEF StoreOK
    <3> QED BY <1>4, <2>2, <3>2
  <2>3. CASE k = 1 /\ m \in 2..Len(t)
    BY <1>4, <1>7, <1>9, <2>3
  <2>4. CASE m = 1 /\ k \in 2..Len(t)
    BY <1>4, <1>7, <1>9, <2>4
  <2> QED BY <1>6, <2>1, <2>2, <2>3, <2>4
<1>10. StoreOK(server, t)
  BY <1>3, <1>6, <1>8, <1>9 DEF StoreOK
<1>11. \A k \in DOMAIN t : \/ t[k].order = o
                           \/ /\ t[k].order.no # o.no
                              /\ \E j \in DOMAIN s : t[k] = s[j]
  BY <1>4, <1>5, <1>6, <1>7
<1>12. \E k \in DOMAIN t : t[k].order = o
  BY <1>6, <1>7
<1> QED BY <1>1, <1>10, <1>11, <1>12

\* What the storage lists is shown by its newest entry, or the one chosen before.
LEMMA ListedOK ==
    ASSUME NEW s, StoreOK(server, s)
    PROVE  /\ Listed(s) \in Seq(Entry) /\ EntriesOK(server, Listed(s))
           /\ First(Listed(s)) \in Numbers \cup {NoOrder}
           /\ Listed(s) # <<>> => IsListed(Listed(s), First(Listed(s)))
           /\ \A no : (\E k \in DOMAIN s : s[k].order.no = no /\ Visible(s[k].order))
                         => IsListed(Listed(s), no)
<1>1. s \in Seq(Entry) /\ \A k \in DOMAIN s : Stands(server, s[k].order) /\ Filed(s[k])
  BY DEF StoreOK
<1>2. /\ Listed(s) \in Seq(Entry)
      /\ \A k \in DOMAIN Listed(s) :
             \E j \in DOMAIN s : Listed(s)[k] = s[j] /\ Visible(s[j].order)
      /\ \A j \in DOMAIN s :
             Visible(s[j].order) => \E k \in DOMAIN Listed(s) : Listed(s)[k] = s[j]
  BY <1>1, ListedIsVisible
<1>3. EntriesOK(server, Listed(s))
  BY <1>1, <1>2 DEF EntriesOK
<1>4. Listed(s) # <<>> => 1 \in DOMAIN Listed(s) /\ Listed(s)[1] \in Entry
  BY <1>2
<1>5. First(Listed(s)) \in Numbers \cup {NoOrder}
  BY <1>4, Kinds DEF First
<1>6. Listed(s) # <<>> => IsListed(Listed(s), First(Listed(s)))
  BY <1>4 DEF First, IsListed
<1>7. \A no : (\E k \in DOMAIN s : s[k].order.no = no /\ Visible(s[k].order))
                 => IsListed(Listed(s), no)
  BY <1>2 DEF IsListed
<1> QED BY <1>2, <1>3, <1>5, <1>6, <1>7

\* A fresh order centre shows the newest order.
LEMMA FreshOK ==
    ASSUME NEW s, StoreOK(server, s)
    PROVE  /\ FreshCentre(s) \in CentreStates /\ ~FreshCentre(s).loading
           /\ EntriesOK(server, FreshCentre(s).entries)
           /\ FreshCentre(s).entries # <<>> => IsListed(FreshCentre(s).entries, FreshCentre(s).sel)
<1>1. /\ FreshCentre(s).entries = Listed(s) /\ FreshCentre(s).sel = First(Listed(s))
      /\ FreshCentre(s).loading = FALSE
      /\ FreshCentre(s) = [entries |-> Listed(s), sel |-> First(Listed(s)), loading |-> FALSE]
  BY DEF FreshCentre
<1>2. FreshCentre(s) \in CentreStates
  BY <1>1, ListedOK DEF CentreStates
<1> QED BY <1>1, <1>2, ListedOK

\* The centre that reads the storage again shows an order whenever it lists one.
LEMMA ReadAgainOK ==
    ASSUME NEW s, StoreOK(server, s), NEW c \in CentreStates
    PROVE  LET d == ReadAgain(c, s) IN
           /\ d \in CentreStates /\ d.loading = c.loading /\ EntriesOK(server, d.entries)
           /\ d.entries # <<>> => IsListed(d.entries, d.sel)
           /\ d.entries = Listed(s)
<1> PICK sel : sel = IF IsListed(Listed(s), c.sel) THEN c.sel ELSE First(Listed(s))
  OBVIOUS
<1>1. PICK e : e = [c EXCEPT !.entries = Listed(s)]
  OBVIOUS
<1>2. /\ e \in CentreStates /\ e.entries = Listed(s) /\ e.sel = c.sel /\ e.loading = c.loading
  BY <1>1, ListedOK DEF CentreStates
<1>3. PICK d : d = [e EXCEPT !.sel = sel]
  OBVIOUS
<1>4. sel \in Numbers \cup {NoOrder}
  BY ListedOK DEF CentreStates
<1>5. d \in CentreStates /\ d.entries = Listed(s) /\ d.sel = sel /\ d.loading = c.loading
  BY <1>2, <1>3, <1>4 DEF CentreStates
<1>6. ReadAgain(c, s) = d
  BY <1>1, <1>2, <1>3 DEF ReadAgain
<1>7. Listed(s) # <<>> => IsListed(Listed(s), sel)
  BY ListedOK
<1> QED BY <1>5, <1>6, <1>7, ListedOK

\* So does the centre that selects an order it has just stored or found.
LEMMA SyncOK ==
    ASSUME NEW s, StoreOK(server, s), NEW c \in CentreStates, NEW no \in Numbers
    PROVE  LET d == Sync(c, s, no) IN
           /\ d \in CentreStates /\ d.loading = c.loading /\ EntriesOK(server, d.entries)
           /\ d.entries # <<>> /\ (\E k \in DOMAIN s : s[k].order.no = no /\ Visible(s[k].order))
                  => IsListed(d.entries, d.sel)
<1>1. PICK e : e = [c EXCEPT !.entries = Listed(s)]
  OBVIOUS
<1>2. e \in CentreStates /\ e.entries = Listed(s) /\ e.sel = c.sel /\ e.loading = c.loading
  BY <1>1, ListedOK DEF CentreStates
<1>3. PICK d : d = [e EXCEPT !.sel = no]
  OBVIOUS
<1>4. d \in CentreStates /\ d.entries = Listed(s) /\ d.sel = no /\ d.loading = c.loading
  BY <1>2, <1>3 DEF CentreStates
<1>5. Sync(c, s, no) = IF no = c.sel THEN d ELSE ReadAgain(d, s)
  BY <1>1, <1>3 DEF Sync
<1>6. (\E k \in DOMAIN s : s[k].order.no = no /\ Visible(s[k].order)) => IsListed(Listed(s), no)
  BY ListedOK
<1>7. CASE no = c.sel
  BY <1>4, <1>5, <1>6, <1>7, ListedOK
<1>8. CASE no # c.sel
  BY <1>4, <1>5, <1>8, ReadAgainOK
<1> QED BY <1>7, <1>8

\* The storage at first, and that of an unmounted page.
LEMMA EmptyStoreOK == StoreOK(server, <<>>)
BY StorefrontAssumption DEF StoreOK

-----------------------------------------------------------------------------
(* Steps of the pages                                                      *)

\* Nothing depends on anything but the server and the mode.
LEMMA Frame ==
    ASSUME UNCHANGED <<remote, server>>
    PROVE  /\ StoreOK(server, store') => StoreOK(server, store)'
           /\ CheckoutOK(server, co') => CheckoutOK(server, co)'
           /\ EntriesOK(server, oc'.entries) => EntriesOK(server, oc.entries)'
           /\ HandlersOK(server, calls') => HandlersOK(server, calls)'
<1>1. StoreOK(server, store') => StoreOK(server, store)'
  BY DEF StoreOK, Stands
<1>2. CheckoutOK(server, co') => CheckoutOK(server, co)'
  BY DEF CheckoutOK, Stands, Visible
<1>3. EntriesOK(server, oc'.entries) => EntriesOK(server, oc.entries)'
  BY DEF EntriesOK, Stands, Visible
<1>4. ASSUME HandlersOK(server, calls')
      PROVE  HandlersOK(server, calls)'
  <2>1. ASSUME NEW i \in DOMAIN calls', calls'[i] # NoOrder
        PROVE  remote' /\ HandlerOK(server, calls[i])'
    <3>1. remote' = remote /\ server' = server /\ remote /\ HandlerOK(server, calls'[i])
      BY <1>4, <2>1 DEF HandlersOK
    <3> QED BY <3>1 DEF HandlerOK, Stands
  <2> QED BY <2>1 DEF HandlersOK
<1> QED BY <1>1, <1>2, <1>3, <1>4

\* The parts of the invariant.
LEMMA Parts ==
    ASSUME IInv
    PROVE  /\ Typed /\ StoreOK(server, store) /\ CheckoutOK(server, co)
           /\ EntriesOK(server, oc.entries) /\ HandlersOK(server, calls)
           /\ CheckoutWaits /\ CentreWaits
           /\ ~hasty => OneAtATime /\ CheckoutIsStored /\ HandlerIsCurrent /\ CentreShows
           /\ DOMAIN calls = 1..MaxCalls /\ \A i \in Busy : calls[i] \in Handler
BY DEF IInv, Typed, Patient, Busy

\* The centre may list what is stored and select another order.
LEMMA CentreMoves ==
    ASSUME IInv, oc' \in CentreStates, EntriesOK(server, oc'.entries), oc'.loading = oc.loading,
           oc'.entries # <<>> => IsListed(oc'.entries, oc'.sel),
           hasty' \in BOOLEAN, hasty => hasty',
           UNCHANGED <<remote, server, store, page, co, calls>>
    PROVE  IInv'
<1>1. Typed'
  BY Parts DEF Typed
<1>2. /\ StoreOK(server, store)' /\ CheckoutOK(server, co)'
      /\ EntriesOK(server, oc.entries)' /\ HandlersOK(server, calls)'
  BY Parts, Frame
<1>3. CheckoutWaits' /\ CentreWaits'
  BY Parts DEF CheckoutWaits, CentreWaits, Busy
<1>4. Patient'
  BY Parts DEF Patient, OneAtATime, CheckoutIsStored, HandlerIsCurrent, CentreShows, Busy, OnCheckout
<1> QED BY <1>1, <1>2, <1>3, <1>4 DEF IInv

LEMMA SelectingKeeps ==
    ASSUME IInv, SelectOrder \/ CatalogReloaded \/ LookupDraftInCentre
    PROVE  IInv'
<1>0. oc \in CentreStates /\ hasty \in BOOLEAN /\ oc.loading \in BOOLEAN
  BY Parts DEF Typed, CentreStates
<1>1. CASE SelectOrder
  <2>1. PICK k \in DOMAIN oc.entries :
          /\ oc' = ReadAgain([oc EXCEPT !.sel = oc.entries[k].order.no], store)
          /\ hasty' = (hasty \/ oc.loading)
    BY <1>1 DEF SelectOrder
  <2>2. PICK d : d = [oc EXCEPT !.sel = oc.entries[k].order.no]
    OBVIOUS
  <2>3. oc.entries[k].order.no \in Numbers
    <3>1. oc.entries[k] \in Entry
      BY <1>0 DEF CentreStates
    <3> QED BY <3>1, Kinds
  <2>4. d \in CentreStates /\ d.loading = oc.loading
    BY <1>0, <2>2, <2>3 DEF CentreStates
  <2>5. oc' = ReadAgain(d, store)
    BY <2>1, <2>2
  <2>6. /\ oc' \in CentreStates /\ oc'.loading = oc.loading /\ EntriesOK(server, oc'.entries)
        /\ oc'.entries # <<>> => IsListed(oc'.entries, oc'.sel)
    BY <2>4, <2>5, Parts, ReadAgainOK
  <2>7. UNCHANGED <<remote, server, store, page, co, calls>>
    BY <1>1 DEF SelectOrder
  <2>8. hasty' \in BOOLEAN /\ (hasty => hasty')
    BY <1>0, <2>1
  <2> QED BY <2>6, <2>7, <2>8, CentreMoves
<1>2. CASE CatalogReloaded
  <2>1. /\ oc' = ReadAgain(oc, store)
        /\ UNCHANGED <<remote, server, store, page, co, calls, hasty>>
    BY <1>2 DEF CatalogReloaded
  <2>2. /\ oc' \in CentreStates /\ oc'.loading = oc.loading /\ EntriesOK(server, oc'.entries)
        /\ oc'.entries # <<>> => IsListed(oc'.entries, oc'.sel)
    BY <1>0, <2>1, Parts, ReadAgainOK
  <2> QED BY <1>0, <2>1, <2>2, CentreMoves
<1>3. CASE LookupDraftInCentre
  <2>1. PICK d \in Drafts : EntryOf(store, d) # NoOrder /\ oc' = Sync(oc, store, d)
    BY <1>3 DEF LookupDraftInCentre
  <2>2. UNCHANGED <<remote, server, store, page, co, calls, hasty>>
    BY <1>3 DEF LookupDraftInCentre
  <2>3. d \in Numbers /\ store \in Seq(Entry)
    BY Parts DEF Numbers, StoreOK
  <2>4. \E k \in DOMAIN store : store[k].order.no = d /\ Visible(store[k].order)
    BY <2>1, <2>3, EntryIsStored
  <2>5. /\ oc' \in CentreStates /\ oc'.loading = oc.loading /\ EntriesOK(server, oc'.entries)
        /\ oc'.entries # <<>> => IsListed(oc'.entries, oc'.sel)
    BY <1>0, <2>1, <2>3, <2>4, Parts, SyncOK
  <2> QED BY <1>0, <2>2, <2>5, CentreMoves
<1> QED BY <1>1, <1>2, <1>3

\* A page asks the server, and waits.
LEMMA AskKeeps ==
    ASSUME IInv, NEW c \in Handler, HandlerOK(server, c), Ask(c), remote,
           c.live, c.from = page, c.ans = Waiting,
           c.from \in Skus /\ c.op # "create" => c.base = co.order,
           c.op = "lookup" /\ c.base # NoOrder => \E k \in DOMAIN store : store[k].order.no = c.no,
           co' = IF page \in Skus THEN CheckoutBusy ELSE co,
           oc' = IF page \in Skus THEN oc ELSE CentreBusy,
           IF page \in Skus THEN ~co.loading ELSE ~oc.loading,
           UNCHANGED <<remote, server, store, page, hasty>>
    PROVE  IInv'
<1>1. PICK i \in 1..MaxCalls : calls[i] = NoOrder /\ calls' = [calls EXCEPT ![i] = c]
  <2>1. PICK i \in DOMAIN calls \ Busy : calls' = [calls EXCEPT ![i] = c]
    BY DEF Ask
  <2> QED BY <2>1, Parts DEF Busy
<1>2. /\ calls' \in [1..MaxCalls -> Handler \cup {NoOrder}]
      /\ calls'[i] = c /\ \A j \in 1..MaxCalls \ {i} : calls'[j] = calls[j]
  BY <1>1, Parts DEF Typed
<1>3. Busy' = Busy \cup {i} /\ i \notin Busy /\ \A j \in Busy : calls'[j] = calls[j]
  BY <1>1, <1>2, Kinds, Parts DEF Busy
<1>4. /\ co' \in CheckoutStates /\ co'.order = co.order
      /\ page \in Skus => co'.loading
      /\ page \notin Skus => co' = co
  BY Parts DEF CheckoutBusy, CheckoutStates, Typed
<1>5. /\ oc' \in CentreStates /\ oc'.entries = oc.entries /\ oc'.sel = oc.sel
      /\ page \notin Skus => oc'.loading
      /\ page \in Skus => oc' = oc
  BY Parts DEF CentreBusy, CentreStates, Typed
<1>6. page \in Skus \/ page = "orders"
  BY DEF Handler
<1>7. Typed'
  BY <1>2, <1>4, <1>5, Parts DEF Typed
<1>8. StoreOK(server, store)' /\ CheckoutOK(server, co)' /\ EntriesOK(server, oc.entries)'
  <2>1. CheckoutOK(server, co')
    BY <1>4, Parts DEF CheckoutOK
  <2> QED BY <1>5, <2>1, Parts, Frame
<1>9. HandlersOK(server, calls)'
  <2>1. HandlersOK(server, calls')
    BY <1>2, Parts DEF HandlersOK
  <2> QED BY <2>1, Frame
<1>10. CheckoutWaits' /\ CentreWaits'
  BY <1>2, <1>3, <1>4, <1>5, <1>6, Parts DEF CheckoutWaits, CentreWaits
<1>11. Patient'
  <2> SUFFICES ASSUME ~hasty
               PROVE  OneAtATime' /\ CheckoutIsStored' /\ HandlerIsCurrent' /\ CentreShows'
    BY DEF Patient
  <2>1. OneAtATime /\ CheckoutIsStored /\ HandlerIsCurrent /\ CentreShows
    BY Parts
  <2>2. Busy = {}
    BY <1>6, <2>1, Kinds DEF OneAtATime
  <2>3. Busy' = {i}
    BY <1>3, <2>2
  <2>4. OneAtATime'
    BY <1>2, <1>4, <1>5, <1>6, <2>3, Kinds DEF OneAtATime
  <2>5. CheckoutIsStored' /\ CentreShows'
    BY <1>4, <1>5, <2>1 DEF CheckoutIsStored, CentreShows, OnCheckout
  <2>6. c.ans \notin Snapshot
    BY StorefrontAssumption
  <2>7. HandlerIsCurrent'
    BY <1>2, <1>4, <2>3, <2>6 DEF HandlerIsCurrent
  <2> QED BY <2>4, <2>5, <2>7
<1> QED BY <1>7, <1>8, <1>9, <1>10, <1>11 DEF IInv

\* The order shown is one of those listed.
LEMMA ShownIsListed ==
    ASSUME IInv, Shown(oc) # NoOrder
    PROVE  /\ ShownEntry(oc) \in Entry /\ ShownEntry(oc).order.no = oc.sel
           /\ Stands(server, ShownEntry(oc).order) /\ Filed(ShownEntry(oc))
           /\ Visible(ShownEntry(oc).order)
<1>1. PICK k \in DOMAIN oc.entries : oc.entries[k].order.no = oc.sel
  BY DEF Shown, IsListed
<1>2. \E e \in {oc.entries[j] : j \in DOMAIN oc.entries} : e.order.no = oc.sel
  BY <1>1
<1>3. PICK j \in DOMAIN oc.entries :
        ShownEntry(oc) = oc.entries[j] /\ oc.entries[j].order.no = oc.sel
  BY <1>2 DEF ShownEntry
<1>4. oc.entries \in Seq(Entry)
  BY Parts DEF Typed, CentreStates
<1> QED BY <1>3, <1>4, Parts DEF EntriesOK

LEMMA CallIsHandler ==
    ASSUME NEW op \in Operations, NEW no \in Orders \cup {NoOrder},
           NEW base \in Snapshot \cup Entry \cup {NoOrder}, page \in Skus \cup {"orders"},
           NEW c, c = Call(op, no, base)
    PROVE  /\ c \in Handler /\ c.op = op /\ c.no = no /\ c.base = base
           /\ c.live /\ c.from = page /\ c.ans = Waiting
BY DEF Call, Handler

LEMMA AskingInCentre ==
    ASSUME IInv, RefreshSelected \/ LoadSelectedDelivery \/ LookupInCentre
    PROVE  IInv'
<1>1. page = "orders" /\ remote /\ ~oc.loading /\ oc' = CentreBusy /\ page \notin Skus
      /\ UNCHANGED <<remote, server, store, page, co, hasty>>
  BY Kinds DEF RefreshSelected, LoadSelectedDelivery, LookupInCentre
<1>2. ASSUME NEW op \in {"refresh", "delivery"}, Shown(oc) # NoOrder,
             Ask(Call(op, oc.sel, ShownEntry(oc)))
      PROVE  IInv'
  <2>1. PICK c : c = Call(op, oc.sel, ShownEntry(oc))
    OBVIOUS
  <2>2. /\ ShownEntry(oc) \in Entry /\ ShownEntry(oc).order.no = oc.sel
        /\ Stands(server, ShownEntry(oc).order) /\ Filed(ShownEntry(oc))
        /\ Visible(ShownEntry(oc).order)
    BY <1>2, ShownIsListed
  <2>3. oc.sel \in Orders /\ server[oc.sel].st # "none"
    <3>1. oc.sel \in Numbers /\ oc.sel \notin Drafts
      BY <1>1, <2>2, Kinds DEF Visible
    <3> QED BY <2>2, <3>1 DEF Numbers, Stands
  <2>4. /\ c \in Handler /\ c.op = op /\ c.no = oc.sel /\ c.base = ShownEntry(oc)
        /\ c.live /\ c.from = page /\ c.ans = Waiting
    BY <1>1, <2>1, <2>2, <2>3, CallIsHandler DEF Operations
  <2>5. HandlerOK(server, c)
    BY <1>1, <2>2, <2>3, <2>4, StorefrontAssumption DEF HandlerOK
  <2> QED BY <1>1, <1>2, <2>1, <2>4, <2>5, AskKeeps
<1>3. ASSUME NEW o \in Orders, server[o].st # "none", Ask(Call("lookup", o, EntryOf(store, o)))
      PROVE  IInv'
  <2>1. PICK e : e = EntryOf(store, o)
    OBVIOUS
  <2>2. PICK c : c = Call("lookup", o, e)
    OBVIOUS
  <2>3. e # NoOrder => \E j \in DOMAIN store : e = store[j] /\ store[j].order.no = o
    BY <2>1, Parts, EntryIsStored DEF StoreOK
  <2>4. e # NoOrder => /\ e \in Entry /\ e.order.no = o
                       /\ Stands(server, e.order) /\ Filed(e)
    BY <2>3, Parts DEF StoreOK
  <2>5. /\ c \in Handler /\ c.op = "lookup" /\ c.no = o /\ c.base = e
        /\ c.live /\ c.from = page /\ c.ans = Waiting
    BY <1>1, <2>2, <2>4, CallIsHandler DEF Operations
  <2>6. HandlerOK(server, c)
    BY <1>1, <1>3, <2>4, <2>5, StorefrontAssumption DEF HandlerOK
  <2>7. c.op = "lookup" /\ c.base # NoOrder => \E k \in DOMAIN store : store[k].order.no = c.no
    BY <2>3, <2>5
  <2>8. Ask(c)
    BY <1>3, <2>1, <2>2
  <2> QED BY <1>1, <2>5, <2>6, <2>7, <2>8, AskKeeps
<1> QED BY <1>2, <1>3 DEF RefreshSelected, LoadSelectedDelivery, LookupInCentre

LEMMA AskingInCheckout ==
    ASSUME IInv, CreateOrder \/ \E op \in Operations \ {"create", "lookup"} : ActOnOrder(op)
    PROVE  IInv'
<1>1. page \in Skus /\ remote /\ ~co.loading /\ co' = CheckoutBusy /\ oc' = oc
      /\ UNCHANGED <<remote, server, store, page, hasty>>
  BY DEF CreateOrder, ActOnOrder, OnCheckout
<1>2. CASE CreateOrder
  <2>1. PICK c : c = Call("create", NoOrder, NoOrder)
    OBVIOUS
  <2>2. /\ c \in Handler /\ c.op = "create" /\ c.no = NoOrder /\ c.base = NoOrder
        /\ c.live /\ c.from = page /\ c.ans = Waiting
    BY <1>1, <2>1, CallIsHandler DEF Operations
  <2>3. HandlerOK(server, c)
    BY <1>1, <2>2, Kinds, StorefrontAssumption DEF HandlerOK
  <2>4. Ask(c)
    BY <1>2, <2>1 DEF CreateOrder
  <2> QED BY <1>1, <2>2, <2>3, <2>4, AskKeeps
<1>3. ASSUME NEW op \in Operations \ {"create", "lookup"}, ActOnOrder(op)
      PROVE  IInv'
  <2>1. PICK c : c = Call(op, co.order.no, co.order)
    OBVIOUS
  <2>2. /\ co.order \in Snapshot /\ co.order # NoOrder
        /\ Stands(server, co.order) /\ Visible(co.order)
    BY <1>3, Parts DEF ActOnOrder, Typed, CheckoutStates, CheckoutOK
  <2>3. co.order.no \in Orders /\ server[co.order.no].st # "none"
    <3>1. co.order.no \in Numbers /\ co.order.no \notin Drafts
      BY <1>1, <2>2, Kinds DEF Visible
    <3> QED BY <2>2, <3>1 DEF Numbers, Stands
  <2>4. /\ c \in Handler /\ c.op = op /\ c.no = co.order.no /\ c.base = co.order
        /\ c.live /\ c.from = page /\ c.ans = Waiting
    BY <1>1, <2>1, <2>2, <2>3, CallIsHandler
  <2>5. HandlerOK(server, c)
    BY <1>1, <2>2, <2>3, <2>4, Kinds, StorefrontAssumption DEF HandlerOK
  <2>6. Ask(c)
    BY <1>3, <2>1 DEF ActOnOrder
  <2>7. c.op # "lookup"
    BY <2>4
  <2> QED BY <1>1, <2>4, <2>5, <2>6, <2>7, AskKeeps
<1> QED BY <1>2, <1>3

\* Opening the dialog changes nothing that is shown or stored.
LEMMA ToggleKeeps ==
    ASSUME IInv, ToggleDialog
    PROVE  IInv'
<1>1. /\ co' = [co EXCEPT !.modal = ~@]
      /\ UNCHANGED <<remote, server, store, page, oc, calls, hasty>>
  BY DEF ToggleDialog
<1>2. co' \in CheckoutStates /\ co'.order = co.order /\ co'.loading = co.loading
  BY <1>1, Parts DEF Typed, CheckoutStates
<1>3. Typed'
  BY <1>1, <1>2, Parts DEF Typed
<1>4. /\ StoreOK(server, store)' /\ CheckoutOK(server, co)'
      /\ EntriesOK(server, oc.entries)' /\ HandlersOK(server, calls)'
  <2>1. CheckoutOK(server, co')
    BY <1>2, Parts DEF CheckoutOK
  <2> QED BY <1>1, <2>1, Parts, Frame
<1>5. CheckoutWaits' /\ CentreWaits'
  BY <1>1, <1>2, Parts DEF CheckoutWaits, CentreWaits, Busy
<1>6. Patient'
  BY <1>1, <1>2, Parts
     DEF Patient, OneAtATime, CheckoutIsStored, HandlerIsCurrent, CentreShows, Busy, OnCheckout
<1> QED BY <1>3, <1>4, <1>5, <1>6 DEF IInv

-----------------------------------------------------------------------------
(* Steps that store                                                        *)

\* A step that stores an order does not turn the stored one back.
Forward(s, t) ==
    \A k \in DOMAIN s, m \in DOMAIN t :
        s[k].order.no = t[m].order.no => Rank(s[k].order.st) <= Rank(t[m].order.st)

LEMMA SameIsForward == ASSUME NEW s, StoreOK(server, s) PROVE Forward(s, s)
<1>1. ASSUME NEW k \in DOMAIN s, NEW m \in DOMAIN s, s[k].order.no = s[m].order.no
      PROVE  Rank(s[k].order.st) <= Rank(s[m].order.st)
  <2>1. k = m /\ s[k] \in Entry
    BY <1>1 DEF StoreOK
  <2>2. s[k].order.st \in Statuses
    BY <2>1, Kinds
  <2> QED BY <2>1, <2>2, Ranks
<1> QED BY <1>1 DEF Forward

\* What a step stores: an order that stands, filed under its product, in front; and for a
\* buyer who waits it is not behind the storage.
Stores(sku, o) ==
    /\ o \in Snapshot /\ Stands(server, o)
    /\ sku \in Skus \cup {NoSku} /\ (o.sku # NoSku => sku = o.sku)
    /\ store' = Persist(store, sku, o)
    /\ ~hasty => \A k \in DOMAIN store :
                    store[k].order.no = o.no => Rank(store[k].order.st) <= Rank(o.st)

LEMMA StoresForward ==
    ASSUME IInv, NEW sku, NEW o, Stores(sku, o)
    PROVE  /\ StoreOK(server, store')
           /\ \E k \in DOMAIN store' : store'[k].order = o
           /\ \A k \in DOMAIN store' : store'[k].order.no = o.no => store'[k].order = o
           /\ ~hasty => Forward(store, store')
<1>1. /\ StoreOK(server, store')
      /\ \E k \in DOMAIN store' : store'[k].order = o
      /\ \A k \in DOMAIN store' :
             \/ store'[k].order = o
             \/ store'[k].order.no # o.no /\ \E j \in DOMAIN store : store'[k] = store[j]
  BY Parts, PersistOK DEF Stores
<1>2. ASSUME ~hasty, NEW k \in DOMAIN store, NEW m \in DOMAIN store',
             store[k].order.no = store'[m].order.no
      PROVE  Rank(store[k].order.st) <= Rank(store'[m].order.st)
  <2>1. CASE store'[m].order = o
    BY <1>2, <2>1 DEF Stores
  <2>2. CASE \E j \in DOMAIN store : store'[m] = store[j]
    <3>1. PICK j \in DOMAIN store : store'[m] = store[j]
      BY <2>2
    <3> QED BY <1>2, <3>1, Parts, SameIsForward DEF Forward
  <2> QED BY <1>1, <2>1, <2>2
<1> QED BY <1>1, <1>2 DEF Forward

\* A handler that has ended leaves no page waiting for it.
LEMMA HandlerEnds ==
    ASSUME IInv, NEW i \in Busy, calls' = [calls EXCEPT ![i] = NoOrder],
           UNCHANGED <<remote, server, page, hasty>>,
           StoreOK(server, store'),
           co' \in CheckoutStates, CheckoutOK(server, co'),
           oc' \in CentreStates, EntriesOK(server, oc'.entries),
           co'.loading => co.loading /\ ~(calls[i].live /\ calls[i].from \in Skus),
           oc'.loading => oc.loading /\ ~(calls[i].live /\ calls[i].from = "orders"),
           ~hasty => CheckoutIsStored' /\ CentreShows'
    PROVE  IInv'
<1>1. /\ calls' \in [1..MaxCalls -> Handler \cup {NoOrder}]
      /\ calls'[i] = NoOrder /\ \A j \in 1..MaxCalls \ {i} : calls'[j] = calls[j]
      /\ i \in 1..MaxCalls
  BY Parts DEF Typed, Busy
<1>2. Busy' = Busy \ {i} /\ \A j \in Busy \ {i} : calls'[j] = calls[j]
  BY <1>1, Parts DEF Busy
<1>3. Typed'
  BY <1>1, Parts DEF Typed
<1>4. HandlersOK(server, calls')
  BY <1>1, Parts DEF HandlersOK
<1>5. /\ StoreOK(server, store)' /\ CheckoutOK(server, co)'
      /\ EntriesOK(server, oc.entries)' /\ HandlersOK(server, calls)'
  BY <1>4, Frame
<1>6. CheckoutWaits' /\ CentreWaits'
  BY <1>2, Parts DEF CheckoutWaits, CentreWaits
<1>7. ASSUME ~hasty
      PROVE  OneAtATime' /\ HandlerIsCurrent'
  <2>1. Busy' = {}
    BY <1>2, <1>7, Parts DEF OneAtATime
  <2> QED BY <2>1 DEF OneAtATime, HandlerIsCurrent
<1> QED BY <1>3, <1>5, <1>6, <1>7 DEF IInv, Patient

\* An answer that continues its handler.
LEMMA LandGoesOn ==
    ASSUME IInv, NEW i \in Busy, calls[i].at < Len(Script(calls[i].op)),
           calls' = [calls EXCEPT ![i].at = @ + 1, ![i].ans = Waiting],
           UNCHANGED <<remote, server, store, page, co, oc, hasty>>
    PROVE  IInv'
<1> PICK c : c = calls[i]
  OBVIOUS
<1>1. c \in Handler /\ i \in 1..MaxCalls /\ c # NoOrder
  BY Parts DEF Busy
<1>2. c.at + 1 \in 1..3
  <2>1. Script(c.op) \in {<<"create">>, <<"detail">>, <<"mark-paid", "detail">>, <<"cancel", "detail">>,
                          <<"upload", "payment-proof", "detail">>, <<"delivery">>}
    BY <1>1 DEF Script, Handler, Operations
  <2>2. PICK n \in 1..3 : n = Len(Script(c.op))
    BY <2>1
  <2>3. c.at \in 1..3 /\ c.at < n
    BY <1>1, <2>2 DEF Handler
  <2> QED BY <2>3
<1>3. PICK e : e = [c EXCEPT !.at = c.at + 1]
  OBVIOUS
<1>4. e \in Handler /\ Resumed(c, e)
  BY <1>1, <1>2, <1>3 DEF Handler, Resumed
<1>5. PICK d : d = [e EXCEPT !.ans = Waiting]
  OBVIOUS
<1>6. d \in Handler /\ Resumed(e, d) /\ d.ans = Waiting
  BY <1>4, <1>5, AnswerResumes
<1>7. PICK cs : cs = [calls EXCEPT ![i].at = @ + 1]
  OBVIOUS
<1>8. calls \in [1..MaxCalls -> Handler \cup {NoOrder}]
  BY Parts DEF Typed
<1>9. cs = [calls EXCEPT ![i] = e] /\ cs[i] = e
  BY <1>1, <1>3, <1>7, <1>8
<1>10. calls' = [cs EXCEPT ![i].ans = Waiting]
  BY <1>7
<1>11. calls' = [calls EXCEPT ![i] = d]
  BY <1>1, <1>5, <1>8, <1>9, <1>10
<1>12. Resumed(c, d) /\ d.ans \notin Snapshot
  BY <1>4, <1>6, StorefrontAssumption DEF Resumed
<1>13. server' \in ServerRows /\ Onward(server, server')
  BY Parts, OnwardStays DEF Typed
<1> QED BY <1>1, <1>6, <1>11, <1>12, <1>13, HandlerGoesOn

\* The last answer of a handler of the checkout page.
LEMMA LandingInCheckout ==
    ASSUME IInv, NEW i \in Busy, calls[i].from \in Skus, calls[i].ans # Waiting,
           calls' = [calls EXCEPT ![i] = NoOrder], LandInCheckout(calls[i]),
           UNCHANGED <<remote, server, page, hasty>>
    PROVE  IInv' /\ (~hasty => Forward(store, store'))
<1> PICK c : c = calls[i]
  OBVIOUS
<1>1. c \in Handler /\ HandlerOK(server, c) /\ c.from \in Skus /\ remote /\ c # NoOrder
  BY Parts DEF HandlersOK, Busy
<1>2. oc' = oc /\ oc \in CentreStates
  BY Parts DEF LandInCheckout, Typed
<1>3. c.ans \in Snapshot \cup {Failed}
  BY <1>1 DEF Handler
<1>4. ~hasty => /\ c.live /\ c.from = page /\ OnCheckout /\ page # "orders"
                /\ CheckoutIsStored /\ HandlerIsCurrent
  BY <1>1, Parts, Kinds DEF OneAtATime, OnCheckout
<1>5. ~hasty /\ c.op # "create" => c.base = co.order
  BY <1>1, <1>4 DEF HandlerIsCurrent
\* what is shown and stored, if anything is
<1>6. ASSUME NEW o \in Snapshot, NEW modal \in BOOLEAN, Apply(c, o, modal), Stands(server, o), o.no \in Orders,
             ~hasty => /\ o.sku \in {NoSku, page}
                       /\ \A k \in DOMAIN store :
                             store[k].order.no = o.no => Rank(store[k].order.st) <= Rank(o.st)
      PROVE  IInv' /\ (~hasty => Forward(store, store'))
  <2>1. PICK sku : sku = ProductOf(o, c.from)
    OBVIOUS
  <2>2. Stores(sku, o)
    BY <1>1, <1>6, <2>1, Kinds DEF Apply, Stores, ProductOf
  <2>3. /\ StoreOK(server, store')
        /\ \A k \in DOMAIN store' : store'[k].order.no = o.no => store'[k].order = o
        /\ ~hasty => Forward(store, store')
    BY <2>2, StoresForward
  <2>4. co' = IF c.live THEN [order |-> o, loading |-> FALSE, modal |-> modal] ELSE co
    BY <1>6 DEF Apply
  <2>5. /\ co' \in CheckoutStates
        /\ c.live => co'.order = o /\ ~co'.loading
        /\ ~c.live => co' = co
    BY <1>6, <2>4, Parts DEF CheckoutStates, Typed
  <2>6. CheckoutOK(server, co')
    BY <1>6, <2>5, Parts, StorefrontAssumption DEF CheckoutOK, Visible
  <2>7. ~hasty => CheckoutIsStored' /\ CentreShows'
    <3> SUFFICES ASSUME ~hasty
                 PROVE  CheckoutIsStored' /\ CentreShows'
      OBVIOUS
    <3>1. co'.order = o /\ page' = page
      BY <1>4, <2>5
    <3>2. CheckoutIsStored'
      BY <1>6, <2>3, <3>1 DEF CheckoutIsStored
    <3> QED BY <1>4, <3>1, <3>2 DEF CentreShows
  <2>8. /\ co'.loading => co.loading /\ ~(calls[i].live /\ calls[i].from \in Skus)
        /\ oc'.loading => oc.loading /\ ~(calls[i].live /\ calls[i].from = "orders")
    BY <1>1, <1>2, <2>5, Kinds
  <2>9. EntriesOK(server, oc'.entries)
    BY <1>2, Parts
  <2> QED BY <1>2, <2>3, <2>5, <2>6, <2>7, <2>8, <2>9, HandlerEnds
<1>7. CASE c.ans # Failed /\ c.op # "delivery"
  <2>1. PICK modal : modal = ((co.modal \/ c.op = "create") /\ c.op # "cancel")
    OBVIOUS
  <2>2. Apply(c, c.ans, modal) /\ modal \in BOOLEAN
    BY <1>7, <2>1 DEF LandInCheckout
  <2>3. c.ans \in Snapshot /\ c.ans.no \in Orders /\ Stands(server, c.ans)
    BY <1>1, <1>3, <1>7 DEF HandlerOK
  <2>4. ASSUME ~hasty
        PROVE  /\ c.ans.sku \in {NoSku, page}
               /\ \A k \in DOMAIN store :
                    store[k].order.no = c.ans.no => Rank(store[k].order.st) <= Rank(c.ans.st)
    <3>1. c.ans.sku \in {NoSku, page}
      <4>1. CASE c.op = "create"
        BY <1>1, <1>4, <2>3, <2>4, <4>1 DEF HandlerOK
      <4>2. CASE c.op # "create"
        <5>1. c.base \in Snapshot /\ c.base.no = c.no /\ c.ans.no = c.no /\ Stands(server, c.base)
          BY <1>1, <2>3, <4>2 DEF HandlerOK
        <5>2. c.ans.sku = c.base.sku
          BY <2>3, <5>1 DEF Stands
        <5>3. c.base = co.order /\ co.order # NoOrder
          BY <1>5, <2>4, <4>2, <5>1, Kinds
        <5> QED BY <1>4, <2>4, <5>2, <5>3 DEF CheckoutIsStored
      <4> QED BY <4>1, <4>2
    <3> QED BY <1>4, <2>3, <2>4, <3>1 DEF HandlerIsCurrent
  <2> QED BY <1>6, <2>2, <2>3, <2>4
<1>8. CASE \/ c.ans # Failed /\ c.op = "delivery"
           \/ c.ans = Failed /\ c.op = "proof" /\ c.at = Len(Script(c.op))
  <2>1. Apply(c, c.base, co.modal) /\ c.op # "create"
    BY <1>8 DEF LandInCheckout
  <2>2. co.modal \in BOOLEAN
    BY Parts DEF Typed, CheckoutStates
  <2>3. c.base \in Snapshot /\ c.base.no \in Orders /\ Stands(server, c.base)
    BY <1>1, <2>1 DEF HandlerOK
  <2>4. ASSUME ~hasty
        PROVE  /\ c.base.sku \in {NoSku, page}
               /\ \A k \in DOMAIN store :
                    store[k].order.no = c.base.no => Rank(store[k].order.st) <= Rank(c.base.st)
    <3>1. c.base = co.order /\ co.order # NoOrder
      BY <1>5, <2>1, <2>3, <2>4, Kinds
    <3>2. \A k \in DOMAIN store : store[k].order.no = co.order.no => store[k].order = co.order
      BY <1>4, <2>4, <3>1 DEF CheckoutIsStored
    <3>3. Rank(c.base.st) <= Rank(c.base.st)
      BY <2>3, Kinds, Ranks
    <3>4. c.base.sku \in {NoSku, page}
      BY <1>4, <2>4, <3>1 DEF CheckoutIsStored
    <3> QED BY <3>1, <3>2, <3>3, <3>4
  <2> QED BY <1>6, <2>1, <2>2, <2>3, <2>4
<1>9. CASE c.ans = Failed /\ ~(c.op = "proof" /\ c.at = Len(Script(c.op)))
  <2>1. store' = store /\ co' = IF c.live THEN [co EXCEPT !.loading = FALSE] ELSE co
    BY <1>9 DEF LandInCheckout
  <2>2. /\ co' \in CheckoutStates /\ co'.order = co.order
        /\ c.live => ~co'.loading
        /\ ~c.live => co' = co
    BY <2>1, Parts DEF Typed, CheckoutStates
  <2>3. CheckoutOK(server, co') /\ StoreOK(server, store') /\ EntriesOK(server, oc'.entries)
    BY <1>2, <2>1, <2>2, Parts DEF CheckoutOK
  <2>4. ~hasty => CheckoutIsStored' /\ CentreShows'
    BY <1>4, <2>1, <2>2 DEF CheckoutIsStored, CentreShows, OnCheckout
  <2>5. /\ co'.loading => co.loading /\ ~(calls[i].live /\ calls[i].from \in Skus)
        /\ oc'.loading => oc.loading /\ ~(calls[i].live /\ calls[i].from = "orders")
    BY <1>1, <1>2, <2>2, Kinds
  <2>6. Forward(store, store')
    BY <2>1, Parts, SameIsForward
  <2> QED BY <1>2, <2>2, <2>3, <2>4, <2>5, <2>6, HandlerEnds
<1> QED BY <1>7, <1>8, <1>9

\* The last answer of a handler of the order centre.
LEMMA LandingInCentre ==
    ASSUME IInv, NEW i \in Busy, calls[i].from \notin Skus, calls[i].ans # Waiting,
           calls' = [calls EXCEPT ![i] = NoOrder], LandInCentre(calls[i]),
           UNCHANGED <<remote, server, page, hasty>>
    PROVE  IInv' /\ (~hasty => Forward(store, store'))
<1> PICK c : c = calls[i]
  OBVIOUS
<1>1. c \in Handler /\ HandlerOK(server, c) /\ c.from = "orders" /\ remote /\ c # NoOrder
  BY Parts DEF HandlersOK, Busy, Handler
<1>2. c.op \in {"lookup", "refresh", "delivery"} /\ c.no \in Orders
  BY <1>1 DEF HandlerOK
<1>3. co' = co /\ co \in CheckoutStates
  BY Parts DEF LandInCentre, Typed
<1>4. c.ans \in Snapshot \cup {Failed} /\ (c.ans \in Snapshot => c.ans # Failed)
  BY <1>1, StorefrontAssumption DEF Handler
<1>5. ~hasty => /\ c.live /\ page = "orders" /\ page \notin Skus
                /\ CheckoutIsStored /\ HandlerIsCurrent /\ CentreShows
  BY <1>1, Parts, Kinds DEF OneAtATime
<1>6. PICK idle : idle = [oc EXCEPT !.loading = FALSE]
  OBVIOUS
<1>7. /\ idle \in CentreStates /\ idle.entries = oc.entries /\ idle.sel = oc.sel
      /\ ~idle.loading
  BY <1>6, Parts DEF Typed, CentreStates
<1>8. PICK sku : sku = IF c.base # NoOrder /\ c.base.sku # NoSku THEN c.base.sku ELSE c.ans.sku
  OBVIOUS
<1>9. PICK found : found = (\/ c.ans # Failed /\ c.op # "delivery"
                            \/ ~(c.ans # Failed) /\ c.op = "lookup" /\ c.base # NoOrder)
  OBVIOUS
<1>10. /\ store' = IF c.ans # Failed /\ c.op # "delivery" THEN Persist(store, sku, c.ans) ELSE store
       /\ IF ~c.live THEN oc' = oc ELSE oc' = IF found THEN Sync(idle, store', c.no) ELSE idle
  BY <1>6, <1>8, <1>9 DEF LandInCentre
\* what is stored
<1>11. /\ StoreOK(server, store')
       /\ ~hasty => Forward(store, store')
       /\ c.ans # Failed /\ c.op # "delivery" =>
              \E k \in DOMAIN store' : store'[k].order.no = c.no
  <2>1. CASE c.ans # Failed /\ c.op # "delivery"
    <3>1. c.ans \in Snapshot /\ c.ans.no = c.no /\ Stands(server, c.ans)
      BY <1>1, <1>2, <1>4, <2>1 DEF HandlerOK
    <3>2. sku \in Skus \cup {NoSku}
      <4>1. c.base # NoOrder => c.base \in Entry
        BY <1>1 DEF HandlerOK
      <4> QED BY <1>8, <3>1, <4>1, Kinds
    <3>3. ASSUME c.ans.sku # NoSku
          PROVE  sku = c.ans.sku
      <4>1. CASE c.base # NoOrder /\ c.base.sku # NoSku
        <5>1. /\ c.base \in Entry /\ c.base.order.no = c.no
              /\ Stands(server, c.base.order) /\ Filed(c.base)
          BY <1>1, <4>1 DEF HandlerOK
        <5>2. c.base.order.sku = c.ans.sku
          BY <1>2, <3>1, <5>1 DEF Stands
        <5> QED BY <1>8, <3>3, <4>1, <5>1, <5>2 DEF Filed
      <4>2. CASE ~(c.base # NoOrder /\ c.base.sku # NoSku)
        BY <1>8, <4>2
      <4> QED BY <4>1, <4>2
    <3>4. ~hasty => \A k \in DOMAIN store :
                store[k].order.no = c.ans.no => Rank(store[k].order.st) <= Rank(c.ans.st)
      BY <1>5, <3>1 DEF HandlerIsCurrent
    <3>5. Stores(sku, c.ans)
      BY <1>10, <2>1, <3>1, <3>2, <3>3, <3>4 DEF Stores
    <3>6. \E k \in DOMAIN store' : store'[k].order = c.ans
      BY <3>5, StoresForward
    <3> QED BY <3>1, <3>5, <3>6, StoresForward
  <2>2. CASE ~(c.ans # Failed /\ c.op # "delivery")
    BY <1>10, <2>2, Parts, SameIsForward
  <2> QED BY <2>1, <2>2
\* what is shown
<1>12. ASSUME c.live
       PROVE  /\ oc' \in CentreStates /\ EntriesOK(server, oc'.entries) /\ ~oc'.loading
              /\ ~hasty /\ oc'.entries # <<>> => IsListed(oc'.entries, oc'.sel)
  <2>1. CASE found
    <3>1. ~hasty => \E k \in DOMAIN store' : store'[k].order.no = c.no
      <4>1. CASE c.ans # Failed /\ c.op # "delivery"
        BY <1>11, <4>1
      <4>2. CASE c.ans = Failed /\ c.op = "lookup" /\ c.base # NoOrder
        BY <1>5, <1>10, <4>2 DEF HandlerIsCurrent
      <4> QED BY <1>9, <2>1, <4>1, <4>2
    <3>2. \A k \in DOMAIN store' : store'[k].order.no = c.no => Visible(store'[k].order)
      BY <1>2, StorefrontAssumption DEF Visible
    <3>3. PICK s : s = store'
      OBVIOUS
    <3>4. oc' = Sync(idle, s, c.no) /\ c.no \in Numbers /\ StoreOK(server, s)
      BY <1>2, <1>10, <1>11, <1>12, <2>1, <3>3 DEF Numbers
    <3>5. /\ oc' \in CentreStates /\ oc'.loading = idle.loading /\ EntriesOK(server, oc'.entries)
          /\ oc'.entries # <<>> /\ (\E k \in DOMAIN s : s[k].order.no = c.no /\ Visible(s[k].order))
                 => IsListed(oc'.entries, oc'.sel)
      BY <1>7, <3>4, SyncOK
    <3> QED BY <1>7, <3>1, <3>2, <3>3, <3>5
  <2>2. CASE ~found
    <3>1. oc' = idle
      BY <1>10, <1>12, <2>2
    <3>2. EntriesOK(server, oc'.entries)
      BY <1>7, <3>1, Parts
    <3>3. ~hasty /\ oc'.entries # <<>> => IsListed(oc'.entries, oc'.sel)
      BY <1>5, <1>7, <3>1 DEF CentreShows
    <3> QED BY <1>7, <3>1, <3>2, <3>3
  <2> QED BY <2>1, <2>2
<1>13. /\ oc' \in CentreStates /\ EntriesOK(server, oc'.entries)
       /\ oc'.loading => oc.loading /\ ~c.live
  <2>1. CASE c.live
    BY <1>12, <2>1
  <2>2. CASE ~c.live
    BY <1>10, <2>2, Parts DEF Typed
  <2> QED BY <2>1, <2>2
<1>14. CheckoutOK(server, co')
  BY <1>3, Parts
<1>15. ~hasty => CheckoutIsStored' /\ CentreShows'
  <2> SUFFICES ASSUME ~hasty
               PROVE  CheckoutIsStored' /\ CentreShows'
    OBVIOUS
  <2>1. CheckoutIsStored'
    BY <1>5 DEF CheckoutIsStored, OnCheckout
  <2>2. CentreShows'
    BY <1>5, <1>12 DEF CentreShows
  <2> QED BY <2>1, <2>2
<1>16. co'.loading => co.loading /\ ~(calls[i].live /\ calls[i].from \in Skus)
  BY <1>3
<1> QED BY <1>3, <1>11, <1>13, <1>14, <1>15, <1>16, HandlerEnds

LEMMA LandKeeps ==
    ASSUME IInv, NEW i \in DOMAIN calls, Land(i)
    PROVE  IInv' /\ (~hasty => Forward(store, store'))
<1>1. i \in Busy /\ calls[i].ans # Waiting /\ UNCHANGED <<remote, server, page, hasty>>
  BY DEF Land, Busy
<1>2. CASE calls[i].ans # Failed /\ calls[i].at < Len(Script(calls[i].op))
  <2>1. /\ calls' = [calls EXCEPT ![i].at = @ + 1, ![i].ans = Waiting]
        /\ UNCHANGED <<store, co, oc>>
    BY <1>2 DEF Land
  <2>2. Forward(store, store')
    BY <2>1, Parts, SameIsForward
  <2> QED BY <1>1, <1>2, <2>1, <2>2, LandGoesOn
<1>3. CASE ~(calls[i].ans # Failed /\ calls[i].at < Len(Script(calls[i].op)))
  <2>1. /\ calls' = [calls EXCEPT ![i] = NoOrder]
        /\ IF calls[i].from \in Skus THEN LandInCheckout(calls[i]) ELSE LandInCentre(calls[i])
    BY <1>3 DEF Land
  <2> QED BY <1>1, <2>1, LandingInCheckout, LandingInCentre
<1> QED BY <1>2, <1>3

\* The demo mode shows and stores a draft at once.
LEMMA ShowDraft ==
    ASSUME IInv, ~remote, page \in Skus, NEW o \in Snapshot, o.no \in Drafts, NEW modal \in BOOLEAN,
           store' = Persist(store, ProductOf(o, page), o),
           co' = [order |-> o, loading |-> FALSE, modal |-> modal],
           UNCHANGED <<remote, server, page, oc, calls, hasty>>,
           ~hasty => /\ o.sku \in {NoSku, page}
                     /\ \A k \in DOMAIN store :
                           store[k].order.no = o.no => Rank(store[k].order.st) <= Rank(o.st)
    PROVE  IInv' /\ (~hasty => Forward(store, store'))
<1> PICK sku : sku = ProductOf(o, page)
  OBVIOUS
<1>1. Stands(server, o)
  BY StorefrontAssumption DEF Stands
<1>2. Stores(sku, o)
  BY <1>1, Kinds DEF Stores, ProductOf
<1>3. /\ StoreOK(server, store')
      /\ \A k \in DOMAIN store' : store'[k].order.no = o.no => store'[k].order = o
      /\ ~hasty => Forward(store, store')
  BY <1>2, StoresForward
<1>4. co' \in CheckoutStates /\ co'.order = o /\ ~co'.loading
  BY DEF CheckoutStates
<1>5. Typed'
  BY <1>4, Parts DEF Typed
<1>6. CheckoutOK(server, co')
  BY <1>1, <1>4 DEF CheckoutOK, Visible
<1>7. /\ StoreOK(server, store)' /\ CheckoutOK(server, co)'
      /\ EntriesOK(server, oc.entries)' /\ HandlersOK(server, calls)'
  BY <1>3, <1>6, Parts, Frame
<1>8. Busy = {} /\ Busy' = {}
  BY Parts DEF HandlersOK, Busy
<1>9. CheckoutWaits' /\ CentreWaits'
  BY <1>4, <1>8, Parts DEF CheckoutWaits, CentreWaits
<1>10. Patient'
  <2> SUFFICES ASSUME ~hasty
               PROVE  OneAtATime' /\ CheckoutIsStored' /\ HandlerIsCurrent' /\ CentreShows'
    BY DEF Patient
  <2>1. OneAtATime' /\ HandlerIsCurrent'
    BY <1>8 DEF OneAtATime, HandlerIsCurrent
  <2>2. CheckoutIsStored'
    BY <1>3, <1>4 DEF CheckoutIsStored
  <2>3. CentreShows'
    BY Kinds DEF CentreShows
  <2> QED BY <2>1, <2>2, <2>3
<1> QED BY <1>3, <1>5, <1>7, <1>9, <1>10 DEF IInv

LEMMA DraftKeeps ==
    ASSUME IInv, ActOnDraft
    PROVE  IInv' /\ (~hasty => Forward(store, store'))
<1>1. page \in Skus /\ ~remote /\ UNCHANGED <<remote, server, page, oc, calls, hasty>>
  BY DEF ActOnDraft, OnCheckout
<1>2. store \in Seq(Entry)
  BY Parts DEF StoreOK
<1>3. co.modal \in BOOLEAN
  BY Parts DEF Typed, CheckoutStates
<1>4. ASSUME NEW d \in Drafts, EntryOf(store, d) = NoOrder,
             store' = Persist(store, ProductOf(Draft(d), page), Draft(d)),
             co' = [order |-> Draft(d), loading |-> FALSE, modal |-> TRUE]
      PROVE  IInv' /\ (~hasty => Forward(store, store'))
  <2>1. PICK o : o = Draft(d)
    OBVIOUS
  <2>2. o \in Snapshot /\ o.no = d /\ o.sku = page
    BY <1>1, <2>1 DEF Draft, Snapshot, Statuses
  <2>3. \A k \in DOMAIN store : store[k].order.no # d
    BY <1>1, <1>2, <1>4, EntryIsStored DEF Visible
  <2> QED BY <1>1, <1>4, <2>1, <2>2, <2>3, ShowDraft
\* an order that is shown, and its later statuses
<1>5. ASSUME co.order # NoOrder, NEW o, NEW modal \in BOOLEAN,
             \/ o = co.order
             \/ co.order.st = "awaiting" /\ o = [co.order EXCEPT !.st = "review"]
             \/ co.order.st \notin {"cancelled", "done"} /\ o = [co.order EXCEPT !.st = "cancelled"],
             store' = Persist(store, ProductOf(o, page), o),
             co' = [order |-> o, loading |-> FALSE, modal |-> modal]
      PROVE  IInv' /\ (~hasty => Forward(store, store'))
  <2>1. co.order \in Snapshot /\ Stands(server, co.order)
    BY <1>5, Parts DEF Typed, CheckoutStates, CheckoutOK
  <2>2. co.order.no \in Drafts
    BY <1>1, <2>1, Kinds DEF Stands, Numbers
  <2>3. /\ o \in Snapshot /\ o.no = co.order.no /\ o.sku = co.order.sku
        /\ \/ o.st = co.order.st
           \/ co.order.st = "awaiting" /\ o.st = "review"
           \/ o.st = "cancelled"
    BY <1>5, <2>1 DEF Snapshot, Statuses
  <2>4. Rank(co.order.st) <= Rank(o.st)
    BY <2>1, <2>3, Kinds, Ranks
  <2>5. ~hasty => /\ co.order.sku \in {NoSku, page}
                  /\ \A k \in DOMAIN store :
                        store[k].order.no = co.order.no => store[k].order = co.order
    BY <1>1, <1>5, Parts DEF CheckoutIsStored, OnCheckout
  <2>6. ~hasty => \A k \in DOMAIN store :
                      store[k].order.no = o.no => Rank(store[k].order.st) <= Rank(o.st)
    BY <2>3, <2>4, <2>5
  <2> QED BY <1>1, <1>5, <2>2, <2>3, <2>5, <2>6, ShowDraft
<1>6. \/ \E d \in Drafts :
            /\ EntryOf(store, d) = NoOrder
            /\ store' = Persist(store, ProductOf(Draft(d), page), Draft(d))
            /\ co' = [order |-> Draft(d), loading |-> FALSE, modal |-> TRUE]
      \/ \E o : \E modal \in BOOLEAN :
            /\ co.order # NoOrder
            /\ \/ o = co.order
               \/ co.order.st = "awaiting" /\ o = [co.order EXCEPT !.st = "review"]
               \/ co.order.st \notin {"cancelled", "done"} /\ o = [co.order EXCEPT !.st = "cancelled"]
            /\ store' = Persist(store, ProductOf(o, page), o)
            /\ co' = [order |-> o, loading |-> FALSE, modal |-> modal]
  BY <1>3 DEF ActOnDraft, CanDo
<1> QED BY <1>4, <1>5, <1>6

-----------------------------------------------------------------------------
(* Moving between pages                                                    *)

\* The checkout page of a product shows its newest order.
LEMMA LatestOK ==
    ASSUME IInv, NEW p \in Skus, NEW o, o = LatestFor(store, p)
    PROVE  /\ o \in Snapshot \cup {NoOrder}
           /\ o # NoOrder =>
                  /\ Stands(server, o) /\ Visible(o) /\ o.sku \in {NoSku, p}
                  /\ \A k \in DOMAIN store : store[k].order.no = o.no => store[k].order = o
<1>1. CASE o = NoOrder
  BY <1>1
<1>2. CASE o # NoOrder
  <2>1. store \in Seq(Entry)
    BY Parts DEF StoreOK
  <2>2. PICK j \in DOMAIN store : o = store[j].order /\ store[j].sku = p /\ Visible(store[j].order)
    BY <1>2, <2>1, LatestIsStored
  <2>3. o \in Snapshot
    BY <2>1, <2>2, Kinds
  <2>4. Stands(server, o) /\ o.sku \in {NoSku, p}
    BY <2>2, Parts DEF StoreOK, Filed
  <2>5. \A k \in DOMAIN store : store[k].order.no = o.no => store[k].order = o
    BY <2>2, Parts DEF StoreOK
  <2> QED BY <2>2, <2>3, <2>4, <2>5
<1> QED BY <1>1, <1>2

\* The handlers of a page that is left are not heard on the next one.
LEMMA LeavingKeepsHandlers ==
    ASSUME IInv, server' = server,
           calls' = [i \in DOMAIN calls |-> IF i \in Busy THEN [calls[i] EXCEPT !.live = FALSE] ELSE NoOrder]
    PROVE  /\ calls' \in [1..MaxCalls -> Handler \cup {NoOrder}]
           /\ HandlersOK(server, calls') /\ Busy' = Busy
<1>1. ASSUME NEW i \in Busy
      PROVE  /\ calls'[i] \in Handler /\ HandlerOK(server, calls'[i]) /\ remote
             /\ calls'[i] # NoOrder
  <2>1. PICK c : c = calls[i]
    OBVIOUS
  <2>2. c \in Handler /\ HandlerOK(server, c) /\ remote
    BY <2>1, Parts DEF HandlersOK, Busy
  <2>3. PICK d : d = [c EXCEPT !.live = FALSE]
    OBVIOUS
  <2>4. /\ d \in Handler /\ d.op = c.op /\ d.from = c.from /\ d.no = c.no
        /\ d.base = c.base /\ d.ans = c.ans
    BY <2>2, <2>3 DEF Handler
  <2>5. HandlerOK(server, d)
    BY <2>2, <2>4 DEF HandlerOK
  <2>6. calls'[i] = d
    BY <2>1, <2>3 DEF Busy
  <2> QED BY <2>2, <2>4, <2>5, <2>6, Kinds
<1>2. DOMAIN calls' = 1..MaxCalls /\ \A i \in 1..MaxCalls \ Busy : calls'[i] = NoOrder
  BY Parts
<1>3. Busy \subseteq 1..MaxCalls
  BY Parts DEF Busy
<1>4. calls' \in [1..MaxCalls -> Handler \cup {NoOrder}]
  <2>1. \A i \in 1..MaxCalls : calls'[i] \in Handler \cup {NoOrder}
    BY <1>1, <1>2
  <2> QED BY <2>1, Parts
<1>5. HandlersOK(server, calls')
  BY <1>1, <1>2 DEF HandlersOK
<1>6. Busy' = Busy
  BY <1>1, <1>2, <1>3 DEF Busy
<1> QED BY <1>4, <1>5, <1>6

LEMMA GoToKeeps ==
    ASSUME IInv, NEW p \in Skus \cup {"orders", "away"}, GoTo(p)
    PROVE  IInv'
<1> PICK stays : stays = (OnCheckout /\ p \in Skus)
  OBVIOUS
<1> PICK latest : latest = LatestFor(store, p)
  OBVIOUS
<1>1. /\ page' = p /\ hasty' = (hasty \/ Busy # {}) /\ UNCHANGED <<remote, server, store>>
      /\ oc' = IF p = "orders" THEN FreshCentre(store) ELSE FreshCentre(<<>>)
      /\ calls' = IF stays THEN calls
                  ELSE [i \in DOMAIN calls |->
                          IF i \in Busy THEN [calls[i] EXCEPT !.live = FALSE] ELSE NoOrder]
      /\ stays => co' = [FreshCheckout(latest) EXCEPT !.loading = co.loading, !.modal = co.modal]
      /\ ~stays => co' = IF p \in Skus THEN FreshCheckout(latest) ELSE Idle
  BY DEF GoTo
<1>2. /\ oc' \in CentreStates /\ ~oc'.loading /\ EntriesOK(server, oc'.entries)
      /\ p = "orders" /\ oc'.entries # <<>> => IsListed(oc'.entries, oc'.sel)
  <2>1. ASSUME NEW s, StoreOK(server, s), oc' = FreshCentre(s)
        PROVE  /\ oc' \in CentreStates /\ ~oc'.loading /\ EntriesOK(server, oc'.entries)
               /\ oc'.entries # <<>> => IsListed(oc'.entries, oc'.sel)
    BY <2>1, FreshOK
  <2>2. CASE p = "orders"
    BY <1>1, <2>1, <2>2, Parts
  <2>3. CASE p # "orders"
    BY <1>1, <2>1, <2>3, EmptyStoreOK
  <2> QED BY <2>2, <2>3
<1>3. /\ calls' \in [1..MaxCalls -> Handler \cup {NoOrder}]
      /\ HandlersOK(server, calls') /\ Busy' = Busy
  <2>1. CASE stays
    BY <1>1, <2>1, Parts DEF Typed, Busy
  <2>2. CASE ~stays
    BY <1>1, <2>2, LeavingKeepsHandlers
  <2> QED BY <2>1, <2>2
<1>4. /\ co' \in CheckoutStates
      /\ co'.order = IF p \in Skus THEN latest ELSE NoOrder
      /\ co'.loading => stays /\ co.loading
  <2>1. p \in Skus => latest \in Snapshot \cup {NoOrder}
    BY LatestOK
  <2>2. co \in CheckoutStates
    BY Parts DEF Typed
  <2>3. CASE stays
    <3>1. PICK f : f = FreshCheckout(latest)
      OBVIOUS
    <3>2. f \in CheckoutStates /\ f.order = latest
      BY <2>1, <2>3, <3>1 DEF FreshCheckout, CheckoutStates
    <3>3. PICK g : g = [f EXCEPT !.loading = co.loading]
      OBVIOUS
    <3>4. g \in CheckoutStates /\ g.order = latest /\ g.loading = co.loading
      BY <2>2, <3>2, <3>3 DEF CheckoutStates
    <3>5. PICK h : h = [g EXCEPT !.modal = co.modal]
      OBVIOUS
    <3>6. h \in CheckoutStates /\ h.order = latest /\ h.loading = co.loading
      BY <2>2, <3>4, <3>5 DEF CheckoutStates
    <3>7. co' = h
      BY <1>1, <2>3, <3>1, <3>3, <3>5
    <3> QED BY <2>3, <3>6, <3>7
  <2>4. CASE ~stays /\ p \in Skus
    <3>1. co' = [order |-> latest, loading |-> FALSE, modal |-> FALSE]
      BY <1>1, <2>4 DEF FreshCheckout
    <3>2. co' \in CheckoutStates /\ co'.order = latest /\ ~co'.loading
      BY <2>1, <2>4, <3>1 DEF CheckoutStates
    <3> QED BY <2>4, <3>2
  <2>5. CASE ~stays /\ p \notin Skus
    <3>1. co' = [order |-> NoOrder, loading |-> FALSE, modal |-> FALSE]
      BY <1>1, <2>5 DEF Idle, FreshCheckout
    <3>2. co' \in CheckoutStates /\ co'.order = NoOrder /\ ~co'.loading
      BY <3>1 DEF CheckoutStates
    <3> QED BY <2>5, <3>2
  <2> QED BY <2>3, <2>4, <2>5
<1>5. CheckoutOK(server, co')
  BY <1>4, LatestOK DEF CheckoutOK
<1>6. Typed'
  <2>1. hasty' \in BOOLEAN
    BY <1>1, Parts DEF Typed
  <2> QED BY <1>1, <1>2, <1>3, <1>4, <2>1, Parts DEF Typed
<1>7. /\ StoreOK(server, store)' /\ CheckoutOK(server, co)'
      /\ EntriesOK(server, oc.entries)' /\ HandlersOK(server, calls)'
  BY <1>1, <1>2, <1>3, <1>5, Parts, Frame
<1>8. CheckoutWaits' /\ CentreWaits'
  <2>1. CheckoutWaits'
    BY <1>1, <1>3, <1>4, Parts DEF CheckoutWaits
  <2> QED BY <1>2, <2>1 DEF CentreWaits
<1>9. Patient'
  <2> SUFFICES ASSUME ~hasty'
               PROVE  OneAtATime' /\ CheckoutIsStored' /\ HandlerIsCurrent' /\ CentreShows'
    BY DEF Patient
  <2>1. Busy' = {}
    BY <1>1, <1>3
  <2>2. OneAtATime' /\ HandlerIsCurrent'
    BY <2>1 DEF OneAtATime, HandlerIsCurrent
  <2>3. CheckoutIsStored'
    BY <1>1, <1>4, LatestOK DEF CheckoutIsStored
  <2>4. CentreShows'
    BY <1>1, <1>2 DEF CentreShows
  <2> QED BY <2>2, <2>3, <2>4
<1> QED BY <1>6, <1>7, <1>8, <1>9 DEF IInv

-----------------------------------------------------------------------------
(* The theorems                                                            *)

LEMMA InitOK == Init => IInv
<1> SUFFICES ASSUME Init
             PROVE  IInv
  OBVIOUS
<1>1. /\ co = [order |-> NoOrder, loading |-> FALSE, modal |-> FALSE] /\ page = "away"
      /\ oc = FreshCentre(<<>>) /\ calls = [i \in 1..MaxCalls |-> NoOrder]
  BY DEF Init, Idle, FreshCheckout
<1>2. server \in ServerRows
  BY DEF Init, ServerRows, Statuses
<1>3. oc \in CentreStates /\ ~oc.loading /\ EntriesOK(server, oc.entries)
  BY <1>1, EmptyStoreOK, FreshOK
<1>4. co \in CheckoutStates
  BY <1>1 DEF CheckoutStates
<1>5. calls \in [1..MaxCalls -> Handler \cup {NoOrder}]
  BY <1>1
<1>6. Typed
  BY <1>1, <1>2, <1>3, <1>4, <1>5 DEF Init, Typed
<1>7. StoreOK(server, store)
  <2>1. CASE store = <<>>
    BY <2>1, EmptyStoreOK
  <2>2. ASSUME NEW d \in Drafts, NEW k \in Skus,
               store = <<[sku |-> k, order |-> [no |-> d, sku |-> k, st |-> "awaiting"]]>>
        PROVE  StoreOK(server, store)
    <3>1. PICK o : o = [no |-> d, sku |-> k, st |-> "awaiting"]
      OBVIOUS
    <3>2. o \in Snapshot /\ o.no = d /\ o.sku = k
      BY <3>1 DEF Snapshot, Statuses
    <3>3. PICK e : e = [sku |-> k, order |-> o]
      OBVIOUS
    <3>4. e \in Entry /\ Filed(e) /\ Stands(server, e.order)
      BY <3>2, <3>3, StorefrontAssumption DEF Entry, Filed, Stands
    <3>5. store = <<e>>
      BY <2>2, <3>1, <3>3
    <3>6. store \in Seq(Entry) /\ Len(store) = 1 /\ \A j \in DOMAIN store : j = 1 /\ store[j] = e
      BY <3>4, <3>5
    <3> QED BY <3>4, <3>6, StorefrontAssumption DEF StoreOK
  <2> QED BY <2>1, <2>2 DEF Init
<1>8. CheckoutOK(server, co) /\ CheckoutWaits /\ CentreWaits
  BY <1>1, <1>3 DEF CheckoutOK, CheckoutWaits, CentreWaits
<1>9. HandlersOK(server, calls)
  BY <1>1 DEF HandlersOK
<1>10. Busy = {}
  BY <1>1 DEF Busy
<1>11. Patient
  BY <1>1, <1>10, Kinds
     DEF Patient, OneAtATime, CheckoutIsStored, HandlerIsCurrent, CentreShows, OnCheckout
<1> QED BY <1>3, <1>6, <1>7, <1>8, <1>9, <1>11 DEF IInv

LEMMA StepKeeps ==
    ASSUME IInv, [Next]_vars
    PROVE  IInv' /\ (~hasty => Forward(store, store'))
<1>1. ASSUME store' = store
      PROVE  Forward(store, store')
  BY <1>1, Parts, SameIsForward
<1>2. CASE UNCHANGED vars
  <2>1. UNCHANGED <<remote, server, store, page, co, oc, calls, hasty>>
    BY <1>2 DEF vars
  <2>2. Typed' /\ CheckoutWaits' /\ CentreWaits' /\ Patient'
    BY <2>1, Parts DEF Typed, CheckoutWaits, CentreWaits, Patient, OneAtATime, CheckoutIsStored,
                      HandlerIsCurrent, CentreShows, Busy, OnCheckout
  <2>3. /\ StoreOK(server, store)' /\ CheckoutOK(server, co)'
        /\ EntriesOK(server, oc.entries)' /\ HandlersOK(server, calls)'
    BY <2>1, Parts, Frame
  <2> QED BY <1>1, <2>1, <2>2, <2>3 DEF IInv
<1>3. CASE Answers
  <2>1. PICK i \in DOMAIN calls : Serve(i) \/ Fail(i) \/ Land(i)
    BY <1>3 DEF Answers
  <2>2. CASE Serve(i) \/ Fail(i)
    <3>1. store' = store
      BY <2>2 DEF Serve, Fail
    <3> QED BY <1>1, <2>2, <3>1, ServeKeeps, FailKeeps
  <2>3. CASE Land(i)
    BY <2>3, LandKeeps
  <2> QED BY <2>1, <2>2, <2>3
<1>4. CASE Checkout
  <2>1. CASE CreateOrder \/ \E op \in Operations \ {"create", "lookup"} : ActOnOrder(op)
    <3>1. store' = store
      BY <2>1 DEF CreateOrder, ActOnOrder
    <3> QED BY <1>1, <2>1, <3>1, AskingInCheckout
  <2>2. CASE ActOnDraft
    BY <2>2, DraftKeeps
  <2>3. CASE ToggleDialog
    BY <1>1, <2>3, ToggleKeeps DEF ToggleDialog
  <2> QED BY <1>4, <2>1, <2>2, <2>3 DEF Checkout, Operations
<1>5. CASE Centre
  <2>1. store' = store
    BY <1>5 DEF Centre, SelectOrder, CatalogReloaded, RefreshSelected, LoadSelectedDelivery,
                LookupInCentre, LookupDraftInCentre
  <2> QED BY <1>1, <1>5, <2>1, SelectingKeeps, AskingInCentre DEF Centre
<1>6. CASE OperatorDelivers
  BY <1>1, <1>6, DeliverKeeps DEF OperatorDelivers
<1>7. ASSUME NEW p \in Skus \cup {"orders", "away"}, GoTo(p)
      PROVE  IInv' /\ (~hasty => Forward(store, store'))
  BY <1>1, <1>7, GoToKeeps DEF GoTo
<1> QED BY <1>2, <1>3, <1>4, <1>5, <1>6, <1>7 DEF Next

LEMMA AlwaysIInv == Spec => []IInv
<1>1. IInv /\ [Next]_vars => IInv'
  BY StepKeeps
<1> QED BY <1>1, InitOK, PTL DEF Spec

\* What is stored, shown and under way keeps to its types; the storage keeps to its limit;
\* and a page that waits (loading) has a handler that will end it.
THEOREM StorefrontIsTyped == Spec => []TypeOK
<1>1. IInv => TypeOK
  <2> SUFFICES ASSUME IInv
               PROVE  TypeOK
    OBVIOUS
  <2>1. /\ co.order \in Snapshot \cup {NoOrder}
        /\ oc.sel \in Orders \cup Drafts \cup {NoOrder}
    BY Parts DEF Typed, CheckoutStates, CentreStates, Numbers
  <2>2. store \in Seq(Entry) /\ Len(store) <= Limit
    BY Parts DEF StoreOK
  <2> QED BY <2>1, <2>2, Parts DEF TypeOK, Typed, CheckoutWaits, CentreWaits
<1> QED BY <1>1, AlwaysIInv, PTL

\* persistStoredStorefrontOrder files an order under the product its buyer_ref names,
\* whichever page its answer landed on, and no order is stored twice.
THEOREM OrdersAreFiled == Spec => []FiledUnderItsProduct
<1>1. IInv => FiledUnderItsProduct
  BY Parts DEF FiledUnderItsProduct, StoreOK, Filed
<1> QED BY <1>1, AlwaysIInv, PTL

\* A remote session never shows a draft of the demo mode; and to a buyer who waits for
\* answers the checkout page shows an order of its product, the order centre one of those
\* it lists.
THEOREM PatientBuyerAlwaysSeesItsOwn == Spec => []PatientBuyerSeesItsOwn
<1>1. IInv => PatientBuyerSeesItsOwn
  <2> SUFFICES ASSUME IInv
               PROVE  PatientBuyerSeesItsOwn
    OBVIOUS
  <2>1. ASSUME remote
        PROVE  /\ co.order = NoOrder \/ co.order.no \notin Drafts
               /\ \A k \in DOMAIN oc.entries : oc.entries[k].order.no \notin Drafts
    BY <2>1, Parts DEF CheckoutOK, EntriesOK, Visible
  <2>2. ASSUME ~hasty
        PROVE  /\ (OnCheckout /\ co.order # NoOrder /\ co.order.sku # NoSku) => co.order.sku = page
               /\ (page = "orders" /\ oc.entries # <<>>) => Shown(oc) # NoOrder
    <3>1. (OnCheckout /\ co.order # NoOrder /\ co.order.sku # NoSku) => co.order.sku = page
      BY <2>2, Parts DEF CheckoutIsStored
    <3>2. ASSUME page = "orders", oc.entries # <<>>
          PROVE  Shown(oc) # NoOrder
      <4>1. IsListed(oc.entries, oc.sel)
        BY <2>2, <3>2, Parts DEF CentreShows
      <4>2. oc.entries \in Seq(Entry)
        BY Parts DEF Typed, CentreStates
      <4>3. oc.sel \in Numbers
        BY <4>1, <4>2, Kinds DEF IsListed
      <4> QED BY <4>1, <4>3, Kinds DEF Shown
    <3> QED BY <3>1, <3>2
  <2> QED BY <2>1, <2>2 DEF PatientBuyerSeesItsOwn
<1> QED BY <1>1, AlwaysIInv, PTL

\* For a buyer who waits for answers no handler, of either page, stores an order in an
\* earlier status than the one stored before.
THEOREM StoredOrdersNeverTurnBack == Spec => NeverTurnsBack
<1>1. IInv /\ [Next]_vars =>
          (~hasty => \A k \in DOMAIN store, m \in DOMAIN store' :
               store[k].order.no = store'[m].order.no =>
                   Rank(store[k].order.st) <= Rank(store'[m].order.st))
  BY StepKeeps DEF Forward
<1> QED BY <1>1, AlwaysIInv, PTL DEF Spec, NeverTurnsBack
=============================================================================
