-------------------------- MODULE BuyerDesk_proofs --------------------------
(***************************************************************************)
(* Theorems about BuyerDesk, for any orders, tickets and number of         *)
(* handlers in progress.                                                   *)
(***************************************************************************)
EXTENDS BuyerDesk, FiniteSetTheorems, TLAPS

-----------------------------------------------------------------------------
(* The inductive invariant                                                 *)

AccountStates == [orders : Seq(Orders), tickets : Seq(TicketRows), no : Orders \cup {None},
                  detail : Details \cup {None}, delivery : Orders \cup {None},
                  loading : BOOLEAN, submitting : BOOLEAN]
PanelStates == [no : Orders \cup {None}, tickets : Seq(TicketRows), loading : BOOLEAN,
                submitting : BOOLEAN, source : {"remote", "remote-error"}]

Distinct(tickets) == \A k, m \in DOMAIN tickets : tickets[k].no = tickets[m].no => k = m

Typed ==
    /\ placed \in Seq(Orders)
    /\ filed \in Seq(TicketRows) /\ Distinct(filed)
    /\ page \in {"away", "account", "orders"}
    /\ account \in AccountStates /\ panel \in PanelStates
    /\ calls \in [1..MaxCalls -> Handler \cup {None}]
    /\ told \subseteq ToSet(filed) /\ hasty \in BOOLEAN

\* What the pages show was on the server: the orders known there.
Known ==
    /\ ToSet(account.orders) \subseteq ToSet(placed)
    /\ account.no \in ToSet(placed) \cup {None}
    /\ panel.no \in ToSet(placed) \cup {None}
    /\ Distinct(panel.tickets)

\* An answer is to the call it was given to: about the handler's order, and of orders and tickets
\* that the server has (pl, fl).
AnswerOK(pl, fl, c, ans) ==
    /\ c.op = "load" /\ c.at = 1 => ans \in Lists /\ ToSet(ans.orders) \subseteq pl
    /\ (c.op = "load" /\ c.at = 2) \/ c.op = "select" =>
           ans \in Details /\ ans.no = c.no /\ ans.result \in {None, c.no}
    /\ c.op = "delivery" => ans = c.no
    /\ c.op \in {"ticket", "file"} /\ c.at = 1 => ans \in fl /\ ans.order = c.no
    /\ c.op = "list" \/ (c.op = "file" /\ c.at = 2) =>
           /\ ans \in Seq(TicketRows) /\ Distinct(ans)
           /\ \A t \in ToSet(ans) : t.order = c.no

\* A handler belongs to the page shown and is about an order that the server has.
HandlerOK(pl, fl, pg, c) ==
    /\ \/ pg = "account" /\ c.op \in {"load", "select", "delivery", "ticket"}
       \/ pg = "orders" /\ c.op \in {"list", "file"}
    /\ c.at \in 1..Steps(c.op)
    /\ c.op # "ticket" /\ ~(c.op = "load" /\ c.at = 1) => c.no \in pl
    /\ c.op = "file" /\ c.at = 2 => c.made \in fl /\ c.made.order = c.no
    /\ c.ans \notin {Waiting, Failed} => AnswerOK(pl, fl, c, c.ans)

HandlersOK(pl, fl, pg, cs) == \A i \in DOMAIN cs : cs[i] # None => HandlerOK(pl, fl, pg, cs[i])

\* A form being submitted has a handler that will enable it again.
FormsWait ==
    /\ account.submitting => \E i \in Busy : calls[i].op = "ticket"
    /\ panel.submitting => \E i \in Busy : calls[i].op = "file"

OneAtATime == \A i, j \in Busy : i = j

\* A buyer who waits has one order on the account page, with its detail and its result, and the
\* tickets of one order in the panel.
AccountShows ==
    /\ account.detail # None => account.detail.no = account.no
    /\ account.detail # None /\ account.delivery # None =>
           account.delivery = account.no /\ account.detail.result = account.no
PanelShows == \A t \in ToSet(panel.tickets) : t.order = panel.no

\* The handler of such a buyer is about that order, and its answer has the order.
AnswerShows(c, ans) ==
    c.op = "load" /\ c.at = 1 /\ c.no # None => c.no \in ToSet(ans.orders)
ShowsFor(selected, shown, c) ==
    /\ c.op \in {"load", "delivery"} => c.no = selected
    /\ c.op = "list" => c.live /\ c.no = shown
    /\ c.op = "file" => c.no = shown
    /\ c.ans \notin {Waiting, Failed} => AnswerShows(c, c.ans)
HandlerShows(c) == ShowsFor(account.no, panel.no, c)

Patient == ~hasty => /\ OneAtATime /\ AccountShows /\ PanelShows
                     /\ \A i \in Busy : HandlerShows(calls[i])

IInv ==
    /\ Typed /\ Known
    /\ HandlersOK(ToSet(placed), ToSet(filed), page, calls)
    /\ FormsWait /\ Patient

-----------------------------------------------------------------------------
(* Lists                                                                   *)

\* The place of position i among those kept, as Only counts it.
Place(kept, i) == Cardinality({j \in kept : j <= i})

\* The places are 1, 2, ... in the order of the positions.
LEMMA PlacesCount ==
    ASSUME NEW n \in Nat, NEW kept \in SUBSET (1..n)
    PROVE  /\ IsFiniteSet(kept) /\ Cardinality(kept) \in Nat
           /\ \A i \in kept : Place(kept, i) \in 1..Cardinality(kept)
           /\ \A i, j \in kept : i < j => Place(kept, i) < Place(kept, j)
           /\ \A k \in 1..Cardinality(kept) : \E i \in kept : Place(kept, i) = k
<1>1. IsFiniteSet(kept) /\ Cardinality(kept) \in Nat
  <2>1. IsFiniteSet(1..n)
    BY FS_Interval
  <2> QED BY <2>1, FS_Subset, FS_CardinalityType
<1>2. ASSUME NEW i \in kept
      PROVE  Place(kept, i) \in 1..Cardinality(kept)
  <2> DEFINE upTo == {j \in kept : j <= i}
  <2>1. i \in upTo /\ upTo \subseteq kept
    OBVIOUS
  <2> HIDE DEF upTo
  <2>2. IsFiniteSet(upTo) /\ Cardinality(upTo) <= Cardinality(kept) /\ Cardinality(upTo) \in Nat
    BY <1>1, <2>1, FS_Subset, FS_CardinalityType
  <2>3. Cardinality(upTo) # 0
    BY <2>1, <2>2, FS_EmptySet
  <2>4. Cardinality(upTo) \in 1..Cardinality(kept)
    BY <1>1, <2>2, <2>3
  <2> QED BY <2>4 DEF Place, upTo
<1>3. ASSUME NEW i \in kept, NEW j \in kept, i < j
      PROVE  Place(kept, i) < Place(kept, j)
  <2> DEFINE toI == {h \in kept : h <= i}
             toJ == {h \in kept : h <= j}
  <2>0. \A h \in kept : h \in Nat
    OBVIOUS
  <2>1. toI \subseteq toJ /\ j \in toJ /\ j \notin toI /\ toJ \subseteq kept
    <3>1. \A h \in kept : h <= i => h <= j
      BY <1>3, <2>0
    <3>2. j <= j /\ ~(j <= i)
      BY <1>3, <2>0
    <3> QED BY <3>1, <3>2
  <2>2. Place(kept, i) = Cardinality(toI) /\ Place(kept, j) = Cardinality(toJ)
    BY DEF Place
  <2> HIDE DEF toI, toJ
  <2>3. IsFiniteSet(toJ)
    BY <1>1, <2>1, FS_Subset
  <2>4. IsFiniteSet(toI) /\ Cardinality(toI) <= Cardinality(toJ) /\ Cardinality(toI) # Cardinality(toJ)
    BY <2>1, <2>3, FS_Subset
  <2>5. Cardinality(toI) \in Nat /\ Cardinality(toJ) \in Nat
    BY <2>3, <2>4, FS_CardinalityType
  <2> QED BY <2>2, <2>4, <2>5
<1>4. \A k \in 1..Cardinality(kept) : \E i \in kept : Place(kept, i) = k
  <2> DEFINE place == [i \in kept |-> Place(kept, i)]
             places == 1..Cardinality(kept)
  <2>1. place \in [kept -> places]
    BY <1>2
  <2>2. \A i, j \in kept : place[i] = place[j] => i = j
    <3> SUFFICES ASSUME NEW i \in kept, NEW j \in kept, Place(kept, i) = Place(kept, j)
                 PROVE  i = j
      OBVIOUS
    <3>1. Place(kept, i) \in Nat /\ Place(kept, j) \in Nat
      BY <1>1, <1>2
    <3>2. ~(i < j) /\ ~(j < i)
      BY <1>3, <3>1
    <3> QED BY <3>2
  <2>3. IsFiniteSet(places) /\ Cardinality(places) = Cardinality(kept)
    <3> PICK c \in Nat : c = Cardinality(kept)
      BY <1>1
    <3>1. 1 \in Int /\ c \in Int
      OBVIOUS
    <3>2. IsFiniteSet(1..c) /\ Cardinality(1..c) = IF 1 > c THEN 0 ELSE c - 1 + 1
      BY <3>1, FS_Interval
    <3> QED BY <3>2
  <2>4. DOMAIN place = kept /\ \A i \in kept : place[i] = Place(kept, i)
    OBVIOUS
  <2> HIDE DEF place, places
  <2>5. place \in Injection(kept, places)
    BY <2>1, <2>2, <2>4 DEF Injection, IsInjective
  <2>6. place \in Surjection(kept, places)
    BY <2>3, <2>5, FS_Injection
  <2> QED BY <2>4, <2>6 DEF Surjection, places
<1> QED BY <1>1, <1>2, <1>3, <1>4

\* A filtered list has the elements at the positions kept, in their order.
LEMMA OnlyKeeps ==
    ASSUME NEW S, NEW s \in Seq(S), NEW kept \in SUBSET DOMAIN s
    PROVE  /\ Only(s, kept) \in Seq(S)
           /\ \E from \in [DOMAIN Only(s, kept) -> kept] :
                /\ \A k \in DOMAIN Only(s, kept) : Only(s, kept)[k] = s[from[k]]
                /\ \A k, l \in DOMAIN Only(s, kept) : k < l => from[k] < from[l]
                /\ \A i \in kept : \E k \in DOMAIN Only(s, kept) : from[k] = i
<1> DEFINE places == 1..Cardinality(kept)
           from == [k \in places |-> CHOOSE i \in kept : Place(kept, i) = k]
<1>1. Len(s) \in Nat /\ DOMAIN s = 1..Len(s) /\ \A i \in kept : s[i] \in S
  OBVIOUS
<1>2. /\ Cardinality(kept) \in Nat
      /\ \A i \in kept : Place(kept, i) \in places
      /\ \A i, j \in kept : i < j => Place(kept, i) < Place(kept, j)
      /\ \A k \in places : \E i \in kept : Place(kept, i) = k
  BY <1>1, PlacesCount
<1>3. \A k \in places : from[k] \in kept /\ Place(kept, from[k]) = k
  BY <1>2
<1>4. Only(s, kept) = [k \in places |-> s[from[k]]]
  BY DEF Only, Place
<1> HIDE DEF from
<1>5. Only(s, kept) \in Seq(S) /\ DOMAIN Only(s, kept) = places
  BY <1>1, <1>2, <1>3, <1>4
<1>6. \A k \in places : Only(s, kept)[k] = s[from[k]]
  BY <1>4
<1>7. from \in [places -> kept]
  BY <1>3 DEF from
<1>8. ASSUME NEW k \in places, NEW l \in places, k < l
      PROVE  from[k] < from[l]
  <2>1. from[k] \in kept /\ from[l] \in kept /\ from[k] \in Nat /\ from[l] \in Nat
    BY <1>1, <1>3
  <2>2. ~(from[l] < from[k]) /\ from[k] # from[l]
    BY <1>2, <1>3, <1>8, <2>1
  <2> QED BY <2>1, <2>2
<1>9. ASSUME NEW i \in kept
      PROVE  \E k \in places : from[k] = i
  <2>1. PICK k \in places : k = Place(kept, i)
    BY <1>2
  <2>2. from[k] \in kept /\ Place(kept, from[k]) = Place(kept, i)
    BY <1>3, <2>1
  <2>3. ~(from[k] < i) /\ ~(i < from[k])
    BY <1>2, <2>1, <2>2
  <2>4. from[k] \in Nat /\ i \in Nat
    BY <1>1, <2>2
  <2> QED BY <2>3, <2>4
<1> HIDE DEF places
<1> QED BY <1>5, <1>6, <1>7, <1>8, <1>9

\* A list with one more element in front.
LEMMA InFront ==
    ASSUME NEW S, NEW s \in Seq(S), NEW x \in S
    PROVE  /\ <<x>> \o s \in Seq(S)
           /\ ToSet(<<x>> \o s) = ToSet(s) \cup {x}
<1>1. PICK t : t = <<x>> \o s
  OBVIOUS
<1>2. /\ t \in Seq(S) /\ Len(t) = Len(s) + 1 /\ t[1] = x
      /\ \A k \in 2..Len(t) : t[k] = s[k - 1] /\ k - 1 \in 1..Len(s)
      /\ \A k \in 1..Len(s) : s[k] = t[k + 1] /\ k + 1 \in 2..Len(t)
      /\ DOMAIN t = 1..Len(t) /\ DOMAIN s = 1..Len(s) /\ Len(s) \in Nat
  BY <1>1
<1>3. ASSUME NEW e \in ToSet(t)
      PROVE  e \in ToSet(s) \cup {x}
  <2>1. PICK k \in 1..Len(t) : e = t[k]
    BY <1>2 DEF ToSet
  <2>2. CASE k = 1
    BY <1>2, <2>1, <2>2
  <2>3. CASE k # 1
    <3>1. k \in 2..Len(t)
      BY <1>2, <2>3
    <3> QED BY <1>2, <2>1, <3>1 DEF ToSet
  <2> QED BY <2>2, <2>3
<1>4. ASSUME NEW e \in ToSet(s)
      PROVE  e \in ToSet(t)
  <2>1. PICK k \in 1..Len(s) : e = s[k]
    BY <1>2 DEF ToSet
  <2>2. k + 1 \in DOMAIN t
    BY <1>2
  <2> QED BY <1>2, <2>1, <2>2 DEF ToSet
<1>5. x \in ToSet(t)
  <2>1. 1 \in DOMAIN t
    BY <1>2
  <2> QED BY <1>2, <2>1 DEF ToSet
<1> QED BY <1>1, <1>2, <1>3, <1>4, <1>5

\* A ticket with a number of its own, in front of tickets with numbers of their own.
LEMMA NewInFront ==
    ASSUME NEW s \in Seq(TicketRows), Distinct(s), NEW x \in TicketRows,
           \A k \in DOMAIN s : s[k].no # x.no
    PROVE  Distinct(<<x>> \o s)
<1>1. PICK t : t = <<x>> \o s
  OBVIOUS
<1>2. /\ Len(t) = Len(s) + 1 /\ t[1] = x /\ DOMAIN t = 1..Len(t) /\ DOMAIN s = 1..Len(s)
      /\ \A k \in 2..Len(t) : t[k] = s[k - 1] /\ k - 1 \in 1..Len(s)
      /\ Len(s) \in Nat
  BY <1>1
<1>3. ASSUME NEW k \in DOMAIN t, NEW m \in DOMAIN t, t[k].no = t[m].no
      PROVE  k = m
  <2>1. CASE k # 1 /\ m # 1
    <3>1. k \in 2..Len(t) /\ m \in 2..Len(t)
      BY <1>2, <2>1
    <3>2. k - 1 \in DOMAIN s /\ m - 1 \in DOMAIN s /\ s[k - 1].no = s[m - 1].no
      BY <1>2, <1>3, <3>1
    <3>3. k - 1 = m - 1
      BY <3>2 DEF Distinct
    <3> QED BY <1>2, <3>1, <3>3
  <2>2. CASE k = 1 /\ m # 1
    <3>1. m \in 2..Len(t)
      BY <1>2, <2>2
    <3> QED BY <1>2, <1>3, <2>2, <3>1
  <2>3. CASE k # 1 /\ m = 1
    <3>1. k \in 2..Len(t)
      BY <1>2, <2>3
    <3> QED BY <1>2, <1>3, <2>3, <3>1
  <2> QED BY <2>1, <2>2, <2>3
<1> QED BY <1>1, <1>3 DEF Distinct

\* The tickets of an order, as the server lists them.
LEMMA FiledOnIsListed ==
    ASSUME filed \in Seq(TicketRows), Distinct(filed), NEW o
    PROVE  /\ FiledOn(o) \in Seq(TicketRows) /\ Distinct(FiledOn(o))
           /\ \A t \in ToSet(FiledOn(o)) : t.order = o
           /\ \A t \in ToSet(filed) : t.order = o => t \in ToSet(FiledOn(o))
<1> DEFINE kept == {k \in DOMAIN filed : filed[k].order = o}
<1>1. FiledOn(o) = Only(filed, kept) /\ kept \in SUBSET DOMAIN filed
  BY DEF FiledOn
<1>2. /\ \A k \in kept : k \in DOMAIN filed /\ filed[k].order = o
      /\ \A k \in DOMAIN filed : filed[k].order = o => k \in kept
  OBVIOUS
<1> HIDE DEF kept
<1> DEFINE some == Only(filed, kept)
<1>3. /\ some \in Seq(TicketRows)
      /\ \E from \in [DOMAIN some -> kept] :
           /\ \A k \in DOMAIN some : some[k] = filed[from[k]]
           /\ \A k, l \in DOMAIN some : k < l => from[k] < from[l]
           /\ \A i \in kept : \E k \in DOMAIN some : from[k] = i
  BY <1>1, OnlyKeeps
<1>4. PICK from \in [DOMAIN some -> kept] :
         /\ \A k \in DOMAIN some : some[k] = filed[from[k]]
         /\ \A k, l \in DOMAIN some : k < l => from[k] < from[l]
         /\ \A i \in kept : \E k \in DOMAIN some : from[k] = i
  BY <1>3
<1> HIDE DEF some
<1>5. \A k \in DOMAIN some : from[k] \in kept /\ from[k] \in Nat
  BY <1>1, <1>4
<1>6. ASSUME NEW k \in DOMAIN some, NEW m \in DOMAIN some, some[k].no = some[m].no
      PROVE  k = m
  <2>1. from[k] = from[m]
    BY <1>2, <1>4, <1>5, <1>6 DEF Distinct
  <2>2. ~(k < m) /\ ~(m < k)
    BY <1>4, <1>5, <2>1
  <2> QED BY <1>3, <2>2
<1>7. ASSUME NEW t \in ToSet(some)
      PROVE  t.order = o
  BY <1>2, <1>4, <1>5 DEF ToSet
<1>8. ASSUME NEW t \in ToSet(filed), t.order = o
      PROVE  t \in ToSet(some)
  <2>1. PICK i \in DOMAIN filed : t = filed[i]
    BY DEF ToSet
  <2>2. PICK k \in DOMAIN some : from[k] = i
    BY <1>2, <1>4, <1>8, <2>1
  <2> QED BY <1>4, <2>1, <2>2 DEF ToSet
<1> QED BY <1>1, <1>3, <1>6, <1>7, <1>8 DEF Distinct, some

-----------------------------------------------------------------------------
(* Handlers                                                                *)

LEMMA StepsAre ==
    /\ Steps("load") = 2 /\ Steps("select") = 1 /\ Steps("delivery") = 1
    /\ Steps("ticket") = 1 /\ Steps("list") = 1 /\ Steps("file") = 2
BY DEF Steps, Script

\* A handler that starts.
LEMMA CallStarts ==
    ASSUME NEW op \in {"load", "select", "delivery", "ticket", "list", "file"},
           NEW o \in Orders \cup {None}, NEW c, c = Call(op, o)
    PROVE  /\ c \in Handler /\ c # None
           /\ c.op = op /\ c.no = o /\ c.at = 1 /\ c.ans = Waiting /\ c.live
<1>1. Waiting \in Replies
  BY DEF Replies
<1>2. /\ c = [op |-> op, no |-> o, at |-> 1, ans |-> Waiting, made |-> None, live |-> TRUE]
      /\ 1 \in 1..2
  BY DEF Call
<1>3. c \in Handler
  BY <1>1, <1>2 DEF Handler
<1>4. c.op = op /\ c.no = o /\ c.at = 1 /\ c.ans = Waiting /\ c.live
  BY <1>2
<1> QED BY <1>3, <1>4, DeskAssumption

\* What the handler was about stays on the server.
LEMMA HandlerStays ==
    ASSUME NEW pl, NEW fl, NEW pg, NEW more \in SUBSET Orders, pl \subseteq more,
           NEW then, fl \subseteq then,
           NEW c \in Handler, HandlerOK(pl, fl, pg, c)
    PROVE  HandlerOK(more, then, pg, c)
<1>1. AnswerOK(pl, fl, c, c.ans) => AnswerOK(more, then, c, c.ans)
  BY DEF AnswerOK
<1> QED BY <1>1 DEF HandlerOK

\* A call is put in the first free slot.
Takes(cs, ds, c, i) ==
    cs[i] = None /\ ds[i] = c /\ \A j \in 1..MaxCalls \ {i} : ds[j] = cs[j]

LEMMA AskTakesSlot ==
    ASSUME NEW cs \in [1..MaxCalls -> Handler \cup {None}], NEW c \in Handler,
           NEW ds \in Ask(cs, c)
    PROVE  /\ ds \in [1..MaxCalls -> Handler \cup {None}]
           /\ \E i \in 1..MaxCalls : Takes(cs, ds, c, i)
<1>1. PICK i \in DOMAIN cs : cs[i] = None /\ ds = [cs EXCEPT ![i] = c]
  BY DEF Ask
<1> QED BY <1>1 DEF Takes
-----------------------------------------------------------------------------
(* Steps of the pages and of the server                                    *)

\* A handler starts: the page raises a flag, and shows what it showed.
LEMMA HandlerStarts ==
    ASSUME IInv, NEW c \in Handler, c # None, c.ans = Waiting,
           HandlerOK(ToSet(placed), ToSet(filed), page, c),
           ~hasty => HandlerShows(c),
           calls' \in Ask(calls, c), Acting,
           account' \in AccountStates, panel' \in PanelStates,
           account'.orders = account.orders, account'.tickets = account.tickets,
           account'.no = account.no, account'.detail = account.detail,
           account'.delivery = account.delivery,
           panel'.no = panel.no, panel'.tickets = panel.tickets,
           account'.submitting => account.submitting \/ c.op = "ticket",
           panel'.submitting => panel.submitting \/ c.op = "file",
           UNCHANGED <<placed, filed, page, told>>
    PROVE  IInv'
<1>1. /\ Typed /\ Known /\ HandlersOK(ToSet(placed), ToSet(filed), page, calls)
      /\ FormsWait /\ Patient
  BY DEF IInv
<1>2. calls \in [1..MaxCalls -> Handler \cup {None}]
  BY <1>1 DEF Typed
<1>3. calls' \in [1..MaxCalls -> Handler \cup {None}]
  BY <1>2, AskTakesSlot
<1>4. PICK i \in 1..MaxCalls : /\ calls[i] = None /\ calls'[i] = c
                               /\ \A j \in 1..MaxCalls \ {i} : calls'[j] = calls[j]
  <2>1. \E i \in 1..MaxCalls : Takes(calls, calls', c, i)
    BY <1>2, AskTakesSlot
  <2> QED BY <2>1 DEF Takes
<1>5. DOMAIN calls = 1..MaxCalls /\ DOMAIN calls' = 1..MaxCalls
  BY <1>2, <1>3
<1>6. Busy' = Busy \cup {i} /\ i \notin Busy
  BY <1>4, <1>5 DEF Busy
<1>7. hasty' \in BOOLEAN /\ (~hasty' => ~hasty /\ Busy = {})
  BY <1>1 DEF Acting, Typed
<1>8. Typed'
  BY <1>1, <1>3, <1>7 DEF Typed
<1>9. Known'
  BY <1>1 DEF Known
<1>10. HandlersOK(ToSet(placed), ToSet(filed), page, calls)'
  <2>1. HandlersOK(ToSet(placed), ToSet(filed), page, calls')
    BY <1>1, <1>4, <1>5 DEF HandlersOK
  <2> QED BY <2>1
<1>11. FormsWait'
  <2>1. \A j \in Busy : j \in Busy' /\ calls'[j] = calls[j]
    BY <1>4, <1>5, <1>6 DEF Busy
  <2>2. i \in Busy' /\ calls'[i] = c
    BY <1>4, <1>6
  <2> QED BY <1>1, <2>1, <2>2 DEF FormsWait
<1>12. Patient'
  <2>1. SUFFICES ASSUME ~hasty'
                 PROVE  OneAtATime' /\ AccountShows' /\ PanelShows' /\ (\A j \in Busy : HandlerShows(calls[j]))'
    BY DEF Patient
  <2>2. Busy' = {i} /\ OneAtATime /\ AccountShows /\ PanelShows /\ HandlerShows(c)
    BY <1>1, <1>6, <1>7, <2>1 DEF Patient
  <2>3. OneAtATime' /\ AccountShows' /\ PanelShows'
    BY <2>2 DEF OneAtATime, AccountShows, PanelShows
  <2>4. HandlerShows(c)'
    BY <2>2 DEF HandlerShows, ShowsFor, AnswerShows
  <2>5. calls'[i] = c
    BY <1>4
  <2> QED BY <2>2, <2>3, <2>4, <2>5
<1> QED BY <1>8, <1>9, <1>10, <1>11, <1>12 DEF IInv

\* A handler is answered, and the server may have a new ticket.
LEMMA HandlerHears ==
    ASSUME IInv, NEW i \in 1..MaxCalls, calls[i] # None,
           NEW d \in Handler, d # None,
           d.op = calls[i].op, 
           HandlerOK(ToSet(placed), ToSet(filed'), page, d),
           ~hasty => HandlerShows(d),
           calls' = [calls EXCEPT ![i] = d],
           filed' \in Seq(TicketRows), Distinct(filed'), ToSet(filed) \subseteq ToSet(filed'),
           UNCHANGED <<placed, page, account, panel, told, hasty>>
    PROVE  IInv'
<1>1. /\ Typed /\ Known /\ HandlersOK(ToSet(placed), ToSet(filed), page, calls)
      /\ FormsWait /\ Patient
  BY DEF IInv
<1>2. calls \in [1..MaxCalls -> Handler \cup {None}]
  BY <1>1 DEF Typed
<1>3. /\ calls' \in [1..MaxCalls -> Handler \cup {None}] /\ calls'[i] = d
      /\ \A j \in 1..MaxCalls \ {i} : calls'[j] = calls[j]
      /\ DOMAIN calls = 1..MaxCalls /\ DOMAIN calls' = 1..MaxCalls
  BY <1>2
<1>4. Busy' = Busy /\ i \in Busy
  BY <1>3 DEF Busy
<1>5. Typed'
  BY <1>1, <1>3 DEF Typed
<1>6. Known'
  BY <1>1 DEF Known
<1>7. HandlersOK(ToSet(placed), ToSet(filed), page, calls)'
  <2>1. ToSet(placed) \in SUBSET Orders
    BY <1>1 DEF Typed, ToSet
  <2>2. ASSUME NEW j \in 1..MaxCalls, j # i, calls[j] # None
        PROVE  HandlerOK(ToSet(placed), ToSet(filed'), page, calls[j])
    <3>1. calls[j] \in Handler /\ HandlerOK(ToSet(placed), ToSet(filed), page, calls[j])
      BY <1>1, <1>2, <1>3, <2>2 DEF HandlersOK
    <3> QED BY <2>1, <3>1, HandlerStays
  <2>3. HandlersOK(ToSet(placed), ToSet(filed'), page, calls')
    BY <1>3, <2>2 DEF HandlersOK
  <2> QED BY <2>3
<1>8. FormsWait'
  <2>1. \A j \in Busy : j \in Busy' /\ calls'[j].op = calls[j].op
    BY <1>3, <1>4 DEF Busy
  <2> QED BY <1>1, <2>1 DEF FormsWait
<1>9. Patient'
  <2>1. SUFFICES ASSUME ~hasty'
                 PROVE  OneAtATime' /\ AccountShows' /\ PanelShows' /\ (\A j \in Busy : HandlerShows(calls[j]))'
    BY DEF Patient
  <2>2. OneAtATime /\ AccountShows /\ PanelShows /\ HandlerShows(d)
    BY <1>1, <2>1 DEF Patient
  <2>3. OneAtATime' /\ AccountShows' /\ PanelShows'
    BY <1>4, <2>2 DEF OneAtATime, AccountShows, PanelShows
  <2>4. HandlerShows(d)'
    BY <2>2 DEF HandlerShows, ShowsFor, AnswerShows
  <2>5. \A j \in Busy' : j = i
    BY <1>4, <2>2 DEF OneAtATime
  <2> QED BY <1>3, <2>3, <2>4, <2>5
<1> QED BY <1>5, <1>6, <1>7, <1>8, <1>9 DEF IInv

\* The server has new orders, results or tickets, and no page changes.
LEMMA ServerGrows ==
    ASSUME IInv, placed' \in Seq(Orders), ToSet(placed) \subseteq ToSet(placed'),
           filed' \in Seq(TicketRows), Distinct(filed'), ToSet(filed) \subseteq ToSet(filed'),
           UNCHANGED <<page, account, panel, calls, told, hasty>>
    PROVE  IInv'
<1>1. /\ Typed /\ Known /\ HandlersOK(ToSet(placed), ToSet(filed), page, calls)
      /\ FormsWait /\ Patient
  BY DEF IInv
<1>2. Typed'
  BY <1>1 DEF Typed
<1>3. Known'
  BY <1>1 DEF Known
<1>4. HandlersOK(ToSet(placed), ToSet(filed), page, calls)'
  <2>1. ToSet(placed') \in SUBSET Orders
    BY DEF ToSet
  <2>2. ASSUME NEW j \in DOMAIN calls, calls[j] # None
        PROVE  HandlerOK(ToSet(placed'), ToSet(filed'), page, calls[j])
    <3>1. calls[j] \in Handler /\ HandlerOK(ToSet(placed), ToSet(filed), page, calls[j])
      BY <1>1, <2>2 DEF HandlersOK, Typed
    <3> QED BY <2>1, <3>1, HandlerStays
  <2>3. HandlersOK(ToSet(placed'), ToSet(filed'), page, calls)
    BY <2>2 DEF HandlersOK
  <2> QED BY <2>3
<1>5. Busy' = Busy
  BY DEF Busy
<1>6. FormsWait'
  BY <1>1, <1>5 DEF FormsWait
<1>7. Patient'
  BY <1>1, <1>5 DEF Patient, OneAtATime, AccountShows, PanelShows, HandlerShows, ShowsFor, AnswerShows
<1> QED BY <1>2, <1>3, <1>4, <1>6, <1>7 DEF IInv
With(c, ans) == [c EXCEPT !.ans = ans]

\* The handler c, at the same place with another answer.
Same(c, d) ==
    d.op = c.op /\ d.no = c.no /\ d.at = c.at /\ d.made = c.made /\ d.live = c.live

LEMMA WithAnswer ==
    ASSUME NEW c \in Handler, NEW a \in Replies, NEW d, d = With(c, a)
    PROVE  d \in Handler /\ d # None /\ Same(c, d) /\ d.ans = a
<1>1. d \in Handler /\ Same(c, d) /\ d.ans = a
  BY DEF Handler, With, Same
<1> QED BY <1>1, DeskAssumption

\* An answer that comes in, or is lost.
LEMMA HandlerAnswered ==
    ASSUME NEW pl, NEW fl, NEW pg, NEW then, fl \subseteq then,
           NEW c \in Handler, HandlerOK(pl, fl, pg, c),
           NEW d \in Handler, Same(c, d),
           d.ans \notin {Waiting, Failed} => AnswerOK(pl, then, c, d.ans)
    PROVE  HandlerOK(pl, then, pg, d)
<1>1. AnswerOK(pl, then, c, d.ans) => AnswerOK(pl, then, d, d.ans)
  BY DEF AnswerOK, Same
<1> QED BY <1>1 DEF HandlerOK, Same

\* What the calls of the handlers are.
LEMMA ScriptsAre ==
    ASSUME NEW c \in Handler, c.at \in 1..Steps(c.op), NEW what, what = Script(c.op)[c.at]
    PROVE  /\ what = "lists" => c.op = "load" /\ c.at = 1
           /\ what = "detail" => (c.op = "load" /\ c.at = 2) \/ c.op = "select"
           /\ what = "delivery" => c.op = "delivery"
           /\ what = "tickets" => c.op = "list" \/ (c.op = "file" /\ c.at = 2)
           /\ what = "create" => c.op \in {"ticket", "file"} /\ c.at = 1
<1>1. c.op \in {"load", "select", "delivery", "ticket", "list", "file"}
  BY DEF Handler
<1>2. CASE c.op = "load"
  <2>1. c.at \in {1, 2} /\ Script(c.op) = <<"lists", "detail">>
    BY <1>2, StepsAre DEF Script
  <2> QED BY <1>2, <2>1
<1>3. CASE c.op = "select"
  <2>1. c.at = 1 /\ Script(c.op) = <<"detail">>
    BY <1>3, StepsAre DEF Script
  <2> QED BY <1>3, <2>1
<1>4. CASE c.op = "delivery"
  <2>1. c.at = 1 /\ Script(c.op) = <<"delivery">>
    BY <1>4, StepsAre DEF Script
  <2> QED BY <1>4, <2>1
<1>5. CASE c.op = "ticket"
  <2>1. c.at = 1 /\ Script(c.op) = <<"create", "tickets">>
    BY <1>5, StepsAre DEF Script
  <2> QED BY <1>5, <2>1
<1>6. CASE c.op = "list"
  <2>1. c.at = 1 /\ Script(c.op) = <<"tickets">>
    BY <1>6, StepsAre DEF Script
  <2> QED BY <1>6, <2>1
<1>7. CASE c.op = "file"
  <2>1. c.at \in {1, 2} /\ Script(c.op) = <<"create", "tickets">>
    BY <1>7, StepsAre DEF Script
  <2> QED BY <1>7, <2>1
<1> QED BY <1>1, <1>2, <1>3, <1>4, <1>5, <1>6, <1>7

\* An answer fits its handler.
LEMMA AnswerArrives ==
    ASSUME IInv, NEW i \in 1..MaxCalls, calls[i] # None, NEW a \in Replies,
           a \notin {Waiting, Failed} =>
               /\ AnswerOK(ToSet(placed), ToSet(filed'), calls[i], a)
               /\ ~hasty => AnswerShows(calls[i], a),
           calls' = [calls EXCEPT ![i].ans = a],
           filed' \in Seq(TicketRows), Distinct(filed'), ToSet(filed) \subseteq ToSet(filed'),
           UNCHANGED <<placed, page, account, panel, told, hasty>>
    PROVE  IInv'
<1>1. /\ Typed /\ HandlersOK(ToSet(placed), ToSet(filed), page, calls) /\ Patient
  BY DEF IInv
<1>2. /\ calls \in [1..MaxCalls -> Handler \cup {None}] /\ calls[i] \in Handler
      /\ ToSet(placed) \in SUBSET Orders
  BY <1>1 DEF Typed, ToSet
<1>3. HandlerOK(ToSet(placed), ToSet(filed), page, calls[i])
  BY <1>1, <1>2 DEF HandlersOK
<1>4. PICK d : d = With(calls[i], a)
  OBVIOUS
<1>5. d \in Handler /\ d # None /\ Same(calls[i], d) /\ d.ans = a
  BY <1>2, <1>4, WithAnswer
<1>6. HandlerOK(ToSet(placed), ToSet(filed'), page, d)
  <2>1. d.ans \notin {Waiting, Failed} => AnswerOK(ToSet(placed), ToSet(filed'), calls[i], d.ans)
    BY <1>5
  <2> QED BY <1>2, <1>3, <1>5, <2>1, HandlerAnswered
<1>7. calls' = [calls EXCEPT ![i] = d]
  BY <1>4 DEF With
<1>8. ASSUME ~hasty
      PROVE  HandlerShows(d)
  <2>1. HandlerShows(calls[i])
    BY <1>1, <1>2, <1>8 DEF Patient, Busy
  <2>2. a \notin {Waiting, Failed} => AnswerShows(d, a)
    BY <1>5, <1>8 DEF AnswerShows, Same
  <2> QED BY <1>5, <2>1, <2>2 DEF HandlerShows, ShowsFor, Same
<1>9. d.op = calls[i].op
  BY <1>5 DEF Same
<1> QED BY <1>5, <1>6, <1>7, <1>8, <1>9, HandlerHears

\* A ticket is filed under a number not yet given.
LEMMA TicketFiled ==
    ASSUME filed \in Seq(TicketRows), Distinct(filed), NEW t \in NewTickets,
           NEW o \in Orders \cup {None}, filed' = <<Ticket(t, o)>> \o filed
    PROVE  /\ filed' \in Seq(TicketRows) /\ Distinct(filed')
           /\ ToSet(filed) \subseteq ToSet(filed')
           /\ Ticket(t, o) \in TicketRows /\ Ticket(t, o).order = o
           /\ Ticket(t, o) \in ToSet(filed')
<1>1. PICK x : x = Ticket(t, o)
  OBVIOUS
<1>2. x \in TicketRows /\ x.no = t /\ x.order = o
  BY <1>1 DEF Ticket, TicketRows, NewTickets
<1>3. \A k \in DOMAIN filed : filed[k].no # x.no
  BY <1>2 DEF NewTickets
<1>4. filed' = <<x>> \o filed
  BY <1>1
<1>5. filed' \in Seq(TicketRows) /\ ToSet(filed') = ToSet(filed) \cup {x}
  BY <1>2, <1>4, InFront
<1>6. Distinct(filed')
  BY <1>2, <1>3, <1>4, NewInFront
<1> QED BY <1>1, <1>2, <1>5, <1>6

\* Every answer of the server keeps the invariant, and so does every answer lost.
LEMMA ServeKeeps ==
    ASSUME IInv, NEW i \in DOMAIN calls, Serve(i)
    PROVE  IInv'
<1>1. /\ Typed /\ Known /\ HandlersOK(ToSet(placed), ToSet(filed), page, calls) /\ Patient
  BY DEF IInv
<1>2. /\ i \in 1..MaxCalls /\ calls[i] # None
      /\ UNCHANGED <<placed, page, account, panel, told, hasty>>
  BY <1>1 DEF Serve, Typed
<1>3. PICK c : c = calls[i]
  OBVIOUS
<1>4. c \in Handler /\ HandlerOK(ToSet(placed), ToSet(filed), page, c) /\ ToSet(placed) \subseteq Orders
  BY <1>1, <1>2, <1>3 DEF Typed, HandlersOK, ToSet
<1>5. c.at \in 1..Steps(c.op)
  BY <1>4 DEF HandlerOK
<1>6. ~hasty => HandlerShows(c) /\ AccountShows /\ PanelShows
  BY <1>1, <1>2, <1>3 DEF Patient, Busy
<1>7. filed \in Seq(TicketRows) /\ Distinct(filed) /\ told \subseteq ToSet(filed) /\ placed \in Seq(Orders)
  BY <1>1 DEF Typed
<1> DEFINE Hears(ans) == calls' = [calls EXCEPT ![i].ans = ans]
           what == Script(c.op)[c.at]
<1>8. /\ what = "lists" => c.op = "load" /\ c.at = 1
      /\ what = "detail" => (c.op = "load" /\ c.at = 2) \/ c.op = "select"
      /\ what = "delivery" => c.op = "delivery"
      /\ what = "tickets" => c.op = "list" \/ (c.op = "file" /\ c.at = 2)
      /\ what = "create" => c.op \in {"ticket", "file"} /\ c.at = 1
  BY <1>4, <1>5, ScriptsAre
<1>9. \/ what = "lists" /\ (Hears([orders |-> placed, tickets |-> filed]) \/ Hears(Failed)) /\ UNCHANGED filed
      \/ what = "detail" /\ (Hears(Detail(c.no)) \/ Hears(Failed)) /\ UNCHANGED filed
      \/ what = "delivery" /\ (Hears(c.no) \/ Hears(Failed)) /\ UNCHANGED filed
      \/ what = "tickets" /\ (Hears(FiledOn(c.no)) \/ Hears(Failed)) /\ UNCHANGED filed
      \/ /\ what = "create"
         /\ \E t \in NewTickets : /\ filed' = <<Ticket(t, c.no)>> \o filed
                                  /\ Hears(Ticket(t, c.no)) \/ Hears(Failed)
  BY <1>3 DEF Serve
<1>10. ASSUME NEW a \in Replies, Hears(a),
              filed' \in Seq(TicketRows), Distinct(filed'), ToSet(filed) \subseteq ToSet(filed'),
              a \notin {Waiting, Failed} =>
                  /\ AnswerOK(ToSet(placed), ToSet(filed'), c, a)
                  /\ ~hasty => AnswerShows(c, a)
       PROVE  IInv'
  BY <1>2, <1>3, <1>10, AnswerArrives
<1>11. Failed \in Replies
  BY DEF Replies
<1> HIDE DEF what
<1>12. CASE what = "lists" /\ (Hears([orders |-> placed, tickets |-> filed]) \/ Hears(Failed)) /\ UNCHANGED filed
  <2>1. PICK a : a = [orders |-> placed, tickets |-> filed]
    OBVIOUS
  <2>2. a \in Lists /\ a.orders = placed /\ a.tickets = filed
    BY <1>7, <2>1 DEF Lists
  <2>3. a \in Replies
    BY <2>2 DEF Replies
  <2>4. c.op = "load" /\ c.at = 1
    BY <1>8, <1>12
  <2>5. AnswerOK(ToSet(placed), ToSet(filed'), c, a)
    BY <2>2, <2>4 DEF AnswerOK
  <2>6. ASSUME ~hasty
        PROVE  AnswerShows(c, a)
    <3>1. c.no = account.no /\ account.no \in ToSet(placed) \cup {None}
      BY <1>1, <1>6, <2>4, <2>6 DEF Known, HandlerShows, ShowsFor
    <3> QED BY <2>2, <2>4, <3>1 DEF AnswerShows
  <2>7. (Hears(a) \/ Hears(Failed)) /\ UNCHANGED filed
    BY <1>12, <2>1
  <2> QED BY <1>7, <1>10, <1>11, <2>3, <2>5, <2>6, <2>7
<1>13. CASE what = "detail" /\ (Hears(Detail(c.no)) \/ Hears(Failed)) /\ UNCHANGED filed
  <2>1. PICK a : a = Detail(c.no)
    OBVIOUS
  <2>2. (c.op = "load" /\ c.at = 2) \/ c.op = "select"
    BY <1>8, <1>13
  <2>3. c.no \in Orders
    BY <1>4, <2>2 DEF HandlerOK
  <2>4. a \in Details /\ a.no = c.no /\ a.result \in {None, c.no}
    BY <2>1, <2>3 DEF Details, Detail
  <2>5. a \in Replies
    BY <2>4 DEF Replies
  <2>6. AnswerOK(ToSet(placed), ToSet(filed'), c, a)
    BY <2>2, <2>4 DEF AnswerOK
  <2>7. AnswerShows(c, a)
    BY <2>2 DEF AnswerShows
  <2>8. (Hears(a) \/ Hears(Failed)) /\ UNCHANGED filed
    BY <1>13, <2>1
  <2> QED BY <1>7, <1>10, <1>11, <2>5, <2>6, <2>7, <2>8
<1>14. CASE what = "delivery" /\ (Hears(c.no) \/ Hears(Failed)) /\ UNCHANGED filed
  <2>1. c.op = "delivery"
    BY <1>8, <1>14
  <2>2. c.no \in Orders
    BY <1>4, <2>1 DEF HandlerOK
  <2>3. c.no \in Replies
    BY <2>2 DEF Replies
  <2>4. AnswerOK(ToSet(placed), ToSet(filed'), c, c.no)
    BY <2>1 DEF AnswerOK
  <2>5. AnswerShows(c, c.no)
    BY <2>1 DEF AnswerShows
  <2> QED BY <1>7, <1>10, <1>11, <1>14, <2>3, <2>4, <2>5
<1>15. CASE what = "tickets" /\ (Hears(FiledOn(c.no)) \/ Hears(Failed)) /\ UNCHANGED filed
  <2>1. PICK a : a = FiledOn(c.no)
    OBVIOUS
  <2>2. c.op = "list" \/ (c.op = "file" /\ c.at = 2)
    BY <1>8, <1>15
  <2>3. /\ a \in Seq(TicketRows) /\ Distinct(a)
        /\ \A t \in ToSet(a) : t.order = c.no
        /\ \A t \in ToSet(filed) : t.order = c.no => t \in ToSet(a)
    BY <1>7, <2>1, FiledOnIsListed
  <2>4. a \in Replies
    BY <2>3 DEF Replies
  <2>5. AnswerOK(ToSet(placed), ToSet(filed'), c, a)
    BY <2>2, <2>3 DEF AnswerOK
  <2>6. AnswerShows(c, a)
    BY <2>2 DEF AnswerShows
  <2>7. (Hears(a) \/ Hears(Failed)) /\ UNCHANGED filed
    BY <1>15, <2>1
  <2> QED BY <1>7, <1>10, <1>11, <2>4, <2>5, <2>6, <2>7
<1>16. CASE /\ what = "create"
            /\ \E t \in NewTickets : /\ filed' = <<Ticket(t, c.no)>> \o filed
                                     /\ Hears(Ticket(t, c.no)) \/ Hears(Failed)
  <2>1. c.op \in {"ticket", "file"} /\ c.at = 1
    BY <1>8, <1>16
  <2>2. PICK t \in NewTickets : /\ filed' = <<Ticket(t, c.no)>> \o filed
                                /\ Hears(Ticket(t, c.no)) \/ Hears(Failed)
    BY <1>16
  <2>3. c.no \in Orders \cup {None}
    BY <1>4 DEF Handler
  <2>4. /\ filed' \in Seq(TicketRows) /\ Distinct(filed') /\ ToSet(filed) \subseteq ToSet(filed')
        /\ Ticket(t, c.no) \in TicketRows /\ Ticket(t, c.no).order = c.no
        /\ Ticket(t, c.no) \in ToSet(filed')
    BY <1>7, <2>2, <2>3, TicketFiled
  <2>5. Ticket(t, c.no) \in Replies
    BY <2>4 DEF Replies
  <2>6. AnswerOK(ToSet(placed), ToSet(filed'), c, Ticket(t, c.no))
    BY <2>1, <2>4 DEF AnswerOK
  <2>7. AnswerShows(c, Ticket(t, c.no))
    BY <2>1 DEF AnswerShows
  <2> QED BY <1>10, <1>11, <2>2, <2>4, <2>5, <2>6, <2>7
<1> HIDE DEF Hears
<1> QED BY <1>9, <1>12, <1>13, <1>14, <1>15, <1>16

LEMMA FailKeeps ==
    ASSUME IInv, NEW i \in DOMAIN calls, Fail(i)
    PROVE  IInv'
<1>1. Typed
  BY DEF IInv
<1>2. Failed \in Replies /\ i \in 1..MaxCalls /\ calls[i] # None
  BY <1>1 DEF Typed, Replies, Fail
<1>3. filed' \in Seq(TicketRows) /\ Distinct(filed') /\ ToSet(filed) \subseteq ToSet(filed')
  BY <1>1 DEF Typed, Fail
<1> QED BY <1>2, <1>3, AnswerArrives DEF Fail

\* What happens elsewhere.
LEMMA ServerMovesKeeps ==
    ASSUME IInv, ServerMoves
    PROVE  IInv'
<1>1. /\ placed \in Seq(Orders) /\ filed \in Seq(TicketRows) /\ Distinct(filed)
      /\ UNCHANGED <<page, account, panel, calls, told, hasty>>
  BY DEF IInv, Typed, ServerMoves
<1>2. PICK o \in Orders :
         \/ placed' = <<o>> \o placed /\ UNCHANGED filed
         \/ UNCHANGED <<placed, filed>>
         \/ /\ \E t \in NewTickets : filed' = <<Ticket(t, o)>> \o filed
            /\ UNCHANGED placed
  BY DEF ServerMoves
<1>3. CASE placed' = <<o>> \o placed /\ UNCHANGED filed
  <2>1. placed' \in Seq(Orders) /\ ToSet(placed) \subseteq ToSet(placed')
    BY <1>1, <1>3, InFront
  <2> QED BY <1>1, <1>3, <2>1, ServerGrows
<1>4. CASE UNCHANGED <<placed, filed>>
  BY <1>1, <1>4, ServerGrows
<1>5. ASSUME NEW t \in NewTickets, filed' = <<Ticket(t, o)>> \o filed, UNCHANGED placed
      PROVE  IInv'
  <2>1. filed' \in Seq(TicketRows) /\ Distinct(filed') /\ ToSet(filed) \subseteq ToSet(filed')
    BY <1>1, <1>5, TicketFiled
  <2> QED BY <1>1, <1>5, <2>1, ServerGrows
<1> QED BY <1>2, <1>3, <1>4, <1>5
\* The clicks that start a handler.
LEMMA ClickKeeps ==
    ASSUME IInv, NEW op \in {"load", "select", "delivery", "ticket", "list", "file"},
           NEW o \in Orders \cup {None}, NEW c, c = Call(op, o),
           \/ page = "account" /\ op = "load" /\ o = account.no
           \/ page = "account" /\ op = "select" /\ o \in ToSet(account.orders)
           \/ page = "account" /\ op = "delivery" /\ o = account.no /\ o # None
           \/ page = "account" /\ op = "ticket"
           \/ page = "orders" /\ op = "file" /\ o = panel.no /\ o # None,
           \/ account' = [account EXCEPT !.loading = TRUE] /\ UNCHANGED panel
           \/ account' = [account EXCEPT !.submitting = TRUE] /\ UNCHANGED panel /\ op = "ticket"
           \/ panel' = [panel EXCEPT !.submitting = TRUE] /\ UNCHANGED account /\ op = "file",
           calls' \in Ask(calls, c), Acting,
           UNCHANGED <<placed, filed, page, told>>
    PROVE  IInv'
<1>1. Typed /\ Known
  BY DEF IInv
<1>2. /\ c \in Handler /\ c # None
      /\ c.op = op /\ c.no = o /\ c.at = 1 /\ c.ans = Waiting /\ c.live
  BY CallStarts
<1>3. HandlerOK(ToSet(placed), ToSet(filed), page, c)
  <2>1. op \in {"select", "delivery", "file"} => o \in ToSet(placed)
    BY <1>1 DEF Known
  <2> QED BY <1>2, <2>1, StepsAre DEF HandlerOK
<1>4. HandlerShows(c)
  BY <1>2 DEF HandlerShows, ShowsFor
<1>5. /\ account' \in AccountStates /\ panel' \in PanelStates
      /\ account'.orders = account.orders /\ account'.tickets = account.tickets
      /\ account'.no = account.no /\ account'.detail = account.detail
      /\ account'.delivery = account.delivery
      /\ panel'.no = panel.no /\ panel'.tickets = panel.tickets
  BY <1>1 DEF Typed, AccountStates, PanelStates
<1>6. account'.submitting => account.submitting \/ c.op = "ticket"
  BY <1>1, <1>2 DEF Typed, AccountStates
<1>7. panel'.submitting => panel.submitting \/ c.op = "file"
  BY <1>1, <1>2 DEF Typed, PanelStates
<1> QED BY <1>2, <1>3, <1>4, <1>5, <1>6, <1>7, HandlerStarts

LEMMA AccountKeeps ==
    ASSUME IInv, Account
    PROVE  IInv'
<1>1. /\ account.no \in Orders \cup {None} /\ None \in Orders \cup {None}
      /\ \A k \in DOMAIN account.orders : /\ account.orders[k] \in ToSet(account.orders)
                                          /\ account.orders[k] \in Orders
  BY DEF IInv, Typed, AccountStates, ToSet
<1>2. CASE Reload
  <2>1. PICK c : c = Call("load", account.no)
    OBVIOUS
  <2> QED BY <1>1, <1>2, <2>1, ClickKeeps DEF Reload
<1>3. CASE SelectOrder
  <2>1. PICK k \in DOMAIN account.orders : calls' \in Ask(calls, Call("select", account.orders[k]))
    BY <1>3 DEF SelectOrder
  <2>2. PICK o : o = account.orders[k]
    OBVIOUS
  <2>3. PICK c : c = Call("select", o)
    OBVIOUS
  <2> QED BY <1>1, <1>3, <2>1, <2>2, <2>3, ClickKeeps DEF SelectOrder
<1>4. CASE LoadDeliveryResult
  <2>1. PICK c : c = Call("delivery", account.no)
    OBVIOUS
  <2> QED BY <1>1, <1>4, <2>1, ClickKeeps DEF LoadDeliveryResult
<1>5. CASE SubmitTicket
  <2>1. PICK c : c = Call("ticket", None)
    OBVIOUS
  <2> QED BY <1>1, <1>5, <2>1, ClickKeeps DEF SubmitTicket
<1> QED BY <1>2, <1>3, <1>4, <1>5 DEF Account

LEMMA FileTicketKeeps ==
    ASSUME IInv, FileTicket
    PROVE  IInv'
<1>1. panel.no \in Orders \cup {None}
  BY DEF IInv, Typed, PanelStates
<1>2. PICK c : c = Call("file", panel.no)
  OBVIOUS
<1> QED BY <1>1, <1>2, ClickKeeps DEF FileTicket

\* The panel turns to another order.
LEMMA ShowOrderKeeps ==
    ASSUME IInv, NEW o \in ToSet(placed) \cup {None}, ShowOrder(o)
    PROVE  IInv'
<1>1. /\ Typed /\ Known /\ HandlersOK(ToSet(placed), ToSet(filed), page, calls)
      /\ FormsWait /\ Patient
  BY DEF IInv
<1> DEFINE dropped == [i \in DOMAIN calls |->
                       IF i \in Busy /\ calls[i].op = "list" THEN [calls[i] EXCEPT !.live = FALSE] ELSE calls[i]]
<1>2. /\ page = "orders" /\ told' = {} /\ Acting
      /\ UNCHANGED <<placed, sent, filed, page, account>>
      /\ \/ o = None /\ panel' = [Reshown(o) EXCEPT !.source = "remote"] /\ calls' = dropped
         \/ /\ o # None /\ panel' = [Reshown(o) EXCEPT !.loading = TRUE]
            /\ calls' \in Ask(dropped, Call("list", o))
  BY DEF ShowOrder
<1>3. DOMAIN calls = 1..MaxCalls /\ calls \in [1..MaxCalls -> Handler \cup {None}]
  BY <1>1 DEF Typed
<1>4. ASSUME NEW j \in 1..MaxCalls
      PROVE  /\ calls[j] = None => dropped[j] = None
             /\ calls[j] # None =>
                    /\ dropped[j] \in Handler /\ dropped[j] # None
                    /\ dropped[j].op = calls[j].op
                    /\ HandlerOK(ToSet(placed), ToSet(filed), page, dropped[j])
  <2>1. CASE calls[j] = None
    BY <1>3, <2>1 DEF Busy
  <2>2. CASE calls[j] # None
    <3>1. calls[j] \in Handler /\ HandlerOK(ToSet(placed), ToSet(filed), page, calls[j])
      BY <1>1, <1>3, <2>2 DEF HandlersOK
    <3>2. CASE calls[j].op = "list"
      <4>1. PICK d : d = [calls[j] EXCEPT !.live = FALSE]
        OBVIOUS
      <4>2. /\ d \in Handler /\ d.op = calls[j].op /\ d.no = calls[j].no /\ d.at = calls[j].at
            /\ d.made = calls[j].made /\ d.ans = calls[j].ans
        BY <3>1, <4>1 DEF Handler
      <4>3. AnswerOK(ToSet(placed), ToSet(filed), calls[j], calls[j].ans) =>
                AnswerOK(ToSet(placed), ToSet(filed), d, d.ans)
        BY <4>2 DEF AnswerOK
      <4>4. HandlerOK(ToSet(placed), ToSet(filed), page, d)
        BY <3>1, <4>2, <4>3 DEF HandlerOK
      <4>5. dropped[j] = d /\ d # None
        BY <1>3, <2>2, <3>2, <4>1, <4>2, DeskAssumption DEF Busy
      <4> QED BY <2>2, <4>2, <4>4, <4>5
    <3>3. CASE calls[j].op # "list"
      <4>1. dropped[j] = calls[j]
        BY <1>3, <3>3
      <4> QED BY <2>2, <3>1, <4>1
    <3> QED BY <3>2, <3>3
  <2> QED BY <2>1, <2>2
<1>5. dropped \in [1..MaxCalls -> Handler \cup {None}]
  <2>1. dropped = [j \in 1..MaxCalls |-> dropped[j]]
    BY <1>3
  <2>2. \A j \in 1..MaxCalls : dropped[j] \in Handler \cup {None}
    BY <1>4
  <2> HIDE DEF dropped
  <2> QED BY <2>1, <2>2
<1>6. o \in Orders \cup {None}
  BY <1>1 DEF Typed, ToSet
<1>7. PICK c : c = Call("list", o)
  OBVIOUS
<1>8. /\ c \in Handler /\ c # None
      /\ c.op = "list" /\ c.no = o /\ c.at = 1 /\ c.ans = Waiting /\ c.live
  BY <1>6, <1>7, CallStarts
<1> HIDE DEF dropped
\* The call of the order shown now, if any, is in a slot that was free.
<1>9. \/ o = None /\ calls' = dropped
      \/ /\ o # None /\ calls' \in [1..MaxCalls -> Handler \cup {None}]
         /\ \E i \in 1..MaxCalls : Takes(dropped, calls', c, i)
  <2>1. CASE o = None
    BY <1>2, <2>1
  <2>2. CASE o # None
    <3>1. calls' \in Ask(dropped, c)
      BY <1>2, <1>7, <2>2
    <3>2. calls' \in [1..MaxCalls -> Handler \cup {None}]
      BY <1>5, <1>8, <3>1, AskTakesSlot
    <3>3. \E i \in 1..MaxCalls : Takes(dropped, calls', c, i)
      BY <1>5, <1>8, <3>1, AskTakesSlot
    <3> QED BY <2>2, <3>2, <3>3
  <2> QED BY <2>1, <2>2
<1>10. /\ panel' \in PanelStates /\ panel'.no = o /\ panel'.tickets = <<>>
       /\ panel'.submitting = panel.submitting
  <2>1. PICK p : p = Reshown(o)
    OBVIOUS
  <2>2. p \in PanelStates /\ p.no = o /\ p.tickets = <<>> /\ p.submitting = panel.submitting
    <3>1. PICK q : q = [panel EXCEPT !.no = o]
      OBVIOUS
    <3>2. q \in PanelStates /\ q.no = o /\ q.submitting = panel.submitting
      BY <1>1, <1>6, <3>1 DEF Typed, PanelStates
    <3>3. p = [q EXCEPT !.tickets = <<>>]
      BY <2>1, <3>1 DEF Reshown
    <3>4. <<>> \in Seq(TicketRows)
      OBVIOUS
    <3> QED BY <3>2, <3>3, <3>4 DEF PanelStates
  <2>3. panel' = [p EXCEPT !.source = "remote"] \/ panel' = [p EXCEPT !.loading = TRUE]
    BY <1>2, <2>1
  <2> QED BY <2>2, <2>3 DEF PanelStates
<1>11. hasty' \in BOOLEAN /\ (~hasty' => ~hasty /\ Busy = {})
  BY <1>1, <1>2 DEF Acting, Typed
<1>12. calls' \in [1..MaxCalls -> Handler \cup {None}]
  BY <1>5, <1>9
<1>13. Typed'
  BY <1>1, <1>2, <1>10, <1>11, <1>12 DEF Typed
<1>14. Known'
  BY <1>1, <1>2, <1>10 DEF Known, Distinct
<1>15. ASSUME NEW j \in 1..MaxCalls
       PROVE  /\ calls[j] # None => calls'[j] # None /\ calls'[j].op = calls[j].op
              /\ calls'[j] # None =>
                     HandlerOK(ToSet(placed), ToSet(filed), page, calls'[j])
              /\ calls'[j] # None /\ calls[j] = None => calls'[j] = c /\ o # None
  <2>1. HandlerOK(ToSet(placed), ToSet(filed), page, c) \/ o = None
    <3>1. o # None => o \in ToSet(placed)
      OBVIOUS
    <3> QED BY <1>2, <1>8, <3>1, StepsAre DEF HandlerOK
  <2>2. calls'[j] = dropped[j] \/ (dropped[j] = None /\ calls'[j] = c /\ o # None)
    BY <1>9 DEF Takes
  <2> QED BY <1>4, <1>8, <2>1, <2>2
<1>16. HandlersOK(ToSet(placed), ToSet(filed), page, calls)'
  <2>1. HandlersOK(ToSet(placed), ToSet(filed), page, calls')
    BY <1>12, <1>15 DEF HandlersOK
  <2> QED BY <1>2, <2>1
<1>17. FormsWait'
  <2>1. \A j \in Busy : j \in Busy' /\ calls'[j].op = calls[j].op
    BY <1>3, <1>12, <1>15 DEF Busy
  <2> QED BY <1>1, <1>2, <1>10, <2>1 DEF FormsWait
<1>18. Patient'
  <2>1. SUFFICES ASSUME ~hasty'
                 PROVE  OneAtATime' /\ AccountShows' /\ PanelShows' /\ (\A j \in Busy : HandlerShows(calls[j]))'
    BY DEF Patient
  <2>2. AccountShows /\ \A j \in 1..MaxCalls : calls[j] = None
    BY <1>1, <1>3, <1>11, <2>1 DEF Patient, Busy
  <2>3. AccountShows' /\ PanelShows'
    BY <1>2, <1>10, <2>2 DEF AccountShows, PanelShows, ToSet
  <2>4. \A j \in Busy' : j \in 1..MaxCalls /\ calls'[j] = c /\ o # None
    BY <1>12, <1>15, <2>2 DEF Busy
  <2>5. OneAtATime'
    <3>1. CASE calls' = dropped /\ o = None
      BY <2>4, <3>1 DEF OneAtATime
    <3>2. CASE ~(calls' = dropped /\ o = None)
      <4>1. PICK i \in 1..MaxCalls : \A j \in 1..MaxCalls \ {i} : calls'[j] = dropped[j]
        BY <1>9, <3>2 DEF Takes
      <4>2. \A j \in 1..MaxCalls \ {i} : calls'[j] = None
        BY <1>4, <2>2, <4>1
      <4>3. \A j \in Busy' : j = i
        BY <1>8, <2>4, <4>2
      <4> QED BY <4>3 DEF OneAtATime
    <3> QED BY <3>1, <3>2
  <2>6. HandlerShows(c)'
    BY <1>2, <1>8, <1>10 DEF HandlerShows, ShowsFor
  <2> QED BY <2>3, <2>4, <2>5, <2>6
<1> QED BY <1>13, <1>14, <1>16, <1>17, <1>18 DEF IInv
-----------------------------------------------------------------------------
(* Answers that land                                                       *)

\* The page tells of a ticket that was filed.
LEMMA ToldIsFiled ==
    ASSUME IInv, NEW i \in 1..MaxCalls, calls[i] # None, Land(i)
    PROVE  told' \subseteq ToSet(filed)
<1>1. Typed /\ HandlersOK(ToSet(placed), ToSet(filed), page, calls)
  BY DEF IInv
<1>2. PICK c : c = calls[i]
  OBVIOUS
<1>3. /\ HandlerOK(ToSet(placed), ToSet(filed), page, c) /\ c.ans # Waiting
      /\ told' \in {told, told \cup Tells(c)}
  BY <1>1, <1>2 DEF Typed, HandlersOK, Land
<1>4. c.op = "ticket" => c.at = 1
  BY <1>3, StepsAre DEF HandlerOK
<1>5. Tells(c) \subseteq ToSet(filed)
  BY <1>3, <1>4 DEF Tells, HandlerOK, AnswerOK
<1> QED BY <1>1, <1>3, <1>5 DEF Typed

\* A form is enabled again with its handler, if not before.
Released(before, after, ended) == after.submitting => before.submitting /\ ~ended

\* A handler takes its answer and goes on (to d) or ends.
LEMMA HandlerLands ==
    ASSUME IInv, NEW i \in 1..MaxCalls, calls[i] # None,
           NEW d \in Handler \cup {None}, calls' = [calls EXCEPT ![i] = d],
           d # None => d.op = calls[i].op /\ HandlerOK(ToSet(placed), ToSet(filed), page, d),
           account' \in AccountStates, panel' \in PanelStates, Known',
           told' \subseteq ToSet(filed),
           Released(account, account', calls[i].op = "ticket" /\ d = None),
           Released(panel, panel', calls[i].op = "file" /\ d = None),
           ~hasty => AccountShows' /\ PanelShows' /\ (d # None => ShowsFor(account'.no, panel'.no, d)),
           UNCHANGED <<placed, filed, page, hasty>>
    PROVE  IInv'
<1>1. /\ Typed /\ Known /\ HandlersOK(ToSet(placed), ToSet(filed), page, calls)
      /\ FormsWait /\ Patient
  BY DEF IInv
<1>2. calls \in [1..MaxCalls -> Handler \cup {None}]
  BY <1>1 DEF Typed
<1>3. /\ calls' \in [1..MaxCalls -> Handler \cup {None}] /\ calls'[i] = d
      /\ \A j \in 1..MaxCalls \ {i} : calls'[j] = calls[j]
      /\ DOMAIN calls = 1..MaxCalls /\ DOMAIN calls' = 1..MaxCalls
  BY <1>2
<1>4. /\ i \in Busy /\ \A j \in Busy' : j = i \/ j \in Busy
      /\ \A j \in Busy \ {i} : j \in Busy'
      /\ i \in Busy' <=> d # None
  BY <1>3 DEF Busy
<1>5. Typed'
  BY <1>1, <1>3 DEF Typed
<1>6. HandlersOK(ToSet(placed), ToSet(filed), page, calls)'
  <2>1. HandlersOK(ToSet(placed), ToSet(filed), page, calls')
    BY <1>1, <1>3 DEF HandlersOK
  <2> QED BY <2>1
<1>7. FormsWait'
  <2>1. \A j \in Busy \ {i} : j \in Busy' /\ calls'[j] = calls[j]
    BY <1>3, <1>4 DEF Busy
  <2>2. account'.submitting => \E j \in Busy' : calls'[j].op = "ticket"
    BY <1>1, <1>3, <1>4, <2>1 DEF FormsWait, Released
  <2>3. panel'.submitting => \E j \in Busy' : calls'[j].op = "file"
    BY <1>1, <1>3, <1>4, <2>1 DEF FormsWait, Released
  <2> QED BY <2>2, <2>3 DEF FormsWait
<1>8. Patient'
  <2>1. SUFFICES ASSUME ~hasty'
                 PROVE  OneAtATime' /\ AccountShows' /\ PanelShows' /\ (\A j \in Busy : HandlerShows(calls[j]))'
    BY DEF Patient
  <2>2. \A j \in Busy' : j = i
    BY <1>1, <1>4, <2>1 DEF Patient, OneAtATime
  <2>3. OneAtATime'
    BY <2>2 DEF OneAtATime
  <2>4. \A j \in Busy' : calls'[j] = d /\ d # None
    BY <1>3, <1>4, <2>2
  <2>5. (\A j \in Busy : HandlerShows(calls[j]))'
    BY <2>1, <2>4 DEF HandlerShows
  <2> QED BY <2>1, <2>3, <2>5
<1> QED BY <1>5, <1>6, <1>7, <1>8 DEF IInv

\* A handler of the account page ends.
LEMMA AccountEnds ==
    ASSUME IInv, page = "account", NEW i \in 1..MaxCalls, calls[i] # None,
           calls' = [calls EXCEPT ![i] = None],
           account' \in AccountStates, ToSet(account'.orders) \subseteq ToSet(placed),
           account'.no \in ToSet(placed) \cup {None},
           told' \subseteq ToSet(filed),
           Released(account, account', calls[i].op = "ticket"),
           ~hasty => AccountShows',
           UNCHANGED <<placed, filed, page, panel, hasty>>
    PROVE  IInv'
<1>1. Typed /\ Known /\ Patient /\ HandlersOK(ToSet(placed), ToSet(filed), page, calls)
  BY DEF IInv
<1>2. panel' \in PanelStates /\ Known'
  BY <1>1 DEF Typed, Known
<1>3. ~hasty => PanelShows'
  BY <1>1 DEF Patient, PanelShows
<1>4. Released(panel, panel', calls[i].op = "file" /\ None = None)
  BY <1>1 DEF Released, HandlersOK, HandlerOK, Typed
<1>5. Released(account, account', calls[i].op = "ticket" /\ None = None)
  BY DEF Released
<1> QED BY <1>2, <1>3, <1>4, <1>5, HandlerLands

\* The order a list settles on is in it, and is the one preferred if that is.
LEMMA ResolvedIsListed ==
    ASSUME NEW s \in Seq(Orders), NEW p
    PROVE  /\ Resolved(p, s) \in ToSet(s) \cup {None}
           /\ p \in ToSet(s) => Resolved(p, s) = p
<1>1. Contains(s, p) <=> p \in ToSet(s)
  BY DEF Contains, ToSet
<1>2. s # <<>> => s[1] \in ToSet(s)
  <2>1. s # <<>> => 1 \in DOMAIN s
    OBVIOUS
  <2> QED BY <2>1 DEF ToSet
<1> QED BY <1>1, <1>2 DEF Resolved

\* What is known of an answer when it lands on the account page.
AccountCall(c) ==
    /\ c \in Handler /\ HandlerOK(ToSet(placed), ToSet(filed), page, c)
    /\ c.op \in {"load", "select", "delivery", "ticket"}
    /\ c.op = "load" => c.at \in {1, 2}
    /\ c.op # "load" => c.at = 1
    /\ c.ans # Failed => AnswerOK(ToSet(placed), ToSet(filed), c, c.ans)
    /\ ~hasty => /\ HandlerShows(c) /\ AccountShows
                 /\ c.ans # Failed => AnswerShows(c, c.ans)

LEMMA AccountCallIs ==
    ASSUME IInv, page = "account", NEW i \in DOMAIN calls, Land(i)
    PROVE  i \in 1..MaxCalls /\ calls[i] # None /\ AccountCall(calls[i])
<1>1. Typed /\ HandlersOK(ToSet(placed), ToSet(filed), page, calls) /\ Patient
  BY DEF IInv
<1>2. i \in 1..MaxCalls /\ calls[i] # None /\ calls[i].ans # Waiting
  BY <1>1 DEF Typed, Land
<1>3. PICK c : c = calls[i]
  OBVIOUS
<1>4. c \in Handler /\ HandlerOK(ToSet(placed), ToSet(filed), page, c)
  BY <1>1, <1>2, <1>3 DEF Typed, HandlersOK
<1>5. c.op \in {"load", "select", "delivery", "ticket"} /\ c.at \in 1..Steps(c.op)
  BY <1>4 DEF HandlerOK
<1>6. (c.op = "load" => c.at \in {1, 2}) /\ (c.op # "load" => c.at = 1)
  BY <1>5, StepsAre
<1>7. c.ans # Failed => AnswerOK(ToSet(placed), ToSet(filed), c, c.ans)
  BY <1>2, <1>3, <1>4 DEF HandlerOK
<1>8. ~hasty => HandlerShows(c) /\ AccountShows
  BY <1>1, <1>2, <1>3 DEF Patient, Busy
<1>9. ~hasty /\ c.ans # Failed => AnswerShows(c, c.ans)
  BY <1>2, <1>3, <1>8 DEF HandlerShows, ShowsFor
<1> QED BY <1>2, <1>3, <1>4, <1>5, <1>6, <1>7, <1>8, <1>9 DEF AccountCall

\* The lists of a reload land: the handler goes on if there is an order to show.
LEMMA ListsLand ==
    ASSUME IInv, page = "account", NEW i \in 1..MaxCalls, calls[i] # None,
           NEW c, c = calls[i], AccountCall(c), c.op = "load", c.at = 1, c.ans # Failed,
           account' = ListsLanded(c), told' \subseteq ToSet(filed),
           calls' = [calls EXCEPT ![i] = IF GoesOn(c) THEN NextCall(c) ELSE None],
           UNCHANGED <<placed, filed, page, panel, hasty>>
    PROVE  IInv'
<1>1. Typed /\ Known /\ Patient
  BY DEF IInv
<1>2. /\ c.ans \in Lists /\ ToSet(c.ans.orders) \subseteq ToSet(placed)
      /\ c.ans.orders \in Seq(Orders) /\ c.ans.tickets \in Seq(TicketRows)
  BY DEF AccountCall, AnswerOK, Lists
<1>3. PICK no : no = Resolved(c.no, c.ans.orders)
  OBVIOUS
<1>4. no \in ToSet(placed) \cup {None} /\ (c.no \in ToSet(c.ans.orders) => no = c.no)
  BY <1>2, <1>3, ResolvedIsListed
<1>5. no \in Orders \cup {None} /\ \A o \in ToSet(placed) : o \in Orders
  BY <1>1, <1>4 DEF Typed, ToSet
<1>6. /\ account' \in AccountStates
      /\ account'.orders = c.ans.orders /\ account'.tickets = c.ans.tickets
      /\ account'.no = no /\ account'.delivery = None
      /\ account'.submitting = account.submitting
      /\ account'.detail = IF no = None THEN None ELSE account.detail
  <2>1. PICK a : a = [account EXCEPT !.orders = c.ans.orders]
    OBVIOUS
  <2>2. /\ a \in AccountStates /\ a.orders = c.ans.orders
        /\ a.submitting = account.submitting /\ a.detail = account.detail
    BY <1>1, <1>2, <2>1 DEF Typed, AccountStates
  <2>3. PICK b : b = [a EXCEPT !.tickets = c.ans.tickets]
    OBVIOUS
  <2>4. /\ b \in AccountStates /\ b.orders = c.ans.orders /\ b.tickets = c.ans.tickets
        /\ b.submitting = account.submitting /\ b.detail = account.detail
    BY <1>2, <2>2, <2>3 DEF AccountStates
  <2>5. PICK e : e = [b EXCEPT !.no = no]
    OBVIOUS
  <2>6. /\ e \in AccountStates /\ e.orders = c.ans.orders /\ e.tickets = c.ans.tickets
        /\ e.submitting = account.submitting /\ e.detail = account.detail /\ e.no = no
    BY <1>5, <2>4, <2>5 DEF AccountStates
  <2>7. PICK next : next = [e EXCEPT !.delivery = None]
    OBVIOUS
  <2>8. /\ next \in AccountStates /\ next.orders = c.ans.orders /\ next.tickets = c.ans.tickets
        /\ next.submitting = account.submitting /\ next.detail = account.detail /\ next.no = no
        /\ next.delivery = None
    BY <2>6, <2>7 DEF AccountStates
  <2>9. account' = IF no # None THEN next ELSE [next EXCEPT !.detail = None, !.loading = FALSE]
    BY <1>3, <2>1, <2>3, <2>5, <2>7 DEF ListsLanded
  <2>10. CASE no # None
    BY <2>8, <2>9, <2>10
  <2>11. CASE no = None
    <3>1. PICK f : f = [next EXCEPT !.detail = None]
      OBVIOUS
    <3>2. /\ f \in AccountStates /\ f.orders = c.ans.orders /\ f.tickets = c.ans.tickets
          /\ f.submitting = account.submitting /\ f.detail = None /\ f.no = no
          /\ f.delivery = None
      BY <2>8, <3>1 DEF AccountStates
    <3>3. account' = [f EXCEPT !.loading = FALSE]
      BY <2>9, <2>11, <3>1
    <3> QED BY <2>11, <3>2, <3>3 DEF AccountStates
  <2> QED BY <2>10, <2>11
<1>7. told' \subseteq ToSet(filed)
  BY <1>1 DEF Typed
<1>8. ASSUME ~hasty
      PROVE  AccountShows'
  <2>1. /\ c.no = account.no /\ AccountShows
        /\ c.no # None => c.no \in ToSet(c.ans.orders)
    BY <1>8 DEF AccountCall, HandlerShows, ShowsFor, AnswerShows
  <2>2. account.no # None => no = account.no
    BY <1>4, <2>1
  <2>3. account.no = None => account.detail = None
    BY <1>1, <2>1, DeskAssumption DEF AccountShows, Typed, AccountStates, Details
  <2>4. account'.detail # None => account'.detail.no = account'.no
    BY <1>6, <2>1, <2>2, <2>3 DEF AccountShows
  <2> QED BY <1>6, <2>4 DEF AccountShows
<1>9. CASE no = None
  <2>1. ~GoesOn(c)
    BY <1>3, <1>9 DEF GoesOn
  <2>2. calls' = [calls EXCEPT ![i] = None]
    BY <2>1
  <2>3. Released(account, account', calls[i].op = "ticket")
    BY <1>6 DEF Released
  <2>4. ToSet(account'.orders) \subseteq ToSet(placed) /\ account'.no \in ToSet(placed) \cup {None}
    BY <1>2, <1>4, <1>6
  <2> QED BY <1>6, <1>7, <1>8, <2>2, <2>3, <2>4, AccountEnds
<1>10. CASE no # None
  <2>1. GoesOn(c)
    BY <1>3, <1>10, StepsAre DEF GoesOn
  <2>2. PICK d : d = NextCall(c)
    OBVIOUS
  <2>3. calls' = [calls EXCEPT ![i] = d]
    BY <2>1, <2>2
  <2>4. d \in Handler /\ d.op = c.op /\ d.at = 2 /\ d.ans = Waiting /\ d.no = no
    <3>1. c \in Handler
      BY DEF AccountCall
    <3>2. PICK e : e = [c EXCEPT !.at = 2]
      OBVIOUS
    <3>3. e \in Handler /\ e.op = c.op /\ e.at = 2 /\ e.made = c.made
      BY <3>1, <3>2 DEF Handler
    <3>4. PICK f : f = [e EXCEPT !.ans = Waiting]
      OBVIOUS
    <3>5. f \in Handler /\ f.op = c.op /\ f.at = 2 /\ f.ans = Waiting /\ f.made = c.made
      BY <3>3, <3>4 DEF Handler, Replies
    <3>6. PICK g : g = [f EXCEPT !.no = no]
      OBVIOUS
    <3>7. /\ g \in Handler /\ g.op = c.op /\ g.at = 2 /\ g.ans = Waiting /\ g.no = no
          /\ g.made = c.made
      BY <1>5, <3>5, <3>6 DEF Handler
    <3>8. d = [g EXCEPT !.made = g.made]
      BY <1>3, <2>2, <3>2, <3>4, <3>6 DEF NextCall
    <3>9. d = g
      BY <3>7, <3>8 DEF Handler
    <3> QED BY <3>7, <3>9
  <2>5. d # None
    BY <2>4, DeskAssumption
  <2>6. HandlerOK(ToSet(placed), ToSet(filed), page, d)
    BY <1>4, <1>10, <2>4, StepsAre DEF HandlerOK
  <2>7. ShowsFor(account'.no, panel'.no, d)
    BY <1>6, <2>4 DEF ShowsFor
  <2>8. Known'
    BY <1>1, <1>2, <1>4, <1>6 DEF Known
  <2>9. ~hasty => PanelShows'
    BY <1>1 DEF Patient, PanelShows
  <2>10. panel' \in PanelStates
    BY <1>1 DEF Typed
  <2>11. Released(panel, panel', calls[i].op = "file" /\ d = None)
    BY <2>5 DEF Released
  <2>12. Released(account, account', calls[i].op = "ticket" /\ d = None)
    BY <1>6 DEF Released
  <2> QED BY <1>6, <1>7, <1>8, <2>3, <2>4, <2>5, <2>6, <2>7, <2>8, <2>9, <2>10, <2>11, <2>12, HandlerLands
<1> QED BY <1>9, <1>10
\* The other answers of the account page.
LEMMA LossLands ==
    ASSUME IInv, page = "account", NEW i \in 1..MaxCalls, calls[i] # None,
           NEW c, c = calls[i], AccountCall(c), c.ans = Failed,
           account' = LandInAccount(c), told' \subseteq ToSet(filed),
           calls' = [calls EXCEPT ![i] = None],
           UNCHANGED <<placed, filed, page, panel, hasty>>
    PROVE  IInv'
<1>1. Typed /\ Known /\ Patient
  BY DEF IInv
<1>2. \/ c.op = "ticket" /\ account' = [account EXCEPT !.submitting = FALSE]
      \/ c.op # "ticket" /\ account' = [account EXCEPT !.loading = FALSE]
  BY DEF LandInAccount, AccountCall
<1>3. /\ account' \in AccountStates
      /\ account'.orders = account.orders /\ account'.tickets = account.tickets
      /\ account'.no = account.no /\ account'.detail = account.detail
      /\ account'.delivery = account.delivery
      /\ Released(account, account', c.op = "ticket")
  BY <1>1, <1>2 DEF Typed, AccountStates, Released
<1>4. told' \subseteq ToSet(filed) /\ ToSet(account'.orders) \subseteq ToSet(placed)
      /\ account'.no \in ToSet(placed) \cup {None}
  BY <1>1, <1>3 DEF Typed, Known
<1>5. ~hasty => AccountShows'
  BY <1>1, <1>3 DEF Patient, AccountShows
<1>6. Released(account, account', calls[i].op = "ticket")
  BY <1>3
<1> QED BY <1>3, <1>4, <1>5, <1>6, AccountEnds

LEMMA TicketLands ==
    ASSUME IInv, page = "account", NEW i \in 1..MaxCalls, calls[i] # None,
           NEW c, c = calls[i], AccountCall(c), c.op = "ticket", c.ans # Failed,
           account' = TicketLanded(c), told' \subseteq ToSet(filed),
           calls' = [calls EXCEPT ![i] = None],
           UNCHANGED <<placed, filed, page, panel, hasty>>
    PROVE  IInv'
<1>1. Typed /\ Known /\ Patient
  BY DEF IInv
<1>2. c.ans \in ToSet(filed) /\ c.ans \in TicketRows
  BY <1>1 DEF AccountCall, AnswerOK, Typed, ToSet
<1>3. /\ account' \in AccountStates
      /\ account'.orders = account.orders /\ account'.tickets = <<c.ans>> \o account.tickets
      /\ account'.no = account.no /\ account'.detail = account.detail
      /\ account'.delivery = account.delivery
      /\ account'.submitting = FALSE
  <2>1. PICK a : a = [account EXCEPT !.submitting = FALSE]
    OBVIOUS
  <2>2. /\ a \in AccountStates /\ a.tickets = account.tickets
        /\ a.orders = account.orders /\ a.no = account.no /\ a.detail = account.detail
        /\ a.delivery = account.delivery /\ a.submitting = FALSE
    BY <1>1, <2>1 DEF Typed, AccountStates
  <2>3. PICK s : s = <<c.ans>> \o account.tickets
    OBVIOUS
  <2>4. s \in Seq(TicketRows)
    BY <1>1, <1>2, <2>3, InFront DEF Typed, AccountStates
  <2>5. account' = [a EXCEPT !.tickets = s]
    BY <2>1, <2>2, <2>3 DEF TicketLanded
  <2> QED BY <2>2, <2>3, <2>4, <2>5 DEF AccountStates
<1>5. told' \subseteq ToSet(filed) /\ ToSet(account'.orders) \subseteq ToSet(placed)
      /\ account'.no \in ToSet(placed) \cup {None}
  BY <1>1, <1>2, <1>3 DEF Typed, Known
<1>6. ASSUME ~hasty
      PROVE  AccountShows'
  <2>1. AccountShows
    BY <1>1, <1>6 DEF Patient
  <2> QED BY <1>3, <2>1 DEF AccountShows
<1>7. Released(account, account', calls[i].op = "ticket")
  BY <1>3 DEF Released
<1> QED BY <1>3, <1>5, <1>6, <1>7, AccountEnds

LEMMA DeliveryLands ==
    ASSUME IInv, page = "account", NEW i \in 1..MaxCalls, calls[i] # None,
           NEW c, c = calls[i], AccountCall(c), c.op = "delivery", c.ans # Failed,
           account' = DeliveryLanded(c), told' \subseteq ToSet(filed),
           calls' = [calls EXCEPT ![i] = None],
           UNCHANGED <<placed, filed, page, panel, hasty>>
    PROVE  IInv'
<1>1. Typed /\ Known /\ Patient
  BY DEF IInv
<1>2. c.ans = c.no /\ c.no \in Orders
  BY <1>1 DEF AccountCall, AnswerOK, HandlerOK, Typed, ToSet
<1>3. PICK detail : detail = IF account.detail = None THEN None
                             ELSE [account.detail EXCEPT !.result = c.ans]
  OBVIOUS
<1>4. /\ detail \in Details \cup {None}
      /\ account.detail = None => detail = None
      /\ account.detail # None => detail.no = account.detail.no /\ detail.result = c.ans
  <2>1. CASE account.detail = None
    BY <1>3, <2>1
  <2>2. CASE account.detail # None
    <3>1. account.detail \in Details
      BY <1>1, <2>2 DEF Typed, AccountStates
    <3>2. detail = [account.detail EXCEPT !.result = c.ans]
      BY <1>3, <2>2
    <3> QED BY <1>2, <2>2, <3>1, <3>2 DEF Details
  <2> QED BY <2>1, <2>2
<1>5. /\ account' \in AccountStates
      /\ account'.orders = account.orders /\ account'.tickets = account.tickets
      /\ account'.no = account.no /\ account'.detail = detail
      /\ account'.delivery = c.ans
      /\ account'.submitting = account.submitting
  <2>1. PICK a : a = [account EXCEPT !.loading = FALSE]
    OBVIOUS
  <2>2. /\ a \in AccountStates /\ a.tickets = account.tickets
        /\ a.orders = account.orders /\ a.no = account.no /\ a.detail = account.detail
        /\ a.submitting = account.submitting
    BY <1>1, <2>1 DEF Typed, AccountStates
  <2>3. PICK b : b = [a EXCEPT !.delivery = c.ans]
    OBVIOUS
  <2>4. /\ b \in AccountStates /\ b.tickets = account.tickets
        /\ b.orders = account.orders /\ b.no = account.no /\ b.detail = account.detail
        /\ b.submitting = account.submitting /\ b.delivery = c.ans
    BY <1>2, <2>2, <2>3 DEF AccountStates
  <2>5. account' = [b EXCEPT !.detail = detail]
    BY <1>3, <2>1, <2>3, <2>4 DEF DeliveryLanded
  <2> QED BY <1>4, <2>4, <2>5 DEF AccountStates
<1>6. told' \subseteq ToSet(filed) /\ ToSet(account'.orders) \subseteq ToSet(placed)
      /\ account'.no \in ToSet(placed) \cup {None}
  BY <1>1, <1>5 DEF Typed, Known
<1>7. ASSUME ~hasty
      PROVE  AccountShows'
  <2>1. AccountShows /\ c.no = account.no
    BY <1>7 DEF AccountCall, HandlerShows, ShowsFor
  <2>2. detail # None => detail.no = account.no /\ detail.result = account.no
    BY <1>2, <1>4, <2>1 DEF AccountShows
  <2> QED BY <1>2, <1>5, <2>1, <2>2 DEF AccountShows
<1>8. Released(account, account', calls[i].op = "ticket")
  BY <1>5 DEF Released
<1> QED BY <1>5, <1>6, <1>7, <1>8, AccountEnds

\* A detail lands, with the result it has.
LEMMA DetailLands ==
    ASSUME IInv, page = "account", NEW i \in 1..MaxCalls, calls[i] # None,
           NEW c, c = calls[i], AccountCall(c), c.ans # Failed,
           \/ /\ c.op = "load" /\ c.at = 2
              /\ account' = [account EXCEPT !.loading = FALSE, !.detail = c.ans,
                                            !.delivery = c.ans.result]
           \/ /\ c.op = "select"
              /\ account' = [account EXCEPT !.loading = FALSE, !.no = c.no, !.detail = c.ans,
                                            !.delivery = c.ans.result],
           told' \subseteq ToSet(filed),
           calls' = [calls EXCEPT ![i] = None],
           UNCHANGED <<placed, filed, page, panel, hasty>>
    PROVE  IInv'
<1>1. Typed /\ Known /\ Patient
  BY DEF IInv
<1>2. /\ c.ans \in Details /\ c.ans.no = c.no /\ c.ans.result \in {None, c.no}
      /\ c.no \in ToSet(placed) /\ c.no \in Orders
  BY <1>1 DEF AccountCall, AnswerOK, HandlerOK, Typed, ToSet
<1>3. PICK no : no = IF c.op = "load" THEN account.no ELSE c.no
  OBVIOUS
<1>4. /\ account' \in AccountStates
      /\ account'.orders = account.orders /\ account'.tickets = account.tickets
      /\ account'.no = no /\ account'.detail = c.ans
      /\ account'.delivery = c.ans.result
      /\ account'.submitting = account.submitting
  <2>1. PICK a : a = [account EXCEPT !.loading = FALSE]
    OBVIOUS
  <2>2. /\ a \in AccountStates /\ a.tickets = account.tickets
        /\ a.orders = account.orders /\ a.no = account.no
        /\ a.submitting = account.submitting
    BY <1>1, <2>1 DEF Typed, AccountStates
  <2>3. PICK b : b = [a EXCEPT !.no = no]
    OBVIOUS
  <2>4. /\ b \in AccountStates /\ b.tickets = account.tickets
        /\ b.orders = account.orders /\ b.no = no
        /\ b.submitting = account.submitting
    BY <1>1, <1>2, <1>3, <2>2, <2>3 DEF AccountStates, Typed
  <2>5. PICK e : e = [b EXCEPT !.detail = c.ans]
    OBVIOUS
  <2>6. /\ e \in AccountStates /\ e.tickets = account.tickets
        /\ e.orders = account.orders /\ e.no = no /\ e.detail = c.ans
        /\ e.submitting = account.submitting
    BY <1>2, <2>4, <2>5 DEF AccountStates
  <2>7. account' = [e EXCEPT !.delivery = c.ans.result]
    <3>1. CASE c.op = "load"
      <4>1. b = a
        BY <1>3, <2>2, <2>3, <3>1 DEF AccountStates
      <4> QED BY <2>1, <2>5, <3>1, <4>1
    <3>2. CASE c.op = "select"
      <4>1. no = c.no
        BY <1>3, <3>2
      <4> QED BY <2>1, <2>3, <2>5, <3>2, <4>1
    <3> QED BY <3>1, <3>2
  <2> QED BY <1>2, <2>6, <2>7 DEF AccountStates
<1>5. told' \subseteq ToSet(filed) /\ ToSet(account'.orders) \subseteq ToSet(placed)
      /\ account'.no \in ToSet(placed) \cup {None}
  BY <1>1, <1>2, <1>3, <1>4 DEF Typed, Known
<1>6. ASSUME ~hasty
      PROVE  AccountShows'
  <2>1. AccountShows /\ no = c.no
    BY <1>3, <1>6 DEF AccountCall, HandlerShows, ShowsFor
  <2> QED BY <1>2, <1>4, <2>1 DEF AccountShows
<1>7. Released(account, account', calls[i].op = "ticket")
  BY <1>4 DEF Released
<1> QED BY <1>4, <1>5, <1>6, <1>7, AccountEnds

LEMMA AccountLandKeeps ==
    ASSUME IInv, page = "account", NEW i \in DOMAIN calls, Land(i)
    PROVE  IInv'
<1>1. PICK c : c = calls[i]
  OBVIOUS
<1>2. i \in 1..MaxCalls /\ calls[i] # None /\ AccountCall(c)
  BY <1>1, AccountCallIs
<1>3. /\ calls' = [calls EXCEPT ![i] = IF GoesOn(c) THEN NextCall(c) ELSE None]
      /\ account' = LandInAccount(c)
      /\ UNCHANGED <<placed, filed, page, panel, hasty>>
  BY <1>1 DEF Land
<1>4. /\ c.op \in {"load", "select", "delivery", "ticket"}
      /\ (c.op = "load" => c.at \in {1, 2}) /\ (c.op # "load" => c.at = 1)
  BY <1>2 DEF AccountCall
<1>5. told' \subseteq ToSet(filed)
  BY <1>2, ToldIsFiled
<1>6. CASE c.op = "load" /\ c.at = 1 /\ c.ans # Failed
  <2>1. account' = ListsLanded(c)
    BY <1>3, <1>6 DEF LandInAccount
  <2> QED BY <1>1, <1>2, <1>3, <1>5, <1>6, <2>1, ListsLand
<1>7. CASE ~(c.op = "load" /\ c.at = 1 /\ c.ans # Failed)
  <2>1. ~GoesOn(c)
    BY <1>4, <1>7, StepsAre DEF GoesOn
  <2>2. calls' = [calls EXCEPT ![i] = None]
    BY <1>3, <2>1
  <2>3. CASE c.ans = Failed
    BY <1>1, <1>2, <1>3, <1>5, <2>2, <2>3, LossLands
  <2>4. CASE c.ans # Failed /\ c.op = "ticket"
    <3>1. account' = TicketLanded(c)
      BY <1>3, <2>4 DEF LandInAccount
    <3> QED BY <1>1, <1>2, <1>3, <1>5, <2>2, <2>4, <3>1, TicketLands
  <2>5. CASE c.ans # Failed /\ c.op = "delivery"
    <3>1. account' = DeliveryLanded(c)
      BY <1>3, <2>5 DEF LandInAccount
    <3> QED BY <1>1, <1>2, <1>3, <1>5, <2>2, <2>5, <3>1, DeliveryLands
  <2>6. CASE c.ans # Failed /\ c.op = "load"
    <3>1. c.at = 2
      BY <1>4, <1>7, <2>6
    <3>2. account' = [account EXCEPT !.loading = FALSE, !.detail = c.ans,
                                     !.delivery = c.ans.result]
      BY <1>3, <2>6, <3>1 DEF LandInAccount
    <3> QED BY <1>1, <1>2, <1>3, <1>5, <2>2, <2>6, <3>1, <3>2, DetailLands
  <2>7. CASE c.ans # Failed /\ c.op = "select"
    <3>1. account' = [account EXCEPT !.loading = FALSE, !.no = c.no, !.detail = c.ans,
                                     !.delivery = c.ans.result]
      BY <1>3, <2>7 DEF LandInAccount
    <3> QED BY <1>1, <1>2, <1>3, <1>5, <2>2, <2>7, <3>1, DetailLands
  <2> QED BY <1>4, <2>3, <2>4, <2>5, <2>6, <2>7
<1> QED BY <1>6, <1>7
\* The created ticket is in the list once, and no other ticket goes.
LEMMA UpsertKeeps ==
    ASSUME NEW s \in Seq(TicketRows), Distinct(s), NEW t \in TicketRows, NEW r, r = Upsert(s, t)
    PROVE  /\ r \in Seq(TicketRows) /\ Distinct(r)
           /\ ToSet(r) \subseteq ToSet(s) \cup {t} /\ t \in ToSet(r)
           /\ \A u \in ToSet(s) : u.no # t.no => u \in ToSet(r)
<1>1. CASE \E k \in DOMAIN s : s[k].no = t.no
  <2>1. r = [k \in DOMAIN s |-> IF s[k].no = t.no THEN t ELSE s[k]]
    BY <1>1 DEF Upsert
  <2>2. DOMAIN s = 1..Len(s) /\ Len(s) \in Nat /\ \A k \in DOMAIN s : s[k] \in TicketRows
    OBVIOUS
  <2>3. r \in Seq(TicketRows) /\ DOMAIN r = DOMAIN s
    BY <2>1, <2>2
  <2>4. \A k \in DOMAIN s : /\ r[k].no = s[k].no
                            /\ s[k].no = t.no => r[k] = t
                            /\ s[k].no # t.no => r[k] = s[k]
    BY <2>1
  <2>5. Distinct(r)
    BY <2>3, <2>4 DEF Distinct
  <2>6. \A u \in ToSet(r) : u \in ToSet(s) \cup {t}
    BY <2>3, <2>4 DEF ToSet
  <2>7. t \in ToSet(r)
    BY <1>1, <2>3, <2>4 DEF ToSet
  <2>8. \A u \in ToSet(s) : u.no # t.no => u \in ToSet(r)
    BY <2>3, <2>4 DEF ToSet
  <2> QED BY <2>3, <2>5, <2>6, <2>7, <2>8
<1>2. CASE ~\E k \in DOMAIN s : s[k].no = t.no
  <2>1. r = <<t>> \o s
    BY <1>2 DEF Upsert
  <2>2. r \in Seq(TicketRows) /\ ToSet(r) = ToSet(s) \cup {t}
    BY <2>1, InFront
  <2>3. Distinct(r)
    BY <1>2, <2>1, NewInFront
  <2> QED BY <2>2, <2>3
<1> QED BY <1>1, <1>2

\* A handler of the panel ends.
LEMMA PanelEnds ==
    ASSUME IInv, page = "orders", NEW i \in 1..MaxCalls, calls[i] # None,
           calls' = [calls EXCEPT ![i] = None],
           panel' \in PanelStates, panel'.no = panel.no, Distinct(panel'.tickets),
           told' \subseteq ToSet(filed),
           Released(panel, panel', calls[i].op = "file"),
           ~hasty => PanelShows',
           UNCHANGED <<placed, filed, page, account, hasty>>
    PROVE  IInv'
<1>1. Typed /\ Known /\ Patient /\ HandlersOK(ToSet(placed), ToSet(filed), page, calls)
  BY DEF IInv
<1>2. account' \in AccountStates /\ Known'
  BY <1>1 DEF Typed, Known
<1>3. ~hasty => AccountShows'
  BY <1>1 DEF Patient, AccountShows
<1>4. Released(account, account', calls[i].op = "ticket" /\ None = None)
  BY <1>1 DEF Released, HandlersOK, HandlerOK, Typed
<1>5. Released(panel, panel', calls[i].op = "file" /\ None = None)
  BY DEF Released
<1> QED BY <1>2, <1>3, <1>4, <1>5, HandlerLands

\* What is known of an answer when it lands in the panel.
PanelCall(c) ==
    /\ c \in Handler /\ HandlerOK(ToSet(placed), ToSet(filed), page, c)
    /\ \/ c.op = "list" /\ c.at = 1
       \/ c.op = "file" /\ c.at \in {1, 2}
    /\ c.ans # Failed => AnswerOK(ToSet(placed), ToSet(filed), c, c.ans)
    /\ ~hasty => /\ HandlerShows(c) /\ PanelShows
                 /\ c.ans # Failed => AnswerShows(c, c.ans)

LEMMA PanelCallIs ==
    ASSUME IInv, page # "account", NEW i \in DOMAIN calls, Land(i)
    PROVE  i \in 1..MaxCalls /\ calls[i] # None /\ PanelCall(calls[i]) /\ page = "orders"
<1>1. Typed /\ HandlersOK(ToSet(placed), ToSet(filed), page, calls) /\ Patient
  BY DEF IInv
<1>2. i \in 1..MaxCalls /\ calls[i] # None /\ calls[i].ans # Waiting
  BY <1>1 DEF Typed, Land
<1>3. PICK c : c = calls[i]
  OBVIOUS
<1>4. c \in Handler /\ HandlerOK(ToSet(placed), ToSet(filed), page, c)
  BY <1>1, <1>2, <1>3 DEF Typed, HandlersOK
<1>5. c.op \in {"list", "file"} /\ c.at \in 1..Steps(c.op) /\ page = "orders"
  BY <1>4 DEF HandlerOK
<1>6. (c.op = "list" /\ c.at = 1) \/ (c.op = "file" /\ c.at \in {1, 2})
  BY <1>5, StepsAre
<1>7. c.ans # Failed => AnswerOK(ToSet(placed), ToSet(filed), c, c.ans)
  BY <1>2, <1>3, <1>4 DEF HandlerOK
<1>8. ~hasty => HandlerShows(c) /\ PanelShows
  BY <1>1, <1>2, <1>3 DEF Patient, Busy
<1>9. ~hasty /\ c.ans # Failed => AnswerShows(c, c.ans)
  BY <1>2, <1>3, <1>8 DEF HandlerShows, ShowsFor
<1> QED BY <1>2, <1>3, <1>4, <1>5, <1>6, <1>7, <1>8, <1>9 DEF PanelCall

\* Another list in the panel, and its handler at its end.
EndedPanel(file) ==
    IF file THEN [panel EXCEPT !.submitting = FALSE] ELSE [panel EXCEPT !.loading = FALSE]
Listing(file, s, from) == [EndedPanel(file) EXCEPT !.tickets = s, !.source = from]

LEMMA PanelListed ==
    ASSUME panel \in PanelStates, NEW file \in BOOLEAN, NEW s \in Seq(TicketRows),
           NEW from \in {"remote", "remote-error"},
           NEW p, p = Listing(file, s, from)
    PROVE  /\ p \in PanelStates /\ p.no = panel.no /\ p.tickets = s
           /\ Released(panel, p, file)
<1>0. PICK ended : ended = EndedPanel(file)
  OBVIOUS
<1>1. /\ ended \in PanelStates /\ ended.no = panel.no
      /\ Released(panel, ended, file)
  <2>1. CASE file
    <3>1. ended = [panel EXCEPT !.submitting = FALSE]
      BY <1>0, <2>1 DEF EndedPanel
    <3> QED BY <3>1 DEF PanelStates, Released
  <2>2. CASE ~file
    <3>1. ended = [panel EXCEPT !.loading = FALSE]
      BY <1>0, <2>2 DEF EndedPanel
    <3> QED BY <2>2, <3>1 DEF PanelStates, Released
  <2> QED BY <2>1, <2>2
<1>2. PICK q : q = [ended EXCEPT !.tickets = s]
  OBVIOUS
<1>3. /\ q \in PanelStates /\ q.no = panel.no /\ q.tickets = s /\ q.submitting = ended.submitting
  BY <1>1, <1>2 DEF PanelStates
<1>4. p = [q EXCEPT !.source = from]
  BY <1>0, <1>2 DEF Listing
<1>5. p \in PanelStates /\ p.no = panel.no /\ p.tickets = s /\ p.submitting = ended.submitting
  BY <1>3, <1>4 DEF PanelStates
<1> QED BY <1>1, <1>5 DEF Released
\* The tickets of the order shown land, or not.
LEMMA ListLands ==
    ASSUME IInv, page = "orders", NEW i \in 1..MaxCalls, calls[i] # None,
           NEW c, c = calls[i], PanelCall(c), c.op = "list",
           panel' = LandInPanel(c), told' \subseteq ToSet(filed),
           calls' = [calls EXCEPT ![i] = None],
           UNCHANGED <<placed, filed, page, account, hasty>>
    PROVE  IInv'
<1>1. Typed /\ Known /\ Patient
  BY DEF IInv
<1>2. told' \subseteq ToSet(filed) /\ calls[i].op # "file" /\ panel \in PanelStates
  BY <1>1 DEF Typed
<1>3. CASE ~c.live
  <2>1. panel' = panel
    BY <1>3 DEF LandInPanel
  <2>2. Released(panel, panel', calls[i].op = "file")
    BY <1>2, <2>1 DEF Released
  <2>3. ~hasty => PanelShows'
    BY <1>1, <2>1 DEF Patient, PanelShows
  <2>4. panel' \in PanelStates /\ panel'.no = panel.no /\ Distinct(panel'.tickets)
    BY <1>1, <1>2, <2>1 DEF Known
  <2> QED BY <1>2, <2>2, <2>3, <2>4, PanelEnds
<1>4. CASE c.live
  <2>1. PICK s, from : /\ s = IF c.ans = Failed THEN <<>> ELSE c.ans
                       /\ from = IF c.ans = Failed THEN "remote-error" ELSE "remote"
    OBVIOUS
  <2>2. panel' = Listing(FALSE, s, from)
    <3>1. panel' = [[panel EXCEPT !.loading = FALSE] EXCEPT !.tickets = s, !.source = from]
      BY <1>4, <2>1 DEF LandInPanel
    <3> QED BY <3>1 DEF Listing, EndedPanel
  <2>3. /\ s \in Seq(TicketRows) /\ Distinct(s) /\ from \in {"remote", "remote-error"}
        /\ \A t \in ToSet(s) : t.order = c.no
    <3>1. CASE c.ans = Failed
      BY <2>1, <3>1 DEF Distinct, ToSet
    <3>2. CASE c.ans # Failed
      BY <2>1, <3>2 DEF PanelCall, AnswerOK
    <3> QED BY <3>1, <3>2
  <2>4. /\ panel' \in PanelStates /\ panel'.no = panel.no /\ panel'.tickets = s
        /\ Released(panel, panel', FALSE)
    BY <1>2, <2>2, <2>3, PanelListed
  <2>5. Released(panel, panel', calls[i].op = "file")
    BY <1>2, <2>4 DEF Released
  <2>6. ASSUME ~hasty
        PROVE  PanelShows'
    <3>1. c.no = panel.no
      BY <2>6 DEF PanelCall, HandlerShows, ShowsFor
    <3> QED BY <2>3, <2>4, <3>1 DEF PanelShows
  <2> QED BY <1>2, <2>3, <2>4, <2>5, <2>6, PanelEnds
<1> QED BY <1>3, <1>4

\* The ticket was created: the panel reads its tickets again.
LEMMA CreationLands ==
    ASSUME IInv, page = "orders", NEW i \in 1..MaxCalls, calls[i] # None,
           NEW c, c = calls[i], PanelCall(c), c.op = "file", c.at = 1, c.ans # Failed,
           UNCHANGED panel, told' \subseteq ToSet(filed),
           calls' = [calls EXCEPT ![i] = NextCall(c)],
           UNCHANGED <<placed, filed, page, account, hasty>>
    PROVE  IInv'
<1>1. Typed /\ Known /\ Patient
  BY DEF IInv
<1>2. /\ c \in Handler /\ HandlerOK(ToSet(placed), ToSet(filed), page, c)
      /\ c.ans \in ToSet(filed) /\ c.ans.order = c.no /\ c.no \in ToSet(placed)
  BY DEF PanelCall, AnswerOK, HandlerOK
<1>3. c.ans \in TicketRows
  BY <1>1, <1>2 DEF Typed, ToSet
<1>4. PICK d : d = NextCall(c)
  OBVIOUS
<1>5. /\ d \in Handler /\ d.op = c.op /\ d.at = 2 /\ d.ans = Waiting /\ d.no = c.no
      /\ d.made = c.ans
  <2>1. PICK e : e = [c EXCEPT !.at = 2]
    OBVIOUS
  <2>2. e \in Handler /\ e.op = c.op /\ e.at = 2 /\ e.no = c.no
    BY <1>2, <2>1 DEF Handler
  <2>3. PICK f : f = [e EXCEPT !.ans = Waiting]
    OBVIOUS
  <2>4. f \in Handler /\ f.op = c.op /\ f.at = 2 /\ f.ans = Waiting /\ f.no = c.no
    BY <2>2, <2>3 DEF Handler, Replies
  <2>5. PICK g : g = [f EXCEPT !.no = f.no]
    OBVIOUS
  <2>6. g = f
    BY <2>4, <2>5 DEF Handler
  <2>7. d = [g EXCEPT !.made = c.ans]
    BY <1>4, <2>1, <2>3, <2>5 DEF NextCall
  <2> QED BY <1>3, <2>4, <2>6, <2>7 DEF Handler
<1>6. d # None /\ calls' = [calls EXCEPT ![i] = d]
  BY <1>4, <1>5, DeskAssumption
<1>7. HandlerOK(ToSet(placed), ToSet(filed), page, d)
  BY <1>2, <1>5, StepsAre DEF HandlerOK
<1>8. ~hasty => ShowsFor(account'.no, panel'.no, d)
  BY <1>5 DEF PanelCall, HandlerShows, ShowsFor
<1>9. ~hasty => AccountShows' /\ PanelShows'
  BY <1>1 DEF Patient, AccountShows, PanelShows
<1>10. Known' /\ told' \subseteq ToSet(filed) /\ account' \in AccountStates /\ panel' \in PanelStates
  BY <1>1 DEF Typed, Known
<1>11. /\ Released(account, account', calls[i].op = "ticket" /\ d = None)
       /\ Released(panel, panel', calls[i].op = "file" /\ d = None)
  BY <1>6 DEF Released
<1>12. d.op = calls[i].op
  BY <1>5
<1> QED BY <1>5, <1>6, <1>7, <1>8, <1>9, <1>10, <1>11, <1>12, HandlerLands

\* The creation is lost, or refused.
LEMMA RefusalLands ==
    ASSUME IInv, page = "orders", NEW i \in 1..MaxCalls, calls[i] # None,
           panel' = [panel EXCEPT !.submitting = FALSE], told' \subseteq ToSet(filed),
           calls' = [calls EXCEPT ![i] = None],
           UNCHANGED <<placed, filed, page, account, hasty>>
    PROVE  IInv'
<1>1. Typed /\ Known /\ Patient
  BY DEF IInv
<1>2. /\ panel' \in PanelStates /\ panel'.no = panel.no /\ panel'.tickets = panel.tickets
      /\ panel'.submitting = FALSE
  BY <1>1 DEF Typed, PanelStates
<1>3. Distinct(panel'.tickets) /\ told' \subseteq ToSet(filed)
  BY <1>1, <1>2 DEF Typed, Known
<1>4. ~hasty => PanelShows'
  BY <1>1, <1>2 DEF Patient, PanelShows
<1>5. Released(panel, panel', calls[i].op = "file")
  BY <1>2 DEF Released
<1> QED BY <1>2, <1>3, <1>4, <1>5, PanelEnds

\* The list read after the creation lands, or the created ticket is added to the list shown.
LEMMA FilingLands ==
    ASSUME IInv, page = "orders", NEW i \in 1..MaxCalls, calls[i] # None,
           NEW c, c = calls[i], PanelCall(c), c.op = "file", c.at = 2,
           panel' = LandInPanel(c), told' \subseteq ToSet(filed),
           calls' = [calls EXCEPT ![i] = None],
           UNCHANGED <<placed, filed, page, account, hasty>>
    PROVE  IInv'
<1>1. Typed /\ Known /\ Patient
  BY DEF IInv
<1>2. /\ c.made \in ToSet(filed) /\ c.made.order = c.no /\ c.made \in TicketRows
      /\ panel \in PanelStates /\ panel.tickets \in Seq(TicketRows) /\ Distinct(panel.tickets)
  BY <1>1 DEF PanelCall, HandlerOK, Typed, Known, PanelStates, ToSet
<1>3. told' \subseteq ToSet(filed)
  BY <1>1, <1>2 DEF Typed
<1>4. PICK s, from : /\ s = IF c.ans = Failed THEN Upsert(panel.tickets, c.made) ELSE c.ans
                     /\ from = IF c.ans = Failed THEN "remote-error" ELSE "remote"
  OBVIOUS
<1>5. panel' = Listing(TRUE, s, from)
  <2>1. PICK ended : ended = [panel EXCEPT !.submitting = FALSE]
    OBVIOUS
  <2>2. ended.tickets = panel.tickets
    BY <1>2, <2>1 DEF PanelStates
  <2>3. panel' = [ended EXCEPT !.tickets = s, !.source = from]
    <3>1. CASE c.ans = Failed
      <4>1. panel' = [ended EXCEPT !.tickets = Upsert(@, c.made), !.source = "remote-error"]
        BY <2>1, <3>1 DEF LandInPanel
      <4> QED BY <1>4, <2>2, <3>1, <4>1
    <3>2. CASE c.ans # Failed
      BY <1>4, <2>1, <3>2 DEF LandInPanel
    <3> QED BY <3>1, <3>2
  <2> QED BY <2>1, <2>3 DEF Listing, EndedPanel
<1>6. s \in Seq(TicketRows) /\ Distinct(s) /\ from \in {"remote", "remote-error"}
  <2>1. CASE c.ans = Failed
    BY <1>2, <1>4, <2>1, UpsertKeeps
  <2>2. CASE c.ans # Failed
    BY <1>4, <2>2 DEF PanelCall, AnswerOK
  <2> QED BY <2>1, <2>2
<1>7. /\ panel' \in PanelStates /\ panel'.no = panel.no /\ panel'.tickets = s
      /\ Released(panel, panel', TRUE)
  BY <1>2, <1>5, <1>6, PanelListed
<1>8. Released(panel, panel', calls[i].op = "file")
  BY <1>7 DEF Released
<1>9. ASSUME ~hasty
      PROVE  PanelShows'
  <2>1. c.no = panel.no /\ \A t \in ToSet(panel.tickets) : t.order = panel.no
    BY <1>9 DEF PanelCall, HandlerShows, ShowsFor, PanelShows
  <2>2. CASE c.ans = Failed
    <3>1. ToSet(s) \subseteq ToSet(panel.tickets) \cup {c.made}
      BY <1>2, <1>4, <2>2, UpsertKeeps
    <3> QED BY <1>2, <1>7, <2>1, <3>1 DEF PanelShows
  <2>3. CASE c.ans # Failed
    <3>1. \A t \in ToSet(s) : t.order = panel.no
      BY <1>4, <2>1, <2>3 DEF PanelCall, AnswerOK
    <3> QED BY <1>7, <3>1 DEF PanelShows
  <2> QED BY <2>2, <2>3
<1> QED BY <1>3, <1>6, <1>7, <1>8, <1>9, PanelEnds

LEMMA PanelLandKeeps ==
    ASSUME IInv, page # "account", NEW i \in DOMAIN calls, Land(i)
    PROVE  IInv'
<1>1. PICK c : c = calls[i]
  OBVIOUS
<1>2. i \in 1..MaxCalls /\ calls[i] # None /\ PanelCall(c) /\ page = "orders"
  BY <1>1, PanelCallIs
<1>3. /\ calls' = [calls EXCEPT ![i] = IF GoesOn(c) THEN NextCall(c) ELSE None]
      /\ panel' = IF GoesOn(c) THEN panel ELSE LandInPanel(c)
      /\ UNCHANGED <<placed, filed, page, account, hasty>>
  BY <1>1 DEF Land
<1>4. told' \subseteq ToSet(filed)
  BY <1>2, ToldIsFiled
<1>5. (c.op = "list" /\ c.at = 1) \/ (c.op = "file" /\ c.at \in {1, 2})
  BY <1>2 DEF PanelCall
<1>6. CASE c.op = "list"
  <2>1. ~GoesOn(c)
    BY <1>3, <1>5, <1>6, StepsAre DEF GoesOn
  <2>2. calls' = [calls EXCEPT ![i] = None] /\ panel' = LandInPanel(c)
    BY <1>3, <2>1
  <2> QED BY <1>1, <1>2, <1>3, <1>6, <1>4, <2>1, <2>2, ListLands
<1>7. CASE c.op = "file" /\ c.at = 1 /\ c.ans # Failed
  <2>1. GoesOn(c)
    BY <1>3, <1>7, StepsAre DEF GoesOn
  <2>2. calls' = [calls EXCEPT ![i] = NextCall(c)] /\ panel' = panel
    BY <1>3, <2>1
  <2> QED BY <1>1, <1>2, <1>3, <1>7, <1>4, <2>1, <2>2, CreationLands
<1>8. CASE c.op = "file" /\ c.at = 1 /\ c.ans = Failed
  <2>1. ~GoesOn(c)
    BY <1>3, <1>8 DEF GoesOn
  <2>2. calls' = [calls EXCEPT ![i] = None] /\ panel' = LandInPanel(c)
    BY <1>3, <2>1
  <2>3. panel' = [panel EXCEPT !.submitting = FALSE]
    BY <1>8, <2>2 DEF LandInPanel
  <2> QED BY <1>2, <1>3, <1>4, <2>1, <2>2, <2>3, RefusalLands
<1>9. CASE c.op = "file" /\ c.at = 2
  <2>1. ~GoesOn(c)
    BY <1>3, <1>9, StepsAre DEF GoesOn
  <2>2. calls' = [calls EXCEPT ![i] = None] /\ panel' = LandInPanel(c)
    BY <1>3, <2>1
  <2> QED BY <1>1, <1>2, <1>3, <1>9, <1>4, <2>1, <2>2, FilingLands
<1> QED BY <1>5, <1>6, <1>7, <1>8, <1>9
-----------------------------------------------------------------------------
(* The theorems                                                            *)

LEMMA Fresh ==
    /\ FreshAccount \in AccountStates /\ FreshAccount.orders = <<>> /\ FreshAccount.no = None
    /\ FreshAccount.detail = None /\ FreshAccount.submitting = FALSE
    /\ FreshPanel \in PanelStates /\ FreshPanel.no = None /\ FreshPanel.tickets = <<>>
    /\ FreshPanel.submitting = FALSE
BY DEF FreshAccount, FreshPanel, AccountStates, PanelStates

LEMMA NothingListed == ToSet(<<>>) = {} /\ Distinct(<<>>) /\ \A S : <<>> \in Seq(S)
BY DEF ToSet, Distinct

\* A page entered starts afresh.
LEMMA GoToKeeps ==
    ASSUME IInv, NEW p \in {"away", "account", "orders"}, GoTo(p)
    PROVE  IInv'
<1>1. Typed
  BY DEF IInv
<1>2. /\ page' = p /\ panel' = FreshPanel /\ told' = {} /\ hasty' = FALSE
      /\ UNCHANGED <<placed, sent, filed>>
  BY DEF GoTo
<1> DEFINE none == [i \in DOMAIN calls |-> None]
<1>3. none \in [1..MaxCalls -> Handler \cup {None}] /\ \A j \in 1..MaxCalls : none[j] = None
  BY <1>1 DEF Typed
<1>4. \/ /\ p = "account" /\ account' = [FreshAccount EXCEPT !.loading = TRUE]
         /\ calls' \in Ask(none, Call("load", None))
      \/ p # "account" /\ account' = FreshAccount /\ calls' = none
  BY DEF GoTo
<1> HIDE DEF none
<1>5. PICK c : c = Call("load", None)
  OBVIOUS
<1>6. /\ c \in Handler /\ c # None
      /\ c.op = "load" /\ c.no = None /\ c.at = 1 /\ c.ans = Waiting
  BY <1>5, CallStarts
<1>7. \/ p # "account" /\ calls' = none
      \/ /\ p = "account" /\ calls' \in [1..MaxCalls -> Handler \cup {None}]
         /\ \E i \in 1..MaxCalls : Takes(none, calls', c, i)
  <2>1. CASE p = "account"
    <3>1. calls' \in Ask(none, c)
      BY <1>4, <1>5, <2>1
    <3>2. calls' \in [1..MaxCalls -> Handler \cup {None}]
      BY <1>3, <1>6, <3>1, AskTakesSlot
    <3>3. \E i \in 1..MaxCalls : Takes(none, calls', c, i)
      BY <1>3, <1>6, <3>1, AskTakesSlot
    <3> QED BY <2>1, <3>2, <3>3
  <2>2. CASE p # "account"
    BY <1>4, <2>2
  <2> QED BY <2>1, <2>2
<1>8. /\ account' \in AccountStates /\ account'.orders = <<>> /\ account'.no = None
      /\ account'.detail = None /\ account'.submitting = FALSE
  BY <1>4, Fresh DEF AccountStates
<1>9. calls' \in [1..MaxCalls -> Handler \cup {None}]
  BY <1>3, <1>7
<1>10. /\ \A j \in Busy' : j \in 1..MaxCalls /\ calls'[j] = c /\ p = "account"
       /\ \A j, k \in Busy' : j = k
  <2>1. CASE p # "account" /\ calls' = none
    BY <1>3, <1>9, <2>1 DEF Busy
  <2>2. CASE p = "account" /\ \E i \in 1..MaxCalls : Takes(none, calls', c, i)
    <3>1. PICK i \in 1..MaxCalls : Takes(none, calls', c, i)
      BY <2>2
    <3>2. calls'[i] = c /\ \A j \in 1..MaxCalls \ {i} : calls'[j] = None
      BY <1>3, <3>1 DEF Takes
    <3>3. \A j \in Busy' : j = i
      BY <1>9, <3>2 DEF Busy
    <3> QED BY <2>2, <3>2, <3>3
  <2> QED BY <1>7, <2>1, <2>2
<1>11. Typed'
  BY <1>1, <1>2, <1>8, <1>9, Fresh DEF Typed
<1>12. Known'
  BY <1>2, <1>8, Fresh, NothingListed DEF Known
<1>13. HandlersOK(ToSet(placed), ToSet(filed), page, calls)'
  <2>1. p = "account" => HandlerOK(ToSet(placed), ToSet(filed), p, c)
    BY <1>6, StepsAre DEF HandlerOK
  <2>2. \A j \in DOMAIN calls' : calls'[j] # None => calls'[j] = c /\ p = "account"
    BY <1>10 DEF Busy
  <2>3. HandlersOK(ToSet(placed), ToSet(filed), p, calls')
    BY <2>1, <2>2 DEF HandlersOK
  <2> QED BY <1>2, <2>3
<1>14. FormsWait'
  BY <1>2, <1>8, Fresh DEF FormsWait
<1>15. Patient'
  <2>1. OneAtATime'
    BY <1>10 DEF OneAtATime
  <2>2. AccountShows' /\ PanelShows'
    BY <1>2, <1>8, Fresh, NothingListed DEF AccountShows, PanelShows
  <2>3. HandlerShows(c)'
    BY <1>6, <1>8 DEF HandlerShows, ShowsFor
  <2>4. \A j \in Busy' : HandlerShows(calls[j])'
    <3>1. ASSUME NEW j \in Busy'
          PROVE  HandlerShows(calls[j])'
      <4>1. calls'[j] = c
        BY <1>10
      <4> QED BY <2>3, <4>1 DEF HandlerShows
    <3> QED BY <3>1
  <2> QED BY <2>1, <2>2, <2>4 DEF Patient
<1> QED BY <1>11, <1>12, <1>13, <1>14, <1>15 DEF IInv

LEMMA InitFits == Init => IInv
<1> SUFFICES ASSUME Init
             PROVE  IInv
  OBVIOUS
<1>1. /\ placed \in {<<>>} \cup {<<o>> : o \in Orders} /\ filed = <<>>
      /\ page = "away" /\ account = FreshAccount /\ panel = FreshPanel
      /\ calls = [i \in 1..MaxCalls |-> None] /\ told = {} /\ hasty = FALSE
  BY DEF Init
<1>2. placed \in Seq(Orders)
  <2>1. CASE placed = <<>>
    BY <2>1, NothingListed
  <2>2. CASE \E o \in Orders : placed = <<o>>
    BY <2>2
  <2> QED BY <1>1, <2>1, <2>2
<1>3. Busy = {} /\ calls \in [1..MaxCalls -> Handler \cup {None}]
  BY <1>1 DEF Busy
<1>4. Typed
  BY <1>1, <1>2, <1>3, Fresh, NothingListed DEF Typed
<1>5. Known
  BY <1>1, Fresh, NothingListed DEF Known
<1>6. HandlersOK(ToSet(placed), ToSet(filed), page, calls)
  BY <1>1 DEF HandlersOK
<1>7. FormsWait
  BY <1>1, Fresh DEF FormsWait
<1>8. Patient
  BY <1>1, <1>3, Fresh, NothingListed DEF Patient, OneAtATime, AccountShows, PanelShows
<1> QED BY <1>4, <1>5, <1>6, <1>7, <1>8 DEF IInv

LEMMA StepKeeps == IInv /\ [Next]_vars => IInv'
<1> SUFFICES ASSUME IInv, [Next]_vars
             PROVE  IInv'
  OBVIOUS
<1>1. CASE Account
  BY <1>1, AccountKeeps
<1>2. CASE FileTicket
  BY <1>2, FileTicketKeeps
<1>3. ASSUME NEW o \in ToSet(placed) \cup {None}, ShowOrder(o)
      PROVE  IInv'
  BY <1>3, ShowOrderKeeps
<1>4. ASSUME NEW i \in DOMAIN calls, Serve(i)
      PROVE  IInv'
  BY <1>4, ServeKeeps
<1>5. ASSUME NEW i \in DOMAIN calls, Fail(i)
      PROVE  IInv'
  BY <1>5, FailKeeps
<1>6. ASSUME NEW i \in DOMAIN calls, Land(i)
      PROVE  IInv'
  BY <1>6, AccountLandKeeps, PanelLandKeeps
<1>7. CASE ServerMoves
  BY <1>7, ServerMovesKeeps
<1>8. ASSUME NEW p \in {"away", "account", "orders"}, GoTo(p)
      PROVE  IInv'
  BY <1>8, GoToKeeps
<1>9. CASE UNCHANGED vars
  <2>1. /\ placed' \in Seq(Orders) /\ ToSet(placed) \subseteq ToSet(placed')
        /\ filed' \in Seq(TicketRows) /\ Distinct(filed') /\ ToSet(filed) \subseteq ToSet(filed')
    BY <1>9 DEF vars, IInv, Typed
  <2> QED BY <1>9, <2>1, ServerGrows DEF vars
<1> QED BY <1>1, <1>2, <1>3, <1>4, <1>5, <1>6, <1>7, <1>8, <1>9 DEF Next, Panel, Answers

LEMMA AlwaysFits == Spec => []IInv
BY InitFits, StepKeeps, PTL DEF Spec

\* The two pages and their handlers keep to their types, and a form being submitted has a handler
\* that will enable it again, whatever is clicked, answered or lost.
THEOREM DeskIsTyped == Spec => []TypeOK
<1>1. IInv => TypeOK
  <2> SUFFICES ASSUME IInv
               PROVE  TypeOK
    OBVIOUS
  <2>1. Typed /\ HandlersOK(ToSet(placed), ToSet(filed), page, calls) /\ FormsWait /\ Known
    BY DEF IInv
  <2>2. /\ account.tickets \in Seq(TicketRows) /\ panel.tickets \in Seq(TicketRows)
        /\ account.orders \in Seq(Orders) /\ placed \in Seq(Orders)
        /\ account.detail \in Details \cup {None} /\ account.delivery \in Orders \cup {None}
        /\ panel.source \in {"remote", "remote-error"}
    BY <2>1 DEF Typed, AccountStates, PanelStates
  <2>3. /\ ToSet(account.tickets) \cup ToSet(panel.tickets) \subseteq TicketRows
        /\ ToSet(account.orders) \cup ToSet(placed) \subseteq Orders
    BY <2>2 DEF ToSet
  <2>4. \A i \in Busy : calls[i].at \in 1..Steps(calls[i].op)
    BY <2>1 DEF Busy, HandlersOK, HandlerOK
  <2> QED BY <2>1, <2>2, <2>3, <2>4 DEF TypeOK, FormsWait
<1> QED BY <1>1, AlwaysFits, PTL

\* A buyer who lets each answer come sees one order at a time, on the account page and in the
\* panel, however the server's answers fall or fail.
THEOREM PatientBuyerSeesOneOrder == Spec => []OneOrderAtATime
<1>1. IInv => OneOrderAtATime
  BY DEF IInv, Patient, AccountShows, PanelShows, OneOrderAtATime
<1> QED BY <1>1, AlwaysFits, PTL

-----------------------------------------------------------------------------
(* The tickets told of                                                     *)

Mine(known, o) == {t \in known : t.order = o}

\* The lists of a reload have every ticket told of before they land.
ListsHave(known, c) ==
    c.op = "load" /\ c.at = 1 /\ c.ans \notin {Waiting, Failed} => known \subseteq ToSet(c.ans.tickets)

\* While the panel reads its list no ticket has been told of.  Of a ticket it filed for an order it
\* no longer shows neither, and the form stays closed; the list read afterwards has that ticket.
FilingHas(known, o, filing, c) ==
    /\ c.op = "list" /\ c.live => known = {}
    /\ c.op = "file" => filing /\ (c.no # o => known = {})
    /\ c.op = "file" /\ c.at = 2 /\ c.ans \notin {Waiting, Failed} =>
           Mine(known, c.no) \cup {c.made} \subseteq ToSet(c.ans)

OneFiling(cs) == \A i, j \in DOMAIN cs :
                    cs[i] # None /\ cs[j] # None /\ cs[i].op = "file" /\ cs[j].op = "file" => i = j

AccountTold(listed, known, cs) ==
    /\ known \subseteq ToSet(listed)
    /\ \A i \in DOMAIN cs : cs[i] # None => ListsHave(known, cs[i])
PanelTold(listed, known, o, filing, cs) ==
    /\ Mine(known, o) \subseteq ToSet(listed)
    /\ \A i \in DOMAIN cs : cs[i] # None => FilingHas(known, o, filing, cs[i])
    /\ OneFiling(cs)

KInv ==
    /\ page = "account" => AccountTold(account.tickets, told, calls)
    /\ page = "orders" => PanelTold(panel.tickets, told, panel.no, panel.submitting, calls)

\* A list is on its way in these slots.
SomeReading(cs) == \E j \in DOMAIN cs : cs[j] # None /\ Reading(cs[j])

OneSlot(cs, ds, i) ==
    i \in DOMAIN cs /\ DOMAIN ds = DOMAIN cs /\ \A j \in DOMAIN cs \ {i} : ds[j] = cs[j]

AccountMoves(known, cs, after, then, ds, i) ==
    /\ OneSlot(cs, ds, i) /\ (then = known \/ ~SomeReading(cs))
    /\ then \subseteq ToSet(after)
    /\ ds[i] # None => ListsHave(then, ds[i])

PanelMoves(known, o, filing, cs, after, then, goesOn, ds, i) ==
    /\ OneSlot(cs, ds, i) /\ (then = known \/ ~SomeReading(cs))
    /\ Mine(then, o) \subseteq ToSet(after)
    /\ \/ cs[i] # None /\ cs[i].op = "file"
       \/ then = known /\ (filing => goesOn)
    /\ ds[i] # None => FilingHas(then, o, goesOn, ds[i])
    /\ ds[i] # None /\ ds[i].op = "file" =>
           \/ cs[i] # None /\ cs[i].op = "file"
           \/ \A j \in DOMAIN cs : cs[j] # None => cs[j].op # "file"

\* One handler of the account page has changed, in its slot i.
LEMMA AccountStep ==
    ASSUME NEW listed, NEW known, NEW cs, AccountTold(listed, known, cs),
           NEW after, NEW then, NEW ds, NEW i, AccountMoves(known, cs, after, then, ds, i)
    PROVE  AccountTold(after, then, ds)
<1>0. /\ OneSlot(cs, ds, i) /\ (then = known \/ ~SomeReading(cs))
      /\ then \subseteq ToSet(after)
      /\ ds[i] # None => ListsHave(then, ds[i])
  BY DEF AccountMoves
<1>1. ASSUME NEW j \in DOMAIN ds, ds[j] # None
      PROVE  ListsHave(then, ds[j])
  <2>1. CASE j = i
    BY <1>0, <1>1, <2>1
  <2>2. CASE j # i
    <3>1. j \in DOMAIN cs /\ cs[j] = ds[j] /\ ListsHave(known, cs[j])
      BY <1>0, <1>1, <2>2 DEF AccountTold, OneSlot
    <3>2. then = known \/ ~Reading(cs[j])
      BY <1>0, <1>1, <3>1 DEF SomeReading
    <3> QED BY <3>1, <3>2 DEF ListsHave, Reading
  <2> QED BY <2>1, <2>2
<1> QED BY <1>0, <1>1 DEF AccountTold

\* One handler of the panel has changed, in its slot i, and the panel with it.
LEMMA PanelStep ==
    ASSUME NEW listed, NEW known, NEW o, NEW filing, NEW cs, PanelTold(listed, known, o, filing, cs),
           NEW after, NEW then, NEW goesOn, NEW ds, NEW i,
           PanelMoves(known, o, filing, cs, after, then, goesOn, ds, i)
    PROVE  PanelTold(after, then, o, goesOn, ds)
<1>0. /\ OneFiling(cs)
      /\ i \in DOMAIN cs /\ DOMAIN ds = DOMAIN cs /\ \A j \in DOMAIN cs \ {i} : ds[j] = cs[j]
      /\ then = known \/ ~SomeReading(cs)
      /\ Mine(then, o) \subseteq ToSet(after)
      /\ \/ cs[i] # None /\ cs[i].op = "file"
         \/ then = known /\ (filing => goesOn)
      /\ ds[i] # None => FilingHas(then, o, goesOn, ds[i])
      /\ ds[i] # None /\ ds[i].op = "file" =>
             \/ cs[i] # None /\ cs[i].op = "file"
             \/ \A j \in DOMAIN cs : cs[j] # None => cs[j].op # "file"
  BY DEF PanelTold, PanelMoves, OneSlot
<1>1. ASSUME NEW j \in DOMAIN ds, ds[j] # None
      PROVE  FilingHas(then, o, goesOn, ds[j])
  <2>1. CASE j = i
    BY <1>0, <1>1, <2>1
  <2>2. CASE j # i
    <3>1. j \in DOMAIN cs /\ cs[j] = ds[j] /\ FilingHas(known, o, filing, cs[j])
      BY <1>0, <1>1, <2>2 DEF PanelTold
    <3>2. then = known \/ ~Reading(cs[j])
      BY <1>0, <1>1, <3>1 DEF SomeReading
    <3>3. CASE cs[j].op = "file"
      <4>1. ~(cs[i] # None /\ cs[i].op = "file")
        BY <1>0, <1>1, <2>2, <3>1, <3>3 DEF OneFiling
      <4> QED BY <1>0, <3>1, <3>3, <4>1 DEF FilingHas
    <3>4. CASE cs[j].op # "file"
      BY <3>1, <3>2, <3>4 DEF FilingHas, Reading
    <3> QED BY <3>3, <3>4
  <2> QED BY <2>1, <2>2
<1>2. OneFiling(ds)
  BY <1>0 DEF OneFiling
<1> QED BY <1>0, <1>1, <1>2 DEF PanelTold

\* A click starts a handler: the lists shown and the tickets told of stay.
LEMMA ClickTells ==
    ASSUME IInv, KInv, NEW c \in Handler, c.ans = Waiting, c.op # "list",
           c.op = "file" => c.no = panel.no /\ ~panel.submitting /\ panel'.submitting,
           c.op # "file" => panel'.submitting = panel.submitting,
           calls' \in Ask(calls, c),
           account'.tickets = account.tickets,
           panel'.no = panel.no, panel'.tickets = panel.tickets,
           UNCHANGED <<page, told>>
    PROVE  KInv'
<1>1. calls \in [1..MaxCalls -> Handler \cup {None}]
  BY DEF IInv, Typed
<1>2. PICK i \in 1..MaxCalls : Takes(calls, calls', c, i)
  BY <1>1, AskTakesSlot
<1>3. DOMAIN calls = 1..MaxCalls /\ DOMAIN calls' = 1..MaxCalls
  BY <1>1, AskTakesSlot
<1>4. /\ calls[i] = None /\ calls'[i] = c
      /\ \A j \in DOMAIN calls \ {i} : calls'[j] = calls[j]
  BY <1>2, <1>3 DEF Takes
<1>5. ASSUME page = "account"
      PROVE  AccountTold(account'.tickets, told, calls')
  <2>1. AccountTold(account.tickets, told, calls) /\ told \subseteq ToSet(account'.tickets)
    BY <1>5 DEF KInv, AccountTold
  <2>2. ListsHave(told, c)
    BY DEF ListsHave
  <2>3. AccountMoves(told, calls, account'.tickets, told, calls', i)
    BY <1>3, <1>4, <2>1, <2>2 DEF AccountMoves, OneSlot
  <2> QED BY <2>1, <2>3, AccountStep
<1>6. ASSUME page = "orders"
      PROVE  PanelTold(panel'.tickets, told, panel.no, panel'.submitting, calls')
  <2>1. /\ PanelTold(panel.tickets, told, panel.no, panel.submitting, calls)
        /\ Mine(told, panel.no) \subseteq ToSet(panel'.tickets)
    BY <1>6 DEF KInv, PanelTold
  <2>2. FilingHas(told, panel.no, panel'.submitting, c)
    BY DEF FilingHas
  <2>3. ~panel.submitting => \A j \in DOMAIN calls : calls[j] # None => calls[j].op # "file"
    BY <2>1 DEF PanelTold, FilingHas
  <2>4. panel.submitting => panel'.submitting
    OBVIOUS
  <2>5. calls'[i] # None /\ calls'[i].op = "file" =>
            \A j \in DOMAIN calls : calls[j] # None => calls[j].op # "file"
    BY <1>4, <2>3
  <2>6. calls'[i] # None => FilingHas(told, panel.no, panel'.submitting, calls'[i])
    BY <1>4, <2>2
  <2>7. PanelMoves(told, panel.no, panel.submitting, calls, panel'.tickets, told, panel'.submitting, calls', i)
    BY <1>3, <1>4, <2>1, <2>4, <2>5, <2>6 DEF PanelMoves, OneSlot
  <2> QED BY <2>1, <2>7, PanelStep
<1> QED BY <1>5, <1>6 DEF KInv

LEMMA AccountTells ==
    ASSUME IInv, KInv, Account
    PROVE  KInv'
<1>1. /\ account \in AccountStates /\ panel \in PanelStates
      /\ account.no \in Orders \cup {None} /\ None \in Orders \cup {None}
      /\ \A k \in DOMAIN account.orders : account.orders[k] \in Orders \cup {None}
  BY DEF IInv, Typed, AccountStates
<1>2. PICK op \in {"load", "select", "delivery", "ticket"}, o \in Orders \cup {None} :
         calls' \in Ask(calls, Call(op, o))
  BY <1>1 DEF Account, Reload, SelectOrder, LoadDeliveryResult, SubmitTicket
<1>3. PICK c : c = Call(op, o)
  OBVIOUS
<1>4. c \in Handler /\ c.ans = Waiting /\ c.op = op
  BY <1>3, CallStarts
<1>5. /\ account' = [account EXCEPT !.loading = TRUE] \/ account' = [account EXCEPT !.submitting = TRUE]
      /\ UNCHANGED <<page, panel, told>>
  BY DEF Account, Reload, SelectOrder, LoadDeliveryResult, SubmitTicket
<1>6. account'.tickets = account.tickets
  BY <1>1, <1>5 DEF AccountStates
<1>7. calls' \in Ask(calls, c)
  BY <1>2, <1>3
<1>8. c.op # "list" /\ c.op # "file"
  BY <1>4
<1> QED BY <1>4, <1>5, <1>6, <1>7, <1>8, ClickTells

LEMMA FileTicketTells ==
    ASSUME IInv, KInv, FileTicket
    PROVE  KInv'
<1>1. panel.no \in Orders \cup {None} /\ panel \in PanelStates
  BY DEF IInv, Typed, PanelStates
<1>2. PICK c : c = Call("file", panel.no)
  OBVIOUS
<1>3. c \in Handler /\ c.ans = Waiting /\ c.op = "file" /\ c.no = panel.no
  BY <1>1, <1>2, CallStarts
<1>4. /\ ~panel.submitting /\ panel' = [panel EXCEPT !.submitting = TRUE]
      /\ calls' \in Ask(calls, c) /\ UNCHANGED <<page, account, told>>
  BY <1>2 DEF FileTicket
<1>5. panel'.no = panel.no /\ panel'.tickets = panel.tickets /\ panel'.submitting
  BY <1>1, <1>4 DEF PanelStates
<1> QED BY <1>3, <1>4, <1>5, ClickTells

\* The panel turns to another order, of which no ticket was told.
LEMMA ShowOrderTells ==
    ASSUME IInv, KInv, NEW o \in ToSet(placed) \cup {None}, ShowOrder(o)
    PROVE  KInv'
<1>1. Typed /\ panel \in PanelStates
  BY DEF IInv, Typed
<1> DEFINE dropped == [i \in DOMAIN calls |->
                       IF i \in Busy /\ calls[i].op = "list" THEN [calls[i] EXCEPT !.live = FALSE] ELSE calls[i]]
<1>2. /\ page = "orders" /\ page' = "orders" /\ told' = {}
      /\ \/ o = None /\ panel' = [Reshown(o) EXCEPT !.source = "remote"] /\ calls' = dropped
         \/ /\ o # None /\ panel' = [Reshown(o) EXCEPT !.loading = TRUE]
            /\ calls' \in Ask(dropped, Call("list", o))
  BY DEF ShowOrder
<1>3. DOMAIN calls = 1..MaxCalls /\ calls \in [1..MaxCalls -> Handler \cup {None}]
  BY <1>1 DEF Typed
<1>4. PanelTold(panel.tickets, told, panel.no, panel.submitting, calls)
  BY <1>2 DEF KInv
<1>5. ASSUME NEW j \in 1..MaxCalls
      PROVE  /\ dropped[j] \in Handler \cup {None}
             /\ dropped[j] # None => /\ calls[j] # None /\ dropped[j].op = calls[j].op
                                     /\ FilingHas({}, o, panel.submitting, dropped[j])
  <2>1. CASE calls[j] # None /\ calls[j].op = "list"
    <3>1. PICK d : d = [calls[j] EXCEPT !.live = FALSE]
      OBVIOUS
    <3>2. d \in Handler /\ d.op = "list" /\ ~d.live
      BY <1>3, <2>1, <3>1 DEF Handler
    <3>3. dropped[j] = d
      BY <1>3, <2>1, <3>1 DEF Busy
    <3>4. FilingHas({}, o, panel.submitting, d)
      BY <3>2 DEF FilingHas
    <3> QED BY <2>1, <3>2, <3>3, <3>4
  <2>2. CASE calls[j] # None /\ calls[j].op # "list"
    <3>1. dropped[j] = calls[j] /\ calls[j] \in Handler
      BY <1>3, <2>2
    <3>2. FilingHas(told, panel.no, panel.submitting, calls[j])
      BY <1>3, <1>4, <2>2 DEF PanelTold
    <3>3. FilingHas({}, o, panel.submitting, calls[j])
      BY <2>2, <3>2 DEF FilingHas, Mine
    <3> QED BY <2>2, <3>1, <3>3
  <2>3. CASE calls[j] = None
    BY <1>3, <2>3 DEF Busy
  <2> QED BY <2>1, <2>2, <2>3
<1>6. dropped \in [1..MaxCalls -> Handler \cup {None}]
  <2>1. dropped = [j \in 1..MaxCalls |-> dropped[j]]
    BY <1>3
  <2>2. \A j \in 1..MaxCalls : dropped[j] \in Handler \cup {None}
    BY <1>5
  <2> HIDE DEF dropped
  <2> QED BY <2>1, <2>2
<1> HIDE DEF dropped
<1>7. panel'.no = o /\ panel'.submitting = panel.submitting
  <2>1. PICK q : q = [panel EXCEPT !.no = o]
    OBVIOUS
  <2>2. DOMAIN q = DOMAIN panel /\ q.no = o /\ q.submitting = panel.submitting
    BY <1>1, <2>1 DEF PanelStates
  <2>3. PICK p : p = [q EXCEPT !.tickets = <<>>]
    OBVIOUS
  <2>4. DOMAIN p = DOMAIN panel /\ p.no = o /\ p.submitting = panel.submitting
    BY <2>2, <2>3
  <2>5. panel' = [p EXCEPT !.source = "remote"] \/ panel' = [p EXCEPT !.loading = TRUE]
    BY <1>2, <2>1, <2>3 DEF Reshown
  <2>6. CASE panel' = [p EXCEPT !.source = "remote"]
    BY <1>1, <2>4, <2>6 DEF PanelStates
  <2>7. CASE panel' = [p EXCEPT !.loading = TRUE]
    BY <1>1, <2>4, <2>7 DEF PanelStates
  <2> QED BY <2>5, <2>6, <2>7
<1>8. ASSUME NEW j \in 1..MaxCalls, calls'[j] # None
      PROVE  /\ FilingHas({}, o, panel.submitting, calls'[j])
             /\ calls'[j].op = "file" => calls[j] # None /\ calls[j].op = "file"
  <2>1. CASE o = None
    BY <1>2, <1>5, <1>8, <2>1
  <2>2. CASE o # None
    <3>1. PICK c : c = Call("list", o)
      OBVIOUS
    <3>2. c \in Handler /\ c.op = "list" /\ c.ans = Waiting
      BY <1>1, <3>1, CallStarts DEF Typed, ToSet
    <3>3. calls' \in Ask(dropped, c)
      BY <1>2, <2>2, <3>1
    <3>4. \E i \in 1..MaxCalls : Takes(dropped, calls', c, i)
      BY <1>6, <3>2, <3>3, AskTakesSlot
    <3>5. calls'[j] = c \/ calls'[j] = dropped[j]
      BY <3>4 DEF Takes
    <3>6. FilingHas({}, o, panel.submitting, c)
      BY <3>2 DEF FilingHas
    <3> QED BY <1>5, <1>8, <3>2, <3>5, <3>6
  <2> QED BY <2>1, <2>2
<1>9. DOMAIN calls' = 1..MaxCalls
  <2>1. CASE o = None
    BY <1>2, <1>6, <2>1
  <2>2. CASE o # None
    BY <1>2, <1>6, <2>2 DEF Ask
  <2> QED BY <2>1, <2>2
<1>10. OneFiling(calls')
  BY <1>3, <1>4, <1>8, <1>9 DEF PanelTold, OneFiling
<1>11. Mine({}, o) \subseteq ToSet(panel'.tickets)
  BY DEF Mine
<1>12. PanelTold(panel'.tickets, {}, o, panel.submitting, calls')
  BY <1>8, <1>9, <1>10, <1>11 DEF PanelTold
<1> QED BY <1>2, <1>7, <1>12 DEF KInv

\* An answer that comes in has the tickets told of.
AnswerHas(known, c, a) ==
    a \notin {Waiting, Failed} =>
        /\ c.op = "load" /\ c.at = 1 => known \subseteq ToSet(a.tickets)
        /\ c.op = "file" /\ c.at = 2 => Mine(known, c.no) \cup {c.made} \subseteq ToSet(a)

LEMMA AnswerTells ==
    ASSUME IInv, KInv, NEW i \in 1..MaxCalls, calls[i] # None, NEW a, AnswerHas(told, calls[i], a),
           calls' = [calls EXCEPT ![i].ans = a], UNCHANGED <<page, account, panel, told>>
    PROVE  KInv'
<1>1. calls \in [1..MaxCalls -> Handler \cup {None}]
  BY DEF IInv, Typed
<1>2. PICK c : c = calls[i]
  OBVIOUS
<1>3. PICK d : d = With(c, a)
  OBVIOUS
<1>4. c \in Handler /\ Same(c, d) /\ d.ans = a
  BY <1>1, <1>2, <1>3 DEF With, Same, Handler
<1>5. calls' = [calls EXCEPT ![i] = d]
  BY <1>2, <1>3 DEF With
<1>6. OneSlot(calls, calls', i) /\ calls'[i] = d
  BY <1>1, <1>5 DEF OneSlot
<1>7. ASSUME page = "account"
      PROVE  AccountTold(account.tickets, told, calls')
  <2>1. AccountTold(account.tickets, told, calls) /\ told \subseteq ToSet(account.tickets)
    BY <1>7 DEF KInv, AccountTold
  <2>2. ListsHave(told, d)
    BY <1>2, <1>4 DEF ListsHave, AnswerHas, Same
  <2>3. AccountMoves(told, calls, account.tickets, told, calls', i)
    BY <1>6, <2>1, <2>2 DEF AccountMoves
  <2> QED BY <2>1, <2>3, AccountStep
<1>8. ASSUME page = "orders"
      PROVE  PanelTold(panel.tickets, told, panel.no, panel.submitting, calls')
  <2>1. /\ PanelTold(panel.tickets, told, panel.no, panel.submitting, calls)
        /\ Mine(told, panel.no) \subseteq ToSet(panel.tickets)
        /\ FilingHas(told, panel.no, panel.submitting, c)
    BY <1>1, <1>2, <1>8 DEF KInv, PanelTold
  <2>2. FilingHas(told, panel.no, panel.submitting, d)
    BY <1>2, <1>4, <2>1 DEF FilingHas, AnswerHas, Same
  <2>3. calls[i] # None /\ (calls'[i].op = "file" => calls[i].op = "file")
    BY <1>2, <1>4, <1>6 DEF Same
  <2>4. PanelMoves(told, panel.no, panel.submitting, calls, panel.tickets, told, panel.submitting, calls', i)
    BY <1>6, <2>1, <2>2, <2>3 DEF PanelMoves
  <2> QED BY <2>1, <2>4, PanelStep
<1> QED BY <1>7, <1>8 DEF KInv

LEMMA ServeTells ==
    ASSUME IInv, KInv, NEW i \in DOMAIN calls, Serve(i)
    PROVE  KInv'
<1>1. /\ Typed /\ HandlersOK(ToSet(placed), ToSet(filed), page, calls)
      /\ UNCHANGED <<page, account, panel, told>>
  BY DEF IInv, Serve
<1>2. PICK c : c = calls[i]
  OBVIOUS
<1>3. i \in 1..MaxCalls /\ c # None /\ HandlerOK(ToSet(placed), ToSet(filed), page, c)
  BY <1>1, <1>2 DEF Typed, HandlersOK, Serve
<1>4. /\ filed \in Seq(TicketRows) /\ Distinct(filed) /\ told \subseteq ToSet(filed)
  BY <1>1 DEF Typed
<1> DEFINE Hears(ans) == calls' = [calls EXCEPT ![i].ans = ans]
<1>5. ASSUME NEW a, Hears(a), AnswerHas(told, c, a)
      PROVE  KInv'
  BY <1>1, <1>2, <1>3, <1>5, AnswerTells
<1>6. AnswerHas(told, c, Failed)
  BY DEF AnswerHas
<1>7. CASE c.op = "load" /\ c.at = 1
  <2>1. Script(c.op)[c.at] = "lists"
    BY <1>7 DEF Script
  <2>2. Hears([orders |-> placed, tickets |-> filed]) \/ Hears(Failed)
    BY <1>2, <2>1 DEF Serve
  <2>3. AnswerHas(told, c, [orders |-> placed, tickets |-> filed])
    BY <1>4, <1>7 DEF AnswerHas
  <2> HIDE DEF Hears
  <2> QED BY <1>5, <1>6, <2>2, <2>3
<1>8. CASE c.op = "file" /\ c.at = 2
  <2>1. Script(c.op)[c.at] = "tickets"
    BY <1>8 DEF Script
  <2>2. Hears(FiledOn(c.no)) \/ Hears(Failed)
    BY <1>2, <2>1 DEF Serve
  <2>3. PICK a : a = FiledOn(c.no)
    OBVIOUS
  <2>4. \A t \in ToSet(filed) : t.order = c.no => t \in ToSet(a)
    BY <1>4, <2>3, FiledOnIsListed
  <2>5. c.made \in ToSet(filed) /\ c.made.order = c.no
    BY <1>3, <1>8 DEF HandlerOK
  <2>6. AnswerHas(told, c, a)
    BY <1>4, <1>8, <2>4, <2>5 DEF AnswerHas, Mine
  <2> HIDE DEF Hears
  <2> QED BY <1>5, <1>6, <2>2, <2>3, <2>6
<1>9. CASE ~(c.op = "load" /\ c.at = 1) /\ ~(c.op = "file" /\ c.at = 2)
  <2>1. \A a : AnswerHas(told, c, a)
    BY <1>9 DEF AnswerHas
  <2>2. \E a : Hears(a)
    BY <1>2 DEF Serve
  <2> HIDE DEF Hears
  <2> QED BY <1>5, <2>1, <2>2
<1> QED BY <1>7, <1>8, <1>9

LEMMA FailTells ==
    ASSUME IInv, KInv, NEW i \in DOMAIN calls, Fail(i)
    PROVE  KInv'
<1>1. i \in 1..MaxCalls
  BY DEF IInv, Typed
<1>2. AnswerHas(told, calls[i], Failed)
  BY DEF AnswerHas
<1> QED BY <1>1, <1>2, AnswerTells DEF Fail

\* The next call of a handler.
LEMMA NextCallIs ==
    ASSUME NEW c \in Handler, NEW d, d = NextCall(c)
    PROVE  /\ d.op = c.op /\ d.at = 2 /\ d.ans = Waiting
           /\ c.op # "load" => d.no = c.no
<1>1. PICK e : e = [c EXCEPT !.at = 2]
  OBVIOUS
<1>2. DOMAIN e = DOMAIN c /\ e.op = c.op /\ e.at = 2 /\ e.no = c.no /\ e.made = c.made
  BY <1>1 DEF Handler
<1>3. PICK f : f = [e EXCEPT !.ans = Waiting]
  OBVIOUS
<1>4. DOMAIN f = DOMAIN c /\ f.op = c.op /\ f.at = 2 /\ f.no = c.no /\ f.ans = Waiting /\ f.made = c.made
  BY <1>2, <1>3 DEF Handler
<1>5. PICK no : no = IF c.op = "load" THEN Resolved(c.no, c.ans.orders) ELSE c.no
  OBVIOUS
<1>6. PICK g : g = [f EXCEPT !.no = no]
  OBVIOUS
<1>7. /\ DOMAIN g = DOMAIN c /\ g.op = c.op /\ g.at = 2 /\ g.ans = Waiting /\ g.made = c.made
      /\ c.op # "load" => g.no = c.no
  BY <1>4, <1>5, <1>6 DEF Handler
<1>8. PICK made : made = IF c.op = "file" THEN c.ans ELSE c.made
  OBVIOUS
<1>9. d = [g EXCEPT !.made = made]
  BY <1>1, <1>3, <1>5, <1>6, <1>8 DEF NextCall
<1> QED BY <1>7, <1>9 DEF Handler

\* The tickets of the account page when an answer lands.
LEMMA AccountLists ==
    ASSUME account \in AccountStates, NEW c, c.op \in {"load", "select", "delivery", "ticket"},
           c.op = "load" => c.at \in {1, 2}, NEW a, a = LandInAccount(c)
    PROVE  a.tickets = IF c.ans = Failed THEN account.tickets
                       ELSE IF c.op = "ticket" THEN <<c.ans>> \o account.tickets
                       ELSE IF c.op = "load" /\ c.at = 1 THEN c.ans.tickets ELSE account.tickets
<1>1. CASE c.ans = Failed
  <2>1. a = [account EXCEPT !.submitting = FALSE] \/ a = [account EXCEPT !.loading = FALSE]
    BY <1>1 DEF LandInAccount
  <2> QED BY <1>1, <2>1 DEF AccountStates
<1>2. CASE c.ans # Failed /\ c.op = "ticket"
  <2>1. PICK s : s = <<c.ans>> \o account.tickets
    OBVIOUS
  <2>2. PICK b : b = [account EXCEPT !.submitting = FALSE]
    OBVIOUS
  <2>3. DOMAIN b = DOMAIN account /\ b.tickets = account.tickets
    BY <2>2 DEF AccountStates
  <2>4. a = [b EXCEPT !.tickets = s]
    BY <1>2, <2>1, <2>2, <2>3 DEF LandInAccount, TicketLanded
  <2> QED BY <1>2, <2>1, <2>3, <2>4 DEF AccountStates
<1>3. CASE c.ans # Failed /\ c.op = "load" /\ c.at = 1
  <2>1. PICK no : no = Resolved(c.no, c.ans.orders)
    OBVIOUS
  <2>2. PICK b : b = [account EXCEPT !.orders = c.ans.orders]
    OBVIOUS
  <2>3. DOMAIN b = DOMAIN account
    BY <2>2
  <2>4. PICK e : e = [b EXCEPT !.tickets = c.ans.tickets]
    OBVIOUS
  <2>5. DOMAIN e = DOMAIN account /\ e.tickets = c.ans.tickets
    BY <2>3, <2>4 DEF AccountStates
  <2>6. PICK f : f = [e EXCEPT !.no = no]
    OBVIOUS
  <2>7. DOMAIN f = DOMAIN account /\ f.tickets = c.ans.tickets
    BY <2>5, <2>6 DEF AccountStates
  <2>8. PICK next : next = [f EXCEPT !.delivery = None]
    OBVIOUS
  <2>9. DOMAIN next = DOMAIN account /\ next.tickets = c.ans.tickets
    BY <2>7, <2>8 DEF AccountStates
  <2>10. a = IF no # None THEN next ELSE [next EXCEPT !.detail = None, !.loading = FALSE]
    BY <1>3, <2>1, <2>2, <2>4, <2>6, <2>8 DEF LandInAccount, ListsLanded
  <2>11. PICK g : g = [next EXCEPT !.detail = None]
    OBVIOUS
  <2>12. DOMAIN g = DOMAIN account /\ g.tickets = c.ans.tickets
    BY <2>9, <2>11 DEF AccountStates
  <2>13. a = next \/ a = [g EXCEPT !.loading = FALSE]
    BY <2>10, <2>11
  <2>14. a.tickets = c.ans.tickets
    <3>1. CASE a = next
      BY <2>9, <3>1
    <3>2. CASE a = [g EXCEPT !.loading = FALSE]
      BY <2>12, <3>2 DEF AccountStates
    <3> QED BY <2>13, <3>1, <3>2
  <2> QED BY <1>3, <2>14
<1>4. CASE c.ans # Failed /\ ~(c.op = "load" /\ c.at = 1) /\ c.op # "ticket"
  <2>1. PICK b : b = [account EXCEPT !.loading = FALSE]
    OBVIOUS
  <2>2. DOMAIN b = DOMAIN account /\ b.tickets = account.tickets
    BY <2>1 DEF AccountStates
  <2>3. CASE c.op = "delivery"
    <3>1. PICK detail : detail = IF account.detail = None THEN account.detail
                                 ELSE [account.detail EXCEPT !.result = c.ans]
      OBVIOUS
    <3>2. PICK e : e = [b EXCEPT !.delivery = c.ans]
      OBVIOUS
    <3>3. e.detail = account.detail
      BY <2>1, <3>2 DEF AccountStates
    <3>4. a = [e EXCEPT !.detail = detail]
      BY <1>4, <2>1, <2>3, <3>1, <3>2, <3>3 DEF LandInAccount, DeliveryLanded
    <3>5. DOMAIN e = DOMAIN account /\ e.tickets = account.tickets
      BY <2>2, <3>2 DEF AccountStates
    <3> QED BY <1>4, <2>3, <3>4, <3>5 DEF AccountStates
  <2>4. CASE c.op = "load"
    <3>1. c.at = 2
      BY <1>4, <2>4
    <3>2. a = [account EXCEPT !.loading = FALSE, !.detail = c.ans, !.delivery = c.ans.result]
      BY <1>4, <2>4, <3>1 DEF LandInAccount
    <3>3. PICK e : e = [b EXCEPT !.detail = c.ans]
      OBVIOUS
    <3>4. DOMAIN e = DOMAIN account /\ e.tickets = account.tickets
      BY <2>2, <3>3 DEF AccountStates
    <3>5. a = [e EXCEPT !.delivery = c.ans.result]
      BY <2>1, <3>2, <3>3
    <3> QED BY <1>4, <2>4, <3>4, <3>5 DEF AccountStates
  <2>5. CASE c.op = "select"
    <3>1. a = [account EXCEPT !.loading = FALSE, !.no = c.no, !.detail = c.ans, !.delivery = c.ans.result]
      BY <1>4, <2>5 DEF LandInAccount
    <3>2. PICK e : e = [b EXCEPT !.no = c.no]
      OBVIOUS
    <3>3. DOMAIN e = DOMAIN account /\ e.tickets = account.tickets
      BY <2>2, <3>2 DEF AccountStates
    <3>4. PICK f : f = [e EXCEPT !.detail = c.ans]
      OBVIOUS
    <3>5. DOMAIN f = DOMAIN account /\ f.tickets = account.tickets
      BY <3>3, <3>4 DEF AccountStates
    <3>6. a = [f EXCEPT !.delivery = c.ans.result]
      BY <2>1, <3>1, <3>2, <3>4
    <3> QED BY <1>4, <2>5, <3>5, <3>6 DEF AccountStates
  <2> QED BY <1>4, <2>3, <2>4, <2>5
<1> QED BY <1>1, <1>2, <1>3, <1>4

LEMMA AccountLandTells ==
    ASSUME IInv, KInv, page = "account", NEW i \in DOMAIN calls, Land(i)
    PROVE  KInv'
<1>1. PICK c : c = calls[i]
  OBVIOUS
<1>2. i \in 1..MaxCalls /\ calls[i] # None /\ AccountCall(c)
  BY <1>1, AccountCallIs
<1>3. /\ calls \in [1..MaxCalls -> Handler \cup {None}] /\ account \in AccountStates
      /\ account.tickets \in Seq(TicketRows) /\ filed \in Seq(TicketRows)
      /\ AccountTold(account.tickets, told, calls)
  BY DEF IInv, Typed, AccountStates, KInv
<1>4. /\ c \in Handler /\ c.op \in {"load", "select", "delivery", "ticket"}
      /\ (c.op = "load" => c.at \in {1, 2}) /\ (c.op # "load" => c.at = 1)
      /\ c.op = "ticket" /\ c.ans # Failed => c.ans \in ToSet(filed)
      /\ c.ans # Waiting
  BY <1>1, <1>2 DEF AccountCall, AnswerOK, Land
<1>5. PICK d : d = IF GoesOn(c) THEN NextCall(c) ELSE None
  OBVIOUS
<1>6. OneSlot(calls, calls', i) /\ calls'[i] = d
  BY <1>1, <1>2, <1>3, <1>5 DEF Land, OneSlot
<1>7. /\ told' = told \/ ~SomeReading(calls)
      /\ told' = told \/ told' = told \cup Tells(c)
      /\ Reading(c) => told' = told
  <2>1. told' = IF \E j \in Busy : Reading(calls[j]) THEN told ELSE told \cup Tells(c)
    BY <1>1 DEF Land
  <2>2. SomeReading(calls) <=> \E j \in Busy : Reading(calls[j])
    BY DEF SomeReading, Busy
  <2>3. Reading(c) => SomeReading(calls)
    BY <1>1, <1>2 DEF SomeReading
  <2> QED BY <2>1, <2>2, <2>3
<1>8. ListsHave(told', d) \/ d = None
  <2>1. GoesOn(c) => d.at = 2
    BY <1>4, <1>5, NextCallIs
  <2> QED BY <1>5, <2>1 DEF ListsHave
<1>9. told' \subseteq ToSet(account'.tickets)
  <2>1. account'.tickets = IF c.ans = Failed THEN account.tickets
                           ELSE IF c.op = "ticket" THEN <<c.ans>> \o account.tickets
                           ELSE IF c.op = "load" /\ c.at = 1 THEN c.ans.tickets ELSE account.tickets
    <3>1. account' = LandInAccount(c)
      BY <1>1 DEF Land
    <3> QED BY <1>3, <1>4, <3>1, AccountLists
  <2>2. told \subseteq ToSet(account.tickets) /\ ListsHave(told, c)
    BY <1>1, <1>2, <1>3 DEF AccountTold
  <2>3. CASE c.op = "ticket" /\ c.ans # Failed
    <3>1. c.ans \in TicketRows
      BY <1>3, <1>4, <2>3 DEF ToSet
    <3>2. ToSet(account'.tickets) = ToSet(account.tickets) \cup {c.ans}
      BY <1>3, <2>1, <2>3, <3>1, InFront
    <3>3. Tells(c) = {c.ans}
      BY <2>3 DEF Tells
    <3> QED BY <1>7, <2>2, <3>2, <3>3
  <2>4. CASE ~(c.op = "ticket" /\ c.ans # Failed)
    <3>1. told' = told
      BY <1>4, <1>7, <2>4 DEF Tells
    <3>2. CASE c.op = "load" /\ c.at = 1 /\ c.ans # Failed
      BY <1>4, <2>1, <2>2, <3>1, <3>2 DEF ListsHave
    <3>3. CASE ~(c.op = "load" /\ c.at = 1 /\ c.ans # Failed)
      <4>1. account'.tickets = account.tickets
        BY <2>1, <2>4, <3>3
      <4> QED BY <2>2, <3>1, <4>1
    <3> QED BY <3>2, <3>3
  <2> QED BY <2>3, <2>4
<1>10. AccountMoves(told, calls, account'.tickets, told', calls', i)
  BY <1>6, <1>7, <1>8, <1>9 DEF AccountMoves
<1>11. AccountTold(account'.tickets, told', calls')
  BY <1>3, <1>10, AccountStep
<1>12. page' = "account"
  BY DEF Land
<1> QED BY <1>11, <1>12 DEF KInv

\* The panel when the last answer of a handler lands.
LEMMA PanelLists ==
    ASSUME panel \in PanelStates, NEW c, NEW p, p = LandInPanel(c),
           \/ c.op = "list" /\ c.at = 1
           \/ c.op = "file" /\ c.at \in {1, 2},
           ~(c.op = "file" /\ c.at = 1 /\ c.ans # Failed)
    PROVE  /\ p.no = panel.no
           /\ c.op = "list" => p.submitting = panel.submitting
           /\ c.op = "list" /\ ~c.live => p.tickets = panel.tickets
           /\ c.op = "file" /\ c.at = 1 => p.tickets = panel.tickets
           /\ c.op = "file" /\ c.at = 2 =>
                  p.tickets = IF c.ans = Failed THEN Upsert(panel.tickets, c.made) ELSE c.ans
<1>1. CASE c.op = "list" /\ ~c.live
  BY <1>1 DEF LandInPanel
<1>2. CASE c.op = "file" /\ c.at = 1
  <2>1. p = [panel EXCEPT !.submitting = FALSE]
    BY <1>2 DEF LandInPanel
  <2> QED BY <1>2, <2>1 DEF PanelStates
<1>3. CASE c.op = "list" /\ c.live
  <2>1. PICK e : e = [panel EXCEPT !.loading = FALSE]
    OBVIOUS
  <2>2. DOMAIN e = DOMAIN panel /\ e.no = panel.no /\ e.submitting = panel.submitting
    BY <2>1 DEF PanelStates
  <2>3. PICK s, from : /\ s = IF c.ans = Failed THEN <<>> ELSE c.ans
                       /\ from = IF c.ans = Failed THEN "remote-error" ELSE "remote"
    OBVIOUS
  <2>4. p = [e EXCEPT !.tickets = s, !.source = from]
    BY <1>3, <2>1, <2>3 DEF LandInPanel
  <2>5. PICK f : f = [e EXCEPT !.tickets = s]
    OBVIOUS
  <2>6. DOMAIN f = DOMAIN panel /\ f.no = panel.no /\ f.submitting = panel.submitting
    BY <2>2, <2>5 DEF PanelStates
  <2>7. p = [f EXCEPT !.source = from]
    BY <2>4, <2>5
  <2> QED BY <1>3, <2>6, <2>7 DEF PanelStates
<1>4. CASE c.op = "file" /\ c.at = 2
  <2>1. PICK e : e = [panel EXCEPT !.submitting = FALSE]
    OBVIOUS
  <2>2. DOMAIN e = DOMAIN panel /\ e.no = panel.no /\ e.tickets = panel.tickets
    BY <2>1 DEF PanelStates
  <2>3. PICK s, from : /\ s = IF c.ans = Failed THEN Upsert(panel.tickets, c.made) ELSE c.ans
                       /\ from = IF c.ans = Failed THEN "remote-error" ELSE "remote"
    OBVIOUS
  <2>4. PICK f : f = [e EXCEPT !.tickets = s]
    OBVIOUS
  <2>5. DOMAIN f = DOMAIN panel /\ f.no = panel.no /\ f.tickets = s
    BY <2>2, <2>4 DEF PanelStates
  <2>6. p = [e EXCEPT !.tickets = s, !.source = from]
    <3>1. CASE c.ans = Failed
      <4>1. p = [e EXCEPT !.tickets = Upsert(@, c.made), !.source = "remote-error"]
        BY <1>4, <2>1, <3>1 DEF LandInPanel
      <4> QED BY <2>2, <2>3, <3>1, <4>1
    <3>2. CASE c.ans # Failed
      BY <1>4, <2>1, <2>3, <3>2 DEF LandInPanel
    <3> QED BY <3>1, <3>2
  <2>7. p = [f EXCEPT !.source = from]
    BY <2>4, <2>6
  <2>8. p.no = panel.no /\ p.tickets = s
    BY <2>5, <2>7 DEF PanelStates
  <2> QED BY <1>4, <2>3, <2>8
<1> QED BY <1>1, <1>2, <1>3, <1>4

LEMMA PanelLandTells ==
    ASSUME IInv, KInv, page # "account", NEW i \in DOMAIN calls, Land(i)
    PROVE  KInv'
<1>1. PICK c : c = calls[i]
  OBVIOUS
<1>2. i \in 1..MaxCalls /\ calls[i] # None /\ PanelCall(c) /\ page = "orders"
  BY <1>1, PanelCallIs
<1>3. /\ calls \in [1..MaxCalls -> Handler \cup {None}] /\ panel \in PanelStates
      /\ panel.tickets \in Seq(TicketRows) /\ Distinct(panel.tickets)
      /\ filed \in Seq(TicketRows) /\ Distinct(filed) /\ told \subseteq ToSet(filed)
      /\ PanelTold(panel.tickets, told, panel.no, panel.submitting, calls)
  BY <1>2 DEF IInv, Typed, Known, PanelStates, KInv
<1>4. /\ c \in Handler /\ c.ans # Waiting
      /\ (c.op = "list" /\ c.at = 1) \/ (c.op = "file" /\ c.at \in {1, 2})
      /\ c.op = "file" /\ c.at = 2 => c.made \in ToSet(filed) /\ c.made.order = c.no
  BY <1>1, <1>2 DEF PanelCall, HandlerOK, Land
<1>5. PICK d : d = IF GoesOn(c) THEN NextCall(c) ELSE None
  OBVIOUS
<1>6. OneSlot(calls, calls', i) /\ calls'[i] = d
  BY <1>1, <1>2, <1>3, <1>5 DEF Land, OneSlot
<1>7. /\ told' = told \/ ~SomeReading(calls)
      /\ told' = told \/ told' = told \cup Tells(c)
  <2>1. told' = IF \E j \in Busy : Reading(calls[j]) THEN told ELSE told \cup Tells(c)
    BY <1>1 DEF Land
  <2>2. SomeReading(calls) <=> \E j \in Busy : Reading(calls[j])
    BY DEF SomeReading, Busy
  <2> QED BY <2>1, <2>2
<1>8. Mine(told, panel.no) \subseteq ToSet(panel.tickets) /\ FilingHas(told, panel.no, panel.submitting, c)
  BY <1>1, <1>2, <1>3 DEF PanelTold
<1>9. GoesOn(c) <=> c.op = "file" /\ c.at = 1 /\ c.ans # Failed
  BY <1>4, StepsAre DEF GoesOn
<1>10. ~(c.op = "file" /\ c.at = 2) => told' = told
  <2>1. ~(c.op = "file" /\ c.at = 2) => Tells(c) = {}
    BY <1>4 DEF Tells
  <2> QED BY <1>7, <2>1
<1>11. CASE GoesOn(c)
  <2>1. panel' = panel /\ told' = told
    BY <1>1, <1>2, <1>9, <1>10, <1>11 DEF Land
  <2>2. d.op = "file" /\ d.at = 2 /\ d.ans = Waiting /\ d.no = c.no
    BY <1>4, <1>5, <1>9, <1>11, NextCallIs
  <2>3. FilingHas(told, panel.no, panel.submitting, d)
    BY <1>8, <1>9, <1>11, <2>2 DEF FilingHas
  <2>4. PanelMoves(told, panel.no, panel.submitting, calls, panel.tickets, told, panel.submitting, calls', i)
    BY <1>1, <1>2, <1>6, <1>8, <1>9, <1>11, <2>3 DEF PanelMoves
  <2>5. PanelTold(panel.tickets, told, panel.no, panel.submitting, calls')
    BY <1>3, <2>4, PanelStep
  <2> QED BY <1>2, <2>1, <2>5 DEF KInv, Land
<1>12. CASE ~GoesOn(c)
  <2>1. d = None /\ panel' = LandInPanel(c)
    BY <1>1, <1>2, <1>5, <1>12 DEF Land
  <2>2. /\ panel'.no = panel.no
        /\ c.op = "list" => panel'.submitting = panel.submitting
        /\ c.op = "list" /\ ~c.live => panel'.tickets = panel.tickets
        /\ c.op = "file" /\ c.at = 1 => panel'.tickets = panel.tickets
        /\ c.op = "file" /\ c.at = 2 =>
               panel'.tickets = IF c.ans = Failed THEN Upsert(panel.tickets, c.made) ELSE c.ans
    BY <1>3, <1>4, <1>9, <1>12, <2>1, PanelLists
  <2>3. Mine(told', panel.no) \subseteq ToSet(panel'.tickets)
    <3>1. CASE c.op = "list" /\ ~c.live
      BY <1>8, <1>10, <2>2, <3>1
    <3>2. CASE c.op = "list" /\ c.live
      BY <1>8, <1>10, <3>2 DEF FilingHas, Mine
    <3>3. CASE c.op = "file" /\ c.at = 1
      BY <1>8, <1>10, <2>2, <3>3
    <3>4. CASE c.op = "file" /\ c.at = 2
      <4>1. told' \subseteq told \cup {c.made}
        BY <1>7, <3>4 DEF Tells
      <4>2. c.made \in TicketRows /\ c.made \in ToSet(filed) /\ c.made.order = c.no
        BY <1>3, <1>4, <3>4 DEF ToSet
      <4>3. CASE c.ans = Failed
        <5>1. /\ c.made \in ToSet(panel'.tickets)
              /\ \A u \in ToSet(panel.tickets) : u.no # c.made.no => u \in ToSet(panel'.tickets)
          BY <1>3, <2>2, <3>4, <4>2, <4>3, UpsertKeeps
        <5>2. ASSUME NEW t \in told, t.no = c.made.no
              PROVE  t = c.made
          BY <1>3, <4>2, <5>2 DEF ToSet, Distinct
        <5> QED BY <1>8, <4>1, <5>1, <5>2 DEF Mine
      <4>4. CASE c.ans # Failed
        <5>1. Mine(told, c.no) \cup {c.made} \subseteq ToSet(panel'.tickets)
          BY <1>4, <1>8, <2>2, <3>4, <4>4 DEF FilingHas
        <5>2. CASE c.no = panel.no
          BY <4>1, <5>1, <5>2 DEF Mine
        <5>3. CASE c.no # panel.no
          <6>1. told = {}
            BY <1>8, <3>4, <5>3 DEF FilingHas
          <6> QED BY <4>1, <5>1, <6>1 DEF Mine
        <5> QED BY <5>2, <5>3
      <4> QED BY <4>3, <4>4
    <3> QED BY <1>4, <3>1, <3>2, <3>3, <3>4
  <2>4. c.op = "file" \/ (told' = told /\ (panel.submitting => panel'.submitting))
    BY <1>4, <1>10, <2>2
  <2>5. PanelMoves(told, panel.no, panel.submitting, calls, panel'.tickets, told', panel'.submitting, calls', i)
    BY <1>1, <1>2, <1>6, <1>7, <2>1, <2>3, <2>4 DEF PanelMoves
  <2>6. PanelTold(panel'.tickets, told', panel.no, panel'.submitting, calls')
    BY <1>3, <2>5, PanelStep
  <2> QED BY <1>2, <2>2, <2>6 DEF KInv, Land
<1> QED BY <1>11, <1>12

\* On a page just entered nothing was told, and no list was read.
LEMMA GoToTells ==
    ASSUME IInv, NEW p \in {"away", "account", "orders"}, GoTo(p)
    PROVE  KInv'
<1> DEFINE none == [i \in DOMAIN calls |-> None]
<1>1. /\ page' = p /\ told' = {}
      /\ p = "account" => calls' \in Ask(none, Call("load", None))
      /\ p # "account" => calls' = none
  BY DEF GoTo
<1>2. none \in [1..MaxCalls -> Handler \cup {None}] /\ \A j \in 1..MaxCalls : none[j] = None
  BY DEF IInv, Typed
<1> HIDE DEF none
<1>3. PICK c : c = Call("load", None)
  OBVIOUS
<1>4. c \in Handler /\ c.ans = Waiting
  BY <1>3, CallStarts
<1>5. CASE p = "account"
  <2>1. calls' \in Ask(none, c)
    BY <1>1, <1>3, <1>5
  <2>2. PICK i \in 1..MaxCalls : Takes(none, calls', c, i)
    BY <1>2, <1>4, <2>1, AskTakesSlot
  <2>3. DOMAIN calls' = 1..MaxCalls
    BY <1>2, <1>4, <2>1, AskTakesSlot
  <2>4. \A j \in DOMAIN calls' : calls'[j] # None => calls'[j] = c
    BY <1>2, <2>2, <2>3 DEF Takes
  <2>5. ListsHave({}, c)
    BY DEF ListsHave
  <2>6. AccountTold(account'.tickets, {}, calls')
    BY <2>4, <2>5 DEF AccountTold
  <2> QED BY <1>1, <1>5, <2>6 DEF KInv
<1>6. CASE p # "account"
  <2>1. calls' = none
    BY <1>1, <1>6
  <2>2. PanelTold(panel'.tickets, {}, panel'.no, panel'.submitting, none)
    BY <1>2 DEF PanelTold, OneFiling, Mine
  <2> QED BY <1>1, <1>6, <2>1, <2>2 DEF KInv
<1> QED BY <1>5, <1>6

LEMMA InitTells == Init => KInv
BY DEF Init, KInv

LEMMA StepTells == IInv /\ KInv /\ [Next]_vars => KInv'
<1> SUFFICES ASSUME IInv, KInv, [Next]_vars
             PROVE  KInv'
  OBVIOUS
<1>1. CASE Account
  BY <1>1, AccountTells
<1>2. CASE FileTicket
  BY <1>2, FileTicketTells
<1>3. ASSUME NEW o \in ToSet(placed) \cup {None}, ShowOrder(o)
      PROVE  KInv'
  BY <1>3, ShowOrderTells
<1>4. ASSUME NEW i \in DOMAIN calls, Serve(i) \/ Fail(i)
      PROVE  KInv'
  BY <1>4, ServeTells, FailTells
<1>5. ASSUME NEW i \in DOMAIN calls, Land(i)
      PROVE  KInv'
  BY <1>5, AccountLandTells, PanelLandTells
<1>6. CASE ServerMoves \/ UNCHANGED vars
  BY <1>6 DEF ServerMoves, vars, KInv
<1>7. ASSUME NEW p \in {"away", "account", "orders"}, GoTo(p)
      PROVE  KInv'
  BY <1>7, GoToTells
<1> QED BY <1>1, <1>2, <1>3, <1>4, <1>5, <1>6, <1>7 DEF Next, Panel, Answers

\* No ticket is listed twice in the panel, and a ticket the page told the buyer of while it read
\* no list stays listed, whatever he clicks and whichever answers are lost or late.
THEOREM ToldTicketsAreKept == Spec => []ToldTicketsStay
<1>1. IInv /\ KInv => ToldTicketsStay
  BY DEF IInv, KInv, Known, Distinct, AccountTold, PanelTold, Mine, ToldTicketsStay
<1>2. Init => IInv /\ KInv
  BY InitFits, InitTells
<1>3. (IInv /\ KInv) /\ [Next]_vars => (IInv /\ KInv)'
  BY StepKeeps, StepTells
<1> QED BY <1>1, <1>2, <1>3, PTL DEF Spec
=============================================================================
