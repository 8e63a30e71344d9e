------------------------- MODULE CodeAdapter_proofs -------------------------
(***************************************************************************)
(* TypeOK, AnswersWereMade and AnswersAgree of CodeAdapter, for any        *)
(* orders, handlers and number of codes.                                   *)
(*                                                                         *)
(* An answer is taken from the store or from the request being served, and *)
(* the store comes back from its file, so the first invariant says of all  *)
(* of them what AnswersWereMade says of the answers; and it goes on being  *)
(* true because upstream only ever makes more codes.  The second is about  *)
(* orders asked for once at a time: what is stored, saved and being served *)
(* each begins with all that was answered before.                          *)
(***************************************************************************)
EXTENDS CodeAdapter, SequenceTheorems, TLAPS

\* MadeFor, of the codes "made" upstream.
MadeIn(made, o, codes) ==
    \A i, j \in DOMAIN codes :
        /\ codes[i] <= Len(made) /\ made[codes[i]] = o
        /\ i # j => codes[i] # codes[j]

StoreMade == \A o \in Orders : MadeIn(minted, o, items[o]) /\ MadeIn(minted, o, file[o])
CallsMade == \A h \in Handlers : call[h] # NoCall => MadeIn(minted, call[h].o, call[h].codes)
GivenMade == \A o \in Orders : \A codes \in given[o] : MadeIn(minted, o, codes)

IInv == TypeOK /\ StoreMade /\ CallsMade /\ GivenMade

USE CountsAssumption, MaxCodesAssumption

---------------------------------------------------------------------------
(* What upstream makes *)

\* Codes are only added upstream, and those of one call are made for its order.
LEMMA MintAdds ==
    ASSUME TypeOK, NEW o \in Orders, NEW k \in Nat, Mint(o, k)
    PROVE  /\ minted' \in Seq(Orders) /\ Len(minted') = Len(minted) + k /\ Len(minted') <= MaxCodes
           /\ \A p \in 1..Len(minted) : minted'[p] = minted[p]
           /\ \A p \in 1..k : minted'[Len(minted) + p] = o
<1> DEFINE made == [i \in 1..k |-> o]
<1>1. made \in Seq(Orders) /\ Len(made) = k
  OBVIOUS
<1>2. minted \in Seq(Orders) /\ Len(minted) \in Nat
  BY LenProperties DEF TypeOK
<1>3. minted' = minted \o made /\ Len(minted) + k <= MaxCodes
  BY DEF Mint
<1>4. /\ minted' \in Seq(Orders) /\ Len(minted') = Len(minted) + k
      /\ \A p \in 1..(Len(minted) + k) :
             minted'[p] = IF p <= Len(minted) THEN minted[p] ELSE made[p - Len(minted)]
  BY <1>1, <1>2, <1>3, ConcatProperties
<1> QED BY <1>1, <1>2, <1>3, <1>4

\* Codes that were made for an order stay so when more are made.
LEMMA MadeStays ==
    ASSUME TypeOK, NEW o \in Orders, NEW k \in Nat, Mint(o, k),
           NEW codes \in Seq(Codes), NEW p \in Orders, MadeIn(minted, p, codes)
    PROVE  MadeIn(minted', p, codes)
<1>1. \A i \in DOMAIN codes : codes[i] \in 1..Len(minted)
  BY LenProperties DEF MadeIn, Codes, TypeOK
<1>2. /\ Len(minted) \in Nat /\ Len(minted') = Len(minted) + k
      /\ \A q \in 1..Len(minted) : minted'[q] = minted[q]
  BY MintAdds, LenProperties DEF TypeOK
<1>3. \A i \in DOMAIN codes : codes[i] <= Len(minted') /\ minted'[codes[i]] = p
  <2>1. TAKE i \in DOMAIN codes
  <2>2. codes[i] \in 1..Len(minted) /\ minted[codes[i]] = p
    BY <1>1 DEF MadeIn
  <2> QED BY <1>2, <2>2
<1> QED BY <1>3 DEF MadeIn

\* The codes of one call upstream are new, and added to older ones repeat none of them.
LEMMA FreshIsMade ==
    ASSUME TypeOK, NEW o \in Orders, NEW k \in Nat, Mint(o, k)
    PROVE  /\ Fresh(k) \in Seq(Codes) /\ Len(Fresh(k)) = k /\ MadeIn(minted', o, Fresh(k))
           /\ \A codes \in Seq(Codes) : MadeIn(minted, o, codes) =>
                  codes \o Fresh(k) \in Seq(Codes) /\ MadeIn(minted', o, codes \o Fresh(k))
<1>1. Len(minted) \in Nat /\ Len(minted) + k <= MaxCodes /\ Len(minted') = Len(minted) + k
  BY MintAdds, LenProperties DEF Mint, TypeOK
<1>2. \A i \in 1..k : Len(minted) + i \in Codes
  BY <1>1 DEF Codes
<1>3. Fresh(k) \in Seq(Codes) /\ Len(Fresh(k)) = k /\ DOMAIN Fresh(k) = 1..k
  BY <1>2 DEF Fresh
<1>4. \A i \in 1..k : Fresh(k)[i] = Len(minted) + i
  BY DEF Fresh
<1>5. \A i \in 1..k : minted'[Len(minted) + i] = o
  BY MintAdds
<1>6. \A q \in 1..Len(minted) : minted'[q] = minted[q]
  BY MintAdds
<1>7. MadeIn(minted', o, Fresh(k))
  <2>1. \A i \in 1..k : Fresh(k)[i] <= Len(minted') /\ minted'[Fresh(k)[i]] = o
    BY <1>1, <1>4, <1>5
  <2>2. \A i, j \in 1..k : i # j => Fresh(k)[i] # Fresh(k)[j]
    BY <1>1, <1>4
  <2> QED BY <1>3, <2>1, <2>2 DEF MadeIn
<1>8. ASSUME NEW codes \in Seq(Codes), MadeIn(minted, o, codes)
      PROVE  codes \o Fresh(k) \in Seq(Codes) /\ MadeIn(minted', o, codes \o Fresh(k))
  <2> DEFINE new == Fresh(k)
             all == codes \o new
             n == Len(codes)
  <2>1. n \in Nat /\ DOMAIN codes = 1..n
    BY LenProperties
  <2>2. new \in Seq(Codes) /\ Len(new) = k /\ \A i \in 1..k : new[i] = Len(minted) + i
    BY <1>3, <1>4
  <2> HIDE DEF new
  <2>3. /\ all \in Seq(Codes) /\ DOMAIN all = 1..(n + k)
        /\ \A i \in 1..(n + k) : all[i] = IF i <= n THEN codes[i] ELSE new[i - n]
    BY <2>2, ConcatProperties, LenProperties
  <2> HIDE DEF all, n
  <2>4. ASSUME NEW i \in 1..n
        PROVE  /\ all[i] = codes[i] /\ all[i] \in 1..Len(minted) /\ all[i] <= Len(minted')
               /\ minted'[all[i]] = o
    <3>1. i \in 1..(n + k) /\ i <= n
      BY <2>1
    <3>2. all[i] = codes[i]
      BY <2>3, <3>1
    <3>3. codes[i] \in 1..Len(minted) /\ minted[codes[i]] = o
      BY <1>1, <1>8, <2>1, LenProperties DEF MadeIn, Codes
    <3> QED BY <1>1, <1>6, <3>2, <3>3
  <2>5. ASSUME NEW i \in (n + 1)..(n + k)
        PROVE  /\ all[i] = Len(minted) + (i - n) /\ all[i] > Len(minted) /\ all[i] <= Len(minted')
               /\ minted'[all[i]] = o
    <3>1. i \in 1..(n + k) /\ ~(i <= n) /\ i - n \in 1..k
      BY <2>1
    <3>2. all[i] = new[i - n]
      BY <2>3, <3>1
    <3>3. new[i - n] = Len(minted) + (i - n) /\ minted'[Len(minted) + (i - n)] = o
      BY <1>5, <2>2, <3>1
    <3> QED BY <1>1, <3>1, <3>2, <3>3
  <2>6. \A i \in 1..(n + k) : i \in 1..n \/ i \in (n + 1)..(n + k)
    BY <2>1
  <2>7. \A i, j \in 1..n : i # j => all[i] # all[j]
    BY <1>8, <2>1, <2>4 DEF MadeIn
  <2>8. \A i \in 1..n, j \in (n + 1)..(n + k) : all[i] # all[j]
    BY <1>1, <2>4, <2>5
  <2>9. \A i, j \in (n + 1)..(n + k) : i # j => all[i] # all[j]
    BY <1>1, <2>1, <2>5
  <2>10. \A i, j \in 1..(n + k) : /\ all[i] <= Len(minted') /\ minted'[all[i]] = o
                                  /\ i # j => all[i] # all[j]
    BY <2>4, <2>5, <2>6, <2>7, <2>8, <2>9
  <2>11. MadeIn(minted', o, all)
    BY <2>3, <2>10 DEF MadeIn
  <2> QED BY <2>3, <2>11 DEF all, new
<1> QED BY <1>3, <1>7, <1>8

---------------------------------------------------------------------------
(* The steps of the sidecar *)

\* A request about to act is known.
LEMMA ServedIsKnown ==
    ASSUME IInv, NEW h \in Handlers, call[h].pc \in {"upstream", "store"}
    PROVE  /\ call[h] # NoCall /\ call[h] \in Call
           /\ call[h].o \in Orders /\ call[h].n \in Counts /\ call[h].n \in Nat
           /\ call[h].codes \in Seq(Codes) /\ MadeIn(minted, call[h].o, call[h].codes)
<1>1. call[h] # NoCall
  BY DEF NoCall
<1>2. call[h] \in Call
  BY <1>1 DEF IInv, TypeOK
<1> QED BY <1>1, <1>2 DEF IInv, CallsMade, Call

\* All that was made stays made when upstream makes more.
LEMMA AllStaysMade ==
    ASSUME IInv, NEW o \in Orders, NEW k \in Nat, Mint(o, k)
    PROVE  /\ minted' \in Seq(Orders) /\ Len(minted') <= MaxCodes
           /\ \A p \in Orders : MadeIn(minted', p, items[p]) /\ MadeIn(minted', p, file[p])
           /\ \A h \in Handlers : call[h] # NoCall => MadeIn(minted', call[h].o, call[h].codes)
           /\ \A p \in Orders : \A codes \in given[p] : MadeIn(minted', p, codes)
<1>1. TypeOK
  BY DEF IInv
<1>2. \A p \in Orders, codes \in Seq(Codes) : MadeIn(minted, p, codes) => MadeIn(minted', p, codes)
  BY <1>1, MadeStays
<1>3. \A p \in Orders : items[p] \in Seq(Codes) /\ file[p] \in Seq(Codes) /\ given[p] \subseteq Seq(Codes)
  BY <1>1 DEF TypeOK
<1>4. \A h \in Handlers : call[h] # NoCall => call[h].o \in Orders /\ call[h].codes \in Seq(Codes)
  BY <1>1 DEF TypeOK, Call
<1> QED BY <1>1, <1>2, <1>3, <1>4, MintAdds DEF IInv, StoreMade, CallsMade, GivenMade

LEMMA AskStep ==
    ASSUME IInv, NEW h \in Handlers, NEW kind \in Kinds, NEW o \in Orders, NEW n \in Counts,
           Ask(h, kind, o, n)
    PROVE  IInv'
<1>1. items[o] \in Seq(Codes) /\ MadeIn(minted, o, items[o])
  BY DEF IInv, TypeOK, StoreMade
<1>2. UNCHANGED <<items, file, minted>>
  BY DEF Ask
<1>3. CASE given' = [given EXCEPT ![o] = @ \cup {items[o]}] /\ UNCHANGED <<call, disturbed>>
  <2>1. TypeOK'
    BY <1>1, <1>2, <1>3 DEF IInv, TypeOK
  <2>2. GivenMade'
    BY <1>1, <1>2, <1>3 DEF IInv, TypeOK, GivenMade
  <2> QED BY <1>2, <1>3, <2>1, <2>2 DEF IInv, StoreMade, CallsMade
<1>4. CASE /\ call' = [call EXCEPT ![h] =
                 [pc |-> "upstream", kind |-> kind, o |-> o, n |-> n, codes |-> items[o]]]
           /\ disturbed' \in {disturbed, disturbed \cup {o}}
           /\ UNCHANGED given
  <2> DEFINE new == [pc |-> "upstream", kind |-> kind, o |-> o, n |-> n, codes |-> items[o]]
  <2>1. new \in Call
    BY <1>1 DEF Call
  <2>2. TypeOK'
    BY <1>2, <1>4, <2>1 DEF IInv, TypeOK
  <2>3. CallsMade'
    BY <1>1, <1>2, <1>4 DEF IInv, TypeOK, CallsMade
  <2> QED BY <1>2, <1>4, <2>2, <2>3 DEF IInv, StoreMade, GivenMade
<1> QED BY <1>3, <1>4 DEF Ask

\* The request goes on with the codes it has got.
LEMMA GotoStep ==
    ASSUME IInv, NEW h \in Handlers, call[h].pc \in {"upstream", "store"},
           NEW pc \in {"upstream", "store"}, NEW codes \in Seq(Codes), Goto(h, pc, codes),
           minted' \in Seq(Orders), Len(minted') <= MaxCodes,
           MadeIn(minted', call[h].o, codes),
           \A g \in Handlers : call[g] # NoCall => MadeIn(minted', call[g].o, call[g].codes)
    PROVE  /\ call' \in [Handlers -> {NoCall} \cup Call]
           /\ CallsMade'
<1> DEFINE new == [pc |-> pc, kind |-> call[h].kind, o |-> call[h].o, n |-> call[h].n, codes |-> codes]
<1>1. new \in Call /\ new.o = call[h].o /\ new.codes = codes
  BY ServedIsKnown DEF Call
<1>2. call' = [call EXCEPT ![h] = new]
  BY DEF Goto
<1> HIDE DEF new
<1>3. call' \in [Handlers -> {NoCall} \cup Call]
  BY <1>1, <1>2 DEF IInv, TypeOK
<1>4. ASSUME NEW g \in Handlers, call'[g] # NoCall
      PROVE  MadeIn(minted', call'[g].o, call'[g].codes)
  <2>1. CASE g = h
    BY <1>1, <1>2, <2>1 DEF IInv, TypeOK
  <2>2. CASE g # h
    BY <1>2, <1>4, <2>2 DEF IInv, TypeOK
  <2> QED BY <2>1, <2>2
<1> QED BY <1>3, <1>4 DEF CallsMade, MadeIn

\* The request ends.
LEMMA EndStep ==
    ASSUME IInv, NEW h \in Handlers, End(h),
           \A g \in Handlers : call[g] # NoCall => MadeIn(minted', call[g].o, call[g].codes)
    PROVE  /\ call' \in [Handlers -> {NoCall} \cup Call]
           /\ CallsMade'
<1>1. call' \in [Handlers -> {NoCall} \cup Call]
  BY DEF End, IInv, TypeOK
<1>2. \A g \in Handlers : call'[g] # NoCall => call'[g] = call[g]
  BY DEF End, IInv, TypeOK
<1> QED BY <1>1, <1>2 DEF CallsMade, MadeIn

\* The memory takes codes that were made, and the file takes the memory or is left alone.
LEMMA UpsertStep ==
    ASSUME IInv, NEW o \in Orders, NEW codes \in Seq(Codes), NEW saved \in BOOLEAN,
           Upsert(o, codes, saved), MadeIn(minted', o, codes),
           \A p \in Orders : MadeIn(minted', p, items[p]) /\ MadeIn(minted', p, file[p])
    PROVE  /\ items' \in [Orders -> Seq(Codes)] /\ file' \in [Orders -> Seq(Codes)]
           /\ disturbed' \subseteq Orders
           /\ StoreMade'
<1>1. /\ items' = [items EXCEPT ![o] = codes]
      /\ file' = items' \/ file' = file
      /\ disturbed' = disturbed \/ disturbed' = disturbed \cup {o}
  BY DEF Upsert
<1>2. items' \in [Orders -> Seq(Codes)] /\ file' \in [Orders -> Seq(Codes)] /\ disturbed' \subseteq Orders
  BY <1>1 DEF IInv, TypeOK
<1>3. \A p \in Orders : MadeIn(minted', p, items'[p])
  BY <1>1 DEF IInv, TypeOK
<1>4. \A p \in Orders : MadeIn(minted', p, file'[p])
  BY <1>1, <1>3
<1> QED BY <1>2, <1>3, <1>4 DEF StoreMade, MadeIn

LEMMA RechargeStep == ASSUME IInv, NEW h \in Handlers, RechargeUpstream(h) PROVE IInv'
<1> DEFINE o == call[h].o
           n == call[h].n
<1>1. call[h].pc = "upstream" /\ UNCHANGED <<items, file, given, disturbed>>
  BY DEF RechargeUpstream
<1>2. o \in Orders /\ n \in Nat /\ TypeOK
  BY <1>1, ServedIsKnown DEF IInv
<1>3. PICK k \in Nat : Mint(o, k) /\ (End(h) \/ (k = n /\ Goto(h, "store", Fresh(k))))
  BY <1>2 DEF RechargeUpstream
<1>4. /\ minted' \in Seq(Orders) /\ Len(minted') <= MaxCodes
      /\ \A p \in Orders : MadeIn(minted', p, items[p]) /\ MadeIn(minted', p, file[p])
      /\ \A g \in Handlers : call[g] # NoCall => MadeIn(minted', call[g].o, call[g].codes)
      /\ \A p \in Orders : \A codes \in given[p] : MadeIn(minted', p, codes)
  BY <1>2, <1>3, AllStaysMade
<1>5. call' \in [Handlers -> {NoCall} \cup Call] /\ CallsMade'
  <2>1. CASE End(h)
    BY <1>4, <2>1, EndStep
  <2>2. CASE Goto(h, "store", Fresh(k))
    <3>1. Fresh(k) \in Seq(Codes) /\ MadeIn(minted', o, Fresh(k))
      BY <1>2, <1>3, FreshIsMade
    <3> QED BY <1>1, <1>4, <2>2, <3>1, GotoStep
  <2> QED BY <1>3, <2>1, <2>2
<1>6. TypeOK'
  BY <1>1, <1>2, <1>4, <1>5 DEF TypeOK
<1> QED BY <1>1, <1>4, <1>5, <1>6 DEF IInv, StoreMade, GivenMade

LEMMA SubscriptionStep == ASSUME IInv, NEW h \in Handlers, SubscriptionUpstream(h) PROVE IInv'
<1> DEFINE o == call[h].o
           codes == call[h].codes
<1>1. call[h].pc = "upstream" /\ UNCHANGED given
  BY DEF SubscriptionUpstream
<1>2. o \in Orders /\ codes \in Seq(Codes) /\ MadeIn(minted, o, codes) /\ call[h] # NoCall /\ TypeOK
  BY <1>1, ServedIsKnown DEF IInv
<1>3. PICK k \in Nat :
          /\ Mint(o, k)
          /\ \/ k = 1 /\ Goto(h, "store", codes \o Fresh(k)) /\ UNCHANGED <<items, file, disturbed>>
             \/ (\E saved \in BOOLEAN : Upsert(o, codes, saved)) /\ End(h)
  BY DEF SubscriptionUpstream
<1>4. /\ minted' \in Seq(Orders) /\ Len(minted') <= MaxCodes
      /\ \A p \in Orders : MadeIn(minted', p, items[p]) /\ MadeIn(minted', p, file[p])
      /\ \A g \in Handlers : call[g] # NoCall => MadeIn(minted', call[g].o, call[g].codes)
      /\ \A p \in Orders : \A cs \in given[p] : MadeIn(minted', p, cs)
  BY <1>2, <1>3, AllStaysMade
<1>5. GivenMade'
  BY <1>1, <1>4 DEF GivenMade, MadeIn
<1>6. CASE Goto(h, "store", codes \o Fresh(k)) /\ UNCHANGED <<items, file, disturbed>>
  <2>1. codes \o Fresh(k) \in Seq(Codes) /\ MadeIn(minted', o, codes \o Fresh(k))
    BY <1>2, <1>3, FreshIsMade
  <2>2. call' \in [Handlers -> {NoCall} \cup Call] /\ CallsMade'
    BY <1>1, <1>4, <1>6, <2>1, GotoStep
  <2>3. TypeOK'
    BY <1>1, <1>2, <1>4, <1>6, <2>2 DEF TypeOK
  <2> QED BY <1>4, <1>5, <1>6, <2>2, <2>3 DEF IInv, StoreMade
<1>7. CASE (\E saved \in BOOLEAN : Upsert(o, codes, saved)) /\ End(h)
  <2>1. call' \in [Handlers -> {NoCall} \cup Call] /\ CallsMade'
    BY <1>4, <1>7, EndStep
  <2>2. PICK saved \in BOOLEAN : Upsert(o, codes, saved)
    BY <1>7
  <2>3. MadeIn(minted', o, codes)
    BY <1>2, <1>4
  <2>4. /\ items' \in [Orders -> Seq(Codes)] /\ file' \in [Orders -> Seq(Codes)]
        /\ disturbed' \subseteq Orders /\ StoreMade'
    BY <1>2, <1>4, <2>2, <2>3, UpsertStep
  <2>5. TypeOK'
    BY <1>1, <1>2, <1>4, <2>1, <2>4 DEF TypeOK
  <2> QED BY <1>5, <2>1, <2>4, <2>5 DEF IInv
<1> QED BY <1>3, <1>6, <1>7

LEMMA KeepStep == ASSUME IInv, NEW h \in Handlers, Keep(h) PROVE IInv'
<1> DEFINE o == call[h].o
           codes == call[h].codes
<1>1. call[h].pc = "store" /\ UNCHANGED minted
  BY DEF Keep
<1>2. o \in Orders /\ codes \in Seq(Codes) /\ MadeIn(minted, o, codes) /\ TypeOK
  BY <1>1, ServedIsKnown DEF IInv
<1>3. PICK saved \in BOOLEAN : Upsert(o, codes, saved)
  BY DEF Keep
<1>4. /\ given' = given \/ given' = [given EXCEPT ![o] = @ \cup {codes}]
      /\ End(h) \/ Goto(h, "upstream", codes)
  BY DEF Keep
<1>5. /\ minted' \in Seq(Orders) /\ Len(minted') <= MaxCodes
      /\ \A p \in Orders : MadeIn(minted', p, items[p]) /\ MadeIn(minted', p, file[p])
      /\ \A g \in Handlers : call[g] # NoCall => MadeIn(minted', call[g].o, call[g].codes)
      /\ MadeIn(minted', o, codes)
  BY <1>1, <1>2 DEF IInv, TypeOK, StoreMade, CallsMade
<1>6. /\ items' \in [Orders -> Seq(Codes)] /\ file' \in [Orders -> Seq(Codes)]
      /\ disturbed' \subseteq Orders /\ StoreMade'
  BY <1>2, <1>3, <1>5, UpsertStep
<1>7. call' \in [Handlers -> {NoCall} \cup Call] /\ CallsMade'
  <2>1. CASE End(h)
    BY <1>5, <2>1, EndStep
  <2>2. CASE Goto(h, "upstream", codes)
    BY <1>1, <1>2, <1>5, <2>2, GotoStep
  <2> QED BY <1>4, <2>1, <2>2
<1>8. given' \in [Orders -> SUBSET Seq(Codes)] /\ GivenMade'
  <2>1. given' \in [Orders -> SUBSET Seq(Codes)]
    <3>1. given \in [Orders -> SUBSET Seq(Codes)] /\ (given[o] \cup {codes}) \in SUBSET Seq(Codes)
      BY <1>2 DEF TypeOK
    <3>2. CASE given' = given
      BY <3>1, <3>2
    <3>3. CASE given' = [given EXCEPT ![o] = @ \cup {codes}]
      BY <1>2, <3>1, <3>3, Zenon
    <3> QED BY <1>4, <3>2, <3>3
  <2>2. \A p \in Orders : \A cs \in given'[p] : cs \in given[p] \/ (p = o /\ cs = codes)
    BY <1>2, <1>4 DEF TypeOK
  <2>3. \A p \in Orders : \A cs \in given'[p] : MadeIn(minted, p, cs)
    BY <1>2, <2>2 DEF IInv, GivenMade
  <2> QED BY <1>1, <2>1, <2>3 DEF GivenMade, MadeIn
<1>9. TypeOK'
  BY <1>5, <1>6, <1>7, <1>8 DEF TypeOK
<1> QED BY <1>6, <1>7, <1>8, <1>9 DEF IInv

LEMMA RestartStep == ASSUME IInv, Restart PROVE IInv'
<1>1. /\ items' = file /\ UNCHANGED <<file, minted, given, disturbed>>
      /\ call' \in [Handlers -> {NoCall} \cup Call] /\ \A h \in Handlers : call'[h] = NoCall
  BY DEF Restart
<1>2. TypeOK'
  BY <1>1 DEF IInv, TypeOK
<1> QED BY <1>1, <1>2 DEF IInv, StoreMade, CallsMade, GivenMade

---------------------------------------------------------------------------

LEMMA InitInv == Init => IInv
<1> SUFFICES ASSUME Init PROVE IInv
  OBVIOUS
<1>1. << >> \in Seq(Codes) /\ << >> \in Seq(Orders) /\ Len(<< >>) = 0 /\ DOMAIN << >> = {}
  BY EmptySeq
<1>2. TypeOK
  BY <1>1 DEF Init, TypeOK
<1>3. \A o : MadeIn(minted, o, << >>)
  BY <1>1 DEF MadeIn
<1> QED BY <1>2, <1>3 DEF Init, IInv, StoreMade, CallsMade, GivenMade

LEMMA NextInv == IInv /\ [Next]_vars => IInv'
<1> SUFFICES ASSUME IInv, [Next]_vars PROVE IInv'
  OBVIOUS
<1>1. CASE UNCHANGED vars
  BY <1>1 DEF vars, IInv, TypeOK, StoreMade, CallsMade, GivenMade
<1>2. CASE Restart
  BY <1>2, RestartStep
<1>3. ASSUME NEW h \in Handlers,
             \/ \E kind \in Kinds, o \in Orders, n \in Counts : Ask(h, kind, o, n)
             \/ RechargeUpstream(h) \/ SubscriptionUpstream(h) \/ Keep(h)
      PROVE  IInv'
  BY <1>3, AskStep, RechargeStep, SubscriptionStep, KeepStep
<1> QED BY <1>1, <1>2, <1>3 DEF Next

\* Everything the adapter keeps is well typed: the store and its file hold sequences of codes
\* for known orders, whatever the interleaving of requests, lost answers and restarts.
THEOREM AdapterTyped == Spec => []TypeOK
<1>1. Init => IInv
  BY InitInv
<1>2. IInv /\ [Next]_vars => IInv'
  BY NextInv
<1>3. IInv => TypeOK
  BY DEF IInv
<1> QED BY <1>1, <1>2, <1>3, PTL DEF Spec

\* A code the adapter answers was made upstream for the order it is answered for, and no answer
\* holds one twice: for any number of orders, of requests served at once, and of lost answers,
\* unsaved files and restarts.
THEOREM AnswersWereAlwaysMade == Spec => []AnswersWereMade
<1>1. Init => IInv
  BY InitInv
<1>2. IInv /\ [Next]_vars => IInv'
  BY NextInv
<1>3. IInv => AnswersWereMade
  BY DEF IInv, GivenMade, AnswersWereMade, MadeIn, MadeFor
<1> QED BY <1>1, <1>2, <1>3, PTL DEF Spec

---------------------------------------------------------------------------
(* Answers agree                                                           *)

Begins(b, a) == Len(b) <= Len(a) /\ \A i \in 1..Len(b) : a[i] = b[i]

\* Orders asked for once at a time, whose file could be written
Tidy == Orders \ disturbed
Serving(h, o) == call[h] # NoCall /\ call[h].o = o

\* What a request knows of its order: the codes it has go on from those stored.
Grows(h, o) ==
    /\ Begins(items[o], call[h].codes)
    /\ call[h].kind = "recharge" =>
           IF call[h].pc = "upstream" THEN items[o] = << >> ELSE Len(call[h].codes) >= call[h].n

OrderAgrees(o) ==
    /\ file[o] = items[o]
    /\ \A codes \in given[o] : Begins(codes, items[o])
    /\ \A g, h \in Handlers : Serving(g, o) /\ Serving(h, o) => g = h
    /\ \A h \in Handlers : Serving(h, o) => Grows(h, o)
AgreeInv == \A o \in Tidy : OrderAgrees(o)

LEMMA BeginsItself == ASSUME NEW a \in Seq(Codes) PROVE Begins(a, a) /\ Begins(<< >>, a)
BY LenProperties, EmptySeq DEF Begins

LEMMA BeginsTransitive ==
    ASSUME NEW a \in Seq(Codes), NEW b \in Seq(Codes), NEW c \in Seq(Codes),
           Begins(a, b), Begins(b, c)
    PROVE  Begins(a, c)
<1>1. Len(a) \in Nat /\ Len(b) \in Nat /\ Len(c) \in Nat
  BY LenProperties
<1> QED BY <1>1 DEF Begins

LEMMA BeginsMore ==
    ASSUME NEW a \in Seq(Codes), NEW b \in Seq(Codes)
    PROVE  a \o b \in Seq(Codes) /\ Begins(a, a \o b)
<1>1. Len(a) \in Nat /\ Len(b) \in Nat
  BY LenProperties
<1> QED BY <1>1, ConcatProperties DEF Begins

LEMMA BeginsIsExtends ==
    ASSUME NEW a \in Seq(Codes), NEW b \in Seq(Codes), Begins(b, a)
    PROVE  Extends(a, b)
<1>1. Len(a) \in Nat /\ Len(b) \in Nat /\ Len(b) <= Len(a)
  BY LenProperties DEF Begins
<1>2. \A i \in 1..Len(b) : a[i] \in Codes
  BY <1>1, ElementOfSeq
<1>3. /\ SubSeq(a, 1, Len(b)) \in Seq(Codes)
      /\ Len(SubSeq(a, 1, Len(b))) = Len(b)
      /\ \A i \in 1..Len(b) : SubSeq(a, 1, Len(b))[i] = a[i]
  BY <1>1, <1>2, SubSeqProperties
<1>4. SubSeq(a, 1, Len(b)) = b
  BY <1>1, <1>3, SeqEqual DEF Begins
<1> QED BY <1>1, <1>4 DEF Extends

\* Two beginnings of one sequence: the longer one extends the other.
LEMMA BeginningsAgree ==
    ASSUME NEW a \in Seq(Codes), NEW b \in Seq(Codes), NEW c \in Seq(Codes),
           Begins(a, c), Begins(b, c)
    PROVE  Extends(a, b) \/ Extends(b, a)
<1>1. Len(a) \in Nat /\ Len(b) \in Nat
  BY LenProperties
<1>2. CASE Len(a) <= Len(b)
  BY <1>1, <1>2, BeginsIsExtends DEF Begins
<1>3. CASE Len(b) <= Len(a)
  BY <1>1, <1>3, BeginsIsExtends DEF Begins
<1> QED BY <1>1, <1>2, <1>3

\* An order a step does not touch goes on agreeing; its requests may only end.
LEMMA UntouchedAgrees ==
    ASSUME NEW o \in Orders, OrderAgrees(o),
           file'[o] = file[o], items'[o] = items[o], given'[o] = given[o],
           \A h \in Handlers : Serving(h, o)' => call'[h] = call[h]
    PROVE  OrderAgrees(o)'
<1>1. \A h \in Handlers : Serving(h, o)' => Serving(h, o) /\ call'[h] = call[h]
  BY DEF Serving
<1>2. \A h \in Handlers : Serving(h, o)' => Grows(h, o)'
  BY <1>1 DEF OrderAgrees, Grows, Begins
<1>3. \A codes \in given'[o] : Begins(codes, items'[o])
  BY DEF OrderAgrees
<1> QED BY <1>1, <1>2, <1>3 DEF OrderAgrees, Begins

\* The order of the only request for it agrees once the request does.
LEMMA TouchedAgrees ==
    ASSUME NEW o \in Orders, NEW h \in Handlers, OrderAgrees(o), Serving(h, o),
           \A g \in Handlers : g # h => call'[g] = call[g],
           file'[o] = items'[o],
           \A codes \in given'[o] : Begins(codes, items'[o]),
           Serving(h, o)' => Grows(h, o)'
    PROVE  OrderAgrees(o)'
<1>1. \A g \in Handlers : Serving(g, o)' => g = h
  BY DEF OrderAgrees, Serving
<1> QED BY <1>1 DEF OrderAgrees, Begins

\* What was answered, or is stored, begins what goes on from the store.
LEMMA GoesOnFromGiven ==
    ASSUME IInv, NEW o \in Orders, OrderAgrees(o), NEW codes \in Seq(Codes), Begins(items[o], codes)
    PROVE  \A a \in given[o] : Begins(a, codes)
<1>1. \A a \in given[o] : a \in Seq(Codes) /\ Begins(a, items[o])
  BY DEF IInv, TypeOK, OrderAgrees
<1> QED BY <1>1, BeginsTransitive DEF IInv, TypeOK

LEMMA AskAgrees ==
    ASSUME IInv, AgreeInv, NEW h \in Handlers, NEW kind \in Kinds, NEW o \in Orders,
           NEW n \in Counts, Ask(h, kind, o, n)
    PROVE  AgreeInv'
<1>1. UNCHANGED <<items, file, minted>> /\ items[o] \in Seq(Codes) /\ call[h] = NoCall
  BY DEF Ask, IInv, TypeOK
<1>2. CASE given' = [given EXCEPT ![o] = @ \cup {items[o]}] /\ UNCHANGED <<call, disturbed>>
  <2>1. ASSUME NEW p \in Tidy PROVE OrderAgrees(p)'
    <3>1. OrderAgrees(p) /\ p \in Orders
      BY DEF AgreeInv, Tidy
    <3>2. \A codes \in given'[p] : codes \in given[p] \/ (p = o /\ codes = items[o])
      BY <1>2, <3>1 DEF IInv, TypeOK
    <3>3. \A codes \in given'[p] : Begins(codes, items[p])
      BY <1>1, <3>1, <3>2, BeginsItself DEF OrderAgrees
    <3> QED BY <1>1, <1>2, <3>1, <3>3 DEF OrderAgrees, Serving, Grows, Begins
  <2> QED BY <1>2, <2>1 DEF AgreeInv, Tidy
<1>3. CASE /\ ~Remembered(kind, o, n)
           /\ call' = [call EXCEPT ![h] =
                 [pc |-> "upstream", kind |-> kind, o |-> o, n |-> n, codes |-> items[o]]]
           /\ disturbed' = IF \E g \in Handlers : call[g] # NoCall /\ call[g].o = o
                             THEN disturbed \cup {o} ELSE disturbed
           /\ UNCHANGED given
  <2> DEFINE new == [pc |-> "upstream", kind |-> kind, o |-> o, n |-> n, codes |-> items[o]]
  <2>1. call'[h] = new /\ \A g \in Handlers : g # h => call'[g] = call[g]
    BY <1>3 DEF IInv, TypeOK
  <2>2. ASSUME NEW p \in Tidy' PROVE OrderAgrees(p)'
    <3>1. p \in Orders /\ p \in Tidy /\ OrderAgrees(p)
      BY <1>3, <2>2 DEF AgreeInv, Tidy
    <3>2. CASE p # o
      <4>1. \A g \in Handlers : Serving(g, p)' => call'[g] = call[g]
        BY <2>1, <3>2 DEF Serving
      <4> QED BY <1>1, <1>3, <3>1, <4>1, UntouchedAgrees
    <3>3. CASE p = o
      <4>1. \A g \in Handlers : ~Serving(g, o)
        BY <1>3, <2>2, <3>1, <3>3 DEF Serving, Tidy
      <4>2. \A g \in Handlers : Serving(g, o)' => g = h
        BY <2>1, <4>1 DEF Serving
      <4>3. kind = "recharge" => items[o] = << >>
        <5>1. kind = "recharge" => ~(Len(items[o]) >= 1)
          BY <1>3 DEF Remembered
        <5> QED BY <1>1, <5>1, EmptySeq
      <4>4. Grows(h, o)'
        BY <1>1, <2>1, <4>3, BeginsItself DEF Grows
      <4> QED BY <1>1, <1>3, <3>1, <3>3, <4>2, <4>4 DEF OrderAgrees
    <3> QED BY <3>2, <3>3
  <2> QED BY <2>2 DEF AgreeInv
<1> QED BY <1>2, <1>3 DEF Ask

\* A step of the request that h serves is about that request's order only.
LEMMA RequestAgrees ==
    ASSUME IInv, AgreeInv, NEW h \in Handlers, call[h].pc \in {"upstream", "store"},
           \A g \in Handlers : g # h => call'[g] = call[g],
           call'[h] = NoCall \/ call'[h].o = call[h].o,
           \A p \in Orders : p # call[h].o =>
               items'[p] = items[p] /\ given'[p] = given[p] /\ (p \in Tidy' => file'[p] = items[p]),
           disturbed \subseteq disturbed',
           call[h].o \in Tidy' =>
               /\ file'[call[h].o] = items'[call[h].o]
               /\ \A codes \in given'[call[h].o] : Begins(codes, items'[call[h].o])
               /\ Serving(h, call[h].o)' => Grows(h, call[h].o)'
    PROVE  AgreeInv'
<1>1. ASSUME NEW p \in Tidy' PROVE OrderAgrees(p)'
  <2>1. p \in Orders /\ OrderAgrees(p)
    BY <1>1 DEF Tidy, AgreeInv
  <2>2. CASE p = call[h].o
    BY <1>1, <2>1, <2>2, ServedIsKnown, TouchedAgrees DEF Serving
  <2>3. CASE p # call[h].o
    <3>1. file'[p] = file[p]
      BY <1>1, <2>1, <2>3 DEF OrderAgrees
    <3>2. \A g \in Handlers : Serving(g, p)' => call'[g] = call[g]
      BY <2>3 DEF Serving
    <3> QED BY <2>1, <2>3, <3>1, <3>2, UntouchedAgrees
  <2> QED BY <2>2, <2>3
<1> QED BY <1>1 DEF AgreeInv

\* What Goto and End leave of the requests.
LEMMA RequestsAfter ==
    ASSUME IInv, NEW h \in Handlers, NEW pc, NEW codes, End(h) \/ Goto(h, pc, codes)
    PROVE  /\ \A g \in Handlers : g # h => call'[g] = call[g]
           /\ \/ End(h) /\ call'[h] = NoCall
              \/ /\ Goto(h, pc, codes)
                 /\ call'[h] = [pc |-> pc, kind |-> call[h].kind, o |-> call[h].o,
                                n |-> call[h].n, codes |-> codes]
<1>1. call \in [Handlers -> {NoCall} \cup Call]
  BY DEF IInv, TypeOK
<1>2. CASE End(h)
  BY <1>1, <1>2 DEF End
<1>3. CASE Goto(h, pc, codes)
  BY <1>1, <1>3 DEF Goto
<1> QED BY <1>2, <1>3

LEMMA TidyAgrees == ASSUME AgreeInv, NEW o \in Tidy PROVE OrderAgrees(o) /\ file[o] = items[o]
BY DEF AgreeInv, OrderAgrees

\* The codes of a request are stored, and answered or not.
LEMMA StoredAgrees ==
    ASSUME IInv, AgreeInv, NEW h \in Handlers, call[h].pc \in {"upstream", "store"},
           NEW saved \in BOOLEAN, Upsert(call[h].o, call[h].codes, saved),
           given' = given \/ given' = [given EXCEPT ![call[h].o] = @ \cup {call[h].codes}],
           \A g \in Handlers : g # h => call'[g] = call[g],
           \/ call'[h] = NoCall
           \/ /\ call'[h].o = call[h].o /\ call'[h].codes = call[h].codes
              /\ call[h].o \in Tidy' => call'[h].kind # "recharge"
    PROVE  AgreeInv'
<1> DEFINE o == call[h].o
           codes == call[h].codes
<1>1. call[h] # NoCall /\ o \in Orders /\ codes \in Seq(Codes)
  BY ServedIsKnown
<1>2. items' = [items EXCEPT ![o] = codes] /\ items'[o] = codes
  BY <1>1 DEF Upsert, IInv, TypeOK
<1>3. \/ file' = items' /\ disturbed' = disturbed
      \/ file' = file /\ disturbed' = disturbed \cup {o}
  BY DEF Upsert
<1>4. Tidy' \subseteq Tidy /\ (o \in Tidy' => file' = items')
  BY <1>3 DEF Tidy
<1>5. ASSUME NEW p \in Orders, p # o
      PROVE  /\ items'[p] = items[p] /\ given'[p] = given[p]
             /\ p \in Tidy' => file'[p] = items[p]
  <2>1. items'[p] = items[p] /\ given'[p] = given[p]
    BY <1>2, <1>5 DEF IInv, TypeOK
  <2>2. p \in Tidy' => file[p] = items[p]
    BY <1>4, TidyAgrees
  <2> QED BY <1>3, <2>1, <2>2
<1>6. ASSUME o \in Tidy'
      PROVE  /\ file'[o] = items'[o]
             /\ \A cs \in given'[o] : Begins(cs, items'[o])
             /\ Serving(h, o)' => Grows(h, o)'
  <2>1. OrderAgrees(o) /\ Begins(items[o], codes)
    BY <1>1, <1>4, <1>6, TidyAgrees DEF OrderAgrees, Serving, Grows
  <2>2. \A cs \in given[o] : Begins(cs, codes)
    BY <1>1, <2>1, GoesOnFromGiven
  <2>3. Begins(codes, codes)
    BY <1>1, BeginsItself
  <2>4. \A cs \in given'[o] : cs \in given[o] \/ cs = codes
    BY <1>1 DEF IInv, TypeOK
  <2>5. Serving(h, o)' => Grows(h, o)'
    BY <1>2, <1>6, <2>3 DEF Serving, Grows, Begins
  <2> QED BY <1>2, <1>4, <1>6, <2>2, <2>3, <2>4, <2>5
<1>7. disturbed \subseteq disturbed'
  BY <1>3
<1> QED BY <1>5, <1>6, <1>7, RequestAgrees

LEMMA RechargeAgrees ==
    ASSUME IInv, AgreeInv, NEW h \in Handlers, RechargeUpstream(h) PROVE AgreeInv'
<1> DEFINE o == call[h].o
           n == call[h].n
<1>1. call[h].pc = "upstream" /\ call[h].kind = "recharge" /\ UNCHANGED <<items, file, given, disturbed>>
  BY DEF RechargeUpstream
<1>2. call[h] # NoCall /\ o \in Orders /\ n \in Nat /\ TypeOK
  BY <1>1, ServedIsKnown DEF IInv
<1>3. End(h) \/ (Mint(o, n) /\ Goto(h, "store", Fresh(n)))
  BY DEF RechargeUpstream
<1>4. /\ \A g \in Handlers : g # h => call'[g] = call[g]
      /\ \/ call'[h] = NoCall
         \/ /\ Mint(o, n)
            /\ call'[h] = [pc |-> "store", kind |-> call[h].kind, o |-> o, n |-> n, codes |-> Fresh(n)]
  <2>1. CASE End(h)
    BY <2>1, RequestsAfter DEF End, IInv, TypeOK
  <2>2. CASE Mint(o, n) /\ Goto(h, "store", Fresh(n))
    <3>1. /\ \A g \in Handlers : g # h => call'[g] = call[g]
          /\ call'[h] = [pc |-> "store", kind |-> call[h].kind, o |-> o, n |-> n, codes |-> Fresh(n)]
      BY <2>2 DEF Goto, IInv, TypeOK
    <3> QED BY <2>2, <3>1
  <2> QED BY <1>3, <2>1, <2>2
<1>5. ASSUME o \in Tidy
      PROVE  /\ file[o] = items[o]
             /\ \A codes \in given[o] : Begins(codes, items[o])
             /\ Serving(h, o)' => Grows(h, o)'
  <2>1. OrderAgrees(o) /\ items[o] = << >>
    BY <1>1, <1>2, <1>5, TidyAgrees DEF OrderAgrees, Serving, Grows
  <2>2. CASE call'[h] = NoCall
    BY <2>1, <2>2 DEF Serving, OrderAgrees
  <2>3. CASE /\ Mint(o, n)
             /\ call'[h] = [pc |-> "store", kind |-> call[h].kind, o |-> o, n |-> n, codes |-> Fresh(n)]
    <3>1. Fresh(n) \in Seq(Codes) /\ Len(Fresh(n)) = n
      BY <1>2, <2>3, FreshIsMade
    <3>2. Begins(items[o], Fresh(n))
      BY <2>1, <3>1, BeginsItself
    <3>3. /\ call'[h].codes = Fresh(n) /\ call'[h].n = n /\ call'[h].pc = "store"
          /\ call'[h].o = o /\ items' = items
      BY <1>1, <2>3
    <3>4. Len(call'[h].codes) >= call'[h].n
      BY <1>2, <3>1, <3>3
    <3>5. Grows(h, o)'
      <4>1. Begins(items'[o], call'[h].codes)
        BY <3>2, <3>3 DEF Begins
      <4>2. call'[h].pc # "upstream"
        BY <3>3
      <4> QED BY <3>3, <3>4, <4>1, <4>2 DEF Grows, Begins
    <3> QED BY <2>1, <3>5 DEF OrderAgrees
  <2> QED BY <1>4, <2>2, <2>3
<1>6. Tidy' = Tidy
  BY <1>1 DEF Tidy
<1>7. call'[h] = NoCall \/ call'[h].o = o
  BY <1>4
<1>8. \A p \in Tidy : file[p] = items[p]
  BY TidyAgrees
<1> QED BY <1>1, <1>4, <1>5, <1>6, <1>7, <1>8, RequestAgrees DEF Begins

LEMMA SubscriptionAgrees ==
    ASSUME IInv, AgreeInv, NEW h \in Handlers, SubscriptionUpstream(h) PROVE AgreeInv'
<1> DEFINE o == call[h].o
           codes == call[h].codes
<1>1. call[h].pc = "upstream" /\ call[h].kind = "subscription" /\ UNCHANGED given
  BY DEF SubscriptionUpstream
<1>2. /\ call[h] # NoCall /\ o \in Orders /\ codes \in Seq(Codes) /\ TypeOK /\ items[o] \in Seq(Codes)
      /\ MadeIn(minted, o, codes)
  BY <1>1, ServedIsKnown DEF IInv, TypeOK
<1>3. \A p \in Tidy : file[p] = items[p]
  BY TidyAgrees
<1>4. o \in Tidy => OrderAgrees(o) /\ Begins(items[o], codes)
  BY <1>2, TidyAgrees DEF OrderAgrees, Serving, Grows
<1>5. CASE Mint(o, 1) /\ Goto(h, "store", codes \o Fresh(1)) /\ UNCHANGED <<items, file, disturbed>>
  <2> DEFINE more == codes \o Fresh(1)
  <2>1. Fresh(1) \in Seq(Codes)
    BY <1>2, <1>5, FreshIsMade
  <2>2. more \in Seq(Codes) /\ Begins(codes, more)
    BY <1>2, <2>1, BeginsMore
  <2>3. /\ \A g \in Handlers : g # h => call'[g] = call[g]
        /\ \/ call'[h] = NoCall
           \/ call'[h] = [pc |-> "store", kind |-> call[h].kind, o |-> o, n |-> call[h].n, codes |-> more]
    BY <1>5, RequestsAfter
  <2> HIDE DEF more
  <2>4. o \in Tidy => (Serving(h, o)' => Grows(h, o)')
    <3>1. SUFFICES ASSUME o \in Tidy, Serving(h, o)'
                   PROVE  Grows(h, o)'
      OBVIOUS
    <3>2. call'[h].kind = "subscription" /\ call'[h].codes = more /\ call'[h].o = o
      BY <1>1, <2>3, <3>1 DEF Serving
    <3>3. Begins(items[o], more)
      BY <1>2, <1>4, <2>2, <3>1, BeginsTransitive
    <3>4. Begins(items'[o], call'[h].codes)
      BY <1>5, <3>2, <3>3 DEF Begins
    <3> QED BY <3>2, <3>4 DEF Grows, Begins
  <2>5. Tidy' = Tidy
    BY <1>5 DEF Tidy
  <2>6. call'[h] = NoCall \/ call'[h].o = o
    BY <2>3
  <2> QED BY <1>1, <1>3, <1>4, <1>5, <2>3, <2>4, <2>5, <2>6, RequestAgrees DEF OrderAgrees, Begins
<1>6. CASE (\E saved \in BOOLEAN : Upsert(o, codes, saved)) /\ End(h)
  <2>1. call'[h] = NoCall /\ \A g \in Handlers : g # h => call'[g] = call[g]
    BY <1>6, RequestsAfter DEF End, TypeOK, IInv
  <2>2. PICK saved \in BOOLEAN : Upsert(o, codes, saved)
    BY <1>6
  <2> QED BY <1>1, <1>2, <1>3, <1>4, <2>1, <2>2, StoredAgrees
<1> QED BY <1>5, <1>6 DEF SubscriptionUpstream

LEMMA KeepAgrees == ASSUME IInv, AgreeInv, NEW h \in Handlers, Keep(h) PROVE AgreeInv'
<1> DEFINE o == call[h].o
           codes == call[h].codes
<1>1. call[h].pc = "store"
  BY DEF Keep
<1>2. call[h] # NoCall /\ o \in Orders
  BY <1>1, ServedIsKnown
<1>3. PICK saved \in BOOLEAN : Upsert(o, codes, saved)
  BY DEF Keep
<1>4. given' = given \/ given' = [given EXCEPT ![o] = @ \cup {codes}]
  BY DEF Keep
<1>5. End(h) \/ (~(Len(codes) >= call[h].n) /\ Goto(h, "upstream", codes))
  BY DEF Keep
<1>6. CASE End(h)
  <2>1. call'[h] = NoCall /\ \A g \in Handlers : g # h => call'[g] = call[g]
    BY <1>6 DEF End, IInv, TypeOK
  <2> QED BY <1>1, <1>3, <1>4, <2>1, StoredAgrees
<1>7. CASE ~(Len(codes) >= call[h].n) /\ Goto(h, "upstream", codes)
  <2>1. /\ \A g \in Handlers : g # h => call'[g] = call[g]
        /\ call'[h].o = o /\ call'[h].codes = codes /\ call'[h].kind = call[h].kind
    BY <1>7 DEF Goto, IInv, TypeOK
  <2>2. o \in Tidy' => o \in Tidy
    BY <1>3 DEF Upsert, Tidy
  <2>3. o \in Tidy => call[h].kind # "recharge"
    BY <1>1, <1>2, <1>7, TidyAgrees DEF OrderAgrees, Serving, Grows
  <2> QED BY <1>1, <1>3, <1>4, <2>1, <2>2, <2>3, StoredAgrees
<1> QED BY <1>5, <1>6, <1>7

LEMMA RestartAgrees == ASSUME IInv, AgreeInv, Restart PROVE AgreeInv'
<1>1. /\ items' = file /\ UNCHANGED <<file, minted, given, disturbed>>
      /\ \A h \in Handlers : call'[h] = NoCall
  BY DEF Restart
<1>2. ASSUME NEW o \in Tidy PROVE OrderAgrees(o)'
  <2>1. OrderAgrees(o)
    BY DEF AgreeInv
  <2>2. file'[o] = items'[o] /\ items'[o] = items[o] /\ given'[o] = given[o]
    BY <1>1, <2>1 DEF OrderAgrees
  <2>3. \A h \in Handlers : ~Serving(h, o)'
    BY <1>1 DEF Serving
  <2> QED BY <2>1, <2>2, <2>3 DEF OrderAgrees, Begins
<1> QED BY <1>1, <1>2 DEF AgreeInv, Tidy

LEMMA NextAgrees == IInv /\ AgreeInv /\ [Next]_vars => AgreeInv'
<1> SUFFICES ASSUME IInv, AgreeInv, [Next]_vars PROVE AgreeInv'
  OBVIOUS
<1>1. CASE UNCHANGED vars
  BY <1>1 DEF vars, AgreeInv, Tidy, OrderAgrees, Serving, Grows, Begins
<1>2. CASE Restart
  BY <1>2, RestartAgrees
<1>3. ASSUME NEW h \in Handlers,
             \/ \E kind \in Kinds, o \in Orders, n \in Counts : Ask(h, kind, o, n)
             \/ RechargeUpstream(h) \/ SubscriptionUpstream(h) \/ Keep(h)
      PROVE  AgreeInv'
  BY <1>3, AskAgrees, RechargeAgrees, SubscriptionAgrees, KeepAgrees
<1> QED BY <1>1, <1>2, <1>3 DEF Next

LEMMA InitAgrees == Init => AgreeInv
<1> SUFFICES ASSUME Init, NEW o \in Tidy PROVE OrderAgrees(o)
  BY DEF AgreeInv
<1>1. o \in Orders
  BY DEF Tidy
<1> QED BY <1>1 DEF Init, OrderAgrees, Serving

LEMMA AgreeInvImplies == IInv /\ AgreeInv => AnswersAgree
<1> SUFFICES ASSUME IInv, AgreeInv, NEW o \in Orders \ disturbed, NEW a \in given[o], NEW b \in given[o]
             PROVE  Extends(a, b) \/ Extends(b, a)
  BY DEF AnswersAgree
<1>1. OrderAgrees(o) /\ a \in Seq(Codes) /\ b \in Seq(Codes) /\ items[o] \in Seq(Codes)
  BY DEF AgreeInv, Tidy, IInv, TypeOK
<1> QED BY <1>1, BeginningsAgree DEF OrderAgrees

\* Where requests for an order come one after the other and the file could be written, every
\* answer repeats or extends the earlier ones: for any number of orders and handlers, of failed
\* calls upstream and of restarts.
THEOREM AnswersAlwaysAgree == Spec => []AnswersAgree
<1>1. Init => IInv /\ AgreeInv
  BY InitInv, InitAgrees
<1>2. IInv /\ AgreeInv /\ [Next]_vars => (IInv /\ AgreeInv)'
  BY NextInv, NextAgrees
<1>3. IInv /\ AgreeInv => AnswersAgree
  BY AgreeInvImplies
<1> QED BY <1>1, <1>2, <1>3, PTL DEF Spec
=============================================================================
