---------------------------- MODULE Orders_proofs ----------------------------
(***************************************************************************)
(* Theorems about the life of an order (OrderLifecycle) and about payments *)
(* coming into it (PaymentIntake, which extends it).                       *)
(*                                                                         *)
(* Of the life of an order: types, what is never undone, the conservation  *)
(* of goods, the refinement of OrderLedger, retries, confirmed payments    *)
(* and completed orders.  Of payments: they leave the orders in that life, *)
(* so what is proved of it holds with them; by one route a transfer pays   *)
(* one order; an order keeps the payment that paid it; and what the        *)
(* sidecar matches is sound for candidates and transfers of any number, by *)
(* induction over the candidates.                                          *)
(***************************************************************************)
EXTENDS PaymentIntake, FiniteSetTheorems, SequenceTheorems, WellFoundedInduction, TLAPS

-----------------------------------------------------------------------------
(* Lists that are filtered, and matched.                                   *)

\* The place of position i among those kept, as Only counts it.
Rank(kept, i) == Cardinality({j \in kept : j <= i})

\* The places are 1, 2, ... in the order of the positions.
LEMMA RanksCount ==
    ASSUME NEW n \in Nat, NEW kept \in SUBSET (1..n)
    PROVE  /\ IsFiniteSet(kept) /\ Cardinality(kept) \in Nat
           /\ \A i \in kept : Rank(kept, i) \in 1..Cardinality(kept)
           /\ \A i, j \in kept : i < j => Rank(kept, i) < Rank(kept, j)
           /\ \A k \in 1..Cardinality(kept) : \E i \in kept : Rank(kept, i) = k
<1>1. IsFiniteSet(kept) /\ Cardinality(kept) \in Nat
  <2>1. IsFiniteSet(1..n)
    BY FS_Interval
  <2> QED BY <2>1, FS_Subset, FS_CardinalityType
<1>2. ASSUME NEW i \in kept
      PROVE  Rank(kept, i) \in 1..Cardinality(kept)
  <2> DEFINE upTo == {j \in kept : j <= i}
  <2>1. i \in upTo /\ upTo \subseteq kept
    OBVIOUS
  <2> HIDE DEF upTo
  <2>2. IsFiniteSet(upTo) /\ Cardinality(upTo) <= Cardinality(kept) /\ Cardinality(upTo) \in Nat
    BY <1>1, <2>1, FS_Subset, FS_CardinalityType
  <2>3. Cardinality(upTo) # 0
    BY <2>1, <2>2, FS_EmptySet
  <2>4. Cardinality(upTo) \in 1..Cardinality(kept)
    BY <1>1, <2>2, <2>3
  <2> QED BY <2>4 DEF Rank, upTo
<1>3. ASSUME NEW i \in kept, NEW j \in kept, i < j
      PROVE  Rank(kept, i) < Rank(kept, j)
  <2> DEFINE toI == {h \in kept : h <= i}
             toJ == {h \in kept : h <= j}
  <2>0. \A h \in kept : h \in Nat
    OBVIOUS
  <2>1. toI \subseteq toJ /\ j \in toJ /\ j \notin toI /\ toJ \subseteq kept
    <3>1. \A h \in kept : h <= i => h <= j
      BY <1>3, <2>0
    <3>2. j <= j /\ ~(j <= i)
      BY <1>3, <2>0
    <3> QED BY <3>1, <3>2
  <2>2. Rank(kept, i) = Cardinality(toI) /\ Rank(kept, j) = Cardinality(toJ)
    BY DEF Rank
  <2> HIDE DEF toI, toJ
  <2>3. IsFiniteSet(toJ)
    BY <1>1, <2>1, FS_Subset
  <2>4. IsFiniteSet(toI) /\ Cardinality(toI) <= Cardinality(toJ) /\ Cardinality(toI) # Cardinality(toJ)
    BY <2>1, <2>3, FS_Subset
  <2>5. Cardinality(toI) \in Nat /\ Cardinality(toJ) \in Nat
    BY <2>3, <2>4, FS_CardinalityType
  <2> QED BY <2>2, <2>4, <2>5
<1>4. \A k \in 1..Cardinality(kept) : \E i \in kept : Rank(kept, i) = k
  <2> DEFINE place == [i \in kept |-> Rank(kept, i)]
             places == 1..Cardinality(kept)
  <2>1. place \in [kept -> places]
    BY <1>2
  <2>2. \A i, j \in kept : place[i] = place[j] => i = j
    <3> SUFFICES ASSUME NEW i \in kept, NEW j \in kept, Rank(kept, i) = Rank(kept, j)
                 PROVE  i = j
      OBVIOUS
    <3>1. Rank(kept, i) \in Nat /\ Rank(kept, j) \in Nat
      BY <1>1, <1>2
    <3>2. ~(i < j) /\ ~(j < i)
      BY <1>3, <3>1
    <3> QED BY <3>2
  <2>3. IsFiniteSet(places) /\ Cardinality(places) = Cardinality(kept)
    <3> PICK c \in Nat : c = Cardinality(kept)
      BY <1>1
    <3>1. 1 \in Int /\ c \in Int
      OBVIOUS
    <3>2. IsFiniteSet(1..c) /\ Cardinality(1..c) = IF 1 > c THEN 0 ELSE c - 1 + 1
      BY <3>1, FS_Interval
    <3> QED BY <3>2
  <2>4. DOMAIN place = kept /\ \A i \in kept : place[i] = Rank(kept, i)
    OBVIOUS
  <2> HIDE DEF place, places
  <2>5. place \in Injection(kept, places)
    BY <2>1, <2>2, <2>4 DEF Injection, IsInjective
  <2>6. place \in Surjection(kept, places)
    BY <2>3, <2>5, FS_Injection
  <2> QED BY <2>4, <2>6 DEF Surjection, places
<1> QED BY <1>1, <1>2, <1>3, <1>4

\* A filtered list has the elements at the positions kept, in their order.
LEMMA OnlyKeeps ==
    ASSUME NEW S, NEW s \in Seq(S), NEW kept \in SUBSET DOMAIN s
    PROVE  /\ Only(s, kept) \in Seq(S)
           /\ \E from \in [DOMAIN Only(s, kept) -> kept] :
                /\ \A k \in DOMAIN Only(s, kept) : Only(s, kept)[k] = s[from[k]]
                /\ \A k, l \in DOMAIN Only(s, kept) : k < l => from[k] < from[l]
                /\ \A i \in kept : \E k \in DOMAIN Only(s, kept) : from[k] = i
<1> DEFINE places == 1..Cardinality(kept)
           from == [k \in places |-> CHOOSE i \in kept : Rank(kept, i) = k]
<1>1. Len(s) \in Nat /\ DOMAIN s = 1..Len(s) /\ \A i \in kept : s[i] \in S
  OBVIOUS
<1>2. /\ Cardinality(kept) \in Nat
      /\ \A i \in kept : Rank(kept, i) \in places
      /\ \A i, j \in kept : i < j => Rank(kept, i) < Rank(kept, j)
      /\ \A k \in places : \E i \in kept : Rank(kept, i) = k
  BY <1>1, RanksCount
<1>3. \A k \in places : from[k] \in kept /\ Rank(kept, from[k]) = k
  BY <1>2
<1>4. Only(s, kept) = [k \in places |-> s[from[k]]]
  BY DEF Only, Rank
<1> HIDE DEF from
<1>5. Only(s, kept) \in Seq(S) /\ DOMAIN Only(s, kept) = places
  BY <1>1, <1>2, <1>3, <1>4
<1>6. \A k \in places : Only(s, kept)[k] = s[from[k]]
  BY <1>4
<1>7. from \in [places -> kept]
  BY <1>3 DEF from
<1>8. ASSUME NEW k \in places, NEW l \in places, k < l
      PROVE  from[k] < from[l]
  <2>1. from[k] \in kept /\ from[l] \in kept /\ from[k] \in Nat /\ from[l] \in Nat
    BY <1>1, <1>3
  <2>2. ~(from[l] < from[k]) /\ from[k] # from[l]
    BY <1>2, <1>3, <1>8, <2>1
  <2> QED BY <2>1, <2>2
<1>9. ASSUME NEW i \in kept
      PROVE  \E k \in places : from[k] = i
  <2>1. PICK k \in places : k = Rank(kept, i)
    BY <1>2
  <2>2. from[k] \in kept /\ Rank(kept, from[k]) = Rank(kept, i)
    BY <1>3, <2>1
  <2>3. ~(from[k] < i) /\ ~(i < from[k])
    BY <1>2, <2>1, <2>2
  <2>4. from[k] \in Nat /\ i \in Nat
    BY <1>1, <2>2
  <2> QED BY <2>3, <2>4
<1> HIDE DEF places
<1> QED BY <1>5, <1>6, <1>7, <1>8, <1>9

\* A set of numbers has a least one: what an induction over a list comes down to here.
LEMMA Least ==
    ASSUME NEW T \in SUBSET Nat, T # {}
    PROVE  Sets!Min(T) \in T /\ \A y \in T : Sets!Min(T) <= y
<1>1. IsWellFoundedOn(OpToRel(<,Nat), Nat)
  BY NatLessThanWellFounded
<1>2. PICK x \in T : \A y \in T : ~(<<y, x>> \in OpToRel(<,Nat))
  BY <1>1, WFMin
<1>3. \A y \in T : ~(y < x)
  BY <1>2 DEF OpToRel
<1>4. \A y \in T : x <= y
  BY <1>3
<1> QED BY <1>4 DEF Sets!Min

\* What an order adds to the matches of the orders before it.
Step(fits, cands, ts, i, ms) ==
    LET free == Options(fits, cands[i], ts) \ Used(ms, ts)
    IN  IF free = {} THEN ms
        ELSE Append(ms, Match(fits, cands, ts, cands[i], ts[Sets!Min(free)]))
\* f lists the matches of the first 0, 1, ... n orders.
Runs(fits, cands, ts, n, f) ==
    /\ f = [i \in 0..n |-> f[i]]
    /\ f[0] = <<>>
    /\ \A i \in 1..n : f[i] = Step(fits, cands, ts, i, f[i - 1])

\* The recursion of SelectMatches has a solution: else there were a least length without one.
LEMMA RunExists ==
    ASSUME NEW fits, NEW cands, NEW ts, Len(cands) \in Nat
    PROVE  \E f : Runs(fits, cands, ts, Len(cands), f)
<1> DEFINE Ok(n) == \E f : Runs(fits, cands, ts, n, f)
           T == {n \in Nat : ~Ok(n)}
<1> SUFFICES T = {}
  OBVIOUS
<1> SUFFICES ASSUME T # {} PROVE FALSE
  OBVIOUS
<1>1. PICK n \in T : \A m \in T : n <= m
  <2>1. T \in SUBSET Nat
    OBVIOUS
  <2> HIDE DEF T
  <2> QED BY <2>1, Least
<1>2. n # 0
  <2>1. Runs(fits, cands, ts, 0, [i \in 0..0 |-> <<>>])
    BY DEF Runs
  <2> QED BY <2>1
<1>3. n \in Nat /\ n - 1 \in Nat /\ ~(n <= n - 1)
  BY <1>2
<1>4. PICK g : Runs(fits, cands, ts, n - 1, g)
  <2>1. n - 1 \notin T
    BY <1>1, <1>3
  <2> QED BY <1>3, <2>1
<1> DEFINE f == [i \in 0..n |-> IF i = n THEN Step(fits, cands, ts, n, g[n - 1]) ELSE g[i]]
<1>5. f = [i \in 0..n |-> f[i]] /\ f[0] = <<>>
  BY <1>3, <1>4 DEF Runs
<1>6. ASSUME NEW i \in 1..n
      PROVE  f[i] = Step(fits, cands, ts, i, f[i - 1])
  <2>1. i - 1 \in 0..n /\ i - 1 # n /\ i \in 0..n /\ f[i - 1] = g[i - 1]
    BY <1>3
  <2>2. CASE i = n
    BY <2>1, <2>2
  <2>3. CASE i # n
    <3>1. i \in 1..(n - 1)
      BY <1>3, <2>3
    <3>2. f[i] = g[i] /\ g[i] = Step(fits, cands, ts, i, g[i - 1])
      BY <1>4, <2>1, <2>3, <3>1 DEF Runs
    <3> QED BY <2>1, <3>2
  <2> QED BY <2>2, <2>3
<1> HIDE DEF f
<1>7. Runs(fits, cands, ts, n, f)
  BY <1>5, <1>6 DEF Runs
<1> QED BY <1>1, <1>7

\* SelectMatches is the last of such a list.
LEMMA SelectRuns ==
    ASSUME NEW fits, NEW cands, NEW ts, Len(cands) \in Nat
    PROVE  \E f : Runs(fits, cands, ts, Len(cands), f) /\ SelectMatches(fits, cands, ts) = f[Len(cands)]
<1> DEFINE Body(i, r) == LET free == Options(fits, cands[i], ts) \ Used(r, ts)
                         IN  IF free = {} THEN r
                             ELSE Append(r, Match(fits, cands, ts, cands[i], ts[Sets!Min(free)]))
           Eq(f) == f = [i \in 0..Len(cands) |-> IF i = 0 THEN <<>> ELSE Body(i, f[i - 1])]
<1>1. \A i, r : Body(i, r) = Step(fits, cands, ts, i, r)
  BY DEF Step
<1>2. SelectMatches(fits, cands, ts) = (CHOOSE f : Eq(f))[Len(cands)]
  BY DEF SelectMatches
<1> HIDE DEF Body
<1>3. ASSUME NEW f
      PROVE  Eq(f) <=> Runs(fits, cands, ts, Len(cands), f)
  <2>1. ASSUME Eq(f)
        PROVE  Runs(fits, cands, ts, Len(cands), f)
    <3>1. \A i \in 0..Len(cands) : f[i] = IF i = 0 THEN <<>> ELSE Body(i, f[i - 1])
      BY <2>1
    <3>2. f = [i \in 0..Len(cands) |-> f[i]]
      BY <2>1
    <3> QED BY <1>1, <3>1, <3>2 DEF Runs
  <2>2. ASSUME Runs(fits, cands, ts, Len(cands), f)
        PROVE  Eq(f)
    <3>1. ASSUME NEW i \in 0..Len(cands)
          PROVE  f[i] = IF i = 0 THEN <<>> ELSE Body(i, f[i - 1])
      <4>1. i = 0 \/ i \in 1..Len(cands)
        OBVIOUS
      <4> QED BY <1>1, <2>2, <4>1 DEF Runs
    <3>2. f = [i \in 0..Len(cands) |-> f[i]]
      BY <2>2 DEF Runs
    <3> QED BY <3>1, <3>2
  <2> QED BY <2>1, <2>2
<1> HIDE DEF Eq
<1>4. PICK f : f = CHOOSE g : Eq(g)
  OBVIOUS
<1>5. Eq(f)
  BY <1>3, <1>4, RunExists
<1> QED BY <1>2, <1>3, <1>4, <1>5

\* Order h is matched, or older orders took all that fits it.
Covered(fits, cands, ts, h, ms) ==
    \/ \E k \in DOMAIN ms : ms[k].o = cands[h]
    \/ \A j \in Options(fits, cands[h], ts) :
           \E k \in DOMAIN ms, g \in 1..h - 1 : ms[k].t = ts[j] /\ ms[k].o = cands[g]
\* What the matches of the first i orders are.
SoundUpTo(fits, cands, ts, i, ms) ==
    /\ \A k \in DOMAIN ms : \E h \in 1..i : \E j \in Options(fits, cands[h], ts) :
           ms[k] = Match(fits, cands, ts, cands[h], ts[j])
    /\ \A k, l \in DOMAIN ms : k # l => ms[k].o # ms[l].o /\ ms[k].t # ms[l].t
    /\ \A h \in 1..i : Covered(fits, cands, ts, h, ms)

\* Another order keeps the matches sound.
LEMMA StepSound ==
    ASSUME NEW fits, NEW S, NEW T, NEW cands \in Seq(S), NEW ts \in Seq(T), 
           \A h, g \in DOMAIN cands : cands[h] = cands[g] => h = g,
           NEW i \in 1..Len(cands), NEW ms \in Seq([o : S, t : T, review : BOOLEAN]),
           SoundUpTo(fits, cands, ts, i - 1, ms)
    PROVE  /\ Step(fits, cands, ts, i, ms) \in Seq([o : S, t : T, review : BOOLEAN])
           /\ SoundUpTo(fits, cands, ts, i, Step(fits, cands, ts, i, ms))
<1> DEFINE free == Options(fits, cands[i], ts) \ Used(ms, ts)
<1>0. Len(cands) \in Nat /\ DOMAIN cands = 1..Len(cands) /\ i \in Nat /\ 1..(i - 1) \subseteq 1..i
      /\ 1..i \subseteq DOMAIN cands /\ i \in DOMAIN cands /\ i \in 1..i
  OBVIOUS
<1>1. CASE free = {}
  <2>1. Step(fits, cands, ts, i, ms) = ms
    BY <1>1 DEF Step
  <2>2. ASSUME NEW j \in Options(fits, cands[i], ts)
        PROVE  \E k \in DOMAIN ms, g \in 1..i - 1 : ms[k].t = ts[j] /\ ms[k].o = cands[g]
    <3>1. PICK k \in DOMAIN ms : ms[k].t = ts[j]
      BY <1>1 DEF Used
    <3>2. PICK h \in 1..(i - 1) : ms[k].o = cands[h]
      BY DEF SoundUpTo, Match
    <3> QED BY <3>1, <3>2
  <2>3. \A h \in 1..i : h \in 1..(i - 1) \/ h = i
    BY <1>0
  <2>4. Covered(fits, cands, ts, i, ms)
    BY <2>2 DEF Covered
  <2>5. ASSUME NEW k \in DOMAIN ms
        PROVE  \E h \in 1..i : \E j \in Options(fits, cands[h], ts) :
                  ms[k] = Match(fits, cands, ts, cands[h], ts[j])
    BY <1>0 DEF SoundUpTo
  <2>6. SoundUpTo(fits, cands, ts, i, ms)
    BY <2>3, <2>4, <2>5 DEF SoundUpTo
  <2> QED BY <2>1, <2>6
<1>2. CASE free # {}
  <2> DEFINE j == Sets!Min(free)
             m == Match(fits, cands, ts, cands[i], ts[j])
             all == Append(ms, m)
  <2>1. j \in free
    <3>1. free \in SUBSET Nat
      BY DEF Options
    <3> HIDE DEF free
    <3> QED BY <1>2, <3>1, Least
  <2>2. Step(fits, cands, ts, i, ms) = all
    BY <1>2 DEF Step
  <2>3. j \in Options(fits, cands[i], ts) /\ j \in DOMAIN ts /\ \A k \in DOMAIN ms : ms[k].t # ts[j]
    BY <2>1 DEF Options, Used
  <2> HIDE DEF j
  <2>4. m \in [o : S, t : T, review : BOOLEAN] /\ m.o = cands[i] /\ m.t = ts[j]
    BY <1>0, <2>3 DEF Match
  <2>5. all \in Seq([o : S, t : T, review : BOOLEAN])
    <3> HIDE DEF m
    <3> QED BY <2>4
  <2>6. /\ DOMAIN all = DOMAIN ms \cup {Len(ms) + 1} /\ Len(ms) + 1 \notin DOMAIN ms
        /\ \A k \in DOMAIN ms : all[k] = ms[k]
        /\ all[Len(ms) + 1] = m
    <3> HIDE DEF m
    <3> QED BY <2>4
  <2> HIDE DEF all
  <2>7. ASSUME NEW k \in DOMAIN all
        PROVE  \E h \in 1..i : \E g \in Options(fits, cands[h], ts) :
                  all[k] = Match(fits, cands, ts, cands[h], ts[g])
    <3>1. CASE k \in DOMAIN ms
      BY <1>0, <2>6, <3>1 DEF SoundUpTo
    <3>2. CASE k = Len(ms) + 1
      BY <1>0, <2>3, <2>6, <3>2
    <3> QED BY <2>6, <3>1, <3>2
  <2>8. ASSUME NEW k \in DOMAIN ms
        PROVE  all[k].o # m.o /\ all[k].t # m.t
    <3>1. PICK h \in 1..(i - 1) : ms[k].o = cands[h]
      BY DEF SoundUpTo, Match
    <3>2. h \in DOMAIN cands /\ h # i
      BY <1>0
    <3> HIDE DEF m
    <3> QED BY <1>0, <2>3, <2>4, <2>6, <3>1, <3>2
  <2>9. ASSUME NEW k \in DOMAIN all, NEW l \in DOMAIN all, k # l
        PROVE  all[k].o # all[l].o /\ all[k].t # all[l].t
    <3>1. CASE k \in DOMAIN ms /\ l \in DOMAIN ms
      BY <2>6, <2>9, <3>1 DEF SoundUpTo
    <3>2. CASE k \notin DOMAIN ms \/ l \notin DOMAIN ms
      <4> HIDE DEF m
      <4> QED BY <2>6, <2>8, <2>9, <3>2
    <3> QED BY <3>1, <3>2
  <2>10. ASSUME NEW h \in 1..i
         PROVE  Covered(fits, cands, ts, h, all)
    <3> HIDE DEF m
    <3>1. CASE h = i
      BY <2>4, <2>6, <3>1 DEF Covered
    <3>2. CASE h # i
      <4>1. Covered(fits, cands, ts, h, ms)
        BY <1>0, <3>2 DEF SoundUpTo
      <4>2. CASE \E k \in DOMAIN ms : ms[k].o = cands[h]
        BY <2>6, <4>2 DEF Covered
      <4>3. CASE \A g \in Options(fits, cands[h], ts) :
                   \E k \in DOMAIN ms, f \in 1..h - 1 : ms[k].t = ts[g] /\ ms[k].o = cands[f]
        <5>1. ASSUME NEW g \in Options(fits, cands[h], ts)
              PROVE  \E k \in DOMAIN all, f \in 1..h - 1 : all[k].t = ts[g] /\ all[k].o = cands[f]
          <6>1. PICK k \in DOMAIN ms, f \in 1..h - 1 : ms[k].t = ts[g] /\ ms[k].o = cands[f]
            BY <4>3
          <6>2. k \in DOMAIN all /\ all[k] = ms[k]
            BY <2>6
          <6> QED BY <6>1, <6>2
        <5> QED BY <5>1 DEF Covered
      <4> QED BY <4>1, <4>2, <4>3 DEF Covered
    <3> QED BY <3>1, <3>2
  <2>11. SoundUpTo(fits, cands, ts, i, all)
    BY <2>7, <2>9, <2>10 DEF SoundUpTo
  <2> QED BY <2>2, <2>5, <2>11
<1> QED BY <1>1, <1>2

\* A set of positions with no two elements.
LEMMA AtMostOne ==
    ASSUME NEW n \in Nat, NEW P, P \subseteq 1..n, ~(Cardinality(P) > 1), NEW x \in P, NEW y \in P
    PROVE  x = y
<1>1. IsFiniteSet(P)
  <2>1. IsFiniteSet(1..n)
    <3>1. 1 \in Int /\ n \in Int
      OBVIOUS
    <3> QED BY <3>1, FS_Interval
  <2> QED BY <2>1, FS_Subset
<1>2. IsFiniteSet(P \ {x}) /\ Cardinality(P \ {x}) = Cardinality(P) - 1
  BY <1>1, FS_RemoveElement
<1>3. Cardinality(P) \in Nat /\ Cardinality(P \ {x}) \in Nat
  BY <1>1, <1>2, FS_CardinalityType
<1>4. Cardinality(P \ {x}) = 0
  BY <1>2, <1>3
<1> QED BY <1>2, <1>4, FS_EmptySet

\* The matches are sound, for lists of any length.
LEMMA MatchesSound ==
    ASSUME NEW fits, NEW S, NEW T, NEW cands \in Seq(S), NEW ts \in Seq(T),
           \A h, g \in DOMAIN cands : cands[h] = cands[g] => h = g
    PROVE  /\ SelectMatches(fits, cands, ts) \in Seq([o : S, t : T, review : BOOLEAN])
           /\ MatchesAreSound(fits, cands, ts, SelectMatches(fits, cands, ts))
<1>0. Len(cands) \in Nat /\ DOMAIN cands = 1..Len(cands)
  OBVIOUS
<1>1. PICK f : Runs(fits, cands, ts, Len(cands), f) /\ SelectMatches(fits, cands, ts) = f[Len(cands)]
  BY <1>0, SelectRuns
<1> DEFINE Ok(i) == /\ f[i] \in Seq([o : S, t : T, review : BOOLEAN])
                    /\ SoundUpTo(fits, cands, ts, i, f[i])
           Bad == {i \in 0..Len(cands) : ~Ok(i)}
<1>2. Ok(0)
  <2>1. f[0] = <<>> /\ DOMAIN f[0] = {}
    BY <1>1 DEF Runs
  <2> QED BY <2>1 DEF SoundUpTo
<1>3. ASSUME NEW i \in 1..Len(cands), Ok(i - 1)
      PROVE  Ok(i)
  <2>1. f[i] = Step(fits, cands, ts, i, f[i - 1])
    BY <1>1 DEF Runs
  <2> PICK ms : ms = f[i - 1]
    OBVIOUS
  <2>2. ms \in Seq([o : S, t : T, review : BOOLEAN]) /\ SoundUpTo(fits, cands, ts, i - 1, ms)
    BY <1>3
  <2>3. /\ Step(fits, cands, ts, i, ms) \in Seq([o : S, t : T, review : BOOLEAN])
        /\ SoundUpTo(fits, cands, ts, i, Step(fits, cands, ts, i, ms))
    BY <2>2, StepSound
  <2> QED BY <2>1, <2>3
<1>4. Bad = {}
  <2> SUFFICES ASSUME Bad # {} PROVE FALSE
    OBVIOUS
  <2>1. PICK n \in Bad : \A h \in Bad : n <= h
    <3>1. Bad \in SUBSET Nat
      BY <1>0
    <3> HIDE DEF Bad
    <3> QED BY <3>1, Least
  <2> HIDE DEF Ok
  <2>2. n # 0
    BY <1>2
  <2>3. n \in 1..Len(cands) /\ n - 1 \in 0..Len(cands) /\ ~(n <= n - 1)
    BY <1>0, <2>2
  <2>4. Ok(n - 1)
    BY <2>1, <2>3
  <2> QED BY <1>3, <2>3, <2>4
<1>5. PICK ms : ms = SelectMatches(fits, cands, ts)
  OBVIOUS
<1>6. ms \in Seq([o : S, t : T, review : BOOLEAN]) /\ SoundUpTo(fits, cands, ts, Len(cands), ms)
  <2>1. Len(cands) \in 0..Len(cands)
    BY <1>0
  <2>2. Ok(Len(cands))
    <3> HIDE DEF Ok
    <3> QED BY <1>4, <2>1
  <2> QED BY <1>1, <1>5, <2>2
<1>7. ASSUME NEW k \in DOMAIN ms
      PROVE  /\ <<ms[k].o, ms[k].t>> \in fits
             /\ ~ ms[k].review =>
                  /\ \A j \in DOMAIN ts : <<ms[k].o, ts[j]>> \in fits => ts[j] = ms[k].t
                  /\ \A i \in DOMAIN cands : <<cands[i], ms[k].t>> \in fits => cands[i] = ms[k].o
  <2>0. PICK h \in 1..Len(cands) : \E g \in Options(fits, cands[h], ts) :
           ms[k] = Match(fits, cands, ts, cands[h], ts[g])
    BY <1>6 DEF SoundUpTo
  <2>1. PICK g \in Options(fits, cands[h], ts) : ms[k] = Match(fits, cands, ts, cands[h], ts[g])
    BY <2>0
  <2>2. /\ ms[k].o = cands[h] /\ ms[k].t = ts[g] /\ g \in DOMAIN ts /\ <<cands[h], ts[g]>> \in fits
        /\ ~ ms[k].review => /\ ~(Cardinality(Options(fits, cands[h], ts)) > 1)
                             /\ ~(Cardinality(Claims(fits, cands, ts[g])) > 1)
    <3> PICK b : b = (\/ Cardinality(Options(fits, cands[h], ts)) > 1
                      \/ Cardinality(Claims(fits, cands, ts[g])) > 1)
      OBVIOUS
    <3>1. ms[k] = [o |-> cands[h], t |-> ts[g], review |-> b]
      BY <2>1 DEF Match
    <3>2. g \in DOMAIN ts /\ <<cands[h], ts[g]>> \in fits
      BY <2>1 DEF Options
    <3>3. ~b => /\ ~(Cardinality(Options(fits, cands[h], ts)) > 1)
                /\ ~(Cardinality(Claims(fits, cands, ts[g])) > 1)
      OBVIOUS
    <3> QED BY <3>1, <3>2, <3>3
  <2>3. ASSUME ~ ms[k].review
        PROVE  /\ \A j \in Options(fits, cands[h], ts) : j = g
               /\ \A i \in Claims(fits, cands, ts[g]) : i = h
    <3>1. ~(Cardinality(Options(fits, cands[h], ts)) > 1) /\ ~(Cardinality(Claims(fits, cands, ts[g])) > 1)
      BY <2>2, <2>3
    <3>2. Options(fits, cands[h], ts) \subseteq 1..Len(ts) /\ Claims(fits, cands, ts[g]) \subseteq 1..Len(cands)
          /\ Len(ts) \in Nat
      BY <1>0 DEF Options, Claims
    <3>3. g \in Options(fits, cands[h], ts) /\ h \in Claims(fits, cands, ts[g])
      BY <2>1, <2>2 DEF Claims
    <3> QED BY <1>0, <3>1, <3>2, <3>3, AtMostOne
  <2> QED BY <2>2, <2>3 DEF Options, Claims
<1>8. \A k, l \in DOMAIN ms : k # l => ms[k].o # ms[l].o /\ ms[k].t # ms[l].t
  BY <1>6 DEF SoundUpTo
<1>9. \A i \in DOMAIN cands : Covered(fits, cands, ts, i, ms)
  BY <1>0, <1>6 DEF SoundUpTo
<1>10. MatchesAreSound(fits, cands, ts, ms)
  <2>1. \A i \in DOMAIN cands :
           \/ \E k \in DOMAIN ms : ms[k].o = cands[i]
           \/ \A j \in Options(fits, cands[i], ts) :
                  \E k \in DOMAIN ms, h \in 1 .. i - 1 :
                      ms[k].t = ts[j] /\ ms[k].o = cands[h]
    BY <1>9 DEF Covered
  <2> QED BY <1>7, <1>8, <2>1 DEF MatchesAreSound
<1> QED BY <1>5, <1>6, <1>10

\* The orders the sidecar is asked about are known and each listed once.
LEMMA CandidatesListed ==
    /\ Candidates \in Seq(Orders)
    /\ \A h, g \in DOMAIN Candidates : Candidates[h] = Candidates[g] => h = g
<1> DEFINE kept == {k \in DOMAIN ByAge : Pending(ByAge[k])}
<1>1. /\ ByAge \in Seq(Orders) /\ DOMAIN ByAge = 1..Len(ByAge) /\ Len(ByAge) \in Nat
      /\ \A j, k \in DOMAIN ByAge : ByAge[j] = ByAge[k] => j = k
  BY ListsAssumption
<1>2. Candidates = Only(ByAge, kept) /\ kept \in SUBSET DOMAIN ByAge
  BY DEF Candidates
<1> HIDE DEF kept
<1> PICK cands : cands = Only(ByAge, kept)
  OBVIOUS
<1>3. cands \in Seq(Orders) /\ DOMAIN cands = 1..Len(cands) /\ Len(cands) \in Nat
  BY <1>1, <1>2, OnlyKeeps
<1>4. PICK from \in [DOMAIN cands -> kept] :
         /\ \A k \in DOMAIN cands : cands[k] = ByAge[from[k]]
         /\ \A k, l \in DOMAIN cands : k < l => from[k] < from[l]
  BY <1>1, <1>2, OnlyKeeps
<1>5. ASSUME NEW h \in DOMAIN cands, NEW g \in DOMAIN cands, cands[h] = cands[g]
      PROVE  h = g
  <2>1. from[h] = from[g] /\ from[h] \in Nat
    BY <1>1, <1>2, <1>4, <1>5
  <2>2. ~(h < g) /\ ~(g < h)
    BY <1>4, <2>1
  <2> QED BY <1>3, <2>2
<1> QED BY <1>2, <1>3, <1>5

-----------------------------------------------------------------------------
USE QuantityAssumption, ChannelAssumption, IssuesCodesAssumption,
    InventoriesAssumption, RetriesAssumption, RefundsAssumption

-----------------------------------------------------------------------------
(* Type correctness.                                                       *)

\* Saving a row keeps the orders well typed.
LEMMA SaveType ==
    ASSUME TypeOK, NEW o \in Orders, NEW status \in Statuses,
           NEW pay \in PaymentStatuses, NEW del \in DeliveryStatuses,
           Save(o, status, pay, del)
    PROVE  order' \in [Orders -> Row]
BY DEF TypeOK, Save, Row

\* A successful fulfilment writes typed records and a typed inventory.
LEMMA FulfilSucceedsType ==
    ASSUME TypeOK, NEW o \in Orders, NEW retry \in BOOLEAN,
           FulfilSucceeds(o, order[o], retry),
           running' \in [Orders -> 0 .. MaxRetries]
    PROVE  TypeOK'
<1>1. order' \in [Orders -> Row]
  BY DEF TypeOK, FulfilSucceeds, Save, Row, Statuses, DeliveryStatuses
<1>2. /\ ful' \in [Orders -> {"none", "success", "failed"}]
      /\ issue' \in [Orders -> {"none", "success", "failed"}]
  BY DEF TypeOK, FulfilSucceeds
<1>3. stock' \in Int /\ stockBase' \in Int /\ sold' \subseteq Orders
  BY DEF TypeOK, FulfilSucceeds, Reserve
<1>4. queued' \in [Orders -> 0 .. MaxRetries]
  BY DEF TypeOK, FulfilSucceeds, CancelQueued
<1>5. UNCHANGED <<dlv, oldTelegram, refunds, req>>
  BY DEF FulfilSucceeds
<1> QED BY <1>1, <1>2, <1>3, <1>4, <1>5 DEF TypeOK

\* A failed one does too: its retry number stays within max_retries.
LEMMA FulfilFailsType ==
    ASSUME TypeOK, NEW o \in Orders, NEW attempt \in 0 .. MaxRetries,
           FulfilFails(o, order[o], attempt),
           running' \in [Orders -> 0 .. MaxRetries]
    PROVE  TypeOK'
<1>1. order' \in [Orders -> Row]
  BY DEF TypeOK, FulfilFails, Save, Row, Statuses
<1>2. /\ ful' \in [Orders -> {"none", "success", "failed"}]
      /\ issue' \in [Orders -> {"none", "success", "failed"}]
  BY DEF TypeOK, FulfilFails
<1>3. queued' \in [Orders -> 0 .. MaxRetries]
  BY DEF TypeOK, FulfilFails, ScheduleRetry
<1>4. UNCHANGED <<dlv, oldTelegram, stockVars, refunds, req>>
  BY DEF FulfilFails
<1> QED BY <1>1, <1>2, <1>3, <1>4 DEF TypeOK, stockVars

\* Confirm, reject, time out, expire and cancel write typed orders.
LEMMA ReviewType ==
    ASSUME TypeOK, NEW o \in Orders, Review(o)
    PROVE  TypeOK'
<1> USE DEF TypeOK, Save, Row, Statuses, PaymentStatuses, DeliveryStatuses,
            recordVars, stockVars, jobVars
<1>1. CASE ConfirmPayment(o, order[o])
  BY <1>1 DEF ConfirmPayment
<1>2. CASE RejectPayment(o, order[o])
  BY <1>2 DEF RejectPayment
<1>3. CASE ReviewTimeout(o, order[o])
  BY <1>3 DEF ReviewTimeout
<1>4. CASE ExpireOrder(o, order[o])
  BY <1>4 DEF ExpireOrder
<1>5. CASE CancelAdminOrder(o, order[o])
  BY <1>5 DEF CancelAdminOrder, CancelQueued
<1> QED BY <1>1, <1>2, <1>3, <1>4, <1>5 DEF Review

\* A buyer request saves the typed row it read.
LEMMA BuyerType ==
    ASSUME TypeOK, Buyer
    PROVE  TypeOK'
<1> USE DEF TypeOK, Save, Row, Statuses, PaymentStatuses, DeliveryStatuses,
            recordVars, stockVars, jobVars, EndRequest, Idle, BuyerOps
<1>0. PICK r \in Requests :
         \/ \E o \in Orders, op \in BuyerOps : BuyerRead(r, o, op)
         \/ BuyerMarkPaid(r)
         \/ BuyerCancel(r)
         \/ BuyerAbort(r)
  BY DEF Buyer
<1>1. ASSUME NEW o \in Orders, NEW op \in BuyerOps, BuyerRead(r, o, op)
      PROVE  TypeOK'
  BY <1>1 DEF BuyerRead
<1>2. CASE BuyerMarkPaid(r)
  BY <1>2 DEF BuyerMarkPaid
<1>3. CASE BuyerCancel(r)
  BY <1>3 DEF BuyerCancel
<1>4. CASE BuyerAbort(r)
  BY <1>4 DEF BuyerAbort
<1> QED BY <1>0, <1>1, <1>2, <1>3, <1>4

\* A new delivery record keeps the delivery records well typed.
LEMMA AddDeliveryType ==
    ASSUME TypeOK, NEW o \in Orders, NEW st \in {"pending", "sent"},
           NEW ch \in Channels, AddDelivery(o, st, ch)
    PROVE  /\ dlv' \in [Orders -> [st : {"none", "pending", "sent"}, ch : Channels]]
           /\ oldTelegram' \subseteq Orders
BY DEF TypeOK, AddDelivery

\* Fulfilment, delivery and their retries by operators.
LEMMA OperateType ==
    ASSUME TypeOK, NEW o \in Orders, Operate(o)
    PROVE  TypeOK'
<1>0. order[o].pay \in PaymentStatuses /\ order[o].del \in DeliveryStatuses
  BY DEF TypeOK, Row
<1>1. ASSUME NEW retry \in BOOLEAN, Fulfil(o, retry)
      PROVE  TypeOK'
  <2>1. running' \in [Orders -> 0 .. MaxRetries]
    BY <1>1 DEF Fulfil, TypeOK
  <2> QED BY <1>1, <2>1, FulfilSucceedsType, FulfilFailsType DEF Fulfil
<1>2. ASSUME NEW mode \in DeliveryModes, Deliver(o, order[o], mode)
      PROVE  TypeOK'
  <2>1. \/ UNCHANGED order
        \/ Save(o, "delivery_pending", order[o].pay, "pending")
        \/ Save(o, "completed", order[o].pay, "sent")
    BY <1>2, Zenon DEF Deliver
  <2>2. order' \in [Orders -> Row]
    BY <1>0, <2>1, SaveType DEF Statuses, DeliveryStatuses, TypeOK
  <2>3. \/ AddDelivery(o, "pending", Channel[o])
        \/ AddDelivery(o, "pending", "manual")
        \/ AddDelivery(o, "sent", "web")
    BY <1>2, Zenon DEF Deliver
  <2>4. /\ dlv' \in [Orders -> [st : {"none", "pending", "sent"}, ch : Channels]]
        /\ oldTelegram' \subseteq Orders
    BY <2>3, AddDeliveryType DEF Channels
  <2>5. UNCHANGED <<ful, issue, stockVars, jobVars, refunds, req>>
    BY <1>2 DEF Deliver
  <2> QED BY <2>2, <2>4, <2>5 DEF TypeOK, stockVars, jobVars
<1>3. CASE CompleteDelivery(o, order[o]) \/ RetryTelegramDelivery(o, order[o])
  <2>1. Save(o, "completed", order[o].pay, "sent")
    BY <1>3, Zenon DEF CompleteDelivery, RetryTelegramDelivery
  <2>2. order' \in [Orders -> Row]
    BY <1>0, <2>1, SaveType DEF Statuses, DeliveryStatuses
  <2>3. \/ dlv' = [dlv EXCEPT ![o] = [st |-> "sent", ch |-> dlv[o].ch]]
        \/ dlv' = dlv
    BY <1>3, Zenon DEF CompleteDelivery, RetryTelegramDelivery
  <2>4. dlv' \in [Orders -> [st : {"none", "pending", "sent"}, ch : Channels]]
    <3> DEFINE sent == [st |-> "sent", ch |-> dlv[o].ch]
    <3>1. sent \in [st : {"none", "pending", "sent"}, ch : Channels]
      BY DEF TypeOK
    <3>2. dlv' = [dlv EXCEPT ![o] = sent] \/ dlv' = dlv
      BY <2>3
    <3> HIDE DEF sent
    <3> QED BY <3>1, <3>2 DEF TypeOK
  <2>5. UNCHANGED <<ful, issue, oldTelegram, stockVars, jobVars, refunds, req>>
    BY <1>3 DEF CompleteDelivery, RetryTelegramDelivery
  <2> QED BY <2>2, <2>4, <2>5 DEF TypeOK, stockVars, jobVars
<1> QED BY <1>1, <1>2, <1>3 DEF Operate

\* applyRefundSuccessTx writes a typed order and empties the queue.
LEMMA ApplyRefundType ==
    ASSUME TypeOK, NEW o \in Orders, ApplyRefund(o, order[o])
    PROVE  order' \in [Orders -> Row] /\ queued' \in [Orders -> 0 .. MaxRetries]
BY DEF TypeOK, ApplyRefund, Save, CancelQueued, Row, Statuses, PaymentStatuses,
       DeliveryStatuses

\* The refund log stays a sequence of refund records.
LEMMA RefundType ==
    ASSUME TypeOK, NEW o \in Orders, Refund(o)
    PROVE  TypeOK'
<1>1. refunds[o] \in Seq(RefundRecord)
  BY DEF TypeOK
<1>2. CASE MarkRefund(o, order[o])
  <2>1. ApplyRefund(o, order[o])
    BY <1>2 DEF MarkRefund
  <2>2. refunds' \in [Orders -> Seq(RefundRecord)]
    BY <1>2 DEF MarkRefund, TypeOK, RefundRecord
  <2>3. UNCHANGED <<recordVars, stockVars, running, req>>
    BY <1>2 DEF MarkRefund
  <2> QED BY <2>1, <2>2, <2>3, ApplyRefundType DEF TypeOK, recordVars, stockVars
<1>3. CASE PrepareRefund(o, order[o])
  <2>1. refunds' \in [Orders -> Seq(RefundRecord)]
    BY <1>3 DEF PrepareRefund, TypeOK, RefundRecord
  <2>2. UNCHANGED <<order, recordVars, stockVars, jobVars, req>>
    BY <1>3 DEF PrepareRefund
  <2> QED BY <2>1, <2>2 DEF TypeOK, recordVars, stockVars, jobVars
<1>4. ASSUME NEW i \in DOMAIN refunds[o], NEW outcome \in RefundOutcomes,
             FinalizeRefund(o, i, outcome)
      PROVE  TypeOK'
  <2> DEFINE rec == [type |-> refunds[o][i].type, st |-> outcome, live |-> FALSE]
  <2>1. i \in 1 .. Len(refunds[o])
    BY <1>1
  <2>2. refunds[o][i] \in RefundRecord
    BY <1>1, <2>1, ElementOfSeq
  <2>3. rec \in RefundRecord
    BY <2>2 DEF RefundOutcomes, RefundRecord
  <2>4. refunds' = [refunds EXCEPT ![o] = [refunds[o] EXCEPT ![i] = rec]]
    BY <1>4 DEF FinalizeRefund
  <2> HIDE DEF rec
  <2>5. [refunds[o] EXCEPT ![i] = rec] \in Seq(RefundRecord)
    BY <1>1, <2>1, <2>3, ExceptSeq
  <2>6. refunds' \in [Orders -> Seq(RefundRecord)]
    BY <2>4, <2>5 DEF TypeOK
  <2>7. ApplyRefund(o, order[o]) \/ UNCHANGED <<order, queued>>
    BY <1>4, Zenon DEF FinalizeRefund
  <2>8. UNCHANGED <<recordVars, stockVars, running, req>>
    BY <1>4 DEF FinalizeRefund
  <2> QED BY <2>6, <2>7, <2>8, ApplyRefundType DEF TypeOK, recordVars, stockVars
<1> QED BY <1>2, <1>3, <1>4 DEF Refund

\* The worker moves retry numbers between queued and running.
LEMMA WorkerType ==
    ASSUME TypeOK, NEW o \in Orders, Worker(o)
    PROVE  TypeOK'
<1>1. CASE RunJob(o)
  <2>1. running' \in [Orders -> 0 .. MaxRetries] /\ Attempt(o) \in 0 .. MaxRetries
    BY <1>1 DEF RunJob, EndJob, Attempt, TypeOK
  <2> QED BY <1>1, <2>1, FulfilSucceedsType, FulfilFailsType DEF RunJob
<1> USE DEF TypeOK, recordVars, stockVars, EndJob
<1>2. CASE ClaimJob(o)
  BY <1>2 DEF ClaimJob
<1>3. CASE RefuseJob(o)
  BY <1>3 DEF RefuseJob
<1>4. CASE LoseJob(o)
  BY <1>4 DEF LoseJob
<1> QED BY <1>1, <1>2, <1>3, <1>4 DEF Worker

\* A crash of the process keeps every persisted row typed.
LEMMA CrashType ==
    ASSUME TypeOK, Crash
    PROVE  TypeOK'
<1>1. refunds' \in [Orders -> Seq(RefundRecord)]
  <2> SUFFICES ASSUME NEW o \in Orders
               PROVE  [i \in DOMAIN refunds[o] |->
                         [type |-> refunds[o][i].type, st |-> refunds[o][i].st,
                          live |-> FALSE]] \in Seq(RefundRecord)
    BY DEF Crash
  <2>1. refunds[o] \in Seq(RefundRecord)
    BY DEF TypeOK
  <2>2. /\ Len(refunds[o]) \in Nat
        /\ DOMAIN refunds[o] = 1 .. Len(refunds[o])
        /\ \A i \in 1 .. Len(refunds[o]) : refunds[o][i] \in RefundRecord
    BY <2>1, LenProperties, ElementOfSeq
  <2>3. [i \in 1 .. Len(refunds[o]) |->
           [type |-> refunds[o][i].type, st |-> refunds[o][i].st, live |-> FALSE]]
             \in [1 .. Len(refunds[o]) -> RefundRecord]
    BY <2>2 DEF RefundRecord
  <2> QED BY <2>2, <2>3, SeqDef
<1> QED BY <1>1 DEF TypeOK, Crash, recordVars, stockVars, Idle

\* Every state the order handlers, the sweeps and the worker leave is typed:
\* statuses are among the written ones, retry numbers within max_retries.
THEOREM TypeCorrect == Spec => []TypeOK
<1>1. Init => TypeOK
  BY DEF Init, TypeOK, NewOrder, Row, Statuses, PaymentStatuses,
         DeliveryStatuses, Channels, Idle
<1>2. TypeOK /\ [Next]_vars => TypeOK'
  <2> SUFFICES ASSUME TypeOK, [Next]_vars PROVE TypeOK'
    OBVIOUS
  <2>1. CASE Buyer
    BY <2>1, BuyerType
  <2>2. ASSUME NEW o \in Orders, Review(o) \/ Operate(o) \/ Refund(o) \/ Worker(o)
        PROVE  TypeOK'
    BY <2>2, ReviewType, OperateType, RefundType, WorkerType
  <2>3. ASSUME NEW n \in Inventories, EditProduct(n)
        PROVE  TypeOK'
    BY <2>3 DEF EditProduct, TypeOK, recordVars, jobVars
  <2>4. CASE Crash
    BY <2>4, CrashType
  <2>5. CASE UNCHANGED vars
    BY <2>5 DEF vars, TypeOK, recordVars, stockVars, jobVars
  <2> QED BY <2>1, <2>2, <2>3, <2>4, <2>5 DEF Next
<1> QED BY <1>1, <1>2, PTL DEF Spec

-----------------------------------------------------------------------------
(* Goods: fulfilment results, issued codes and inventory.                  *)

\* Only a fulfilment attempt and the product form touch the goods.
LEMMA GoodsStep ==
    ASSUME TypeOK, [Next]_vars
    PROVE  \/ UNCHANGED <<ful, issue, stock, stockBase, sold>>
           \/ \E o \in Orders, retry \in BOOLEAN : FulfilSucceeds(o, order[o], retry)
           \/ \E o \in Orders, attempt \in 0 .. MaxRetries :
                  FulfilFails(o, order[o], attempt)
           \/ \E n \in Inventories : EditProduct(n)
<1>1. CASE Buyer
  BY <1>1 DEF Buyer, BuyerRead, BuyerMarkPaid, BuyerCancel, BuyerAbort,
              recordVars, stockVars
<1>2. ASSUME NEW o \in Orders, Review(o)
      PROVE  UNCHANGED <<ful, issue, stock, stockBase, sold>>
  BY <1>2, Zenon DEF Review, ConfirmPayment, RejectPayment, ReviewTimeout,
       ExpireOrder, CancelAdminOrder, recordVars, stockVars
<1>3. ASSUME NEW o \in Orders, Operate(o)
      PROVE  \/ UNCHANGED <<ful, issue, stock, stockBase, sold>>
             \/ \E retry \in BOOLEAN : FulfilSucceeds(o, order[o], retry)
             \/ FulfilFails(o, order[o], 0)
  BY <1>3, Zenon DEF Operate, Fulfil, Deliver, CompleteDelivery,
       RetryTelegramDelivery, stockVars
<1>4. ASSUME NEW o \in Orders, Refund(o)
      PROVE  UNCHANGED <<ful, issue, stock, stockBase, sold>>
  BY <1>4, Zenon DEF Refund, MarkRefund, PrepareRefund, FinalizeRefund,
       recordVars, stockVars
<1>5. ASSUME NEW o \in Orders, Worker(o)
      PROVE  \/ UNCHANGED <<ful, issue, stock, stockBase, sold>>
             \/ FulfilSucceeds(o, order[o], TRUE)
             \/ FulfilFails(o, order[o], running[o])
  BY <1>5, Zenon DEF Worker, ClaimJob, RunJob, RefuseJob, LoseJob, Attempt,
       recordVars, stockVars
<1>6. CASE Crash
  BY <1>6 DEF Crash, recordVars, stockVars
<1>7. CASE UNCHANGED vars
  BY <1>7 DEF vars, recordVars, stockVars
<1>8. 0 \in 0 .. MaxRetries /\ \A o \in Orders : running[o] \in 0 .. MaxRetries
  BY DEF TypeOK
<1> QED BY <1>1, <1>2, <1>3, <1>4, <1>5, <1>6, <1>7, <1>8 DEF Next

\* A successful fulfilment and its codes are final: no retry, redelivery,
\* refund or failed attempt overwrites them.
THEOREM ResultsSurviveAlways == Spec => ResultsSurvive
<1>1. TypeOK /\ [Next]_vars =>
        [\A o \in Orders :
            ful[o] = "success" => ful'[o] = "success" /\ issue'[o] = issue[o]]_vars
  <2> SUFFICES ASSUME TypeOK, [Next]_vars, NEW o \in Orders, ful[o] = "success"
               PROVE  ful'[o] = "success" /\ issue'[o] = issue[o]
    OBVIOUS
  <2>1. CASE UNCHANGED <<ful, issue, stock, stockBase, sold>>
    BY <2>1
  <2>2. ASSUME NEW p \in Orders, NEW retry \in BOOLEAN,
               FulfilSucceeds(p, order[p], retry)
        PROVE  ful'[o] = "success" /\ issue'[o] = issue[o]
    BY <2>2 DEF FulfilSucceeds, MayFulfil, TypeOK
  <2>3. ASSUME NEW p \in Orders, NEW attempt \in 0 .. MaxRetries,
               FulfilFails(p, order[p], attempt)
        PROVE  ful'[o] = "success" /\ issue'[o] = issue[o]
    BY <2>3 DEF FulfilFails, MayFulfil, TypeOK
  <2>4. ASSUME NEW n \in Inventories, EditProduct(n)
        PROVE  ful'[o] = "success" /\ issue'[o] = issue[o]
    BY <2>4 DEF EditProduct, recordVars
  <2> QED BY <2>1, <2>2, <2>3, <2>4, GoodsStep
<1> QED BY <1>1, TypeCorrect, PTL DEF Spec, ResultsSurvive

\* One more order takes exactly its own units.
LEMMA UnitsOfOneMore ==
    ASSUME NEW S \in SUBSET Orders, NEW o \in Orders, o \notin S,
           IsFiniteSet(Units(S))
    PROVE  /\ IsFiniteSet(Units(S \cup {o}))
           /\ Cardinality(Units(S \cup {o})) = Cardinality(Units(S)) + Quantity[o]
<1> DEFINE own == {o} \X (1 .. Quantity[o])
<1>1. Quantity[o] \in Nat \ {0}
  BY QuantityAssumption
<1>2. Units(S \cup {o}) = Units(S) \cup own
  BY DEF Units
<1>3. Units(S) \cap own = {}
  BY DEF Units
<1>4. /\ IsFiniteSet(1 .. Quantity[o])
      /\ Cardinality(1 .. Quantity[o]) = Quantity[o]
  BY <1>1, FS_Interval
<1>5. IsFiniteSet({o}) /\ Cardinality({o}) = 1
  BY FS_Singleton
<1>6. IsFiniteSet(own) /\ Cardinality(own) = Quantity[o]
  <2>1. IsFiniteSet(own) /\ Cardinality(own) = 1 * Quantity[o]
    BY <1>4, <1>5, FS_Product
  <2> QED BY <2>1, <1>1
<1> HIDE DEF own
<1>7. /\ IsFiniteSet(Units(S) \cup own)
      /\ Cardinality(Units(S) \cup own) =
            Cardinality(Units(S)) + Cardinality(own) - Cardinality(Units(S) \cap own)
  BY <1>6, FS_Union
<1>8. Cardinality(Units(S)) \in Nat
  BY FS_CardinalityType
<1>9. Cardinality(Units(S) \cap own) = 0
  BY <1>3, FS_EmptySet
<1>10. Cardinality(Units(S) \cup own) = Cardinality(Units(S)) + Quantity[o]
  BY <1>1, <1>6, <1>7, <1>8, <1>9
<1> QED BY <1>2, <1>7, <1>10

\* The orders counted as sold are fulfilled, so none of them is sold again.
StockInv == /\ StockConserved
            /\ SoldIsFulfilled
            /\ IsFiniteSet(Units(sold))

\* The inventory the operator set is gone down by exactly the units of the
\* orders fulfilled since: failures and retries neither leak nor mint stock.
THEOREM StockIsConserved == Spec => [](StockConserved /\ SoldIsFulfilled)
<1>1. Init => StockInv
  <2> SUFFICES ASSUME Init PROVE StockInv
    OBVIOUS
  <2>1. Units(sold) = {} /\ stock \in Int
    BY InventoriesAssumption DEF Init, Units
  <2>2. IsFiniteSet(Units(sold)) /\ Cardinality(Units(sold)) = 0
    BY <2>1, FS_EmptySet
  <2> QED BY <2>1, <2>2 DEF Init, StockInv, StockConserved, SoldIsFulfilled
<1>2. TypeOK /\ StockInv /\ [Next]_vars => StockInv'
  <2> SUFFICES ASSUME TypeOK, StockInv, [Next]_vars PROVE StockInv'
    OBVIOUS
  <2> USE DEF StockInv, StockConserved, SoldIsFulfilled
  <2>1. CASE UNCHANGED <<ful, issue, stock, stockBase, sold>>
    BY <2>1 DEF Units
  <2>2. ASSUME NEW o \in Orders, NEW retry \in BOOLEAN,
               FulfilSucceeds(o, order[o], retry)
        PROVE  StockInv'
    <3>1. /\ ful[o] # "success"
          /\ ful' = [ful EXCEPT ![o] = "success"]
          /\ stock' = stock - Quantity[o]
          /\ stockBase' = stockBase
          /\ sold' = sold \cup {o}
      BY <2>2, Zenon DEF FulfilSucceeds, MayFulfil, Reserve
    <3>2. o \notin sold
      BY <3>1
    <3>3. /\ IsFiniteSet(Units(sold'))
          /\ Cardinality(Units(sold')) = Cardinality(Units(sold)) + Quantity[o]
      BY <3>1, <3>2, UnitsOfOneMore DEF TypeOK
    <3>4. Cardinality(Units(sold)) \in Nat /\ Quantity[o] \in Nat
      BY FS_CardinalityType, QuantityAssumption
    <3>5. stock' = stockBase' - Cardinality(Units(sold'))
      BY <3>1, <3>3, <3>4 DEF TypeOK
    <3>6. \A p \in sold' : ful'[p] = "success"
      BY <3>1 DEF TypeOK
    <3> QED BY <3>3, <3>5, <3>6 DEF Units
  <2>3. ASSUME NEW o \in Orders, NEW attempt \in 0 .. MaxRetries,
               FulfilFails(o, order[o], attempt)
        PROVE  StockInv'
    <3>1. /\ ful[o] # "success"
          /\ ful' = [ful EXCEPT ![o] = "failed"]
          /\ UNCHANGED <<stock, stockBase, sold>>
      BY <2>3 DEF FulfilFails, MayFulfil, stockVars
    <3> QED BY <3>1 DEF TypeOK, Units
  <2>4. ASSUME NEW n \in Inventories, EditProduct(n)
        PROVE  StockInv'
    <3>1. Units(sold') = {} /\ sold' = {} /\ stock' = stockBase' /\ stock' \in Int
      BY <2>4, InventoriesAssumption DEF EditProduct, Units
    <3>2. IsFiniteSet(Units(sold')) /\ Cardinality(Units(sold')) = 0
      BY <3>1, FS_EmptySet
    <3> QED BY <3>1, <3>2
  <2> QED BY <2>1, <2>2, <2>3, <2>4, GoodsStep
<1>3. StockInv => StockConserved /\ SoldIsFulfilled
  BY DEF StockInv
<1> QED BY <1>1, <1>2, <1>3, TypeCorrect, PTL DEF Spec

\* The orders implement the ledger of goods: whatever the interleaving of
\* buyers, operators, sweeps, retries and crashes, goods are made at most
\* once per order, out of inventory that is there, and never unmade.
THEOREM LedgerImplemented == Spec => LedgerKept
<1>1. Init => Ledger!Init
  BY DEF Init, Ledger!Init, Made
<1>2. TypeOK /\ [Next]_vars => [Ledger!Next]_<<stock, Made>>
  <2> SUFFICES ASSUME TypeOK, [Next]_vars
               PROVE  [Ledger!Next]_<<stock, Made>>
    OBVIOUS
  <2>1. CASE UNCHANGED <<ful, issue, stock, stockBase, sold>>
    BY <2>1 DEF Made
  <2>2. ASSUME NEW o \in Orders, NEW retry \in BOOLEAN,
               FulfilSucceeds(o, order[o], retry)
        PROVE  Ledger!Make(o)
    <3>1. /\ ful[o] # "success"
          /\ ful' = [ful EXCEPT ![o] = "success"]
          /\ stock >= Quantity[o]
          /\ stock' = stock - Quantity[o]
      BY <2>2, Zenon DEF FulfilSucceeds, MayFulfil, Reserve
    <3>2. o \notin Made /\ Made' = Made \cup {o}
      BY <3>1 DEF Made, TypeOK
    <3> QED BY <3>1, <3>2 DEF Ledger!Make
  <2>3. ASSUME NEW o \in Orders, NEW attempt \in 0 .. MaxRetries,
               FulfilFails(o, order[o], attempt)
        PROVE  UNCHANGED <<stock, Made>>
    <3>1. /\ ful[o] # "success"
          /\ ful' = [ful EXCEPT ![o] = "failed"]
          /\ UNCHANGED stock
      BY <2>3 DEF FulfilFails, MayFulfil, stockVars
    <3> QED BY <3>1 DEF Made, TypeOK
  <2>4. ASSUME NEW n \in Inventories, EditProduct(n)
        PROVE  Ledger!SetStock(n)
    BY <2>4 DEF EditProduct, Ledger!SetStock, Made, recordVars
  <2> QED BY <2>1, <2>2, <2>3, <2>4, GoodsStep DEF Ledger!Next
<1> QED BY <1>1, <1>2, TypeCorrect, PTL DEF Spec, LedgerKept, Ledger!Spec

-----------------------------------------------------------------------------
(* The pending retry job and the status of its order.                      *)

\* A step that leaves jobs and results alone keeps the invariant unless it
\* writes "refunded".
LEMMA QuietSave ==
    ASSUME TypeOK, QueuedRetryIsForFailed, UNCHANGED <<ful, queued>>,
           NEW o \in Orders, NEW status \in Statuses \ {"refunded"},
           NEW pay, NEW del, Save(o, status, pay, del)
    PROVE  QueuedRetryIsForFailed'
BY DEF TypeOK, QueuedRetryIsForFailed, Save

\* A refund cancels the pending job of the order it refunds.
LEMMA QueuedAfterRefund ==
    ASSUME TypeOK, QueuedRetryIsForFailed, UNCHANGED ful,
           NEW o \in Orders, ApplyRefund(o, order[o])
    PROVE  QueuedRetryIsForFailed'
BY DEF TypeOK, QueuedRetryIsForFailed, ApplyRefund, Save, CancelQueued

\* A success cancels the pending job; a failure may queue one, for itself.
LEMMA QueuedAfterFulfil ==
    ASSUME TypeOK, QueuedRetryIsForFailed, NEW o \in Orders,
           \/ \E retry \in BOOLEAN : FulfilSucceeds(o, order[o], retry)
           \/ \E attempt \in 0 .. MaxRetries : FulfilFails(o, order[o], attempt)
    PROVE  QueuedRetryIsForFailed'
<1> USE DEF TypeOK, QueuedRetryIsForFailed, Save
<1>1. ASSUME NEW retry \in BOOLEAN, FulfilSucceeds(o, order[o], retry)
      PROVE  QueuedRetryIsForFailed'
  BY <1>1 DEF FulfilSucceeds, CancelQueued
<1>2. ASSUME NEW attempt \in 0 .. MaxRetries, FulfilFails(o, order[o], attempt)
      PROVE  QueuedRetryIsForFailed'
  BY <1>2 DEF FulfilFails, ScheduleRetry
<1> QED BY <1>1, <1>2

\* Statuses the review handlers leave an order in.
LEMMA QueuedAfterReview ==
    ASSUME TypeOK, QueuedRetryIsForFailed, NEW o \in Orders, Review(o)
    PROVE  QueuedRetryIsForFailed'
<1>1. CASE CancelAdminOrder(o, order[o])
  BY <1>1 DEF CancelAdminOrder, CancelQueued, Save, TypeOK,
              QueuedRetryIsForFailed, recordVars
<1>2. CASE ~ CancelAdminOrder(o, order[o])
  <2>1. UNCHANGED <<ful, queued>>
    BY <1>2, Zenon DEF Review, ConfirmPayment, RejectPayment, ReviewTimeout,
         ExpireOrder, recordVars, jobVars
  <2>2. \/ Save(o, "payment_confirmed", "paid", order[o].del)
        \/ Save(o, "awaiting_payment", "unpaid", order[o].del)
        \/ Save(o, "failed", "failed", order[o].del)
        \/ Save(o, "expired", order[o].pay, order[o].del)
    BY <1>2, Zenon DEF Review, ConfirmPayment, RejectPayment, ReviewTimeout,
         ExpireOrder
  <2>3. {"payment_confirmed", "awaiting_payment", "failed", "expired"}
            \subseteq Statuses \ {"refunded"}
    BY DEF Statuses
  <2> QED BY <2>1, <2>2, <2>3, QuietSave
<1> QED BY <1>1, <1>2

\* No success and no refund leaves a retry job that would issue again.
THEOREM QueuedRetryAlwaysForFailed == Spec => []QueuedRetryIsForFailed
<1>1. Init => QueuedRetryIsForFailed
  BY DEF Init, QueuedRetryIsForFailed
<1>2. TypeOK /\ QueuedRetryIsForFailed /\ [Next]_vars => QueuedRetryIsForFailed'
  <2> SUFFICES ASSUME TypeOK, QueuedRetryIsForFailed, [Next]_vars
               PROVE  QueuedRetryIsForFailed'
    OBVIOUS
  <2>0. {"paid_pending_review", "cancelled", "delivery_pending", "completed"}
            \subseteq Statuses \ {"refunded"}
    BY DEF Statuses
  <2>1. CASE Buyer
    <3>1. UNCHANGED <<ful, queued>>
      BY <2>1 DEF Buyer, BuyerRead, BuyerMarkPaid, BuyerCancel, BuyerAbort,
                  recordVars, jobVars
    <3>2. PICK r \in Requests :
             \/ UNCHANGED order
             \/ req[r] # Idle /\ BuyerMarkPaid(r)
             \/ req[r] # Idle /\ BuyerCancel(r)
      BY <2>1 DEF Buyer, BuyerRead, BuyerMarkPaid, BuyerCancel, BuyerAbort, Idle
    <3>3. req[r] # Idle => req[r].o \in Orders
      BY DEF TypeOK
    <3> QED BY <3>1, <3>2, <3>3, <2>0, QuietSave
            DEF BuyerMarkPaid, BuyerCancel, QueuedRetryIsForFailed
  <2>2. ASSUME NEW o \in Orders, Review(o)
        PROVE  QueuedRetryIsForFailed'
    BY <2>2, QueuedAfterReview
  <2>3. ASSUME NEW o \in Orders, Operate(o)
        PROVE  QueuedRetryIsForFailed'
    <3>1. CASE \E retry \in BOOLEAN : Fulfil(o, retry)
      BY <3>1, QueuedAfterFulfil DEF Fulfil
    <3>2. CASE ~ \E retry \in BOOLEAN : Fulfil(o, retry)
      <4>1. UNCHANGED <<ful, queued>>
        BY <2>3, <3>2, Zenon DEF Operate, Deliver, CompleteDelivery,
             RetryTelegramDelivery, jobVars
      <4>2. \/ UNCHANGED order
            \/ Save(o, "delivery_pending", order[o].pay, "pending")
            \/ Save(o, "completed", order[o].pay, "sent")
        BY <2>3, <3>2, Zenon DEF Operate, Deliver, CompleteDelivery,
             RetryTelegramDelivery
      <4> QED BY <4>1, <4>2, <2>0, QuietSave DEF QueuedRetryIsForFailed
    <3> QED BY <3>1, <3>2
  <2>4. ASSUME NEW o \in Orders, Refund(o)
        PROVE  QueuedRetryIsForFailed'
    <3>1. /\ UNCHANGED ful
          /\ ApplyRefund(o, order[o]) \/ UNCHANGED <<order, queued>>
      BY <2>4, Zenon DEF Refund, MarkRefund, PrepareRefund, FinalizeRefund,
           recordVars, jobVars
    <3> QED BY <3>1, QueuedAfterRefund DEF QueuedRetryIsForFailed
  <2>5. ASSUME NEW o \in Orders, Worker(o)
        PROVE  QueuedRetryIsForFailed'
    <3>1. CASE RunJob(o)
      <4>1. running[o] \in 0 .. MaxRetries
        BY DEF TypeOK
      <4> QED BY <3>1, <4>1, QueuedAfterFulfil DEF RunJob, Attempt
    <3>2. CASE ClaimJob(o)
      BY <3>2 DEF ClaimJob, TypeOK, QueuedRetryIsForFailed, recordVars
    <3>3. CASE RefuseJob(o) \/ LoseJob(o)
      BY <3>3 DEF RefuseJob, LoseJob, QueuedRetryIsForFailed, recordVars
    <3> QED BY <2>5, <3>1, <3>2, <3>3 DEF Worker
  <2>6. ASSUME NEW n \in Inventories, EditProduct(n)
        PROVE  QueuedRetryIsForFailed'
    BY <2>6 DEF EditProduct, QueuedRetryIsForFailed, recordVars, jobVars
  <2>7. CASE Crash \/ UNCHANGED vars
    BY <2>7 DEF Crash, vars, QueuedRetryIsForFailed, recordVars, jobVars
  <2> QED BY <2>1, <2>2, <2>3, <2>4, <2>5, <2>6, <2>7 DEF Next
<1> QED BY <1>1, <1>2, TypeCorrect, PTL DEF Spec


-----------------------------------------------------------------------------
(* Confirmed payments.                                                     *)

\* A row under review is not paid, and a buyer's request read an unpaid row.
ReviewIsUnpaid == \A o \in Orders :
    order[o].status = "paid_pending_review" => order[o].pay # "paid"
RequestsUnpaid == \A r \in Requests : req[r] # Idle => req[r].row.pay # "paid"

PayInv == TypeOK /\ ReviewIsUnpaid /\ RequestsUnpaid

\* What PaymentKept asks of a step.
KeptOrExcused ==
    \A o \in Orders :
        order[o].pay = "paid" /\ order'[o].pay # "paid" =>
            \/ order'[o].pay = "refunded"
            \/ \E r \in Requests :
                   /\ req[r] # Idle /\ req'[r] = Idle
                   /\ req[r].o = o /\ req[r].row.pay # "paid"

\* The rows a step may save when it is not a buyer's request: only a row under
\* review loses its payment, and only to review, and no row is put under review.
LEMMA SavedRows ==
    ASSUME TypeOK, NEW o \in Orders,
           Review(o) \/ Operate(o) \/ Refund(o) \/ Worker(o)
    PROVE  /\ UNCHANGED req
           /\ \/ UNCHANGED order
              \/ \E status \in Statuses \ {"paid_pending_review"}, del \in DeliveryStatuses :
                     \/ Save(o, status, "paid", del)
                     \/ Save(o, status, "refunded", del)
                     \/ Save(o, status, order[o].pay, del)
                     \/ /\ Save(o, status, "unpaid", del) \/ Save(o, status, "failed", del)
                        /\ \/ order[o].pay = "pending_review"
                           \/ order[o].status = "paid_pending_review"
<1>0. order[o].del \in DeliveryStatuses
  BY DEF TypeOK, Row
<1>1. CASE Review(o)
  <2>1. UNCHANGED req
    BY <1>1, Zenon DEF Review, ConfirmPayment, RejectPayment, ReviewTimeout,
         ExpireOrder, CancelAdminOrder
  <2>2. \/ Save(o, "payment_confirmed", "paid", order[o].del)
        \/ /\ order[o].pay = "pending_review"
           /\ Save(o, "awaiting_payment", "unpaid", order[o].del)
        \/ /\ order[o].pay = "pending_review" \/ order[o].status = "paid_pending_review"
           /\ Save(o, "failed", "failed", order[o].del)
        \/ Save(o, "expired", order[o].pay, order[o].del)
        \/ Save(o, "cancelled", order[o].pay, "cancelled")
    BY <1>1, Zenon DEF Review, ConfirmPayment, RejectPayment, ReviewTimeout,
         ExpireOrder, CancelAdminOrder
  <2> QED BY <1>0, <2>1, <2>2 DEF Statuses, DeliveryStatuses
<1>2. CASE Operate(o)
  <2>1. UNCHANGED req
    BY <1>2, Zenon DEF Operate, Fulfil, FulfilSucceeds, FulfilFails, Deliver,
         CompleteDelivery, RetryTelegramDelivery
  <2>2. \/ UNCHANGED order
        \/ Save(o, "delivery_pending", order[o].pay, "pending")
        \/ Save(o, "failed", order[o].pay, order[o].del)
        \/ Save(o, "completed", order[o].pay, "sent")
    BY <1>2, Zenon DEF Operate, Fulfil, FulfilSucceeds, FulfilFails, Deliver,
         CompleteDelivery, RetryTelegramDelivery
  <2> QED BY <1>0, <2>1, <2>2 DEF Statuses, DeliveryStatuses
<1>3. CASE Refund(o)
  <2>1. UNCHANGED req /\ (UNCHANGED order \/ Save(o, "refunded", "refunded", "cancelled"))
    BY <1>3, Zenon DEF Refund, MarkRefund, PrepareRefund, FinalizeRefund, ApplyRefund
  <2> QED BY <2>1 DEF Statuses, DeliveryStatuses
<1>4. CASE Worker(o)
  <2>1. /\ UNCHANGED req
        /\ \/ UNCHANGED order
           \/ Save(o, "delivery_pending", order[o].pay, "pending")
           \/ Save(o, "failed", order[o].pay, order[o].del)
    BY <1>4, Zenon DEF Worker, ClaimJob, RunJob, RefuseJob, LoseJob, FulfilSucceeds,
         FulfilFails
  <2> QED BY <1>0, <2>1 DEF Statuses, DeliveryStatuses
<1> QED BY <1>1, <1>2, <1>3, <1>4

\* What a handler of the shop's own does to the payment.
LEMMA HandlerKeepsPayment ==
    ASSUME PayInv, NEW o \in Orders,
           Review(o) \/ Operate(o) \/ Refund(o) \/ Worker(o)
    PROVE  ReviewIsUnpaid' /\ RequestsUnpaid' /\ KeptOrExcused
<1>1. RequestsUnpaid'
  BY SavedRows DEF PayInv, RequestsUnpaid
<1>2. CASE UNCHANGED order
  BY <1>1, <1>2 DEF PayInv, ReviewIsUnpaid, KeptOrExcused
<1>3. ASSUME NEW status \in Statuses \ {"paid_pending_review"}, NEW del, NEW pay,
             Save(o, status, pay, del)
      PROVE  /\ order'[o] = [status |-> status, pay |-> pay, del |-> del]
             /\ \A p \in Orders \ {o} : order'[p] = order[p]
             /\ ReviewIsUnpaid'
  BY <1>3 DEF PayInv, TypeOK, Save, ReviewIsUnpaid
<1>4. ASSUME NEW status \in Statuses \ {"paid_pending_review"}, NEW del \in DeliveryStatuses,
             \/ Save(o, status, "paid", del)
             \/ Save(o, status, "refunded", del)
             \/ Save(o, status, order[o].pay, del)
             \/ /\ Save(o, status, "unpaid", del) \/ Save(o, status, "failed", del)
                /\ order[o].pay = "pending_review" \/ order[o].status = "paid_pending_review"
      PROVE  ReviewIsUnpaid' /\ KeptOrExcused
  <2>1. PICK pay :
          /\ Save(o, status, pay, del)
          /\ order[o].pay = "paid" => pay \in {"paid", "refunded"}
    BY <1>4 DEF PayInv, ReviewIsUnpaid
  <2>2. /\ order'[o].pay = pay
        /\ \A p \in Orders \ {o} : order'[p] = order[p]
        /\ ReviewIsUnpaid'
    BY <2>1 DEF PayInv, TypeOK, Save, ReviewIsUnpaid
  <2> QED BY <2>1, <2>2 DEF KeptOrExcused
<1> QED BY <1>1, <1>2, <1>4, SavedRows DEF PayInv

\* A buyer's request keeps the payment unless the row it read was unpaid.
LEMMA BuyerKeepsPayment ==
    ASSUME PayInv, Buyer
    PROVE  ReviewIsUnpaid' /\ RequestsUnpaid' /\ KeptOrExcused
<1>0. PICK r \in Requests :
         \/ \E o \in Orders, op \in BuyerOps : BuyerRead(r, o, op)
         \/ BuyerMarkPaid(r)
         \/ BuyerCancel(r)
         \/ BuyerAbort(r)
  BY DEF Buyer
<1> USE DEF PayInv, TypeOK, EndRequest
<1>1. ASSUME NEW o \in Orders, NEW op \in BuyerOps, BuyerRead(r, o, op)
      PROVE  ReviewIsUnpaid' /\ RequestsUnpaid' /\ KeptOrExcused
  BY <1>1 DEF BuyerRead, BuyerMayAct, ReviewIsUnpaid, RequestsUnpaid, KeptOrExcused
<1>2. CASE BuyerAbort(r)
  BY <1>2 DEF BuyerAbort, ReviewIsUnpaid, RequestsUnpaid, KeptOrExcused
<1>3. CASE BuyerMarkPaid(r) \/ BuyerCancel(r)
  <2>1. req[r] # Idle /\ req[r].o \in Orders /\ req[r].row.pay # "paid"
    BY <1>3 DEF BuyerMarkPaid, BuyerCancel, Idle, RequestsUnpaid
  <2>2. req' = [req EXCEPT ![r] = Idle]
    BY <1>3 DEF BuyerMarkPaid, BuyerCancel
  <2>3. RequestsUnpaid'
    BY <2>2 DEF RequestsUnpaid
  <2>4. \/ Save(req[r].o, "paid_pending_review", "pending_review", req[r].row.del)
        \/ Save(req[r].o, "cancelled", req[r].row.pay, "cancelled")
    BY <1>3 DEF BuyerMarkPaid, BuyerCancel
  <2>5. \A p \in Orders : p # req[r].o => order'[p] = order[p]
    BY <2>4 DEF Save
  <2>6. order'[req[r].o].status = "paid_pending_review" => order'[req[r].o].pay # "paid"
    BY <2>1, <2>4 DEF Save
  <2>7. ReviewIsUnpaid'
    BY <2>5, <2>6 DEF ReviewIsUnpaid
  <2>8. KeptOrExcused
    BY <2>1, <2>2, <2>5 DEF KeptOrExcused
  <2> QED BY <2>3, <2>7, <2>8
<1> QED BY <1>0, <1>1, <1>2, <1>3

LEMMA PaymentStep ==
    ASSUME PayInv, [Next]_vars
    PROVE  ReviewIsUnpaid' /\ RequestsUnpaid' /\ KeptOrExcused
<1>1. ASSUME NEW n \in Inventories, EditProduct(n)
      PROVE  ReviewIsUnpaid' /\ RequestsUnpaid' /\ KeptOrExcused
  BY <1>1 DEF EditProduct, PayInv, ReviewIsUnpaid, RequestsUnpaid, KeptOrExcused
<1>2. CASE Crash
  BY <1>2 DEF Crash, PayInv, TypeOK, ReviewIsUnpaid, RequestsUnpaid, KeptOrExcused
<1>3. CASE UNCHANGED vars
  BY <1>3 DEF vars, PayInv, ReviewIsUnpaid, RequestsUnpaid, KeptOrExcused
<1> QED BY <1>1, <1>2, <1>3, BuyerKeepsPayment, HandlerKeepsPayment DEF Next

\* Once a payment is confirmed, only a refund or the save of a buyer's request that read the
\* order while it was unpaid takes it back: no sweep, rejection, retry, delivery or crash does,
\* for any number of orders and of requests in flight.
THEOREM PaymentAlwaysKept == Spec => PaymentKept
<1>1. Init => ReviewIsUnpaid /\ RequestsUnpaid
  BY DEF Init, ReviewIsUnpaid, RequestsUnpaid, NewOrder
<1>2. TypeOK /\ ReviewIsUnpaid /\ RequestsUnpaid /\ [Next]_vars
          => (ReviewIsUnpaid /\ RequestsUnpaid)' /\ KeptOrExcused
  BY PaymentStep DEF PayInv
<1>3. KeptOrExcused => [\A o \in Orders :
          order[o].pay = "paid" /\ order'[o].pay # "paid" =>
              \/ order'[o].pay = "refunded"
              \/ \E r \in Requests :
                     /\ req[r] # Idle /\ req'[r] = Idle
                     /\ req[r].o = o /\ req[r].row.pay # "paid"]_vars
  BY DEF KeptOrExcused
<1> QED BY <1>1, <1>2, <1>3, TypeCorrect, PTL DEF Spec, PaymentKept

-----------------------------------------------------------------------------
(* Completed orders.                                                       *)

\* An order that issues codes has an issue record that says what the fulfilment says.
IssueMatches == \A o \in Orders :
    issue[o] = IF o \in IssuesCodes THEN ful[o] ELSE "none"

\* A delivery record that waits for somebody is of a channel that waits.
ChannelsMatch == \A o \in Orders :
    /\ dlv[o].ch = "manual" => Channel[o] = "manual"
    /\ dlv[o].ch = "telegram" \/ o \in oldTelegram => Channel[o] = "telegram"

BackedInv == IssueMatches /\ ChannelsMatch /\ CompletedIsBacked

\* Then a payload is ready exactly when the fulfilment succeeded.
LEMMA ReadyIsFulfilled ==
    ASSUME IssueMatches, NEW o \in Orders
    PROVE  PayloadReady(o) <=> ful[o] = "success"
BY DEF IssueMatches, PayloadReady

\* A step that touches no record and completes no order keeps it.
LEMMA BackedBySave ==
    ASSUME TypeOK, BackedInv, UNCHANGED recordVars,
           \/ UNCHANGED order
           \/ \E o \in Orders, status \in Statuses \ {"completed"} : \E pay, del :
                  Save(o, status, pay, del)
    PROVE  BackedInv'
<1>1. /\ IssueMatches' <=> IssueMatches
      /\ ChannelsMatch' <=> ChannelsMatch
  BY DEF IssueMatches, ChannelsMatch, recordVars
<1>2. ASSUME NEW q \in Orders, order'[q].status = "completed"
      PROVE  order[q].status = "completed"
  <2>1. CASE UNCHANGED order
    BY <1>2, <2>1
  <2>2. CASE \E o \in Orders, status \in Statuses \ {"completed"} : \E pay, del :
               Save(o, status, pay, del)
    BY <1>2, <2>2 DEF TypeOK, Save, Row
  <2> QED BY <2>1, <2>2
<1>3. CompletedIsBacked'
  BY <1>2 DEF BackedInv, CompletedIsBacked, recordVars
<1> QED BY <1>1, <1>3 DEF BackedInv

\* An attempt at fulfilment starts from an order that is not completed, or leaves it
\* "failed" or "delivery_pending".
LEMMA BackedAfterFulfil ==
    ASSUME TypeOK, BackedInv, NEW o \in Orders,
           \/ \E retry \in BOOLEAN : FulfilSucceeds(o, order[o], retry)
           \/ \E attempt \in Int : FulfilFails(o, order[o], attempt)
    PROVE  BackedInv'
<1>1. PICK status \in {"delivery_pending", "failed"}, result \in {"success", "failed"} :
         /\ \E pay, del : Save(o, status, pay, del)
         /\ ful' = [ful EXCEPT ![o] = result]
         /\ issue' = IF o \in IssuesCodes THEN [issue EXCEPT ![o] = result] ELSE issue
         /\ UNCHANGED <<dlv, oldTelegram>>
  BY DEF FulfilSucceeds, FulfilFails
<1>2. \A p \in Orders \ {o} : order'[p] = order[p] /\ ful'[p] = ful[p] /\ issue'[p] = issue[p]
  BY <1>1 DEF TypeOK, Save
<1>3. order'[o].status = status /\ ful'[o] = result
      /\ issue'[o] = IF o \in IssuesCodes THEN result ELSE issue[o]
  BY <1>1 DEF TypeOK, Save
<1>4. IssueMatches'
  BY <1>2, <1>3 DEF BackedInv, IssueMatches
<1>5. ChannelsMatch' /\ CompletedIsBacked'
  BY <1>1, <1>2, <1>3 DEF BackedInv, ChannelsMatch, CompletedIsBacked
<1> QED BY <1>4, <1>5 DEF BackedInv

\* A delivery completes an order only with a payload, and on the web channel with the record.
LEMMA BackedAfterDelivery ==
    ASSUME TypeOK, BackedInv, NEW o \in Orders, NEW mode, Deliver(o, order[o], mode)
    PROVE  BackedInv'
<1>1. UNCHANGED <<ful, issue>>
  BY DEF Deliver
<1>2. PICK st \in {"pending", "sent"}, ch \in Channels :
        /\ AddDelivery(o, st, ch)
        /\ ch = Channel[o] \/ ch = "web"
        /\ \/ /\ UNCHANGED order /\ ful[o] # "success"
           \/ /\ Channel[o] = "manual"
              /\ \E pay, del : Save(o, "delivery_pending", pay, del)
           \/ /\ st = "sent" /\ ful[o] = "success" /\ ch = "web"
              /\ \E pay, del : Save(o, "completed", pay, del)
  <2>1. PayloadReady(o) <=> ful[o] = "success"
    BY ReadyIsFulfilled DEF BackedInv
  <2>2. Channel[o] \in Channels /\ {"manual", "web"} \subseteq Channels
    BY ChannelAssumption DEF Channels
  <2>3. CASE ~ PayloadReady(o) /\ AddDelivery(o, "pending", Channel[o]) /\ UNCHANGED order
    BY <2>1, <2>2, <2>3, Zenon
  <2>4. CASE /\ Channel[o] = "manual" /\ AddDelivery(o, "pending", "manual")
             /\ Save(o, "delivery_pending", order[o].pay, "pending")
    BY <2>2, <2>4
  <2>5. CASE /\ PayloadReady(o) /\ AddDelivery(o, "sent", "web")
             /\ Save(o, "completed", order[o].pay, "sent")
    BY <2>1, <2>2, <2>5
  <2> QED BY <2>3, <2>4, <2>5, Zenon DEF Deliver
<1>3. \A p \in Orders \ {o} : order'[p] = order[p] /\ dlv'[p] = dlv[p]
                              /\ (p \in oldTelegram' <=> p \in oldTelegram)
  BY <1>2 DEF TypeOK, Save, AddDelivery
<1>4. dlv'[o] = [st |-> st, ch |-> ch]
      /\ (o \in oldTelegram' => o \in oldTelegram \/ dlv[o].ch = "telegram")
  BY <1>2 DEF TypeOK, AddDelivery
<1>5. ChannelsMatch'
  BY <1>2, <1>3, <1>4 DEF BackedInv, ChannelsMatch
<1>6. CompletedIsBacked'
  <2> SUFFICES ASSUME NEW p \in Orders, order'[p].status = "completed", Channel[p] # "manual"
               PROVE  ful'[p] = "success" /\ (Channel[p] = "web" => dlv'[p].st = "sent")
    BY DEF CompletedIsBacked
  <2>1. CASE p # o
    BY <1>1, <1>3, <2>1 DEF BackedInv, CompletedIsBacked
  <2>2. CASE p = o /\ UNCHANGED order
    BY <1>1, <1>2, <1>4, <2>2 DEF BackedInv, CompletedIsBacked
  <2>3. CASE p = o /\ ~ UNCHANGED order
    BY <1>1, <1>2, <1>4, <2>3 DEF BackedInv, CompletedIsBacked, TypeOK, Save
  <2> QED BY <2>1, <2>2, <2>3
<1>7. IssueMatches'
  BY <1>1 DEF BackedInv, IssueMatches
<1> QED BY <1>5, <1>6, <1>7 DEF BackedInv

\* An operator completes a manual delivery, or a telegram delivery is sent again.
LEMMA BackedAfterSending ==
    ASSUME TypeOK, BackedInv, NEW o \in Orders,
           CompleteDelivery(o, order[o]) \/ RetryTelegramDelivery(o, order[o])
    PROVE  BackedInv'
<1> DEFINE sent == [st |-> "sent", ch |-> dlv[o].ch]
<1>1. /\ UNCHANGED <<ful, issue, oldTelegram>>
      /\ dlv' = [dlv EXCEPT ![o] = sent] \/ UNCHANGED dlv
      /\ Save(o, "completed", order[o].pay, "sent")
  BY Zenon DEF CompleteDelivery, RetryTelegramDelivery
<1>2. Channel[o] = "manual" \/ (Channel[o] = "telegram" /\ ful[o] = "success")
  <2>1. PayloadReady(o) <=> ful[o] = "success"
    BY ReadyIsFulfilled DEF BackedInv
  <2> QED BY <2>1 DEF CompleteDelivery, RetryTelegramDelivery, BackedInv, ChannelsMatch
<1>3. \A p \in Orders \ {o} : order'[p] = order[p] /\ dlv'[p] = dlv[p]
  BY <1>1 DEF TypeOK, Save
<1>4. dlv'[o].ch = dlv[o].ch
  BY <1>1 DEF TypeOK
<1>5. IssueMatches' /\ ChannelsMatch'
  BY <1>1, <1>3, <1>4 DEF BackedInv, IssueMatches, ChannelsMatch
<1>6. CompletedIsBacked'
  BY <1>1, <1>2, <1>3 DEF BackedInv, CompletedIsBacked
<1> QED BY <1>5, <1>6 DEF BackedInv

LEMMA BackedStep ==
    ASSUME TypeOK, BackedInv, [Next]_vars
    PROVE  BackedInv'
<1>0. {"paid_pending_review", "cancelled", "payment_confirmed", "awaiting_payment", "failed",
       "expired", "refunded"} \subseteq Statuses \ {"completed"}
  BY DEF Statuses
<1>1. CASE Buyer
  <2>1. UNCHANGED recordVars
    BY <1>1, Zenon DEF Buyer, BuyerRead, BuyerMarkPaid, BuyerCancel, BuyerAbort
  <2>2. PICK r \in Requests :
           \/ UNCHANGED order
           \/ req[r] # Idle /\ BuyerMarkPaid(r)
           \/ req[r] # Idle /\ BuyerCancel(r)
    BY <1>1 DEF Buyer, BuyerRead, BuyerMarkPaid, BuyerCancel, BuyerAbort, Idle
  <2>3. req[r] # Idle => req[r].o \in Orders
    BY DEF TypeOK
  <2> QED BY <1>0, <2>1, <2>2, <2>3, BackedBySave DEF BuyerMarkPaid, BuyerCancel
<1>2. ASSUME NEW o \in Orders, Review(o) PROVE BackedInv'
  <2>1. UNCHANGED recordVars
    BY <1>2, Zenon DEF Review, ConfirmPayment, RejectPayment, ReviewTimeout,
         ExpireOrder, CancelAdminOrder
  <2>2. \/ Save(o, "payment_confirmed", "paid", order[o].del)
        \/ Save(o, "awaiting_payment", "unpaid", order[o].del)
        \/ Save(o, "failed", "failed", order[o].del)
        \/ Save(o, "expired", order[o].pay, order[o].del)
        \/ Save(o, "cancelled", order[o].pay, "cancelled")
    BY <1>2, Zenon DEF Review, ConfirmPayment, RejectPayment, ReviewTimeout,
         ExpireOrder, CancelAdminOrder
  <2> QED BY <1>0, <2>1, <2>2, BackedBySave
<1>3. ASSUME NEW o \in Orders, Operate(o) PROVE BackedInv'
  <2>1. ASSUME NEW retry \in BOOLEAN, Fulfil(o, retry) PROVE BackedInv'
    BY <2>1, BackedAfterFulfil DEF Fulfil
  <2>2. ASSUME NEW mode \in DeliveryModes, Deliver(o, order[o], mode) PROVE BackedInv'
    BY <2>2, BackedAfterDelivery
  <2> QED BY <1>3, <2>1, <2>2, BackedAfterSending DEF Operate
<1>4. ASSUME NEW o \in Orders, Refund(o) PROVE BackedInv'
  <2>1. UNCHANGED recordVars /\ (UNCHANGED order \/ Save(o, "refunded", "refunded", "cancelled"))
    BY <1>4, Zenon DEF Refund, MarkRefund, PrepareRefund, FinalizeRefund, ApplyRefund
  <2> QED BY <1>0, <2>1, BackedBySave
<1>5. ASSUME NEW o \in Orders, Worker(o) PROVE BackedInv'
  <2>1. CASE RunJob(o)
    <3>1. Attempt(o) \in Int
      BY DEF Attempt, TypeOK
    <3> QED BY <2>1, <3>1, BackedAfterFulfil DEF RunJob
  <2>2. CASE ClaimJob(o) \/ RefuseJob(o) \/ LoseJob(o)
    BY <2>2, BackedBySave DEF ClaimJob, RefuseJob, LoseJob
  <2> QED BY <1>5, <2>1, <2>2 DEF Worker
<1>6. ASSUME NEW n \in Inventories, EditProduct(n) PROVE BackedInv'
  BY <1>6, BackedBySave DEF EditProduct
<1>7. CASE Crash \/ UNCHANGED vars
  BY <1>7, BackedBySave DEF Crash, vars
<1> QED BY <1>1, <1>2, <1>3, <1>4, <1>5, <1>6, <1>7 DEF Next

\* A completed order that no operator completed by hand has been fulfilled, and on the web
\* channel its delivery record is sent: in whatever order attempts, deliveries, resends, retries
\* and stale saves come, for any number of orders.
THEOREM CompletedIsAlwaysBacked == Spec => []CompletedIsBacked
<1>1. Init => BackedInv
  BY DEF Init, NewOrder, BackedInv, IssueMatches, ChannelsMatch, CompletedIsBacked
<1>2. TypeOK /\ BackedInv /\ [Next]_vars => BackedInv'
  BY BackedStep
<1>3. BackedInv => CompletedIsBacked
  BY DEF BackedInv
<1> QED BY <1>1, <1>2, <1>3, TypeCorrect, PTL DEF Spec

-----------------------------------------------------------------------------
(* Payments                                                                *)

\* A call under way is about a known order, and one that is to confirm a
\* payment bears a reference.
CallsKnown ==
    /\ call = [c \in Slots |-> call[c]]
    /\ \A c \in Slots :
          call[c] # NoCall =>
              /\ call[c].o \in Orders
              /\ call[c].pc = "confirm" => call[c].route \in Routes /\ call[c].t \in Transfers

\* A call that starts is known if its order and its reference are.
LEMMA BeginKnown ==
    ASSUME CallsKnown, NEW c \in Slots, NEW pc, NEW route, NEW t, NEW o, NEW review,
           o \in Orders, pc = "confirm" => route \in Routes /\ t \in Transfers,
           Begin(c, pc, route, t, o, review)
    PROVE  CallsKnown'
BY DEF CallsKnown, Begin, NoCall

\* A call that goes on with its automation keeps its order.
LEMMA GotoKnown ==
    ASSUME CallsKnown, NEW c \in Slots, call[c] # NoCall, NEW pc, pc # "confirm", Goto(c, pc)
    PROVE  CallsKnown'
BY DEF CallsKnown, Goto, NoCall

\* A call that has ended is no call.
LEMMA EndKnown ==
    ASSUME CallsKnown, NEW c \in Slots, call' = [call EXCEPT ![c] = NoCall]
    PROVE  CallsKnown'
BY DEF CallsKnown, NoCall

\* Payments arrive for known orders only.
LEMMA ArriveKnown ==
    ASSUME CallsKnown, Arrive
    PROVE  CallsKnown'
<1>1. ASSUME NEW c \in Calls, NEW p \in Reports, ReceiveCallback(c, p[2], p[1])
      PROVE  CallsKnown'
  <2>1. p[1] \in Orders /\ p[2] \in Transfers /\ c \in Slots /\ "callback" \in Routes
    BY ReportsAssumption DEF Slots, Routes
  <2>2. Begin(c, "confirm", "callback", p[2], p[1], FALSE)
    BY <1>1 DEF ReceiveCallback
  <2> QED BY <2>1, <2>2, BeginKnown
<1>2. ASSUME NEW c \in Slots, NEW t, NEW o, NEW review, RecordOnchain(c, t, o, review)
      PROVE  CallsKnown'
  <2>1. CASE UNCHANGED call
    BY <2>1 DEF CallsKnown
  <2>2. CASE Begin(c, "confirm", "onchain", t, o, review)
    BY <1>2, <2>2, BeginKnown DEF RecordOnchain, Routes
  <2> QED BY <1>2, <2>1, <2>2 DEF RecordOnchain
<1>3. ASSUME NEW c \in Calls, NEW o \in Orders, ConfirmByHand(c, o)
      PROVE  CallsKnown'
  <2>1. CASE UNCHANGED call
    BY <2>1 DEF CallsKnown
  <2>2. CASE Begin(c, "fulfil", "admin", None, o, FALSE)
    BY <2>2, BeginKnown DEF Slots
  <2> QED BY <1>3, <2>1, <2>2 DEF ConfirmByHand
<1>4. ASSUME NEW t \in Transfers, UnknownOrder(t)
      PROVE  CallsKnown'
  BY <1>4 DEF UnknownOrder, CallsKnown
<1>5. \A p \in Reports : p[2] \in Transfers
  BY ReportsAssumption
<1> QED BY <1>1, <1>2, <1>3, <1>4, <1>5 DEF Arrive, OnchainRequest, Slots

\* No step loses track of the calls.
LEMMA StepKnown ==
    ASSUME CallsKnown, [IntakeNext]_allVars
    PROVE  CallsKnown'
<1>1. ASSUME UNCHANGED call
      PROVE  CallsKnown'
  BY <1>1 DEF CallsKnown
<1>2. ASSUME NEW c \in Slots, Answer(c) \/ Fail(c)
      PROVE  CallsKnown'
  BY <1>2, EndKnown DEF Answer, Fail
<1>3. ASSUME NEW c \in Slots, call[c] # NoCall, Automate(c)
      PROVE  CallsKnown'
  BY <1>2, <1>3, GotoKnown DEF Automate
<1>4. ASSUME NEW c \in Slots, Proceed(c)
      PROVE  CallsKnown'
  <2>1. CASE Confirm(c)
    <3>1. call[c].pc = "confirm" /\ Automate(c)
      BY <2>1 DEF Confirm
    <3>2. call[c] # NoCall
      BY <3>1 DEF NoCall
    <3> QED BY <1>3, <3>1, <3>2
  <2>2. CASE AutomaticFulfil(c)
    <3>1. call[c].pc = "fulfil"
      BY <2>2 DEF AutomaticFulfil
    <3>2. call[c] # NoCall
      BY <3>1 DEF NoCall
    <3>3. Goto(c, "deliver") \/ Answer(c) \/ Fail(c)
      BY <2>2 DEF AutomaticFulfil
    <3> QED BY <1>2, <3>2, <3>3, GotoKnown
  <2>3. CASE AutomaticDeliver(c) \/ Refuse(c) \/ Abort(c)
    BY <1>2, <2>3 DEF AutomaticDeliver, Refuse, Abort
  <2> QED BY <1>4, <2>1, <2>2, <2>3 DEF Proceed
<1>5. ASSUME TakeMatch
      PROVE  CallsKnown'
  <2>1. CASE UNCHANGED call
    BY <1>1, <2>1
  <2>2. CASE RecordOnchain(Sweeper, Head(sweep).t, Head(sweep).o, Head(sweep).review)
    <3>1. CASE Begin(Sweeper, "confirm", "onchain", Head(sweep).t, Head(sweep).o, Head(sweep).review)
      <4>1. Head(sweep).o \in Orders /\ Head(sweep).t \in Transfers
        BY <2>2 DEF RecordOnchain
      <4>2. Sweeper \in Slots /\ "onchain" \in Routes
        BY DEF Slots, Routes
      <4> QED BY <3>1, <4>1, <4>2, BeginKnown
    <3> QED BY <1>1, <2>2, <3>1 DEF RecordOnchain
  <2> QED BY <1>5, <2>1, <2>2 DEF TakeMatch
<1>6. CASE Die
  BY <1>6 DEF Die, CallsKnown
<1>7. CASE ChainMoves \/ Scan \/ Elsewhere \/ UNCHANGED allVars
  BY <1>1, <1>7 DEF ChainMoves, Scan, Elsewhere, intakeVars, allVars
<1>8. CASE Arrive
  BY <1>8, ArriveKnown
<1> QED BY <1>4, <1>5, <1>6, <1>7, <1>8 DEF IntakeNext, Watch

\* In every reachable state the calls under way are about known orders.
LEMMA CallsAlwaysKnown == IntakeSpec => []CallsKnown
<1>1. IntakeInit => CallsKnown
  BY DEF IntakeInit, CallsKnown
<1>2. CallsKnown /\ [IntakeNext]_allVars => CallsKnown'
  BY StepKnown
<1> QED BY <1>1, <1>2, PTL DEF IntakeSpec

-----------------------------------------------------------------------------
(* Payments and the life of the orders.                                    *)

\* A confirmation that is accepted is ConfirmPayment of OrderLifecycle.
LEMMA AcceptIsReview ==
    ASSUME NEW route, NEW t, NEW o \in Orders, Accept(route, t, o)
    PROVE  Next
<1>1. ConfirmPayment(o, order[o])
  BY DEF Accept, Pay
<1>2. Review(o)
  BY <1>1 DEF Review
<1> QED BY <1>2 DEF Next

\* The automation is what an operator could have done.
LEMMA OperateIsNext ==
    ASSUME NEW o \in Orders, Operate(o)
    PROVE  Next
BY DEF Next

\* Every transaction of a call is a step of the orders, or leaves them alone.
LEMMA ProceedIsOrderStep ==
    ASSUME CallsKnown, NEW c \in Slots, Proceed(c)
    PROVE  Next \/ UNCHANGED vars
<1>1. CASE Confirm(c)
  <2>1. call[c].pc = "confirm"
    BY <1>1 DEF Confirm
  <2>2. call[c].o \in Orders
    BY <2>1 DEF CallsKnown, NoCall
  <2>3. Accept(call[c].route, call[c].t, call[c].o) \/ UNCHANGED vars
    BY <1>1 DEF Confirm
  <2> QED BY <2>2, <2>3, AcceptIsReview
<1>2. CASE AutomaticFulfil(c)
  <2>1. call[c].pc = "fulfil"
    BY <1>2 DEF AutomaticFulfil
  <2>2. call[c].o \in Orders
    BY <2>1 DEF CallsKnown, NoCall
  <2>3. Fulfil(call[c].o, FALSE)
    BY <1>2 DEF AutomaticFulfil, Fulfil
  <2>4. Operate(call[c].o)
    BY <2>3 DEF Operate
  <2> QED BY <2>2, <2>4, OperateIsNext
<1>3. CASE AutomaticDeliver(c)
  <2>1. call[c].pc = "deliver"
    BY <1>3 DEF AutomaticDeliver
  <2>2. call[c].o \in Orders
    BY <2>1 DEF CallsKnown, NoCall
  <2>3. Deliver(call[c].o, order[call[c].o], "deliver")
    BY <1>3 DEF AutomaticDeliver
  <2>4. Operate(call[c].o)
    BY <2>3 DEF Operate, DeliveryModes
  <2> QED BY <2>2, <2>4, OperateIsNext
<1>4. CASE Refuse(c) \/ Abort(c)
  BY <1>4 DEF Refuse, Abort
<1> QED BY <1>1, <1>2, <1>3, <1>4 DEF Proceed

\* So is every other step.
LEMMA IntakeIsOrderStep ==
    ASSUME CallsKnown, [IntakeNext]_allVars
    PROVE  Next \/ UNCHANGED vars
<1>1. CASE Arrive
  <2>1. ASSUME NEW c \in Calls, NEW o \in Orders, ConfirmByHand(c, o)
        PROVE  Next \/ UNCHANGED vars
    BY <2>1, AcceptIsReview DEF ConfirmByHand
  <2>2. ASSUME NEW c \in Calls, NEW p \in Reports,
               ReceiveCallback(c, p[2], p[1]) \/ OnchainRequest(c, p[2], p[1])
        PROVE  UNCHANGED vars
    BY <2>2 DEF ReceiveCallback, OnchainRequest, RecordOnchain
  <2>3. ASSUME NEW p \in Reports, UnknownOrder(p[2])
        PROVE  UNCHANGED vars
    BY <2>3 DEF UnknownOrder
  <2> QED BY <1>1, <2>1, <2>2, <2>3 DEF Arrive
<1>2. ASSUME NEW c \in Slots, Proceed(c)
      PROVE  Next \/ UNCHANGED vars
  BY <1>2, ProceedIsOrderStep
<1>3. CASE Watch
  BY <1>3 DEF Watch, ChainMoves, Scan, TakeMatch, RecordOnchain
<1>4. CASE Elsewhere
  <2>1. CASE Buyer
    BY <2>1 DEF Next
  <2>2. ASSUME NEW o \in Orders, Review(o) \/ Operate(o) \/ Refund(o)
        PROVE  Next
    BY <2>2 DEF Next
  <2> QED BY <1>4, <2>1, <2>2 DEF Elsewhere, Review
<1>5. CASE Die
  BY <1>5 DEF Die, Next
<1>6. CASE UNCHANGED allVars
  BY <1>6 DEF allVars
<1> QED BY <1>1, <1>2, <1>3, <1>4, <1>5, <1>6 DEF IntakeNext

\* However callbacks, on-chain confirmations, sweeps, operators and the
\* channel's automation interleave, each of their transactions is a step of the
\* order's own life or leaves it alone (HandlePaymentCallback,
\* HandleOnchainConfirmation, ApplyPaymentPostConfirmAutomation).
THEOREM OrdersAreKept == IntakeSpec => OrdersKept
<1>1. IntakeInit => Init
  BY DEF IntakeInit
<1>2. CallsKnown /\ [IntakeNext]_allVars => [Next]_vars
  BY IntakeIsOrderStep
<1> QED BY <1>1, <1>2, CallsAlwaysKnown, PTL DEF IntakeSpec, OrdersKept, Spec

\* With payments coming in by every route the inventory is still down by
\* exactly the units of the orders fulfilled since its last edit.
THEOREM StockConservedWithPayments == IntakeSpec => []StockConserved
BY OrdersAreKept, StockIsConserved, PTL DEF OrdersKept

\* With payments coming in by every route goods are still made at most once,
\* from inventory that is there.
THEOREM LedgerKeptWithPayments == IntakeSpec => LedgerKept
BY OrdersAreKept, LedgerImplemented, PTL DEF OrdersKept

\* With payments coming in by every route, and their channel fulfilling and delivering on its
\* own, a completed order has still been fulfilled.
THEOREM CompletedBackedWithPayments == IntakeSpec => []CompletedIsBacked
BY OrdersAreKept, CompletedIsAlwaysBacked, PTL DEF OrdersKept

-----------------------------------------------------------------------------
(* One transfer, one order.                                                *)

\* A route has confirmed the order its log names with the transfer, and no
\* other: the log is written in the transaction that confirms.
PaidAsLogged ==
    /\ log = [k \in Routes \X Transfers |-> log[k]]
    /\ paidBy = [k \in Routes \X Transfers |-> IF log[k] = None THEN {} ELSE {log[k]}]

\* A payment that is accepted is logged for its order, and not for another.
LEMMA AcceptLogs ==
    ASSUME PaidAsLogged, NEW route, NEW t, NEW o \in Orders, Accept(route, t, o),
           route # "admin" => route \in Routes /\ t \in Transfers
    PROVE  PaidAsLogged'
<1>1. CASE route = "admin"
  BY <1>1 DEF Accept, Pay, PaidAsLogged
<1>2. CASE route # "admin"
  <2>1. Logged(route, t) = log[<<route, t>>] /\ <<route, t>> \in Routes \X Transfers
    BY <1>2 DEF Logged
  <2>2. log[<<route, t>>] = None
    BY <1>2, <2>1 DEF Accept, Refused, Repeated
  <2>3. o # None
    BY NoneAssumption
  <2>4. /\ log' = [log EXCEPT ![<<route, t>>] = o]
        /\ paidBy' = [paidBy EXCEPT ![<<route, t>>] = @ \cup {o}]
    BY <1>2 DEF Accept, Pay
  <2>5. paidBy' = [k \in Routes \X Transfers |-> IF log'[k] = None THEN {} ELSE {log'[k]}]
    BY <2>1, <2>2, <2>3, <2>4 DEF PaidAsLogged
  <2> QED BY <2>4, <2>5 DEF PaidAsLogged
<1> QED BY <1>1, <1>2

\* No step pays an order without logging it.
LEMMA StepLogs ==
    ASSUME CallsKnown, PaidAsLogged, [IntakeNext]_allVars
    PROVE  PaidAsLogged'
<1>1. ASSUME UNCHANGED <<log, paidBy>>
      PROVE  PaidAsLogged'
  BY <1>1 DEF PaidAsLogged
<1>2. CASE Arrive
  <2>1. ASSUME NEW c \in Calls, NEW o \in Orders, ConfirmByHand(c, o)
        PROVE  PaidAsLogged'
    BY <1>1, <2>1, AcceptLogs DEF ConfirmByHand
  <2>2. ASSUME NEW c \in Calls, NEW p \in Reports,
               ReceiveCallback(c, p[2], p[1]) \/ OnchainRequest(c, p[2], p[1])
        PROVE  UNCHANGED <<log, paidBy>>
    BY <2>2 DEF ReceiveCallback, OnchainRequest, RecordOnchain
  <2>3. ASSUME NEW p \in Reports, UnknownOrder(p[2])
        PROVE  UNCHANGED <<log, paidBy>>
    BY <2>3 DEF UnknownOrder
  <2> QED BY <1>1, <1>2, <2>1, <2>2, <2>3 DEF Arrive
<1>3. ASSUME NEW c \in Slots, Proceed(c)
      PROVE  PaidAsLogged'
  <2>1. CASE Confirm(c)
    <3>1. call[c].pc = "confirm"
      BY <2>1 DEF Confirm
    <3>2. call[c].o \in Orders /\ call[c].route \in Routes /\ call[c].t \in Transfers
      BY <3>1 DEF CallsKnown, NoCall
    <3>3. Accept(call[c].route, call[c].t, call[c].o) \/ UNCHANGED <<log, paidBy>>
      BY <2>1 DEF Confirm
    <3> QED BY <1>1, <3>2, <3>3, AcceptLogs
  <2>2. CASE AutomaticFulfil(c) \/ AutomaticDeliver(c) \/ Refuse(c) \/ Abort(c)
    BY <1>1, <2>2 DEF AutomaticFulfil, AutomaticDeliver, Refuse, Abort
  <2> QED BY <1>3, <2>1, <2>2 DEF Proceed
<1>4. CASE Watch
  BY <1>1, <1>4 DEF Watch, ChainMoves, Scan, TakeMatch, RecordOnchain
<1>5. CASE Elsewhere \/ Die \/ UNCHANGED allVars
  BY <1>1, <1>5 DEF Elsewhere, Die, allVars, intakeVars
<1> QED BY <1>2, <1>3, <1>4, <1>5 DEF IntakeNext

\* For any number of calls, orders and transfers, by one route a transfer never
\* pays two orders: the second confirmation finds the key of the first in the
\* log its own transaction reads (ConfirmAdminOrderPayment).
THEOREM TransferPaysOnce == IntakeSpec => []TransferPaysOneOrder
<1>1. IntakeInit => PaidAsLogged
  BY DEF IntakeInit, PaidAsLogged
<1>2. CallsKnown /\ PaidAsLogged /\ [IntakeNext]_allVars => PaidAsLogged'
  BY StepLogs
<1>3. PaidAsLogged => TransferPaysOneOrder
  <2> SUFFICES ASSUME PaidAsLogged, NEW k \in Routes \X Transfers
               PROVE  Cardinality(paidBy[k]) <= 1
    BY DEF TransferPaysOneOrder
  <2>1. paidBy[k] = {} \/ paidBy[k] = {log[k]}
    BY DEF PaidAsLogged
  <2>2. Cardinality({}) = 0 /\ Cardinality({log[k]}) = 1
    BY FS_EmptySet, FS_Singleton
  <2> QED BY <2>1, <2>2
<1> QED BY <1>1, <1>2, <1>3, CallsAlwaysKnown, PTL DEF IntakeSpec

-----------------------------------------------------------------------------
(* The payment that paid an order.                                         *)

\* What PaymentRecordKept asks of a step.
SettledKeepRef == \A o \in Orders : Settled(order[o]) => payRef'[o] = payRef[o]

\* Every order has a payment record.
RefsKnown == payRef = [o \in Orders |-> payRef[o]]

\* A settled order's confirmation is a repeat or refused, so it is not accepted.
LEMMA AcceptKeepsRefs ==
    ASSUME RefsKnown, NEW route, NEW t, NEW o \in Orders, Accept(route, t, o)
    PROVE  RefsKnown' /\ SettledKeepRef
<1>1. payRef' = [payRef EXCEPT ![o] = t]
  BY DEF Accept, Pay
<1>2. ~ Settled(order[o])
  BY DEF Accept, Repeated
<1> QED BY <1>1, <1>2 DEF RefsKnown, SettledKeepRef

\* Nothing but an accepted confirmation writes a reference.
LEMMA StepKeepsRefs ==
    ASSUME CallsKnown, RefsKnown, [IntakeNext]_allVars
    PROVE  RefsKnown' /\ SettledKeepRef
<1>1. ASSUME UNCHANGED payRef
      PROVE  RefsKnown' /\ SettledKeepRef
  BY <1>1 DEF RefsKnown, SettledKeepRef
<1>2. CASE Arrive
  <2>1. ASSUME NEW c \in Calls, NEW o \in Orders, ConfirmByHand(c, o)
        PROVE  RefsKnown' /\ SettledKeepRef
    BY <1>1, <2>1, AcceptKeepsRefs DEF ConfirmByHand
  <2>2. ASSUME NEW c \in Calls, NEW p \in Reports,
               ReceiveCallback(c, p[2], p[1]) \/ OnchainRequest(c, p[2], p[1])
        PROVE  UNCHANGED payRef
    BY <2>2 DEF ReceiveCallback, OnchainRequest, RecordOnchain
  <2>3. ASSUME NEW p \in Reports, UnknownOrder(p[2])
        PROVE  UNCHANGED payRef
    BY <2>3 DEF UnknownOrder
  <2> QED BY <1>1, <1>2, <2>1, <2>2, <2>3 DEF Arrive
<1>3. ASSUME NEW c \in Slots, Proceed(c)
      PROVE  RefsKnown' /\ SettledKeepRef
  <2>1. CASE Confirm(c)
    <3>1. call[c].pc = "confirm"
      BY <2>1 DEF Confirm
    <3>2. call[c].o \in Orders
      BY <3>1 DEF CallsKnown, NoCall
    <3>3. Accept(call[c].route, call[c].t, call[c].o) \/ UNCHANGED payRef
      BY <2>1 DEF Confirm
    <3> QED BY <1>1, <3>2, <3>3, AcceptKeepsRefs
  <2>2. CASE AutomaticFulfil(c) \/ AutomaticDeliver(c) \/ Refuse(c) \/ Abort(c)
    BY <1>1, <2>2 DEF AutomaticFulfil, AutomaticDeliver, Refuse, Abort
  <2> QED BY <1>3, <2>1, <2>2 DEF Proceed
<1>4. CASE Watch
  BY <1>1, <1>4 DEF Watch, ChainMoves, Scan, TakeMatch, RecordOnchain
<1>5. CASE Elsewhere \/ Die \/ UNCHANGED allVars
  BY <1>1, <1>5 DEF Elsewhere, Die, allVars, intakeVars
<1> QED BY <1>2, <1>3, <1>4, <1>5 DEF IntakeNext

\* While an order stays paid no other callback, on-chain confirmation, sweep or operator puts
\* another reference on its payment record, whatever each of them read before its transaction.
THEOREM PaymentRecordAlwaysKept == IntakeSpec => PaymentRecordKept
<1>1. IntakeInit => RefsKnown
  BY DEF IntakeInit, RefsKnown
<1>2. CallsKnown /\ RefsKnown /\ [IntakeNext]_allVars => RefsKnown' /\ SettledKeepRef
  BY StepKeepsRefs
<1>3. SettledKeepRef =>
          [\A o \in Orders : Settled(order[o]) => payRef'[o] = payRef[o]]_allVars
  BY DEF SettledKeepRef
<1> QED BY <1>1, <1>2, <1>3, CallsAlwaysKnown, PTL DEF IntakeSpec, PaymentRecordKept

-----------------------------------------------------------------------------
(* Type correctness of the intake.                                        *)

\* IntakeTypeOK by parts: what payments write, the watcher's records, the calls, the sweep.
Payments == /\ log \in [Routes \X Transfers -> Orders \cup {None}]
            /\ payRef \in [Orders -> Transfers \cup {None}]
            /\ paidBy \in [Routes \X Transfers -> SUBSET Orders]
WatcherTyped == watcher \in [Transfers -> {NoRecord} \cup
                    [st : {"matched", "manual_review"}, o : Orders \cup {None}]]
CallsTyped == call \in [Slots -> {NoCall} \cup Call]
Matches == [o : Orders, t : Transfers, review : BOOLEAN]
SweepTyped == sweep \in Seq(Matches)
SeenTyped == seen \in (0 .. Len(Timeline)) \X (0 .. Len(Timeline))

\* The parts are the whole.
LEMMA IntakeParts ==
    IntakeTypeOK <=> Payments /\ WatcherTyped /\ CallsTyped /\ SweepTyped /\ SeenTyped
BY DEF IntakeTypeOK, Payments, WatcherTyped, CallsTyped, SweepTyped, SeenTyped, Matches

\* So they are after a step.
LEMMA IntakePartsNext ==
    Payments' /\ WatcherTyped' /\ CallsTyped' /\ SweepTyped' /\ SeenTyped' => IntakeTypeOK'
BY DEF IntakeTypeOK, Payments, WatcherTyped, CallsTyped, SweepTyped, SeenTyped, Matches

\* An accepted confirmation logs a known order under a known key.
LEMMA AcceptTyped ==
    ASSUME Payments, NEW route, NEW t, NEW o \in Orders, Accept(route, t, o),
           route # "admin" => route \in Routes /\ t \in Transfers,
           route = "admin" => t = None
    PROVE  Payments'
<1>1. payRef' = [payRef EXCEPT ![o] = t] /\ t \in Transfers \cup {None}
  BY DEF Accept, Pay
<1>2. payRef' \in [Orders -> Transfers \cup {None}]
  BY <1>1 DEF Payments
<1>3. CASE route = "admin"
  BY <1>2, <1>3 DEF Accept, Pay, Payments
<1>4. CASE route # "admin"
  <2>1. /\ log' = [log EXCEPT ![<<route, t>>] = o]
        /\ paidBy' = [paidBy EXCEPT ![<<route, t>>] = @ \cup {o}]
        /\ <<route, t>> \in Routes \X Transfers
    BY <1>4 DEF Accept, Pay
  <2> QED BY <1>2, <2>1 DEF Payments
<1> QED BY <1>3, <1>4

\* A call that starts is one.
LEMMA BeginTyped ==
    ASSUME CallsTyped, NEW c \in Slots, NEW pc, NEW route, NEW t, NEW o \in Orders,
           NEW review \in BOOLEAN,
           pc \in {"confirm", "fulfil", "deliver"}, route \in Routes \cup {"admin"},
           t \in Transfers \cup {None}, Begin(c, pc, route, t, o, review)
    PROVE  CallsTyped'
BY DEF CallsTyped, Begin, Call

\* A call that goes on is one.
LEMMA GotoTyped ==
    ASSUME CallsTyped, NEW c \in Slots, call[c] # NoCall, NEW pc \in {"fulfil", "deliver"}, Goto(c, pc)
    PROVE  CallsTyped'
<1>1. call[c] \in Call
  BY DEF CallsTyped
<1> QED BY <1>1 DEF CallsTyped, Goto, Call

\* A call that ends is none.
LEMMA EndTyped ==
    ASSUME CallsTyped, NEW c \in Slots, call' = [call EXCEPT ![c] = NoCall]
    PROVE  CallsTyped'
BY DEF CallsTyped

\* A watcher record names a known order, and its confirmation is a call.
LEMMA RecordTyped ==
    ASSUME WatcherTyped, CallsTyped, NEW c \in Slots, NEW t, NEW o, NEW review \in BOOLEAN,
           RecordOnchain(c, t, o, review)
    PROVE  WatcherTyped' /\ CallsTyped'
<1>1. o \in Orders /\ t \in Transfers
  BY DEF RecordOnchain
<1>2. CASE <<o, t>> \in SameAmount
  <2>1. watcher' = [watcher EXCEPT ![t] = [st |-> "matched", o |-> o]]
    BY <1>2 DEF RecordOnchain
  <2>2. Begin(c, "confirm", "onchain", t, o, review)
    BY <1>2 DEF RecordOnchain
  <2>3. CallsTyped'
    BY <1>1, <2>2, BeginTyped DEF Routes
  <2> QED BY <1>1, <2>1, <2>3 DEF WatcherTyped
<1>3. CASE <<o, t>> \notin SameAmount
  <2>1. watcher' = [watcher EXCEPT ![t] = [st |-> "manual_review", o |-> o]] /\ UNCHANGED call
    BY <1>3 DEF RecordOnchain
  <2> QED BY <1>1, <2>1 DEF WatcherTyped, CallsTyped
<1> QED BY <1>2, <1>3

\* The transactions of a call keep the types.
LEMMA ProceedTyped ==
    ASSUME IntakeTypeOK, CallsKnown, NEW c \in Slots, Proceed(c)
    PROVE  IntakeTypeOK'
<1>1. Payments /\ WatcherTyped /\ CallsTyped /\ SweepTyped /\ SeenTyped
  BY IntakeParts
<1>2. ASSUME Answer(c) \/ Fail(c)
      PROVE  CallsTyped' /\ SweepTyped'
  <2>1. call' = [call EXCEPT ![c] = NoCall] /\ sweep' \in {sweep, <<>>}
    BY <1>2 DEF Answer, Fail
  <2>2. <<>> \in Seq(Matches)
    OBVIOUS
  <2> QED BY <1>1, <2>1, <2>2, EndTyped DEF SweepTyped
<1>3. CASE Confirm(c)
  <2>1. call[c].pc = "confirm" /\ Automate(c) /\ UNCHANGED <<watcher, seen>>
    BY <1>3 DEF Confirm
  <2>2. call[c] # NoCall
    BY <2>1 DEF NoCall
  <2>3. call[c].o \in Orders /\ call[c].route \in Routes /\ call[c].t \in Transfers
    BY <2>1, <2>2 DEF CallsKnown
  <2>4. Payments'
    <3>1. CASE Accept(call[c].route, call[c].t, call[c].o)
      <4>1. call[c].route # "admin"
        BY <2>3 DEF Routes
      <4> QED BY <1>1, <2>3, <3>1, <4>1, AcceptTyped
    <3>2. CASE UNCHANGED <<log, payRef, paidBy>>
      BY <1>1, <3>2 DEF Payments
    <3> QED BY <1>3, <3>1, <3>2 DEF Confirm
  <2>5. CallsTyped' /\ SweepTyped'
    <3>1. CASE Goto(c, "fulfil") /\ UNCHANGED sweep
      BY <1>1, <2>2, <3>1, GotoTyped DEF SweepTyped
    <3> QED BY <1>2, <2>1, <3>1 DEF Automate
  <2>6. WatcherTyped' /\ SeenTyped'
    BY <1>1, <2>1 DEF WatcherTyped, SeenTyped
  <2> QED BY <2>4, <2>5, <2>6, IntakePartsNext
<1>4. CASE AutomaticFulfil(c)
  <2>1. call[c].pc = "fulfil" /\ UNCHANGED <<log, watcher, payRef, seen, paidBy>>
    BY <1>4 DEF AutomaticFulfil
  <2>2. call[c] # NoCall
    BY <2>1 DEF NoCall
  <2>3. CallsTyped' /\ SweepTyped'
    <3>1. CASE Goto(c, "deliver") /\ UNCHANGED sweep
      BY <1>1, <2>2, <3>1, GotoTyped DEF SweepTyped
    <3> QED BY <1>2, <1>4, <3>1 DEF AutomaticFulfil
  <2>4. Payments' /\ WatcherTyped' /\ SeenTyped'
    BY <1>1, <2>1 DEF Payments, WatcherTyped, SeenTyped
  <2> QED BY <2>3, <2>4, IntakePartsNext
<1>5. CASE AutomaticDeliver(c) \/ Refuse(c) \/ Abort(c)
  <2>1. UNCHANGED <<log, watcher, payRef, seen, paidBy>> /\ (Answer(c) \/ Fail(c))
    BY <1>5 DEF AutomaticDeliver, Refuse, Abort
  <2>2. Payments' /\ WatcherTyped' /\ SeenTyped'
    BY <1>1, <2>1 DEF Payments, WatcherTyped, SeenTyped
  <2> QED BY <1>2, <2>1, <2>2, IntakePartsNext
<1> QED BY <1>3, <1>4, <1>5 DEF Proceed

\* So does what arrives.
LEMMA ArriveTyped ==
    ASSUME IntakeTypeOK, Arrive
    PROVE  IntakeTypeOK'
<1>1. Payments /\ WatcherTyped /\ CallsTyped /\ SweepTyped /\ SeenTyped
  BY IntakeParts
<1>2. ASSUME NEW c \in Calls, NEW p \in Reports, ReceiveCallback(c, p[2], p[1])
      PROVE  IntakeTypeOK'
  <2>1. p[1] \in Orders /\ p[2] \in Transfers /\ c \in Slots /\ "callback" \in Routes
    BY ReportsAssumption DEF Slots, Routes
  <2>2. Begin(c, "confirm", "callback", p[2], p[1], FALSE)
        /\ UNCHANGED <<log, watcher, payRef, sweep, seen, paidBy>>
    BY <1>2 DEF ReceiveCallback
  <2>3. CallsTyped'
    BY <1>1, <2>1, <2>2, BeginTyped
  <2>4. Payments' /\ WatcherTyped' /\ SweepTyped' /\ SeenTyped'
    BY <1>1, <2>2 DEF Payments, WatcherTyped, SweepTyped, SeenTyped
  <2> QED BY <2>3, <2>4, IntakePartsNext
<1>3. ASSUME NEW c \in Calls, NEW p \in Reports, OnchainRequest(c, p[2], p[1])
      PROVE  IntakeTypeOK'
  <2>1. RecordOnchain(c, p[2], p[1], FALSE) /\ UNCHANGED <<log, payRef, sweep, seen, paidBy>>
    BY <1>3 DEF OnchainRequest, RecordOnchain
  <2>2. WatcherTyped' /\ CallsTyped'
    BY <1>1, <2>1, RecordTyped DEF Slots
  <2>3. Payments' /\ SweepTyped' /\ SeenTyped'
    BY <1>1, <2>1 DEF Payments, SweepTyped, SeenTyped
  <2> QED BY <2>2, <2>3, IntakePartsNext
<1>4. ASSUME NEW c \in Calls, NEW o \in Orders, ConfirmByHand(c, o)
      PROVE  IntakeTypeOK'
  <2>1. UNCHANGED <<watcher, sweep, seen>>
    BY <1>4 DEF ConfirmByHand
  <2>2. CallsTyped'
    <3>1. CASE Begin(c, "fulfil", "admin", None, o, FALSE)
      <4>1. c \in Slots
        BY DEF Slots
      <4> QED BY <1>1, <3>1, <4>1, BeginTyped
    <3>2. CASE UNCHANGED call
      BY <1>1, <3>2 DEF CallsTyped
    <3> QED BY <1>4, <3>1, <3>2 DEF ConfirmByHand
  <2>3. Payments'
    <3>1. CASE Accept("admin", None, o)
      BY <1>1, <3>1, AcceptTyped
    <3>2. CASE UNCHANGED <<log, payRef, paidBy>>
      BY <1>1, <3>2 DEF Payments
    <3> QED BY <1>4, <3>1, <3>2 DEF ConfirmByHand
  <2>4. WatcherTyped' /\ SweepTyped' /\ SeenTyped'
    BY <1>1, <2>1 DEF WatcherTyped, SweepTyped, SeenTyped
  <2> QED BY <2>2, <2>3, <2>4, IntakePartsNext
<1>5. ASSUME NEW p \in Reports, UnknownOrder(p[2])
      PROVE  IntakeTypeOK'
  <2>1. p[2] \in Transfers
    BY ReportsAssumption
  <2>2. /\ watcher' = [watcher EXCEPT ![p[2]] = [st |-> "manual_review", o |-> None]]
        /\ UNCHANGED <<log, payRef, call, sweep, seen, paidBy>>
    BY <1>5 DEF UnknownOrder
  <2>3. WatcherTyped'
    BY <1>1, <2>1, <2>2 DEF WatcherTyped
  <2>4. Payments' /\ CallsTyped' /\ SweepTyped' /\ SeenTyped'
    BY <1>1, <2>2 DEF Payments, CallsTyped, SweepTyped, SeenTyped
  <2> QED BY <2>3, <2>4, IntakePartsNext
<1> QED BY <1>2, <1>3, <1>4, <1>5 DEF Arrive

\* The scan returns known transfers.
LEMMA ChainListed == ASSUME SeenTyped PROVE Chain \in Seq(Transfers)
<1> PICK a \in 0..Len(Timeline), b \in 0..Len(Timeline) : seen = <<a, b>>
  BY DEF SeenTyped
<1>1. Timeline \in Seq(Transfers) /\ Len(Timeline) \in Nat
  BY ListsAssumption
<1>2. \A i \in (a + 1)..b : Timeline[i] \in Transfers
  BY <1>1
<1> QED BY <1>1, <1>2, SubSeqProperties DEF Chain

\* The sweep's list is what SelectMatches makes of them, and gets shorter.
LEMMA WatchTyped ==
    ASSUME IntakeTypeOK, Watch
    PROVE  IntakeTypeOK'
<1>1. Payments /\ WatcherTyped /\ CallsTyped /\ SweepTyped /\ SeenTyped
  BY IntakeParts
<1>2. CASE ChainMoves
  <2>1. UNCHANGED <<log, watcher, payRef, call, sweep, paidBy>>
    BY <1>2 DEF ChainMoves
  <2>2. SeenTyped'
    <3>1. Len(Timeline) \in Nat
      BY ListsAssumption
    <3> QED BY <1>1, <1>2, <3>1 DEF ChainMoves, SeenTyped
  <2>3. Payments' /\ WatcherTyped' /\ CallsTyped' /\ SweepTyped'
    BY <1>1, <2>1 DEF Payments, WatcherTyped, CallsTyped, SweepTyped
  <2> QED BY <2>2, <2>3, IntakePartsNext
<1>3. CASE Scan
  <2>1. sweep' = SelectMatches(Fit, Candidates, Chain) /\ UNCHANGED <<log, watcher, payRef, call, seen, paidBy>>
    BY <1>3 DEF Scan
  <2>2. SweepTyped'
    BY <1>1, <2>1, CandidatesListed, ChainListed, MatchesSound DEF SweepTyped, Matches
  <2>3. Payments' /\ WatcherTyped' /\ CallsTyped' /\ SeenTyped'
    BY <1>1, <2>1 DEF Payments, WatcherTyped, CallsTyped, SeenTyped
  <2> QED BY <2>2, <2>3, IntakePartsNext
<1>4. CASE TakeMatch
  <2>1. sweep # <<>> /\ sweep' = Tail(sweep) /\ UNCHANGED <<log, payRef, seen, paidBy>>
    BY <1>4 DEF TakeMatch, RecordOnchain
  <2>2. SweepTyped'
    BY <1>1, <2>1 DEF SweepTyped
  <2>3. WatcherTyped' /\ CallsTyped'
    <3>1. CASE UNCHANGED <<watcher, call>>
      BY <1>1, <3>1 DEF WatcherTyped, CallsTyped
    <3>2. CASE RecordOnchain(Sweeper, Head(sweep).t, Head(sweep).o, Head(sweep).review)
      <4>1. Head(sweep) \in Matches
        BY <1>1, <2>1 DEF SweepTyped
      <4>2. Head(sweep).review \in BOOLEAN /\ Sweeper \in Slots
        BY <4>1 DEF Matches, Slots
      <4> QED BY <1>1, <3>2, <4>2, RecordTyped
    <3> QED BY <1>4, <3>1, <3>2 DEF TakeMatch
  <2>4. Payments' /\ SeenTyped'
    BY <1>1, <2>1 DEF Payments, SeenTyped
  <2> QED BY <2>2, <2>3, <2>4, IntakePartsNext
<1> QED BY <1>2, <1>3, <1>4 DEF Watch

\* Every step keeps the types.
LEMMA IntakeStepTyped ==
    ASSUME IntakeTypeOK, CallsKnown, [IntakeNext]_allVars
    PROVE  IntakeTypeOK'
<1>1. Payments /\ WatcherTyped /\ CallsTyped /\ SweepTyped /\ SeenTyped
  BY IntakeParts
<1>2. CASE Elsewhere \/ UNCHANGED allVars
  BY <1>2 DEF Elsewhere, allVars, intakeVars, IntakeTypeOK
<1>3. CASE Die
  <2>1. CallsTyped' /\ SweepTyped'
    BY <1>3 DEF Die, CallsTyped, SweepTyped
  <2>2. Payments' /\ WatcherTyped' /\ SeenTyped'
    BY <1>1, <1>3 DEF Die, Payments, WatcherTyped, SeenTyped
  <2> QED BY <2>1, <2>2, IntakePartsNext
<1> QED BY <1>2, <1>3, ArriveTyped, ProceedTyped, WatchTyped DEF IntakeNext

\* Whatever callbacks, confirmations, scans and sweeps do, and wherever the process dies, logs,
\* watcher records, calls and the sweep's list of matches (HandlePaymentCallback,
\* HandleOnchainConfirmation, selectMatches) are well typed.
THEOREM IntakeIsTyped == IntakeSpec => []IntakeTypeOK
<1>1. IntakeInit => IntakeTypeOK
  <2> SUFFICES ASSUME IntakeInit PROVE IntakeTypeOK
    OBVIOUS
  <2>1. Len(Timeline) \in Nat
    BY ListsAssumption
  <2>2. Payments /\ WatcherTyped /\ CallsTyped /\ SweepTyped /\ SeenTyped
    BY <2>1 DEF IntakeInit, Payments, WatcherTyped, CallsTyped, SweepTyped, SeenTyped
  <2> QED BY <2>2, IntakeParts
<1>2. IntakeTypeOK /\ CallsKnown /\ [IntakeNext]_allVars => IntakeTypeOK'
  BY IntakeStepTyped
<1> QED BY <1>1, <1>2, CallsAlwaysKnown, PTL DEF IntakeSpec

\* What SweepIsSound asks of a step.
ScanIsSound == sweep = << >> /\ sweep' # << >> => MatchesAreSound(Fit, Candidates, Chain, sweep')
\* Only a scan starts a sweep.
LEMMA StepScans ==
    ASSUME IntakeTypeOK, [IntakeNext]_allVars
    PROVE  ScanIsSound
<1>1. SeenTyped
  BY IntakeParts
<1>2. CASE Scan
  <2>1. sweep' = SelectMatches(Fit, Candidates, Chain)
    BY <1>2 DEF Scan
  <2> QED BY <1>1, <2>1, CandidatesListed, ChainListed, MatchesSound DEF ScanIsSound
<1>3. ASSUME sweep' = sweep \/ sweep' = <<>> \/ sweep # <<>>
      PROVE  ScanIsSound
  BY <1>3 DEF ScanIsSound
<1>4. ASSUME NEW c \in Slots, Proceed(c)
      PROVE  sweep' = sweep \/ sweep' = <<>>
  <2>1. ASSUME Answer(c) \/ Fail(c)
        PROVE  sweep' = sweep \/ sweep' = <<>>
    BY <2>1 DEF Answer, Fail
  <2> QED BY <1>4, <2>1 DEF Proceed, Confirm, Automate, AutomaticFulfil, AutomaticDeliver, Refuse, Abort
<1>5. CASE Arrive \/ Elsewhere \/ Die \/ ChainMoves \/ TakeMatch \/ UNCHANGED allVars
  BY <1>3, <1>5 DEF Arrive, ReceiveCallback, OnchainRequest, ConfirmByHand, UnknownOrder,
       Elsewhere, Die, ChainMoves, TakeMatch, allVars, intakeVars
<1> QED BY <1>2, <1>3, <1>4, <1>5 DEF IntakeNext, Watch

\* For any number of pending orders and transfers, a scan of the sidecar (selectMatches) pairs
\* orders with transfers that fit them, none of either twice, leaves an order without only if
\* older orders took all that fits it, and flags every pairing that could have been another.
THEOREM SweepAlwaysSound == IntakeSpec => SweepIsSound
<1>1. IntakeTypeOK /\ [IntakeNext]_allVars => ScanIsSound
  BY StepScans
<1>2. ScanIsSound => [sweep = << >> /\ sweep' # << >> =>
          MatchesAreSound(Fit, Candidates, Chain, sweep')]_allVars
  BY DEF ScanIsSound
<1> QED BY <1>1, <1>2, IntakeIsTyped, PTL DEF IntakeSpec, SweepIsSound
=============================================================================
