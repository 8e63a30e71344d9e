----------------------------- MODULE OkxMatching -----------------------------
(***************************************************************************)
(* How the TRON watcher sidecar pairs pending orders with transfers        *)
(* (apps/okxwatcher/internal/app/server.go, selectMatches).                *)
(*                                                                         *)
(* Abstracted: whether a transfer fits an order, that is whether its units *)
(* are within the tolerance of the order's amount and its time within the  *)
(* order's life, is a set Fit of pairs <<order, transfer>>.                *)
(***************************************************************************)
EXTENDS Integers, Sequences, FiniteSets

Sets == INSTANCE FiniteSetsExt

Options(Fit, o, ts) == {j \in DOMAIN ts : <<o, ts[j]>> \in Fit}
Claims(Fit, cands, t) == {i \in DOMAIN cands : <<cands[i], t>> \in Fit}

\* Mutant of Used: a transfer given to an order stays on offer.
UsedNever(ms, ts) == {}
\* Positions of the transfers the matches have taken.
Used(ms, ts) == {j \in DOMAIN ts : \E k \in DOMAIN ms : ms[k].t = ts[j]}

\* The match of order o to transfer t; ambiguous pairings are flagged.
Match(Fit, cands, ts, o, t) ==
    [o |-> o, t |-> t,
     review |-> Cardinality(Options(Fit, o, ts)) > 1 \/ Cardinality(Claims(Fit, cands, t)) > 1]

\* Orders by age, transfers by time: each order takes the first transfer that
\* fits it and is not taken.
SelectMatches(Fit, cands, ts) ==
    LET upTo[i \in 0 .. Len(cands)] ==
            IF i = 0 THEN << >>
            ELSE LET free == Options(Fit, cands[i], ts) \ Used(upTo[i - 1], ts)
                 IN  IF free = {} THEN upTo[i - 1]
                     ELSE Append(upTo[i - 1], Match(Fit, cands, ts, cands[i], ts[Sets!Min(free)]))
    IN  upTo[Len(cands)]

-----------------------------------------------------------------------------
(* What a list of matches must be, however it was computed.                *)

MatchesAreSound(Fit, cands, ts, ms) ==
    \* each pairs a candidate with a transfer that fits it
    /\ \A k \in DOMAIN ms : <<ms[k].o, ms[k].t>> \in Fit
    \* no order and no transfer is paired twice
    /\ \A k, l \in DOMAIN ms : k # l => ms[k].o # ms[l].o /\ ms[k].t # ms[l].t
    \* an order goes without only if older orders took all that fits it
    /\ \A i \in DOMAIN cands :
           \/ \E k \in DOMAIN ms : ms[k].o = cands[i]
           \/ \A j \in Options(Fit, cands[i], ts) :
                  \E k \in DOMAIN ms, h \in 1 .. i - 1 :
                      ms[k].t = ts[j] /\ ms[k].o = cands[h]
    \* what is not flagged could not have been paired otherwise
    /\ \A k \in DOMAIN ms :
           ~ ms[k].review =>
               /\ \A j \in DOMAIN ts : <<ms[k].o, ts[j]>> \in Fit => ts[j] = ms[k].t
               /\ \A i \in DOMAIN cands : <<cands[i], ms[k].t>> \in Fit => cands[i] = ms[k].o
=============================================================================
