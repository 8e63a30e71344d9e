---------------------------- MODULE Subsequences ----------------------------
(***************************************************************************)
(* What is left of a list when it is filtered, as the code's filters and   *)
(* WHERE clauses do.  SelectSeq says the same; this form names no          *)
(* predicate, so that facts about it can be stated and proved once.        *)
(***************************************************************************)
EXTENDS Naturals, FiniteSets

\* The elements of s at the positions kept, in their order.
Only(s, kept) ==
    LET rank(i) == Cardinality({j \in kept : j <= i})
    IN [k \in 1..Cardinality(kept) |-> s[CHOOSE i \in kept : rank(i) = k]]
=============================================================================
