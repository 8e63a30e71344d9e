--------------------------- MODULE MCListConsole ---------------------------
(* A small instance of ListConsole: two records.                           *)
EXTENDS ListConsole, TLC

CONSTANTS a, b
Both == {a, b}
Swap == Permutations(Both)
=============================================================================
