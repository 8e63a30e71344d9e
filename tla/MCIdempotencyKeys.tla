-------------------------- MODULE MCIdempotencyKeys --------------------------
(* Small instances of IdempotencyKeys.                                      *)
EXTENDS IdempotencyKeys, TLC

\* Connections are alike, and so are requests.
Alike == Permutations(Callers) \cup Permutations(Hashes)
=============================================================================
