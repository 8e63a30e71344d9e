---------------------------- MODULE MCCodeAdapter ----------------------------
(* Small instances of CodeAdapter.                                          *)
EXTENDS CodeAdapter, TLC

\* Handlers are alike, and so are orders.
Alike == Permutations(Handlers) \cup Permutations(Orders)
=============================================================================
