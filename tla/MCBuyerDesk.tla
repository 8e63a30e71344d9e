---------------------------- MODULE MCBuyerDesk ----------------------------
(* A small instance of BuyerDesk: the orders are alike.                   *)
EXTENDS BuyerDesk, TLC

Symmetry == Permutations(Orders)
=============================================================================
