------------------------ MODULE MCStorefrontOrders ------------------------
(* Instances of StorefrontOrders. *)
EXTENDS StorefrontOrders, TLC

Symmetry == Permutations(Skus)
=============================================================================
