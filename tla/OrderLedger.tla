----------------------------- MODULE OrderLedger -----------------------------
(***************************************************************************)
(* What the shop promises about its goods, whatever happens to payments,   *)
(* retries, deliveries and refunds: an order's goods are made at most once *)
(* and never unmade, they take exactly the order's units of the inventory, *)
(* and only when that many are left.  Otherwise the inventory changes only *)
(* when the operator sets it.                                              *)
(***************************************************************************)
EXTENDS Integers

CONSTANTS Orders, Quantity, Inventories

VARIABLES stock,    \* inventory of the product
          made      \* the orders whose goods have been made

Init == stock \in Inventories /\ made = {}

Make(o) ==
    /\ o \notin made
    /\ stock >= Quantity[o]
    /\ stock' = stock - Quantity[o]
    /\ made' = made \cup {o}

SetStock(n) == stock' = n /\ UNCHANGED made

Next == (\E o \in Orders : Make(o)) \/ (\E n \in Inventories : SetStock(n))

Spec == Init /\ [][Next]_<<stock, made>>
=============================================================================
