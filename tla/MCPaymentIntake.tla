--------------------------- MODULE MCPaymentIntake ---------------------------
(* Small instances of PaymentIntake.                                       *)
EXTENDS PaymentIntake, TLC

CONSTANTS o1, o2, t1

\* The second order is for more than there is.
OneAndTwo == [o \in Orders |-> IF o = o1 THEN 1 ELSE 2]
OnWeb == [o \in Orders |-> "web"]

Both == <<o1, o2>>
OneTransfer == <<t1>>

\* The calls the server handles are alike.
Alike == Permutations(Calls)

\* Callbacks and endpoints report the first transfer, for any order.
FirstOnly == Orders \X {t1}

\* Every order has the amount of every transfer.
AllAlike == Orders \X Transfers
=============================================================================
