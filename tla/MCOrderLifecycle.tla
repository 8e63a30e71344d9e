-------------------------- MODULE MCOrderLifecycle --------------------------
(* Small instances of OrderLifecycle.                                      *)
EXTENDS OrderLifecycle

CONSTANTS o1, o2

OneUnit == [o \in Orders |-> 1]
TwoAndOne == [o \in Orders |-> IF o = o1 THEN 2 ELSE 1]

OnWeb == [o \in Orders |-> "web"]
TelegramAndManual == [o \in Orders |-> IF o = o1 THEN "telegram" ELSE "manual"]
=============================================================================
