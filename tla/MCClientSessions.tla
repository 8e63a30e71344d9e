------------------------- MODULE MCClientSessions -------------------------
(* Instances of ClientSessions: two tabs, two accounts. *)
EXTENDS ClientSessions
=============================================================================
