-------------------------- MODULE MCConfigConsole --------------------------
(* A small instance of ConfigConsole: two rows at first, and one section of *)
(* each kind.                                                              *)
EXTENDS ConfigConsole

CONSTANTS a, b
Both == {a, b}
TwoRows == <<a, b>>
=============================================================================
