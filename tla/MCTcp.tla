------------------------------- MODULE MCTcp -------------------------------
(* TLC instance of Tcp. *)
EXTENDS Tcp

CONSTANTS FromC, FromS   \* bytes each host writes

MCData == [h \in Hosts |-> IF h = "c" THEN FromC ELSE FromS]
=============================================================================
