----------------------------- MODULE MCTcpReass -----------------------------
(* TLC instance of TcpReass. *)
EXTENDS TcpReass
=============================================================================
