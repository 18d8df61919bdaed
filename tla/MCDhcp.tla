-------------------------------- MODULE MCDhcp --------------------------------
(* Dhcp for TLC.                                                           *)
EXTENDS Dhcp
=============================================================================
