------------------------------ MODULE MCSettings ------------------------------
(* Model checking of Settings: the constants are given by the .cfg files.   *)
EXTENDS Settings
===============================================================================
