----------------------------- MODULE MCFileServer -----------------------------
(* Model checking of FileServer: the lengths of the bodies; everything else *)
(* is given by the .cfg files.                                              *)
EXTENDS FileServer

CONSTANTS short, long

\* One body takes one slot, the other two.
MCBodyLen == [b \in {short, long} |-> IF b = short THEN 1 ELSE 2]
===============================================================================
