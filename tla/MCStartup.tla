------------------------------ MODULE MCStartup -------------------------------
(* Model checking of Startup: the constants are given by the .cfg files.    *)
EXTENDS Startup
===============================================================================
