----------------------------- MODULE MCCgiUpload ------------------------------
(* Model checking of CgiUpload: the constants are given by the .cfg files.  *)
EXTENDS CgiUpload
===============================================================================
