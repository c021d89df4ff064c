--------------------------- MODULE MCBusiProcess ---------------------------
(* The business process for TLC: the constants are given in the .cfg files. *)
EXTENDS BusiProcess
=============================================================================
