----------------------------- MODULE MCReadTask -----------------------------
(* The identity-card task for TLC: the constants are given in the .cfg. *)
EXTENDS ReadTask
=============================================================================
