---------------------------- MODULE MCStatusFile ----------------------------
(* The status file for TLC: the constants are in the .cfg file. *)
EXTENDS StatusFile
=============================================================================
