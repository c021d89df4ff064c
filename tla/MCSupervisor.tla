---------------------------- MODULE MCSupervisor ----------------------------
(* The supervisor for TLC: the constants are given in the .cfg files. *)
EXTENDS Supervisor
=============================================================================
