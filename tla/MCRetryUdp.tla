----------------------------- MODULE MCRetryUdp -----------------------------
(* The retrying UDP socket for TLC: the constant is in the .cfg file. *)
EXTENDS RetryUdp
=============================================================================
