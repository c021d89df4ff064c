----------------------------- MODULE MCRetryTcp -----------------------------
(* The retrying TCP socket for TLC: the constants are in the .cfg files. *)
EXTENDS RetryTcp
=============================================================================
