------------------------------ MODULE Exchange ------------------------------
(***************************************************************************)
(* What the identity-card task may rely on when it exchanges a packet with *)
(* the remote server (ISocket::SendAndRecv): the call returns the server's *)
(* answer to this packet, the server's error for this packet, or an error  *)
(* of its own.  Packets are numbered by the calls that send them.          *)
(***************************************************************************)
EXTENDS Integers

CONSTANTS
    Verdicts,   \* what the server may say of a packet
    LocalErrors \* what the caller may be told instead

VARIABLES
    calls,      \* calls so far; the number of the present or last packet
    busy,       \* is a call in progress?
    result      \* what the last call returned

vars == <<calls, busy, result>>

NoResult == [for |-> 0, kind |-> "none"]

Init == calls = 0 /\ busy = FALSE /\ result = NoResult

Call ==
    /\ ~busy
    /\ busy' = TRUE
    /\ calls' = calls + 1
    /\ UNCHANGED result

Return ==
    /\ busy
    /\ busy' = FALSE
    /\ \E k \in Verdicts \cup LocalErrors :
           result' = [for |-> calls, kind |-> k]
    /\ UNCHANGED calls

Next == Call \/ Return

Spec == Init /\ [][Next]_vars
=============================================================================
