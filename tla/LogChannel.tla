----------------------------- MODULE LogChannel -----------------------------
(***************************************************************************)
(* What whoever reads the uploaded log may rely on: the records of each    *)
(* reporting process are numbered in the order in which it reports them,   *)
(* and each is uploaded at most once, after its report and in that order.  *)
(* Some never arrive.  Nothing is promised across reporting processes.     *)
(***************************************************************************)
EXTENDS Integers, Sequences

CONSTANT Reporters

VARIABLES
    reported,   \* how many records each process has reported
    uploaded    \* the numbers of its records that are uploaded, in order

vars == <<reported, uploaded>>

Init ==
    /\ reported = [p \in Reporters |-> 0]
    /\ uploaded = [p \in Reporters |-> <<>>]

Report(p) ==
    /\ reported' = [reported EXCEPT ![p] = @ + 1]
    /\ UNCHANGED uploaded

Upload(p) ==
    /\ \E r \in 1..reported[p] :
         /\ \A i \in DOMAIN uploaded[p] : uploaded[p][i] < r
         /\ uploaded' = [uploaded EXCEPT ![p] = Append(@, r)]
    /\ UNCHANGED reported

Next == \E p \in Reporters : Report(p) \/ Upload(p)

Spec == Init /\ [][Next]_vars
=============================================================================
