---------------------------- MODULE ReadService ----------------------------
(***************************************************************************)
(* What the business process promises its clients: requests are handled    *)
(* one at a time and in order, each is answered at most once, with an      *)
(* answer that was made for it and fits its code; a message that is not a  *)
(* read request is not answered.                                           *)
(***************************************************************************)
EXTENDS Integers, Sequences

CONSTANT Codes

VARIABLES
    asked,      \* the messages, in order
    handled,    \* how many have been dealt with
    answers     \* the answers: the request they are for and their kind

vars == <<asked, handled, answers>>

Kinds(code) ==
    (IF code = "ONLINE" THEN {"ident", "error"} ELSE {})
        \cup (IF code = "OFFLINE" THEN {"dn", "error"} ELSE {})

Init == asked = <<>> /\ handled = 0 /\ answers = <<>>

Ask ==
    /\ \E c \in Codes : asked' = Append(asked, c)
    /\ UNCHANGED <<handled, answers>>

Answer ==
    /\ handled < Len(asked)
    /\ handled' = handled + 1
    /\ \E k \in Kinds(asked[handled']) :
           answers' = Append(answers, [req |-> handled', kind |-> k])
    /\ UNCHANGED asked

Skip ==
    /\ handled < Len(asked)
    /\ handled' = handled + 1
    /\ UNCHANGED <<asked, answers>>

Next == Ask \/ Answer \/ Skip

Spec == Init /\ [][Next]_vars
=============================================================================
