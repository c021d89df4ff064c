------------------------------ MODULE RetryUdp ------------------------------
(***************************************************************************)
(* IDCardRetryUDP::SendAndRecv in include/IDCardRetryUDP.h, on the socket  *)
(* of CUDPRaw in include/IDCardUDP.h: a packet is sent, and sent again     *)
(* whenever 100 ms pass without an answer, until the time of the packet or *)
(* of the task is up.                                                      *)
(*                                                                         *)
(* The network loses, delays, repeats and reorders datagrams: the packets  *)
(* sent on the present socket and the answers to its address are sets that *)
(* only grow, and what is in them may arrive any number of times or never. *)
(* An answer is [for, kind]: the packet it answers, and "ok", "error" or   *)
(* "spoilt" (its CRC does not fit, or two datagrams were read as one).     *)
(*                                                                         *)
(* A socket lives from ConnectServer to DisconnectServer, over any number  *)
(* of calls: answers to an earlier packet may arrive during a later call.  *)
(***************************************************************************)
EXTENDS Integers

CONSTANT MaxCalls   \* bound: calls of SendAndRecv

ASSUME RetryUdpAssumption == MaxCalls \in Nat

VARIABLES
    pc,         \* where the call is; "idle": no call
    calls,      \* calls so far
    sock,       \* is the socket valid?
    opened,     \* how many calls there had been when it was opened
    packets,    \* packets sent on this socket
    answers,    \* answers sent to this socket
    writeFlag,  \* send before reading?
    enabled,    \* getIDWorkIsEnable
    expired,    \* has m_u32PerPkgTimeOut passed since the call began?
    late,       \* is the time of the task used up?
    result      \* what the last call returned, and its number: [to, for, kind]

network == <<packets, answers>>
socket == <<sock, opened>>
clock == <<expired, late>>
vars == <<pc, calls, socket, network, writeFlag, enabled, clock, result>>

Locations == {"idle", "entry", "loop", "read", "failSent", "failRead"}

Verdicts == {"ok"}

LocalErrors == {"error", "PACKAGE_COMM_TIMEOUT", "IDWORK_TIMEOUT",
                "IDWORK_CANCELED", "SERVER_RECV_ERROR"}

Answer == [for : Nat, kind : {"ok", "error", "spoilt"}]

Init ==
    /\ pc = "idle"
    /\ calls = 0
    /\ sock = FALSE
    /\ opened = 0
    /\ packets = {}
    /\ answers = {}
    /\ writeFlag = TRUE
    /\ enabled = TRUE
    /\ expired = FALSE
    /\ late = FALSE
    /\ result = [to |-> 0, for |-> 0, kind |-> "none"]

-----------------------------------------------------------------------------
\* The server, the users, the clock.

\* The server answers a packet as often as it reaches it, not always alike.
Serve ==
    /\ \E p \in packets, k \in {"ok", "error", "spoilt"} :
           answers' = answers \cup {[for |-> p, kind |-> k]}
    /\ UNCHANGED <<pc, calls, socket, packets, writeFlag, enabled, clock,
                   result>>

\* ReadIDCardInfo: flag and clock of a new task.
StartTask ==
    /\ pc = "idle"
    /\ enabled' = TRUE
    /\ late' = FALSE
    /\ UNCHANGED <<pc, calls, socket, network, writeFlag, expired, result>>

\* SetIDWorkFlag(false)
Cancel ==
    /\ enabled
    /\ enabled' = FALSE
    /\ UNCHANGED <<pc, calls, socket, network, writeFlag, clock, result>>

TimePasses ==
    /\ \/ ~expired /\ expired' = TRUE /\ UNCHANGED late
       \/ ~late /\ late' = TRUE /\ UNCHANGED expired
    /\ UNCHANGED <<pc, calls, socket, network, writeFlag, enabled, result>>

\* mutant: a socket that is still valid is kept
ConnectIfClosed ==
    /\ pc = "idle"
    /\ IF sock
         THEN UNCHANGED network
         ELSE packets' = {} /\ answers' = {}
    /\ sock' = TRUE
    /\ opened' = calls
    /\ UNCHANGED <<pc, calls, writeFlag, enabled, clock, result>>

\* ConnectServer: always a new socket; answers to the old one reach nobody.
Connect ==
    /\ pc = "idle"
    /\ sock' = TRUE
    /\ opened' = calls
    /\ packets' = {}
    /\ answers' = {}
    /\ UNCHANGED <<pc, calls, writeFlag, enabled, clock, result>>

Disconnect ==
    /\ pc = "idle"
    /\ sock' = FALSE
    /\ packets' = {}
    /\ answers' = {}
    /\ UNCHANGED <<pc, calls, opened, writeFlag, enabled, clock, result>>

-----------------------------------------------------------------------------
\* SendAndRecv.

Call ==
    /\ pc = "idle"
    /\ calls < MaxCalls
    /\ calls' = calls + 1
    /\ pc' = "entry"
    /\ UNCHANGED <<socket, network, writeFlag, enabled, clock, result>>

Return(packet, kind) ==
    /\ result' = [to |-> calls, for |-> packet, kind |-> kind]
    /\ pc' = "idle"
    /\ UNCHANGED <<calls, socket, network, writeFlag, enabled, clock>>

Local(error) == Return(calls, error)

\* m_time.Begin
Enter ==
    /\ pc = "entry"
    /\ enabled
    /\ writeFlag' = TRUE
    /\ expired' = FALSE
    /\ pc' = "loop"
    /\ UNCHANGED <<calls, socket, network, enabled, late, result>>

Cancelled ==
    /\ pc \in {"entry", "loop"}
    /\ ~enabled
    /\ Local("IDWORK_CANCELED")

Write ==
    /\ pc = "loop"
    /\ enabled
    /\ writeFlag
    /\ sock
    /\ packets' = packets \cup {calls}
    /\ pc' = "read"
    /\ UNCHANGED <<calls, socket, answers, writeFlag, enabled, clock, result>>

\* sendto fails, always without a socket.
WriteFails ==
    /\ pc = "loop"
    /\ enabled
    /\ writeFlag
    /\ pc' = "failSent"
    /\ UNCHANGED <<calls, socket, network, writeFlag, enabled, clock, result>>

ReadOnly ==
    /\ pc = "loop"
    /\ enabled
    /\ ~writeFlag
    /\ pc' = "read"
    /\ UNCHANGED <<calls, socket, network, writeFlag, enabled, clock, result>>

\* SO_RCVTIMEO
ReadTimesOut ==
    /\ pc = "read"
    /\ pc' = "failSent"
    /\ UNCHANGED <<calls, socket, network, writeFlag, enabled, clock, result>>

ReadBreaks ==
    /\ pc = "read"
    /\ Local("SERVER_RECV_ERROR")

\* mutant: the chain number is not compared
ReadOkUnchecked ==
    /\ pc = "read"
    /\ \E a \in answers : a.kind = "ok" /\ Return(a.for, "ok")

ReadOk ==
    /\ pc = "read"
    /\ \E a \in answers : a.kind = "ok" /\ a.for = calls /\ Return(a.for, "ok")

\* An error is returned before the chain number is looked at.
ReadError ==
    /\ pc = "read"
    /\ \E a \in answers : a.kind = "error" /\ Return(a.for, "error")

\* mutant: read on without a look at the time, as over TCP
ReadOtherUntimed ==
    /\ pc = "read"
    /\ \E a \in answers :
           a.kind = "spoilt" \/ (a.kind = "ok" /\ a.for # calls)
    /\ writeFlag' = FALSE
    /\ pc' = "loop"
    /\ UNCHANGED <<calls, socket, network, enabled, clock, result>>

\* Another packet's answer, or a spoilt one.
ReadOther ==
    /\ pc = "read"
    /\ \E a \in answers :
           a.kind = "spoilt" \/ (a.kind = "ok" /\ a.for # calls)
    /\ pc' = "failRead"
    /\ UNCHANGED <<calls, socket, network, writeFlag, enabled, clock, result>>

\* mutant: only the time of the packet is looked at
GiveUpOfPacket ==
    /\ pc \in {"failSent", "failRead"}
    /\ expired
    /\ Local("PACKAGE_COMM_TIMEOUT")

\* OnSendAndRecvFail
GiveUp ==
    /\ pc \in {"failSent", "failRead"}
    /\ \/ expired /\ Local("PACKAGE_COMM_TIMEOUT")
       \/ ~expired /\ late /\ Local("IDWORK_TIMEOUT")

\* Once more; after an answer that does not fit, without sending again.
Retry ==
    /\ pc \in {"failSent", "failRead"}
    /\ ~expired /\ ~late
    /\ writeFlag' = (writeFlag /\ pc = "failSent")
    /\ pc' = "loop"
    /\ UNCHANGED <<calls, socket, network, enabled, clock, result>>

-----------------------------------------------------------------------------
Step ==
    \/ Enter \/ Cancelled \/ Write \/ WriteFails \/ ReadOnly
    \/ ReadTimesOut \/ ReadBreaks \/ ReadOk \/ ReadError \/ ReadOther
    \/ GiveUp \/ Retry

Next ==
    \/ Serve \/ StartTask \/ Cancel \/ TimePasses \/ Connect \/ Disconnect
    \/ Call \/ Step

Spec == Init /\ [][Next]_vars

\* The call runs on (a read ends after 100 ms) and the clock runs; nothing is
\* assumed of the server, of the network or of the users.
FairSpec == Spec /\ WF_vars(Step) /\ WF_vars(TimePasses)

-----------------------------------------------------------------------------
\* Properties.

TypeOK ==
    /\ pc \in Locations
    /\ calls \in 0..MaxCalls
    /\ sock \in BOOLEAN
    /\ opened \in 0..calls
    /\ packets \subseteq 1..calls
    /\ answers \subseteq Answer
    /\ writeFlag \in BOOLEAN
    /\ enabled \in BOOLEAN
    /\ expired \in BOOLEAN
    /\ late \in BOOLEAN
    /\ result \in [to : 0..calls, for : 0..calls,
                   kind : Verdicts \cup LocalErrors \cup {"none"}]

Ex == INSTANCE Exchange WITH
    busy <- pc # "idle",
    result <- [for |-> IF result.kind = "ok" THEN result.for ELSE result.to,
               kind |-> result.kind]

\* An identity, a key or a command the caller gets was sent for its own packet,
\* whatever datagrams of earlier calls arrive.  (Of errors this is not so.)
ExchangeSpec == Ex!Spec

\* An error may be that of an earlier packet, but only of one sent since
\* ConnectServer: an error of an earlier connection never ends a call.
ErrorsAreOfThisConnection ==
    pc = "idle" /\ result.kind = "error" /\ opened < result.to =>
        result.for > opened

\* A call returns, whatever arrives and however often.
CallReturns == pc # "idle" ~> pc = "idle"

\* The guards of the actions of Step.
Ready ==
    \/ pc = "entry" /\ enabled
    \/ pc \in {"entry", "loop"} /\ ~enabled
    \/ pc = "loop" /\ enabled /\ writeFlag
    \/ pc = "loop" /\ enabled /\ ~writeFlag
    \/ pc = "read"
    \/ pc \in {"failSent", "failRead"} /\ (expired \/ late)
    \/ pc \in {"failSent", "failRead"} /\ ~expired /\ ~late

\* An action that can be taken is enabled.  By the meaning of ENABLED this is
\* so in every state; TLC evaluates it, and the proofs have no other way to it.
StepRule ==
    /\ Ready => ENABLED <<Step>>_vars
    /\ ~expired \/ ~late => ENABLED <<TimePasses>>_vars

\* A call is never stuck, whatever arrives and whichever time is used up, and
\* neither is the clock before both are.
CallCanGoOn ==
    /\ pc # "idle" => ENABLED <<Step>>_vars
    /\ ~(expired /\ late) => ENABLED <<TimePasses>>_vars

\* The state is well typed, and neither the call nor the clock is stuck.
StateOK == TypeOK /\ StepRule /\ CallCanGoOn
=============================================================================
