------------------------------ MODULE RetryTcp ------------------------------
(***************************************************************************)
(* IDCardRetrySocket::SendAndRecv in include/IDCardRetrySocket.h, on the   *)
(* connection of CSocketTCP in include/IDCardSocket.h: one packet is sent, *)
(* the answer read, and both tried again on a new connection when they     *)
(* fail.  The server may ask the client to wait and send again.            *)
(*                                                                         *)
(* Other actors: the server, which answers each packet of a connection     *)
(* once; the network, which breaks connections and spoils answers; the     *)
(* user's threads, which cancel; the caller, which runs tasks, connects    *)
(* and disconnects between calls.                                          *)
(*                                                                         *)
(* A packet is the number of its call, which stands for its unique chain   *)
(* number.  An answer is [for, kind]: the packet it answers, and "ok",     *)
(* "error", "wait" (0x0011) or "spoilt" (its CRC or its chain number does  *)
(* not fit, or the waiting number in it cannot be decrypted).              *)
(***************************************************************************)
EXTENDS Integers, Sequences

CONSTANTS
    MaxCalls,       \* bound: calls of SendAndRecv
    RetryCount,     \* m_u32RetryCountPerPkg
    WaitTimeout,    \* getSamWaitTimeOut, in milliseconds
    WaitInterval,   \* u32TimeInterval, in milliseconds
    MaxSends        \* bound: where the count of the sends of a call stops

ASSUME RetryTcpAssumption ==
    /\ MaxCalls \in Nat
    /\ RetryCount \in Nat
    /\ WaitTimeout \in Nat
    /\ WaitInterval \in Nat \ {0}
    /\ MaxSends \in Nat

VARIABLES
    pc,         \* where the call is; "idle": no call
    calls,      \* calls so far
    sock,       \* is the socket valid?
    wire,       \* packets on this connection the server has yet to answer
    answers,    \* answers on this connection the client has yet to read
    writeFlag,  \* 0: read only, 1: write, 2: write after a wait
    retry,      \* m_u32CurRetryTime, the packet's retryTime
    waited,     \* u32BeginTime
    sends,      \* how often this call has called Write
    enabled,    \* getIDWorkIsEnable
    waitFlag,   \* getWaitFlag: quitWait was called
    late,       \* is the time of the task used up?
    result      \* what the last call returned

conn == <<sock, wire, answers>>
user == <<enabled, waitFlag, late>>
counts == <<writeFlag, retry, waited, sends>>
vars == <<pc, calls, conn, counts, user, result>>

Locations == {"idle", "entry", "loop", "write", "read", "fail"}

Verdicts == {"ok", "error"}

LocalErrors == {"PACKAGE_COMM_TIMEOUT", "IDWORK_TIMEOUT", "CONN_RETRY_EXCEED",
                "IDWORK_CANCELED", "WAITSAM_TIMEOUT", "WAITSAM_NOCARD",
                "READER_ERROR"}

NoResult == [for |-> 0, kind |-> "none"]

Init ==
    /\ pc = "idle"
    /\ calls = 0
    /\ sock = FALSE
    /\ wire = <<>>
    /\ answers = <<>>
    /\ writeFlag = 1
    /\ retry = 0
    /\ waited = 0
    /\ sends = 0
    /\ enabled = TRUE
    /\ waitFlag = FALSE
    /\ late = FALSE
    /\ result = NoResult

-----------------------------------------------------------------------------
\* The connection.  Closing it loses what is under way on it.

Closed == sock' = FALSE /\ wire' = <<>> /\ answers' = <<>>

\* ConnectServer closes the old connection once the new one stands.
Opened == sock' = TRUE /\ wire' = <<>> /\ answers' = <<>>

\* The server takes a packet and answers on the same connection.
Serve ==
    /\ wire # <<>>
    /\ wire' = Tail(wire)
    /\ \E k \in {"ok", "error", "wait", "spoilt"} :
           answers' = Append(answers, [for |-> Head(wire), kind |-> k])
    /\ UNCHANGED <<pc, calls, sock, counts, user, result>>

-----------------------------------------------------------------------------
\* The users and the clock.

\* ReadIDCardInfo: flags and clock of a new task.
StartTask ==
    /\ pc = "idle"
    /\ enabled' = TRUE
    /\ waitFlag' = FALSE
    /\ late' = FALSE
    /\ UNCHANGED <<pc, calls, conn, counts, result>>

\* SetIDWorkFlag(false)
Cancel ==
    /\ enabled
    /\ enabled' = FALSE
    /\ UNCHANGED <<pc, calls, conn, counts, waitFlag, late, result>>

QuitWait ==
    /\ ~waitFlag
    /\ waitFlag' = TRUE
    /\ UNCHANGED <<pc, calls, conn, counts, enabled, late, result>>

TimePasses ==
    /\ ~late
    /\ late' = TRUE
    /\ UNCHANGED <<pc, calls, conn, counts, enabled, waitFlag, result>>

\* IDReaderConnectServer and IDReaderDisServer between calls.
Connect ==
    /\ pc = "idle"
    /\ Opened \/ Closed
    /\ UNCHANGED <<pc, calls, counts, user, result>>

-----------------------------------------------------------------------------
\* SendAndRecv.

Call ==
    /\ pc = "idle"
    /\ calls < MaxCalls
    /\ calls' = calls + 1
    /\ pc' = "entry"
    /\ UNCHANGED <<conn, counts, user, result>>

Return(answer) ==
    /\ result' = answer
    /\ pc' = "idle"
    /\ UNCHANGED <<calls, counts, user>>

Local(error) == [for |-> calls, kind |-> error]

\* The chain number is saved, the counters are reset.
Enter ==
    /\ pc = "entry"
    /\ enabled
    /\ writeFlag' = 1
    /\ retry' = 0
    /\ waited' = 0
    /\ sends' = 0
    /\ pc' = "loop"
    /\ UNCHANGED <<calls, conn, user, result>>

Cancelled ==
    /\ \/ pc = "entry" /\ ~enabled
       \/ pc = "loop" /\ (~enabled \/ waitFlag)
    /\ Return(Local("IDWORK_CANCELED"))
    /\ UNCHANGED conn

\* mutant: the time waited is not looked at
GoOnWithoutLimit ==
    /\ pc = "loop"
    /\ enabled /\ ~waitFlag
    /\ pc' = IF writeFlag = 0 THEN "read" ELSE "write"
    /\ UNCHANGED <<calls, conn, counts, user, result>>

\* After the flags and, before another attempt, the time waited and the card.
GoOn ==
    /\ pc = "loop"
    /\ enabled /\ ~waitFlag
    /\ writeFlag = 2 => waited < WaitTimeout
    /\ pc' = IF writeFlag = 0 THEN "read" ELSE "write"
    /\ UNCHANGED <<calls, conn, counts, user, result>>

\* The time is up, or FindCard finds no card or fails.
WaitEnds ==
    /\ pc = "loop"
    /\ enabled /\ ~waitFlag
    /\ writeFlag = 2
    /\ \/ waited >= WaitTimeout /\ Return(Local("WAITSAM_TIMEOUT"))
       \/ /\ waited < WaitTimeout
          /\ \E e \in {"WAITSAM_NOCARD", "READER_ERROR"} : Return(Local(e))
    /\ UNCHANGED conn

\* Write puts the packet on the connection, or fails with part of it sent.
Write ==
    /\ pc = "write"
    /\ sends' = IF sends < MaxSends THEN sends + 1 ELSE sends
    /\ \/ /\ sock
          /\ wire' = Append(wire, calls)
          /\ pc' = "read"
          /\ UNCHANGED <<sock, answers>>
       \/ /\ Closed
          /\ pc' = "fail"
    /\ UNCHANGED <<calls, writeFlag, retry, waited, user, result>>

\* mutant: the connection is kept
ReadFailsKept ==
    /\ pc = "read"
    /\ pc' = "fail"
    /\ UNCHANGED <<calls, conn, counts, user, result>>

\* Nothing within two seconds, or the connection breaks: DisconnectServer.
ReadFails ==
    /\ pc = "read"
    /\ Closed
    /\ pc' = "fail"
    /\ UNCHANGED <<calls, counts, user, result>>

\* recv takes all that has come, and what follows the first answer is lost.
Taken == answers' = <<>> /\ UNCHANGED <<sock, wire>>

\* An error is returned before the chain number is looked at.
ReadVerdict ==
    /\ pc = "read"
    /\ answers # <<>>
    /\ Head(answers).kind \in Verdicts
    /\ Head(answers).kind = "ok" => Head(answers).for = calls
    /\ Return(Head(answers))
    /\ Taken

\* mutant: the wait starts anew with every wait answer
ReadWaitAnew ==
    /\ pc = "read"
    /\ answers # <<>>
    /\ Head(answers).kind = "wait"
    /\ writeFlag' = 2
    /\ waited' = WaitInterval
    /\ pc' = "loop"
    /\ Taken
    /\ UNCHANGED <<calls, retry, sends, user, result>>

ReadWait ==
    /\ pc = "read"
    /\ answers # <<>>
    /\ Head(answers).kind = "wait"
    /\ writeFlag' = 2
    /\ waited' = waited + WaitInterval
    /\ pc' = "loop"
    /\ Taken
    /\ UNCHANGED <<calls, retry, sends, user, result>>

\* An answer that does not fit: read again, without sending.
ReadSpoilt ==
    /\ pc = "read"
    /\ answers # <<>>
    /\ \/ Head(answers).kind = "spoilt"
       \/ Head(answers).kind = "ok" /\ Head(answers).for # calls
    /\ writeFlag' = 0
    /\ pc' = "loop"
    /\ Taken
    /\ UNCHANGED <<calls, retry, waited, sends, user, result>>

\* mutant: the call gives up when no attempts are left, and only then
GiveUpAtLimit ==
    /\ pc = "fail"
    /\ retry >= RetryCount /\ Return(Local("PACKAGE_COMM_TIMEOUT"))
    /\ UNCHANGED conn

\* OnSendAndRecvFail: no attempts left, no time left, or no connection.
GiveUp ==
    /\ pc = "fail"
    /\ \/ retry >= RetryCount /\ Return(Local("PACKAGE_COMM_TIMEOUT"))
       \/ retry < RetryCount /\ late /\ Return(Local("IDWORK_TIMEOUT"))
       \/ retry < RetryCount /\ ~late /\ Return(Local("CONN_RETRY_EXCEED"))
    /\ UNCHANGED conn

\* One of three attempts to connect succeeds, and the retry is counted.
Reconnect ==
    /\ pc = "fail"
    /\ retry < RetryCount
    /\ ~late
    /\ Opened
    /\ retry' = retry + 1
    /\ pc' = "loop"
    /\ UNCHANGED <<calls, writeFlag, waited, sends, user, result>>

-----------------------------------------------------------------------------
Step ==
    \/ Enter \/ Cancelled \/ GoOn \/ WaitEnds \/ Write
    \/ ReadFails \/ ReadVerdict \/ ReadWait \/ ReadSpoilt
    \/ GiveUp \/ Reconnect

Next ==
    \/ Serve \/ StartTask \/ Cancel \/ QuitWait \/ TimePasses \/ Connect
    \/ Call \/ Step

Spec == Init /\ [][Next]_vars

\* The call runs on: every system call in it has a time-out.  Nobody else is
\* bound to act, the server included.
FairSpec == Spec /\ WF_vars(Step)

-----------------------------------------------------------------------------
\* Properties.

Answer == [for : Nat, kind : {"ok", "error", "wait", "spoilt"}]

TypeOK ==
    /\ pc \in Locations
    /\ calls \in 0..MaxCalls
    /\ sock \in BOOLEAN
    /\ wire \in Seq(Nat)
    /\ answers \in Seq(Answer)
    /\ writeFlag \in 0..2
    /\ retry \in 0..RetryCount
    /\ waited \in Nat
    /\ sends \in Nat
    /\ enabled \in BOOLEAN
    /\ waitFlag \in BOOLEAN
    /\ late \in BOOLEAN
    /\ result \in [for : Nat, kind : Verdicts \cup LocalErrors \cup {"none"}]

\* Between calls nothing is under way on the connection, and in a call at most
\* one answer: whatever a call leaves behind would be read by the next one, and
\* an answer behind another would be lost with it (recv reads past the frame).
OneAnswerUnderWay ==
    /\ pc \in {"idle", "entry", "write", "fail"} => wire = <<>> /\ answers = <<>>
    /\ Len(wire) + Len(answers) <= 1

\* However the waits and the retries of a call mix, the packet goes out at most
\* once, once more for each retry, and once more for each wait that ended
\* within the time.
SendsBounded ==
    \/ sends <= 1 + RetryCount
    \/ (sends - 1 - RetryCount) * WaitInterval < WaitTimeout

Ex == INSTANCE Exchange WITH busy <- pc # "idle"

\* The caller gets the server's word on its own packet, although an error is
\* taken without a look at the chain number and connections come and go.
ExchangeSpec == Ex!Spec

\* A call returns whatever the server and the network do: neither retries nor
\* waits nor spoilt answers keep it for ever.
CallReturns == pc # "idle" ~> pc = "idle"

\* How much of a limit is left.
Left(limit, used) == IF used < limit THEN limit - used ELSE 0

\* The steps to the next retry, wait or spoilt answer at the latest.  Writing is
\* worth two more than it takes, since a packet is under way then.
Worth ==
    CASE pc = "fail" -> 1
      [] pc = "read" -> 2
      [] pc = "loop" /\ writeFlag = 0 -> 3
      [] pc = "write" -> 5
      [] pc = "loop" /\ writeFlag # 0 -> 6
      [] OTHER -> 0

StepLimit == 6 * RetryCount + 3 * (WaitTimeout + 1) + 7

\* An upper bound of the steps the call has left: six for each retry, three for
\* each millisecond of waiting and two for what is under way.
StepsLeft ==
    CASE pc = "idle" -> 0
      [] pc = "entry" -> StepLimit
      [] OTHER -> Worth + 6 * (RetryCount - retry)
                    + 3 * Left(WaitTimeout + 1, waited)
                    + 2 * (Len(wire) + Len(answers))

\* Every step of a call uses up something that is never given back, and nobody
\* else gives any of it back: neither the server's answers, nor the users, nor
\* new connections let a call go round for ever.
CallRunsDown ==
    [][pc # "idle" =>
         /\ StepsLeft' <= StepsLeft
         /\ Step => StepsLeft' < StepsLeft]_vars

\* The guards of the actions of Step.
Ready ==
    \/ pc = "entry" /\ enabled
    \/ pc = "entry" /\ ~enabled
    \/ pc = "loop" /\ (~enabled \/ waitFlag)
    \/ /\ pc = "loop" /\ enabled /\ ~waitFlag
       /\ writeFlag = 2 => waited < WaitTimeout
    \/ /\ pc = "loop" /\ enabled /\ ~waitFlag
       /\ writeFlag = 2 /\ (waited >= WaitTimeout \/ waited < WaitTimeout)
    \/ pc \in {"write", "read"}
    \/ pc = "fail" /\ (retry >= RetryCount \/ retry < RetryCount)

\* An action that can be taken is enabled.  By the meaning of ENABLED this is
\* so in every state; TLC evaluates it, and the proofs have no other way to it.
StepRule == Ready => ENABLED <<Step>>_vars

\* A call is never stuck: whatever failed and whatever has arrived, it can take
\* a step.
CallCanGoOn == pc # "idle" => ENABLED <<Step>>_vars

\* The state is well typed and the call not stuck.
StateOK == TypeOK /\ StepRule /\ CallCanGoOn

-----------------------------------------------------------------------------
\* What the repository says and the code does not do.

\* retryTime is the number of times the packet was sent again: when the answer
\* is read, as many sends have been made.
RetriesAreResends == pc = "read" => sends >= 1 + retry
=============================================================================
