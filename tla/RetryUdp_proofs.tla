--------------------------- MODULE RetryUdp_proofs ---------------------------
(***************************************************************************)
(* Theorems about RetryUdp, for any number of calls and any network.       *)
(***************************************************************************)
EXTENDS RetryUdp, TLAPS

Results == [to : 0..calls, for : 0..calls,
            kind : Verdicts \cup LocalErrors \cup {"none"}]

Counts ==
    /\ pc \in Locations
    /\ calls \in 0..MaxCalls
    /\ opened \in 0..calls
    /\ pc # "idle" => opened < calls

Flags ==
    /\ sock \in BOOLEAN
    /\ writeFlag \in BOOLEAN
    /\ enabled \in BOOLEAN
    /\ expired \in BOOLEAN
    /\ late \in BOOLEAN

\* What is on the network for this socket was sent, or answers what was sent,
\* in calls since ConnectServer.
OnSocket ==
    /\ packets \subseteq (opened + 1)..calls
    /\ \A a \in answers : a \in Answer /\ a.for \in (opened + 1)..calls

ResultInv ==
    /\ result \in Results
    /\ result.kind = "error" /\ opened < result.to => result.for > opened

\* The inductive invariant.
IInv == Counts /\ Flags /\ OnSocket /\ ResultInv

-----------------------------------------------------------------------------
\* Before the first call there is no socket and no datagram.
LEMMA InitInv == Init => IInv
<1> SUFFICES ASSUME Init PROVE IInv
  OBVIOUS
<1>1. Counts /\ OnSocket
  BY RetryUdpAssumption DEF Init, Counts, OnSocket, Locations
<1>2. Flags
  BY DEF Init, Flags
<1>3. ResultInv
  BY DEF Init, ResultInv, Results
<1> QED
  BY <1>1, <1>2, <1>3 DEF IInv

\* Where the call is, and how many there have been.
LEMMA CountsStep ==
    ASSUME Counts, [Next]_vars
    PROVE  Counts'
<1> USE RetryUdpAssumption DEF Counts, Locations
<1>1. CASE Serve \/ StartTask \/ Cancel \/ TimePasses \/ Disconnect
  BY <1>1 DEF Serve, StartTask, Cancel, TimePasses, Disconnect, socket
<1>2. CASE Connect \/ Call
  BY <1>2 DEF Connect, Call, socket
<1>3. CASE Step
  <2>1. UNCHANGED <<calls, opened>>
    BY <1>3 DEF Step, Enter, Cancelled, Write, WriteFails, ReadOnly,
                ReadTimesOut, ReadBreaks, ReadOk, ReadError, ReadOther, GiveUp,
                Retry, Return, Local, socket
  <2>2. pc' \in Locations /\ pc # "idle"
    BY <1>3 DEF Step, Enter, Cancelled, Write, WriteFails, ReadOnly,
                ReadTimesOut, ReadBreaks, ReadOk, ReadError, ReadOther, GiveUp,
                Retry, Return, Local
  <2> QED
    BY <2>1, <2>2
<1>4. CASE UNCHANGED vars
  BY <1>4 DEF vars, socket
<1> QED
  BY <1>1, <1>2, <1>3, <1>4 DEF Next

\* The Boolean variables, apart from the numbers.
LEMMA FlagsStep ==
    ASSUME Flags, [Next]_vars
    PROVE  Flags'
<1> USE DEF Flags, socket, clock
<1>1. CASE Serve \/ StartTask \/ Cancel \/ TimePasses \/ UNCHANGED vars
  BY <1>1 DEF Serve, StartTask, Cancel, TimePasses, vars
<1>2. CASE Connect \/ Disconnect \/ Call
  BY <1>2 DEF Connect, Disconnect, Call
<1>3. CASE Cancelled \/ ReadBreaks \/ ReadOk \/ ReadError \/ GiveUp
  BY <1>3 DEF Cancelled, ReadBreaks, ReadOk, ReadError, GiveUp, Return, Local
<1>4. CASE Enter \/ Retry \/ ReadOnly \/ Write \/ WriteFails \/ ReadTimesOut
           \/ ReadOther
  BY <1>4 DEF Enter, Retry, ReadOnly, Write, WriteFails, ReadTimesOut,
              ReadOther
<1> QED
  BY <1>1, <1>2, <1>3, <1>4 DEF Next, Step

\* A new socket has an empty network, and only the present call sends.
LEMMA OnSocketStep ==
    ASSUME Counts, OnSocket, [Next]_vars
    PROVE  OnSocket'
<1> USE RetryUdpAssumption DEF Counts, OnSocket, socket, network
<1>1. CASE Serve
  <2>1. PICK p \in packets, k \in {"ok", "error", "spoilt"} :
          answers' = answers \cup {[for |-> p, kind |-> k]}
    BY <1>1 DEF Serve
  <2>2. p \in (opened + 1)..calls /\ p \in Nat
    BY <2>1
  <2>3. [for |-> p, kind |-> k] \in Answer
    BY <2>1, <2>2 DEF Answer
  <2> QED
    BY <1>1, <2>1, <2>2, <2>3 DEF Serve
<1>2. CASE Connect \/ Disconnect
  BY <1>2 DEF Connect, Disconnect
<1>3. CASE Call
  <2>1. \A p \in (opened + 1)..calls : p \in (opened + 1)..(calls + 1)
    OBVIOUS
  <2> QED
    BY <1>3, <2>1 DEF Call
<1>4. CASE Write
  BY <1>4 DEF Write
<1>5. CASE ~Serve /\ ~Connect /\ ~Disconnect /\ ~Call /\ ~Write
  <2>1. UNCHANGED <<calls, opened, packets, answers>>
    BY <1>5 DEF Next, Step, StartTask, Cancel, TimePasses, Enter, Cancelled,
                WriteFails, ReadOnly, ReadTimesOut, ReadBreaks, ReadOk,
                ReadError, ReadOther, GiveUp, Retry, Return, Local, vars
  <2> QED
    BY <2>1
<1> QED
  BY <1>1, <1>2, <1>3, <1>4, <1>5

\* A call ends with the word on a packet of this socket, and a good one with
\* that on its own.
LEMMA Returns ==
    ASSUME Counts, OnSocket,
           Cancelled \/ ReadBreaks \/ ReadOk \/ ReadError \/ GiveUp
    PROVE  \E packet \in (opened + 1)..calls, kind \in Verdicts \cup LocalErrors :
             Return(packet, kind) /\ (kind = "ok" => packet = calls)
<1> USE RetryUdpAssumption DEF Counts, Verdicts, LocalErrors
<1>1. CASE Cancelled \/ ReadBreaks \/ GiveUp
  <2>1. calls \in (opened + 1)..calls
    BY <1>1 DEF Cancelled, ReadBreaks, GiveUp
  <2> QED
    BY <1>1, <2>1 DEF Cancelled, ReadBreaks, GiveUp, Local
<1>2. CASE ReadOk \/ ReadError
  BY <1>2 DEF ReadOk, ReadError, OnSocket
<1> QED
  BY <1>1, <1>2

\* A call returns for itself, or the error of a packet of this socket.
LEMMA ResultStep ==
    ASSUME Counts, OnSocket, ResultInv, [Next]_vars
    PROVE  ResultInv'
<1> USE RetryUdpAssumption DEF Counts, ResultInv
<1>1. CASE Cancelled \/ ReadBreaks \/ ReadOk \/ ReadError \/ GiveUp
  <2>1. PICK packet \in (opened + 1)..calls,
             kind \in Verdicts \cup LocalErrors : Return(packet, kind)
    BY <1>1, Returns
  <2>2. result' = [to |-> calls, for |-> packet, kind |-> kind]
    BY <2>1 DEF Return
  <2>3. packet \in 0..calls /\ packet > opened
    BY <2>1
  <2>4. result' \in Results
    BY <2>2, <2>3 DEF Results
  <2>5. UNCHANGED <<calls, opened>>
    BY <2>1 DEF Return, socket
  <2>6. Results' = Results
    BY <2>5 DEF Results
  <2> QED
    BY <2>2, <2>3, <2>4, <2>5, <2>6
<1>2. CASE Connect \/ Call
  <2>1. result' = result /\ result \in Results'
    BY <1>2 DEF Connect, Call, Results
  <2>2. result.to \in 0..calls
    BY DEF Results
  <2>3. opened' \in Nat /\ (opened' = opened \/ opened' >= result.to)
    BY <1>2, <2>2 DEF Connect, Call, socket
  <2> QED
    BY <2>1, <2>2, <2>3
<1>3. CASE \/ Serve \/ StartTask \/ Cancel \/ TimePasses \/ Disconnect
           \/ Enter \/ Write \/ WriteFails \/ ReadOnly \/ ReadTimesOut
           \/ ReadOther \/ Retry \/ UNCHANGED vars
  <2>1. UNCHANGED <<calls, opened, result>>
    BY <1>3 DEF Serve, StartTask, Cancel, TimePasses, Disconnect, Enter, Write,
                WriteFails, ReadOnly, ReadTimesOut, ReadOther, Retry, vars,
                socket
  <2>2. Results' = Results
    BY <2>1 DEF Results
  <2> QED
    BY <2>1, <2>2
<1> QED
  BY <1>1, <1>2, <1>3 DEF Next, Step

-----------------------------------------------------------------------------
\* The invariant above holds in every state of every behaviour.
THEOREM InvHolds == Spec => []IInv
<1>1. IInv /\ [Next]_vars => IInv'
  BY CountsStep, FlagsStep, OnSocketStep, ResultStep DEF IInv
<1> QED
  BY <1>1, InitInv, PTL DEF Spec

\* Every variable has its type, for any number of calls.
THEOREM TypeCorrect == Spec => []TypeOK
<1>1. IInv => TypeOK
  <2> SUFFICES ASSUME IInv PROVE TypeOK
    OBVIOUS
  <2>1. packets \subseteq 1..calls /\ answers \subseteq Answer
    BY DEF IInv, Counts, OnSocket
  <2>2. result \in Results
    BY DEF IInv, ResultInv
  <2> QED
    BY <2>1, <2>2 DEF IInv, Counts, Flags, TypeOK, Results
<1> QED
  BY <1>1, InvHolds, PTL

\* An error that ends a call belongs to a packet sent since ConnectServer.
THEOREM ErrorsHold == Spec => []ErrorsAreOfThisConnection
<1>1. IInv => ErrorsAreOfThisConnection
  BY DEF IInv, ResultInv, ErrorsAreOfThisConnection
<1> QED
  BY <1>1, InvHolds, PTL

-----------------------------------------------------------------------------
\* Every step is a call, a return for the call's own packet, or nothing to the
\* caller.
LEMMA StepRefines ==
    ASSUME IInv, [Next]_vars
    PROVE  [Ex!Next]_(Ex!vars)
<1> USE DEF Ex!vars, Ex!Next
<1>1. CASE Call
  BY <1>1 DEF Call, Ex!Call
<1>2. CASE Cancelled \/ ReadBreaks \/ ReadOk \/ ReadError \/ GiveUp
  <2>1. PICK packet \in (opened + 1)..calls,
             kind \in Verdicts \cup LocalErrors :
               Return(packet, kind) /\ (kind = "ok" => packet = calls)
    BY <1>2, Returns DEF IInv
  <2>2. result' = [to |-> calls, for |-> packet, kind |-> kind]
    BY <2>1 DEF Return
  <2>3. pc # "idle" /\ pc' = "idle" /\ calls' = calls
    BY <1>2, <2>1 DEF Cancelled, ReadBreaks, ReadOk, ReadError, GiveUp, Return
  <2>4. result'.kind = kind
        /\ result'.to = calls
        /\ (kind = "ok" => result'.for = calls)
    BY <2>1, <2>2
  <2> QED
    BY <2>3, <2>4 DEF Ex!Return
<1>3. CASE Connect \/ Disconnect
  BY <1>3 DEF Connect, Disconnect
<1>4. CASE Enter \/ Write \/ WriteFails \/ ReadOnly \/ ReadTimesOut
           \/ ReadOther \/ Retry
  BY <1>4 DEF Enter, Write, WriteFails, ReadOnly, ReadTimesOut, ReadOther,
              Retry
<1>5. CASE Serve \/ StartTask \/ Cancel \/ TimePasses \/ UNCHANGED vars
  BY <1>5 DEF Serve, StartTask, Cancel, TimePasses, vars
<1> QED
  BY <1>1, <1>2, <1>3, <1>4, <1>5 DEF Next, Step

\* The retrying datagram socket implements the exchange its caller relies on,
\* when an error counts as the caller's own.
THEOREM Refinement == Spec => ExchangeSpec
<1>1. Init => Ex!Init
  BY DEF Init, Ex!Init, Ex!NoResult
<1>2. IInv /\ [Next]_vars => [Ex!Next]_(Ex!vars)
  BY StepRefines
<1> QED
  BY <1>1, <1>2, InvHolds, PTL DEF Spec, ExchangeSpec, Ex!Spec

-----------------------------------------------------------------------------
\* The call returns.  It goes from "entry" to "loop", "read" and a failure, and
\* from there back to "loop" only while there is time; the clock runs.

\* Where a step leaves the call.
LEMMA StepMoves ==
    ASSUME Step
    PROVE  /\ pc = "entry" => pc' \in {"idle", "loop"}
           /\ pc = "loop" => pc' \in {"idle", "read", "failSent"}
           /\ pc = "read" => pc' \in {"idle", "failSent", "failRead"}
           /\ pc \in {"failSent", "failRead"} =>
                pc' \in IF expired \/ late THEN {"idle"} ELSE {"idle", "loop"}
           /\ late' = late
           /\ pc # "entry" => expired' = expired
<1> USE DEF Local, Return, clock
<1>1. CASE Enter
  BY <1>1 DEF Enter
<1>2. CASE Cancelled \/ ReadBreaks \/ ReadOk \/ ReadError \/ GiveUp
  <2>1. pc' = "idle" /\ UNCHANGED clock
    BY <1>2 DEF Cancelled, ReadBreaks, ReadOk, ReadError, GiveUp
  <2> QED
    BY <2>1
<1>3. CASE Write \/ WriteFails \/ ReadOnly
  BY <1>3 DEF Write, WriteFails, ReadOnly
<1>4. CASE ReadTimesOut \/ ReadOther
  BY <1>4 DEF ReadTimesOut, ReadOther
<1>5. CASE Retry
  BY <1>5 DEF Retry
<1> QED
  BY <1>1, <1>2, <1>3, <1>4, <1>5 DEF Step

\* What the others leave alone while a call is under way.
LEMMA OthersWait ==
    ASSUME IInv, [Next]_vars, ~Step, pc # "idle"
    PROVE  /\ pc' = pc
           /\ late => late'
           /\ expired => expired'
<1>1. CASE TimePasses
  BY <1>1 DEF TimePasses
<1>2. CASE Serve \/ StartTask \/ Cancel \/ Connect \/ Disconnect \/ Call
           \/ UNCHANGED vars
  BY <1>2 DEF Serve, StartTask, Cancel, Connect, Disconnect, Call, vars, clock
<1> QED
  BY <1>1, <1>2 DEF Next

\* In every location the guard of some action holds, and the clock's until both
\* times are up: a call is never stuck.
THEOREM StateOKHolds == Spec /\ []StepRule => []StateOK
<1>1. IInv /\ TypeOK /\ StepRule => StateOK
  <2> SUFFICES ASSUME IInv PROVE pc # "idle" => Ready
    BY DEF StateOK, CallCanGoOn, StepRule
  <2> QED
    BY DEF IInv, Counts, Flags, Locations, Ready
<1> QED
  BY <1>1, InvHolds, TypeCorrect, PTL

\* A call over datagrams returns, whatever arrives and however often, when the
\* call and the clock run on.
THEOREM CallsReturn == FairSpec /\ []StepRule => CallReturns
<1> DEFINE Idle == pc = "idle"
           Entry == pc = "entry"
           Loop == pc = "loop"
           Read == pc = "read"
           Failed == pc \in {"failSent", "failRead"}
<1>1. IInv => /\ Idle \/ Entry \/ Loop \/ Read \/ Failed
              /\ Entry => ~Loop /\ ~Read /\ ~Failed
              /\ Loop => ~Read /\ ~Failed
              /\ Read => ~Failed
  BY DEF IInv, Counts, Locations
<1>2. IInv /\ [Next]_vars =>
         /\ Entry => Idle' \/ Entry' \/ Loop'
         /\ Loop => Idle' \/ Loop' \/ Read' \/ Failed'
         /\ Read => Idle' \/ Read' \/ Failed'
         /\ Failed => Idle' \/ Failed' \/ Loop'
         /\ Failed /\ (late \/ expired) => ~Loop'
         /\ late /\ ~Idle => late'
         /\ expired /\ ~Idle /\ (Entry => Entry') => expired'
  BY <1>1, StepMoves, OthersWait
<1>3. IInv /\ <<Step>>_vars => /\ Entry => ~Entry'
                               /\ Loop => ~Loop'
                               /\ Read => ~Read'
                               /\ Failed => ~Failed'
  BY StepMoves
<1>4. IInv /\ <<TimePasses>>_vars =>
         (~late /\ late') \/ (~expired /\ expired')
  BY DEF TimePasses
<1>5. StateOK => /\ ~Idle => ENABLED <<Step>>_vars
                 /\ ~(expired /\ late) => ENABLED <<TimePasses>>_vars
  BY DEF StateOK, CallCanGoOn
<1>6. /\ pc # "idle" <=> ~Idle
      /\ pc = "idle" <=> Idle
  OBVIOUS
<1> HIDE DEF Idle, Entry, Loop, Read, Failed
<1> QED
  BY <1>1, <1>2, <1>3, <1>4, <1>5, <1>6, InvHolds, StateOKHolds, PTL
     DEF FairSpec, Spec, CallReturns
=============================================================================
