--------------------------- MODULE RetryTcp_proofs ---------------------------
(***************************************************************************)
(* Theorems about RetryTcp, for any number of calls, any number of retries *)
(* and any times of waiting.                                               *)
(***************************************************************************)
EXTENDS RetryTcp, TLAPS

Results == [for : Nat, kind : Verdicts \cup LocalErrors \cup {"none"}]

\* The types of the variables that are not about the connection.
Types ==
    /\ pc \in Locations
    /\ calls \in 0..MaxCalls
    /\ writeFlag \in 0..2
    /\ retry \in 0..RetryCount
    /\ waited \in Nat
    /\ sends \in Nat
    /\ result \in Results

Flags ==
    /\ sock \in BOOLEAN
    /\ enabled \in BOOLEAN
    /\ waitFlag \in BOOLEAN
    /\ late \in BOOLEAN

\* On the connection there is nothing, or, while an answer is read, the packet
\* of this call or one answer to it.
UnderWay ==
    \/ wire = <<>> /\ answers = <<>>
    \/ pc = "read" /\ wire = <<calls>> /\ answers = <<>>
    \/ /\ pc = "read"
       /\ wire = <<>>
       /\ \E a \in Answer : a.for = calls /\ answers = <<a>>

\* The sends a call may have made: one for each retry and each wait, and one
\* more unless the packet is about to be sent (again).
Made(n) ==
    \/ pc \in {"idle", "entry"}
    \/ sends <= retry + n
    \/ /\ pc \in {"read", "fail"} \/ (pc = "loop" /\ writeFlag = 0)
       /\ sends = 1 + retry + n

\* The n waits so far, and what they say of a packet that is about to be sent.
Counted ==
    \E n \in Nat :
        /\ pc \in {"idle", "entry"} \/ waited = n * WaitInterval
        /\ Made(n)
        /\ pc \in {"idle", "entry"} \/ (writeFlag = 1 => n = 0)
        /\ pc = "write" /\ writeFlag = 2 => waited < WaitTimeout
        /\ pc = "write" => writeFlag # 0

\* The inductive invariant.
IInv == Types /\ Flags /\ UnderWay /\ Counted /\ SendsBounded

-----------------------------------------------------------------------------
\* Short sequences.
LEMMA ShortSequences ==
    ASSUME NEW S, NEW x \in S
    PROVE  /\ <<x>> \in Seq(S)
           /\ <<>> \in Seq(S)
           /\ Head(<<x>>) = x
           /\ Tail(<<x>>) = <<>>
           /\ Append(<<>>, x) = <<x>>
           /\ <<x>> # <<>>
           /\ Len(<<x>>) = 1
           /\ Len(<<>>) = 0
OBVIOUS

\* What UnderWay says of the two properties about the connection.
LEMMA ConnectionTyped ==
    ASSUME Types, Flags, UnderWay
    PROVE  TypeOK /\ OneAnswerUnderWay
<1>1. calls \in Nat
  BY RetryTcpAssumption DEF Types
<1>2. wire \in Seq(Nat) /\ Len(wire) <= 1
  <2>1. CASE wire = <<>>
    BY <2>1, ShortSequences
  <2>2. CASE wire = <<calls>>
    BY <1>1, <2>2, ShortSequences
  <2> QED
    BY <2>1, <2>2 DEF UnderWay
<1>3. answers \in Seq(Answer) /\ Len(answers) <= 1
  <2>1. CASE answers = <<>>
    BY <2>1, ShortSequences
  <2>2. CASE answers # <<>>
    <3>1. PICK a \in Answer : answers = <<a>>
      BY <2>2 DEF UnderWay
    <3> QED
      BY <3>1, ShortSequences
  <2> QED
    BY <2>1, <2>2
<1>4. wire = <<>> \/ answers = <<>>
  BY DEF UnderWay
<1>5. Len(wire) + Len(answers) <= 1
  BY <1>2, <1>3, <1>4
<1>6. OneAnswerUnderWay
  BY <1>5 DEF UnderWay, OneAnswerUnderWay
<1> QED
  BY <1>2, <1>3, <1>6 DEF Types, Flags, TypeOK, Results

\* Before the first call nothing is under way and nothing counted.
LEMMA InitInv == Init => IInv
<1> SUFFICES ASSUME Init PROVE IInv
  OBVIOUS
<1>1. NoResult \in Results
  BY DEF NoResult, Results
<1>2. Types
  BY <1>1, RetryTcpAssumption DEF Init, Types, Locations
<1>3. Flags /\ UnderWay
  BY DEF Init, Flags, UnderWay
<1>4. Counted
  BY DEF Init, Counted, Made
<1>5. SendsBounded
  BY RetryTcpAssumption DEF Init, SendsBounded
<1> QED
  BY <1>2, <1>3, <1>4, <1>5 DEF IInv

\* Every action keeps the types; what is returned is a local error or an answer
\* that was on the connection.
LEMMA TypesStep ==
    ASSUME Types, UnderWay, [Next]_vars
    PROVE  Types'
<1> USE RetryTcpAssumption DEF Types, Locations
<1>1. CASE Serve \/ StartTask \/ Cancel \/ QuitWait \/ TimePasses
  BY <1>1 DEF Serve, StartTask, Cancel, QuitWait, TimePasses, conn, counts,
              user
<1>2. CASE Connect \/ Call \/ Enter \/ GoOn
  BY <1>2 DEF Connect, Call, Enter, GoOn, Opened, Closed, conn, counts, user
<1>3. CASE Cancelled \/ WaitEnds \/ GiveUp
  <2>1. \A e \in LocalErrors : Local(e) \in Results
    BY DEF Local, Results
  <2>2. PICK e \in LocalErrors : Return(Local(e))
    BY <1>3 DEF Cancelled, WaitEnds, GiveUp, LocalErrors
  <2>3. UNCHANGED sock \/ UNCHANGED conn
    BY <1>3 DEF Cancelled, WaitEnds, GiveUp
  <2> QED
    BY <2>1, <2>2, <2>3 DEF Return, conn, counts, user
<1>4. CASE Write \/ ReadFails \/ Reconnect
  BY <1>4 DEF Write, ReadFails, Reconnect, Opened, Closed, counts, user
<1>5. CASE ReadWait \/ ReadSpoilt
  BY <1>5 DEF ReadWait, ReadSpoilt, Taken, user
<1>6. CASE ReadVerdict
  <2>1. Head(answers) \in Answer /\ Head(answers).kind \in Verdicts
    BY <1>6, ShortSequences DEF ReadVerdict, UnderWay
  <2>2. Head(answers) \in Results
    BY <2>1 DEF Answer, Results
  <2> QED
    BY <1>6, <2>2 DEF ReadVerdict, Return, Taken, counts, user
<1>7. CASE UNCHANGED vars
  BY <1>7 DEF vars, conn, counts, user
<1> QED
  BY <1>1, <1>2, <1>3, <1>4, <1>5, <1>6, <1>7 DEF Next, Step

\* The Boolean variables, apart from the numbers.
LEMMA FlagsStep ==
    ASSUME Flags, [Next]_vars
    PROVE  Flags'
<1> USE DEF Flags
<1>1. CASE StartTask \/ Cancel \/ QuitWait \/ TimePasses \/ UNCHANGED vars
  BY <1>1 DEF StartTask, Cancel, QuitWait, TimePasses, vars, conn, counts, user
<1>2. CASE Serve \/ Connect \/ Call \/ Step
  <2>1. UNCHANGED user
    BY <1>2 DEF Serve, Connect, Call, Step, Enter, Cancelled, GoOn, WaitEnds,
                Write, ReadFails, ReadVerdict, ReadWait, ReadSpoilt, GiveUp,
                Reconnect, Return
  <2>2. UNCHANGED sock \/ sock' = TRUE \/ sock' = FALSE
    BY <1>2 DEF Serve, Connect, Call, Step, Enter, Cancelled, GoOn, WaitEnds,
                Write, ReadFails, ReadVerdict, ReadWait, ReadSpoilt, GiveUp,
                Reconnect, Opened, Closed, Taken, conn
  <2> QED
    BY <2>1, <2>2 DEF user
<1> QED
  BY <1>1, <1>2 DEF Next

\* The connection carries one packet or answer, and of this call.
LEMMA UnderWayStep ==
    ASSUME Types, UnderWay, [Next]_vars
    PROVE  UnderWay'
<1> USE DEF UnderWay
<1>1. CASE Serve
  <2>1. pc = "read" /\ wire = <<calls>> /\ answers = <<>>
    BY <1>1 DEF Serve
  <2>2. PICK k \in {"ok", "error", "wait", "spoilt"} :
          answers' = Append(answers, [for |-> Head(wire), kind |-> k])
    BY <1>1 DEF Serve
  <2> DEFINE a == [for |-> calls, kind |-> k]
  <2>3. answers' = <<a>> /\ wire' = <<>>
    BY <1>1, <2>1, <2>2, ShortSequences DEF Serve
  <2>4. a \in Answer /\ a.for = calls
    BY RetryTcpAssumption DEF Answer, Types
  <2> QED
    BY <1>1, <2>1, <2>3, <2>4 DEF Serve
<1>2. CASE StartTask \/ Cancel \/ QuitWait \/ TimePasses
  BY <1>2 DEF StartTask, Cancel, QuitWait, TimePasses, conn
<1>3. CASE Connect \/ ReadFails \/ Reconnect
  BY <1>3 DEF Connect, ReadFails, Reconnect, Opened, Closed
<1>4. CASE Call \/ Enter \/ GoOn
  BY <1>4 DEF Call, Enter, GoOn, conn
<1>5. CASE Cancelled \/ WaitEnds \/ GiveUp
  BY <1>5 DEF Cancelled, WaitEnds, GiveUp, Return, conn
<1>6. CASE Write
  BY <1>6, ShortSequences DEF Write, Closed
<1>7. CASE ReadVerdict \/ ReadWait \/ ReadSpoilt
  <2>1. wire = <<>>
    BY <1>7 DEF ReadVerdict, ReadWait, ReadSpoilt
  <2> QED
    BY <1>7, <2>1 DEF ReadVerdict, ReadWait, ReadSpoilt, Taken
<1>8. CASE UNCHANGED vars
  BY <1>8 DEF vars, conn
<1> QED
  BY <1>1, <1>2, <1>3, <1>4, <1>5, <1>6, <1>7, <1>8 DEF Next, Step
-----------------------------------------------------------------------------
\* Waits and retries.

\* One more wait, and fewer waits.
LEMMA Multiples ==
    ASSUME NEW n \in Nat, NEW i \in Nat
    PROVE  /\ (n + 1) * i = n * i + i
           /\ \A m \in Int : m <= n => m * i <= n * i
OBVIOUS

\* As many sends as there were waits within the time are within the time.
LEMMA WithinTime ==
    ASSUME NEW s \in Nat, NEW n \in Nat,
           s <= 1 + RetryCount + n, n * WaitInterval < WaitTimeout
    PROVE  (s - 1 - RetryCount) * WaitInterval < WaitTimeout
<1> USE RetryTcpAssumption
<1> DEFINE d == s - 1 - RetryCount
<1>1. d \in Int /\ d <= n
  OBVIOUS
<1> HIDE DEF d
<1>2. d * WaitInterval <= n * WaitInterval
  BY <1>1, Multiples
<1>3. d * WaitInterval \in Int /\ n * WaitInterval \in Int
  BY <1>1
<1>4. d * WaitInterval < WaitTimeout
  BY <1>2, <1>3
<1> QED
  BY <1>4 DEF d

\* A wait answer adds one wait, everything else none.
LEMMA CountedStep ==
    ASSUME Types, Counted, [Next]_vars
    PROVE  Counted'
<1> USE RetryTcpAssumption DEF Types, Locations
<1> DEFINE C(n) ==
      /\ pc \in {"idle", "entry"} \/ waited = n * WaitInterval
      /\ Made(n)
      /\ pc \in {"idle", "entry"} \/ (writeFlag = 1 => n = 0)
      /\ pc = "write" /\ writeFlag = 2 => waited < WaitTimeout
      /\ pc = "write" => writeFlag # 0
<1>0. PICK n \in Nat : C(n)
  BY DEF Counted
<1> SUFFICES \E k \in Nat : C(k)'
  BY DEF Counted
<1>1. CASE Serve \/ StartTask \/ Cancel \/ QuitWait \/ TimePasses \/ Connect
  <2>1. UNCHANGED <<pc, counts>>
    BY <1>1 DEF Serve, StartTask, Cancel, QuitWait, TimePasses, Connect
  <2>2. C(n)'
    BY <1>0, <2>1 DEF counts, Made
  <2> QED
    BY <2>2
<1>2. CASE Call \/ Cancelled \/ WaitEnds \/ GiveUp \/ ReadVerdict
  <2>1. pc' \in {"idle", "entry"}
    BY <1>2 DEF Call, Cancelled, WaitEnds, GiveUp, ReadVerdict, Return
  <2>2. C(0)'
    BY <2>1 DEF Made
  <2> QED
    BY <2>2
<1>3. CASE Enter
  <2>1. C(0)'
    BY <1>3 DEF Enter, Made
  <2> QED
    BY <2>1
<1>4. CASE GoOn
  <2>1. C(n)'
    BY <1>0, <1>4 DEF GoOn, Made, counts
  <2> QED
    BY <2>1
<1>5. CASE Write
  <2>1. C(n)'
    BY <1>0, <1>5 DEF Write, Made
  <2> QED
    BY <2>1
<1>6. CASE ReadFails \/ Reconnect
  <2>1. C(n)'
    BY <1>0, <1>6 DEF ReadFails, Reconnect, Made, counts
  <2> QED
    BY <2>1
<1>7. CASE ReadWait
  <2>1. waited' = (n + 1) * WaitInterval
    BY <1>0, <1>7, Multiples DEF ReadWait
  <2>2. Made(n + 1)'
    BY <1>0, <1>7 DEF ReadWait, Made
  <2>3. C(n + 1)'
    BY <1>7, <2>1, <2>2 DEF ReadWait
  <2> QED
    BY <2>3
<1>8. CASE ReadSpoilt
  <2>1. C(n)'
    BY <1>0, <1>8 DEF ReadSpoilt, Made
  <2> QED
    BY <2>1
<1>9. CASE UNCHANGED vars
  <2>1. C(n)'
    BY <1>0, <1>9 DEF vars, counts, Made
  <2> QED
    BY <2>1
<1> QED
  BY <1>1, <1>2, <1>3, <1>4, <1>5, <1>6, <1>7, <1>8, <1>9 DEF Next, Step

\* Only Write adds to the sends: the first and those after a retry are within
\* the retries, one after a wait comes while there is time.
LEMMA BoundedStep ==
    ASSUME Types, Counted, SendsBounded, [Next]_vars
    PROVE  SendsBounded'
<1> USE RetryTcpAssumption DEF Types
<1>1. CASE Write
  <2>1. PICK n \in Nat :
          /\ waited = n * WaitInterval
          /\ sends <= retry + n
          /\ writeFlag = 1 => n = 0
          /\ writeFlag = 2 => waited < WaitTimeout
          /\ writeFlag # 0
    BY <1>1 DEF Counted, Made, Write
  <2>2. sends' \in Nat /\ sends' <= 1 + RetryCount + n
    BY <1>1, <2>1 DEF Write
  <2>3. CASE writeFlag = 1
    <3>1. sends' <= 1 + RetryCount
      BY <2>1, <2>2, <2>3
    <3> QED
      BY <3>1 DEF SendsBounded
  <2>4. CASE writeFlag = 2
    <3>1. n * WaitInterval < WaitTimeout
      BY <2>1, <2>4
    <3>2. (sends' - 1 - RetryCount) * WaitInterval < WaitTimeout
      BY <2>2, <3>1, WithinTime
    <3> QED
      BY <3>2 DEF SendsBounded
  <2> QED
    BY <2>1, <2>3, <2>4
<1>2. CASE Enter
  BY <1>2 DEF Enter, SendsBounded
<1>3. CASE ~Write /\ ~Enter
  <2>1. sends' = sends
    BY <1>3 DEF Next, Step, Serve, StartTask, Cancel, QuitWait, TimePasses,
                Connect, Call, Cancelled, GoOn, WaitEnds, ReadFails,
                ReadVerdict, ReadWait, ReadSpoilt, GiveUp, Reconnect, Return,
                counts, vars
  <2> QED
    BY <2>1 DEF SendsBounded
<1> QED
  BY <1>1, <1>2, <1>3

-----------------------------------------------------------------------------
\* The invariant above holds in every state of every behaviour.
THEOREM InvHolds == Spec => []IInv
<1>1. IInv /\ [Next]_vars => IInv'
  BY TypesStep, FlagsStep, UnderWayStep, CountedStep, BoundedStep DEF IInv
<1> QED
  BY <1>1, InitInv, PTL DEF Spec

\* Every variable has its type, for any number of retries and any times.
THEOREM TypeCorrect == Spec => []TypeOK
<1>1. IInv => TypeOK
  BY ConnectionTyped DEF IInv
<1> QED
  BY <1>1, InvHolds, PTL

\* No call leaves a packet or an answer on the connection for the next one,
\* and within a call there is never a second answer for recv to swallow.
THEOREM ConnectionClean == Spec => []OneAnswerUnderWay
<1>1. IInv => OneAnswerUnderWay
  BY ConnectionTyped DEF IInv
<1> QED
  BY <1>1, InvHolds, PTL

\* Waits and retries together never send a packet more often than the number
\* of retries and the time of waiting allow.
THEOREM SendsBoundedHolds == Spec => []SendsBounded
BY InvHolds, PTL DEF IInv

-----------------------------------------------------------------------------
\* CallRunsDown.

\* While the call goes on it is within the time to wait.
InTime ==
    pc \in {"write", "read", "fail"} \/ (pc = "loop" /\ writeFlag # 2) =>
        waited = 0 \/ waited < WaitTimeout

\* Only a wait answer adds to the time waited, and GoOn looks at it next.
LEMMA InTimeStep ==
    ASSUME Types, InTime, [Next]_vars
    PROVE  InTime'
<1> USE RetryTcpAssumption DEF Types, InTime
<1>1. CASE \/ Serve \/ StartTask \/ Cancel \/ QuitWait \/ TimePasses
           \/ Connect \/ UNCHANGED vars
  <2>1. UNCHANGED <<pc, counts>>
    BY <1>1 DEF Serve, StartTask, Cancel, QuitWait, TimePasses, Connect, vars
  <2> QED
    BY <2>1 DEF counts
<1>2. CASE Call \/ Cancelled \/ WaitEnds \/ GiveUp \/ ReadVerdict
  <2>1. pc' \in {"idle", "entry"}
    BY <1>2 DEF Call, Cancelled, WaitEnds, GiveUp, ReadVerdict, Return
  <2> QED
    BY <2>1
<1>3. CASE Enter \/ GoOn \/ Write
  BY <1>3 DEF Enter, GoOn, Write, counts
<1>4. CASE ReadFails \/ ReadWait \/ ReadSpoilt \/ Reconnect
  BY <1>4 DEF ReadFails, ReadWait, ReadSpoilt, Reconnect, counts
<1> QED
  BY <1>1, <1>2, <1>3, <1>4 DEF Next, Step

\* Whoever goes on is within the time to wait, in every behaviour.
LEMMA InTimeHolds == Spec => []InTime
<1>1. Init => InTime
  BY DEF Init, InTime
<1>2. IInv /\ InTime /\ [Next]_vars => InTime'
  BY InTimeStep DEF IInv
<1> QED
  BY <1>1, <1>2, InvHolds, PTL DEF Spec

\* The number of packets and answers under way.
Load == Len(wire) + Len(answers)

\* There is nothing or one of them, and it is not there before it is sent.
LoadFacts ==
    /\ Load \in {0, 1}
    /\ pc # "read" => Load = 0
    /\ answers # <<>> => Load = 1
    /\ wire = <<>> /\ answers = <<>> => Load = 0

LEMMA Loads == Types /\ UnderWay => LoadFacts
<1> SUFFICES ASSUME Types, UnderWay PROVE LoadFacts
  OBVIOUS
<1>1. CASE wire = <<>> /\ answers = <<>>
  <2>1. Load = 0
    BY <1>1, ShortSequences DEF Load
  <2> QED
    BY <1>1, <2>1 DEF LoadFacts
<1>2. CASE pc = "read" /\ wire = <<calls>> /\ answers = <<>>
  <2>1. Len(wire) = 1 /\ Len(answers) = 0 /\ wire # <<>>
    BY <1>2, ShortSequences
  <2> QED
    BY <1>2, <2>1 DEF LoadFacts, Load
<1>3. ASSUME pc = "read", wire = <<>>, NEW a \in Answer, answers = <<a>>
      PROVE  LoadFacts
  <2>1. Len(wire) = 0 /\ Len(answers) = 1 /\ answers # <<>>
    BY <1>3, ShortSequences
  <2> QED
    BY <1>3, <2>1 DEF LoadFacts, Load
<1> QED
  BY <1>1, <1>2, <1>3 DEF UnderWay

\* The time to wait that is left, and the measure in the terms of its parts.
TimeLeft == Left(WaitTimeout + 1, waited)

Parts ==
    /\ LoadFacts
    /\ TimeLeft \in 0..(WaitTimeout + 1)
    /\ waited = 0 \/ waited < WaitTimeout => TimeLeft > 0
    /\ retry \in 0..RetryCount
    /\ Worth \in 0..6
    /\ pc \notin {"idle", "entry"} =>
         /\ Worth > 0 /\ (Worth <= 2 \/ Load = 0)
         /\ StepsLeft = Worth + 6 * (RetryCount - retry) + 3 * TimeLeft
                          + 2 * Load

LEMMA PartsHold == Types /\ UnderWay => Parts
<1> SUFFICES ASSUME Types, UnderWay PROVE Parts
  OBVIOUS
<1> USE RetryTcpAssumption DEF Types
<1>1. LoadFacts
  BY Loads
<1>2. /\ TimeLeft \in 0..(WaitTimeout + 1)
      /\ waited = 0 \/ waited < WaitTimeout => TimeLeft > 0
  BY DEF TimeLeft, Left
<1>3. /\ Worth \in 0..6
      /\ pc \notin {"idle", "entry"} => Worth > 0 /\ (Worth <= 2 \/ Load = 0)
  BY <1>1 DEF Worth, Locations, LoadFacts
<1>4. pc \notin {"idle", "entry"} =>
        StepsLeft = Worth + 6 * (RetryCount - retry) + 3 * TimeLeft + 2 * Load
  BY DEF StepsLeft, TimeLeft, Load
<1> QED
  BY <1>1, <1>2, <1>3, <1>4 DEF Parts

LEMMA PartsHoldNext == Types' /\ UnderWay' => Parts'
BY PartsHold, PTL

\* A call that has begun has at most StepLimit steps to make.
InRange == StepsLeft \in 0..StepLimit

LEMMA StepsInRange == Parts /\ pc \in Locations => InRange
<1> SUFFICES ASSUME Parts, pc \in Locations PROVE InRange
  OBVIOUS
<1> USE RetryTcpAssumption DEF Parts, LoadFacts, StepLimit, InRange
<1>1. CASE pc \in {"idle", "entry"}
  <2>1. StepsLeft = 0 \/ StepsLeft = StepLimit
    BY <1>1 DEF StepsLeft
  <2>2. StepLimit \in Nat
    OBVIOUS
  <2> HIDE DEF Parts, StepLimit
  <2> QED
    BY <2>1, <2>2
<1>2. CASE pc \notin {"idle", "entry"}
  <2>1. Worth + 2 * Load \in 0..6
    BY <1>2
  <2>2. 6 * (RetryCount - retry) \in 0..(6 * RetryCount)
    OBVIOUS
  <2>3. 3 * TimeLeft \in 0..(3 * (WaitTimeout + 1))
    OBVIOUS
  <2>4. StepsLeft = Worth + 6 * (RetryCount - retry) + 3 * TimeLeft + 2 * Load
    BY <1>2
  <2>5. Worth \in Int /\ Load \in Int
    OBVIOUS
  <2> HIDE DEF Parts, LoadFacts
  <2> QED
    BY <2>1, <2>2, <2>3, <2>4, <2>5
<1> QED
  BY <1>1, <1>2

LEMMA StepsInRangeNext == Parts' /\ (pc \in Locations)' => InRange'
BY StepsInRange, PTL

\* What the measure is made of changes by steps of the call only.
LEMMA OthersKeepMeasure ==
    ASSUME Types, UnderWay, pc # "idle",
           \/ Serve \/ StartTask \/ Cancel \/ QuitWait \/ TimePasses
           \/ Connect \/ Call
    PROVE  StepsLeft' = StepsLeft
<1>1. CASE Serve
  <2>1. pc = "read" /\ wire = <<calls>> /\ answers = <<>>
    BY <1>1 DEF Serve, UnderWay
  <2>2. \E a : wire' = <<>> /\ answers' = <<a>>
    BY <1>1, <2>1, ShortSequences DEF Serve
  <2>3. Load' = Load
    BY <2>1, <2>2, ShortSequences DEF Load
  <2>4. UNCHANGED <<pc, writeFlag, retry, waited>>
    BY <1>1 DEF Serve, counts
  <2> QED
    BY <2>3, <2>4 DEF StepsLeft, Worth, Load
<1>2. CASE StartTask \/ Cancel \/ QuitWait \/ TimePasses \/ Connect \/ Call
  <2>1. UNCHANGED <<pc, wire, answers, writeFlag, retry, waited>>
    BY <1>2 DEF StartTask, Cancel, QuitWait, TimePasses, Connect, Call, conn,
                counts
  <2> QED
    BY <2>1 DEF StepsLeft, Worth
<1> QED
  BY <1>1, <1>2

\* What the measure is made of are integers.
Numbers ==
    Worth \in Int /\ Load \in 0..1 /\ TimeLeft \in Int /\ retry \in Int

LEMMA PartsAreNumbers == Parts => Numbers
<1> SUFFICES ASSUME Parts PROVE Numbers
  OBVIOUS
<1>1. Worth \in 0..6 /\ Load \in {0, 1}
  BY DEF Parts, LoadFacts
<1>2. TimeLeft \in 0..(WaitTimeout + 1) /\ retry \in 0..RetryCount
  BY DEF Parts
<1> QED
  BY <1>1, <1>2, RetryTcpAssumption DEF Numbers

LEMMA PartsAreNumbersNext == Parts' => Numbers'
BY PartsAreNumbers, PTL

\* When the measure gets smaller.
LEMMA Smaller ==
    ASSUME NEW w \in Int, NEW r \in Int, NEW t \in Int, NEW l \in Int,
           NEW w2 \in Int, NEW r2 \in Int, NEW t2 \in Int, NEW l2 \in Int,
           w2 + 3 * t2 + 2 * l2 < w + 3 * t + 2 * l + 6 * (r2 - r)
    PROVE  w2 + 6 * (RetryCount - r2) + 3 * t2 + 2 * l2
             < w + 6 * (RetryCount - r) + 3 * t + 2 * l
BY RetryTcpAssumption

\* The measure in terms of its parts, and when it gets smaller.
Sum == Worth + 6 * (RetryCount - retry) + 3 * TimeLeft + 2 * Load

Drops == Worth' + 3 * TimeLeft' + 2 * Load'
           < Worth + 3 * TimeLeft + 2 * Load + 6 * (retry' - retry)

LEMMA SumDrops == ASSUME Numbers, Numbers', Drops PROVE Sum' < Sum
<1>1. /\ Worth \in Int /\ Load \in Int /\ TimeLeft \in Int /\ retry \in Int
      /\ Worth' \in Int /\ Load' \in Int /\ TimeLeft' \in Int /\ retry' \in Int
  BY DEF Numbers
<1> QED
  BY <1>1, Smaller DEF Drops, Sum

\* What the steps of a call do to it: go on, spoilt answer, packet sent, failed,
\* wait, new connection.
LEMMA DropsByNumbers ==
    ASSUME NEW w \in Int, NEW r \in Int, NEW t \in Int, NEW l \in 0..1,
           NEW w2 \in Int, NEW r2 \in Int, NEW t2 \in Int, NEW l2 \in 0..1,
           \/ w2 < w /\ l2 = l /\ t2 = t /\ r2 = r
           \/ w = 2 /\ w2 = 3 /\ l = 1 /\ l2 = 0 /\ t2 = t /\ r2 = r
           \/ w = 5 /\ w2 = 2 /\ l = 0 /\ t2 = t /\ r2 = r
           \/ w \in {2, 5} /\ w2 = 1 /\ l2 = 0 /\ t2 = t /\ r2 = r
           \/ w = 2 /\ w2 <= 6 /\ l = 1 /\ l2 = 0 /\ t2 <= t - 1 /\ r2 = r
           \/ w = 1 /\ w2 <= 6 /\ l = 0 /\ l2 = 0 /\ t2 = t /\ r2 = r + 1
    PROVE  w2 + 3 * t2 + 2 * l2 < w + 3 * t + 2 * l + 6 * (r2 - r)
<1>1. CASE t2 = t /\ r2 = r
  <2>1. w2 + 2 * l2 < w + 2 * l
    BY <1>1
  <2>2. 6 * (r2 - r) = 0 /\ 2 * l2 \in Int /\ 2 * l \in Int /\ 3 * t \in Int
    BY <1>1
  <2> QED
    BY <1>1, <2>1, <2>2
<1>2. CASE w = 2 /\ w2 <= 6 /\ l = 1 /\ l2 = 0 /\ t2 <= t - 1 /\ r2 = r
  <2>1. 3 * t2 <= 3 * t - 3
    BY <1>2
  <2>2. 6 * (r2 - r) = 0 /\ 2 * l2 = 0 /\ 2 * l = 2
    BY <1>2
  <2>3. 3 * t \in Int /\ 3 * t2 \in Int
    OBVIOUS
  <2> QED
    BY <1>2, <2>1, <2>2, <2>3
<1>3. CASE w = 1 /\ w2 <= 6 /\ l = 0 /\ l2 = 0 /\ t2 = t /\ r2 = r + 1
  <2>1. 6 * (r2 - r) = 6 /\ 2 * l2 = 0 /\ 2 * l = 0 /\ 3 * t \in Int
    BY <1>3
  <2> QED
    BY <1>3, <2>1
<1> QED
  BY <1>1, <1>2, <1>3

\* Every step of the call uses up some of it.
LEMMA StepRunsDown ==
    ASSUME Parts, Parts', InTime, waited \in Nat, Step
    PROVE  StepsLeft' < StepsLeft
<1> USE RetryTcpAssumption DEF Parts, LoadFacts
<1>0. /\ pc \notin {"idle", "entry"} => StepsLeft = Sum
      /\ pc' \notin {"idle", "entry"} => StepsLeft' = Sum'
  BY DEF Sum
<1>00. Numbers /\ Numbers'
  BY PartsAreNumbers, PartsAreNumbersNext
<1>1. CASE Enter
  <2>1. TimeLeft' = WaitTimeout + 1
    BY <1>1 DEF Enter, TimeLeft, Left
  <2>2. pc' = "loop" /\ retry' = 0 /\ writeFlag' = 1
    BY <1>1 DEF Enter
  <2>3. Worth' = 6 /\ Load' = 0
    BY <2>2 DEF Worth
  <2>4. StepsLeft' = 6 + 6 * RetryCount + 3 * (WaitTimeout + 1)
    BY <2>1, <2>2, <2>3
  <2>5. StepsLeft = StepLimit
    BY <1>1 DEF Enter, StepsLeft
  <2> QED
    BY <2>4, <2>5 DEF StepLimit
<1>2. CASE Cancelled \/ WaitEnds \/ ReadVerdict \/ GiveUp
  <2>1. pc' = "idle" /\ pc \in {"entry", "loop", "read", "fail"}
    BY <1>2 DEF Cancelled, WaitEnds, ReadVerdict, GiveUp, Return
  <2>2. StepsLeft' = 0
    BY <2>1 DEF StepsLeft
  <2>3. CASE pc = "entry"
    <3>1. StepsLeft = StepLimit
      BY <2>3 DEF StepsLeft
    <3> QED
      BY <2>2, <3>1 DEF StepLimit
  <2>4. CASE pc # "entry"
    BY <2>1, <2>2, <2>4
  <2> QED
    BY <2>3, <2>4
<1>3. CASE GoOn
  <2>1. UNCHANGED <<wire, answers, writeFlag, retry, waited>>
    BY <1>3 DEF GoOn, conn, counts
  <2>2. pc = "loop" /\ pc' = IF writeFlag = 0 THEN "read" ELSE "write"
    BY <1>3 DEF GoOn
  <2>3. Worth' < Worth
    BY <2>1, <2>2 DEF Worth
  <2>4. Load' = Load /\ TimeLeft' = TimeLeft
    BY <2>1 DEF Load, TimeLeft
  <2>5. pc' \notin {"idle", "entry"}
    BY <2>2
  <2>6. Sum' < Sum
    <3> HIDE DEF Parts, LoadFacts
    <3>1. Drops
      BY <1>00, <2>1, <2>3, <2>4, DropsByNumbers DEF Numbers, Drops
    <3> QED
      BY <1>00, <3>1, SumDrops
  <2> QED
    BY <1>0, <2>2, <2>5, <2>6
<1>4. CASE Write \/ ReadFails
  <2>1. UNCHANGED <<writeFlag, retry, waited>>
    BY <1>4 DEF Write, ReadFails, counts
  <2>2. \/ pc = "write" /\ pc' = "read"
        \/ pc \in {"write", "read"} /\ pc' = "fail"
    BY <1>4 DEF Write, ReadFails
  <2>3. \/ Worth = 5 /\ Worth' = 2 /\ Load = 0
        \/ Worth \in {2, 5} /\ Worth' = 1 /\ Load' = 0
    BY <2>2 DEF Worth
  <2>4. TimeLeft' = TimeLeft
    BY <2>1 DEF TimeLeft
  <2>5. Sum' < Sum
    <3> HIDE DEF Parts, LoadFacts
    <3>1. Drops
      BY <1>00, <2>1, <2>3, <2>4, DropsByNumbers DEF Numbers, Drops
    <3> QED
      BY <1>00, <3>1, SumDrops
  <2> QED
    BY <1>0, <2>2, <2>5
<1>5. CASE ReadWait
  <2>1. pc = "read" /\ pc' = "loop" /\ answers # <<>> /\ retry' = retry
    BY <1>5 DEF ReadWait
  <2>2. Worth = 2 /\ Worth' <= 6 /\ Load = 1 /\ Load' = 0
    BY <2>1 DEF Worth
  <2>3. waited' = waited + WaitInterval /\ (waited = 0 \/ waited < WaitTimeout)
    BY <1>5, <2>1 DEF ReadWait, InTime
  <2>4. TimeLeft' <= TimeLeft - 1
    BY <2>3 DEF TimeLeft, Left
  <2>5. Sum' < Sum
    <3> HIDE DEF Parts, LoadFacts
    <3>1. Drops
      BY <1>00, <2>1, <2>2, <2>4, DropsByNumbers DEF Numbers, Drops
    <3> QED
      BY <1>00, <3>1, SumDrops
  <2> QED
    BY <1>0, <2>1, <2>5
<1>6. CASE ReadSpoilt
  <2>1. /\ pc = "read" /\ pc' = "loop" /\ answers # <<>> /\ writeFlag' = 0
        /\ UNCHANGED <<retry, waited>>
    BY <1>6 DEF ReadSpoilt
  <2>2. Worth = 2 /\ Load = 1 /\ Load' = 0 /\ Worth' = 3
    BY <2>1 DEF Worth
  <2>3. TimeLeft' = TimeLeft
    BY <2>1 DEF TimeLeft
  <2>4. Sum' < Sum
    <3> HIDE DEF Parts, LoadFacts
    <3>1. Drops
      BY <1>00, <2>1, <2>2, <2>3, DropsByNumbers DEF Numbers, Drops
    <3> QED
      BY <1>00, <3>1, SumDrops
  <2> QED
    BY <1>0, <2>1, <2>4
<1>7. CASE Reconnect
  <2>1. /\ pc = "fail" /\ pc' = "loop" /\ retry' = retry + 1
        /\ UNCHANGED waited
    BY <1>7 DEF Reconnect
  <2>2. /\ Worth = 1 /\ Worth' <= 6 /\ Load = 0 /\ Load' = 0
        /\ TimeLeft' = TimeLeft
    BY <2>1 DEF Worth, TimeLeft
  <2>3. Sum' < Sum
    <3> HIDE DEF Parts, LoadFacts
    <3>1. Drops
      BY <1>00, <2>1, <2>2, DropsByNumbers DEF Numbers, Drops
    <3> QED
      BY <1>00, <3>1, SumDrops
  <2> QED
    BY <1>0, <2>1, <2>3
<1> QED
  BY <1>1, <1>2, <1>3, <1>4, <1>5, <1>6, <1>7 DEF Step

\* The number of steps a call has left is bounded, by the constants only.
THEOREM StepsBounded == Spec => [](StepsLeft \in 0..StepLimit)
<1>1. IInv => StepsLeft \in 0..StepLimit
  BY PartsHold, StepsInRange DEF IInv, Types, InRange
<1> QED
  BY <1>1, InvHolds, PTL

\* No step of a call gives back what another has used up, and neither do the
\* server, the network and the users.
THEOREM CallRunsDownHolds == Spec => CallRunsDown
<1>1. IInv /\ InTime /\ IInv' /\ [Next]_vars =>
        [pc # "idle" => /\ StepsLeft' <= StepsLeft
                        /\ Step => StepsLeft' < StepsLeft]_vars
  <2> SUFFICES ASSUME IInv, InTime, IInv', Next, pc # "idle"
               PROVE  /\ StepsLeft' <= StepsLeft
                      /\ Step => StepsLeft' < StepsLeft
    BY DEF vars
  <2>1. Parts /\ Parts'
    BY PartsHold, PartsHoldNext DEF IInv
  <2>2. StepsLeft \in 0..StepLimit /\ StepsLeft' \in 0..StepLimit
    BY <2>1, StepsInRange, StepsInRangeNext DEF IInv, Types, InRange
  <2>3. CASE Step
    <3>1. StepsLeft' < StepsLeft
      BY <2>1, <2>3, StepRunsDown DEF IInv, Types
    <3> QED
      BY <2>2, <3>1
  <2>4. CASE ~Step
    <3>1. StepsLeft' = StepsLeft
      BY <2>4, OthersKeepMeasure DEF IInv, Next
    <3> QED
      BY <2>2, <2>4, <3>1
  <2> QED
    BY <2>3, <2>4
<1> QED
  BY <1>1, InvHolds, InTimeHolds, PTL DEF Spec, CallRunsDown

-----------------------------------------------------------------------------
\* StateOK.  In every location the guard of some action holds.

\* A call is never stuck, whatever failed and whatever has arrived.
THEOREM StateOKHolds == Spec /\ []StepRule => []StateOK
<1>1. IInv /\ TypeOK /\ StepRule => StateOK
  <2> SUFFICES ASSUME IInv, pc # "idle" PROVE Ready
    BY DEF StateOK, CallCanGoOn, StepRule
  <2>1. /\ pc \in Locations
        /\ waited \in Nat /\ retry \in Nat
        /\ enabled \in BOOLEAN /\ waitFlag \in BOOLEAN
    BY RetryTcpAssumption DEF IInv, Types, Flags
  <2> QED
    BY <2>1, RetryTcpAssumption DEF Ready, Locations
<1> QED
  BY <1>1, InvHolds, TypeCorrect, PTL

-----------------------------------------------------------------------------
\* CallReturns.  A call that runs takes a step, and with it the measure goes
\* down; induction over the measure takes it to the end.

Returned == pc = "idle"
HasLeft(n) == pc # "idle" /\ StepsLeft = n
HasFewer(n) == pc # "idle" /\ StepsLeft \in 0..(n-1)

\* A call that has n steps left returns.
ReturnsWithin(n) == [](HasLeft(n) => <>Returned)

\* Induction over the natural numbers, for ReturnsWithin.  It holds of every
\* formula; the provers have no rule for it when the formula is a temporal one.
Induction ==
    (\A n \in Nat : (\A m \in 0..(n-1) : ReturnsWithin(m)) => ReturnsWithin(n))
      => \A n \in Nat : ReturnsWithin(n)

\* One step of a call, with the others in between.
LEMMA CallStep ==
    ASSUME IInv, InTime, IInv', [Next]_vars, NEW n \in Nat,
           pc # "idle", StepsLeft = n, pc' # "idle"
    PROVE  /\ StepsLeft' = n \/ StepsLeft' \in 0..(n-1)
           /\ Step => StepsLeft' \in 0..(n-1)
<1>1. Parts /\ Parts'
  BY PartsHold, PartsHoldNext DEF IInv
<1>2. StepsLeft' \in 0..StepLimit
  BY <1>1, StepsInRangeNext DEF IInv, Types, InRange
<1>3. StepsLeft' \in Nat
  BY <1>2
<1>4. CASE Step
  <2>1. StepsLeft' < StepsLeft
    BY <1>1, <1>4, StepRunsDown DEF IInv, Types
  <2> QED
    BY <1>3, <2>1
<1>5. CASE ~Step
  <2>1. StepsLeft' = StepsLeft
    <3>1. CASE UNCHANGED vars
      BY <3>1 DEF vars, conn, counts, StepsLeft, Worth, StepLimit, Left
    <3>2. CASE Next
      BY <1>5, <3>2, OthersKeepMeasure DEF IInv, Next
    <3> QED
      BY <3>1, <3>2
  <2> QED
    BY <1>5, <2>1
<1> QED
  BY <1>4, <1>5

\* However many steps a call that runs has left: it returns or has fewer.
THEOREM CallMovesOn ==
    ASSUME NEW n \in Nat
    PROVE  FairSpec /\ []StepRule =>
             [](HasLeft(n) => <>(Returned \/ HasFewer(n)))
<1>1. IInv /\ InTime /\ IInv' /\ [Next]_vars =>
        (HasLeft(n) => HasLeft(n)' \/ Returned' \/ HasFewer(n)')
  BY CallStep DEF HasLeft, HasFewer, Returned
<1>2. IInv /\ InTime /\ IInv' /\ <<Step>>_vars =>
        (HasLeft(n) => Returned' \/ HasFewer(n)')
  BY CallStep DEF HasLeft, HasFewer, Returned, Next
<1>3. StateOK => (HasLeft(n) => ENABLED <<Step>>_vars)
  BY DEF StateOK, CallCanGoOn, HasLeft
<1> QED
  BY <1>1, <1>2, <1>3, InvHolds, InTimeHolds, StateOKHolds, PTL
  DEF FairSpec, Spec

\* A call that runs returns, whatever the server, the network and the users do.
THEOREM CallReturnsHolds ==
    FairSpec /\ []StepRule /\ Induction => CallReturns
<1> DEFINE FewerReturn(n) == \A m \in 0..(n-1) : HasLeft(m) => <>Returned
           AllReturn == \A n \in Nat : HasLeft(n) => <>Returned
<1>1. ASSUME NEW n \in Nat
      PROVE  FairSpec /\ []StepRule =>
               ((\A m \in 0..(n-1) : ReturnsWithin(m)) => ReturnsWithin(n))
  <2>1. FairSpec /\ []StepRule =>
          [](HasLeft(n) => <>(Returned \/ HasFewer(n)))
    BY CallMovesOn
  <2>2. (\A m \in 0..(n-1) : ReturnsWithin(m)) => []FewerReturn(n)
    BY DEF ReturnsWithin
  <2>3. FewerReturn(n) => (HasFewer(n) => <>Returned)
    BY DEF HasLeft, HasFewer
  <2> HIDE DEF FewerReturn
  <2> QED
    BY <2>1, <2>2, <2>3, PTL DEF ReturnsWithin
<1>2. FairSpec /\ []StepRule =>
        \A n \in Nat : (\A m \in 0..(n-1) : ReturnsWithin(m)) => ReturnsWithin(n)
  BY <1>1
<1>3. FairSpec /\ []StepRule /\ Induction => \A n \in Nat : ReturnsWithin(n)
  BY <1>2 DEF Induction
<1>4. (\A n \in Nat : ReturnsWithin(n)) => []AllReturn
  BY DEF ReturnsWithin
<1>5. StepsLeft \in 0..StepLimit /\ AllReturn => (pc # "idle" => <>Returned)
  BY DEF HasLeft
<1>6. FairSpec => [](StepsLeft \in 0..StepLimit)
  BY StepsBounded, PTL DEF FairSpec
<1>7. CallReturns <=> (pc # "idle" ~> Returned)
  BY DEF CallReturns, Returned
<1> HIDE DEF AllReturn
<1> QED
  BY <1>3, <1>4, <1>5, <1>6, <1>7, PTL

-----------------------------------------------------------------------------
\* Every step is a call, a return with the word on the call's own packet, or
\* nothing to the caller.
LEMMA StepRefines ==
    ASSUME IInv, [Next]_vars
    PROVE  [Ex!Next]_(Ex!vars)
<1> USE DEF Ex!vars, Ex!Next
<1>1. CASE Call
  BY <1>1 DEF Call, Ex!Call
<1>2. CASE Cancelled \/ WaitEnds \/ GiveUp
  <2>1. PICK e \in LocalErrors : Return(Local(e))
    BY <1>2 DEF Cancelled, WaitEnds, GiveUp, LocalErrors
  <2>2. pc # "idle"
    BY <1>2 DEF Cancelled, WaitEnds, GiveUp
  <2> QED
    BY <2>1, <2>2 DEF Return, Local, Ex!Return
<1>3. CASE ReadVerdict
  <2>1. PICK a \in Answer : a.for = calls /\ answers = <<a>>
    BY <1>3 DEF ReadVerdict, IInv, UnderWay
  <2>2. Head(answers) = a
    BY <2>1, ShortSequences
  <2>3. a = [for |-> calls, kind |-> a.kind]
    BY <2>1 DEF Answer
  <2>4. a.kind \in Verdicts \cup LocalErrors
    BY <1>3, <2>2 DEF ReadVerdict
  <2>5. result' = [for |-> calls, kind |-> a.kind]
    BY <1>3, <2>2, <2>3 DEF ReadVerdict, Return
  <2> QED
    BY <1>3, <2>4, <2>5 DEF ReadVerdict, Return, Ex!Return
<1>4. CASE Enter \/ GoOn \/ Write \/ ReadFails \/ ReadWait \/ ReadSpoilt
           \/ Reconnect
  BY <1>4 DEF Enter, GoOn, Write, ReadFails, ReadWait, ReadSpoilt, Reconnect
<1>5. CASE Serve \/ StartTask \/ Cancel \/ QuitWait \/ TimePasses \/ Connect
  BY <1>5 DEF Serve, StartTask, Cancel, QuitWait, TimePasses, Connect
<1>6. CASE UNCHANGED vars
  BY <1>6 DEF vars
<1> QED
  BY <1>1, <1>2, <1>3, <1>4, <1>5, <1>6 DEF Next, Step

\* The retrying socket implements the exchange its caller relies on.
THEOREM Refinement == Spec => ExchangeSpec
<1>1. Init => Ex!Init
  BY DEF Init, Ex!Init, NoResult, Ex!NoResult
<1>2. IInv /\ [Next]_vars => [Ex!Next]_(Ex!vars)
  BY StepRefines
<1> QED
  BY <1>1, <1>2, InvHolds, PTL DEF Spec, ExchangeSpec, Ex!Spec
=============================================================================
