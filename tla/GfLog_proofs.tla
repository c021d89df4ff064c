----------------------------- MODULE GfLog_proofs -----------------------------
(***************************************************************************)
(* Theorems about GfLog, for any reporting processes, any number of        *)
(* records, any capacities of the sockets and any number of crashes.       *)
(***************************************************************************)
EXTENDS GfLog, SequenceTheorems, TLAPS

USE GfLogAssumption

-----------------------------------------------------------------------------
\* Increasing sequences.

Increasing(s) == \A i, j \in DOMAIN s : i < j => s[i] < s[j]

Precedes(A, B) == \A a \in A, b \in B : a < b

\* An element above all others goes to the end.
LEMMA AppendIncreasing ==
    ASSUME NEW s \in Seq(Records), NEW n \in Records,
           Increasing(s), Precedes(Range(s), {n})
    PROVE  /\ Increasing(Append(s, n))
           /\ Range(Append(s, n)) = Range(s) \cup {n}
<1>1. /\ Append(s, n) \in Seq(Records)
      /\ Len(Append(s, n)) = Len(s) + 1
      /\ \A i \in 1..Len(s) : Append(s, n)[i] = s[i]
      /\ Append(s, n)[Len(s) + 1] = n
  BY AppendProperties
<1>2. /\ DOMAIN s = 1..Len(s)
      /\ DOMAIN Append(s, n) = 1..(Len(s) + 1)
      /\ Len(s) \in Nat
  BY <1>1
<1>3. \A i \in 1..Len(s) : s[i] < n
  BY <1>2 DEF Precedes, Range
<1>4. Increasing(Append(s, n))
  BY <1>1, <1>2, <1>3 DEF Increasing, Records
<1>5. Range(Append(s, n)) = Range(s) \cup {n}
  BY <1>1, <1>2 DEF Range
<1> QED
  BY <1>4, <1>5

\* The head is below the tail.
LEMMA TailIncreasing ==
    ASSUME NEW s \in Seq(Records), s # <<>>, Increasing(s)
    PROVE  /\ Increasing(Tail(s))
           /\ Range(s) = {Head(s)} \cup Range(Tail(s))
           /\ Precedes({Head(s)}, Range(Tail(s)))
<1>1. /\ Tail(s) \in Seq(Records)
      /\ Len(Tail(s)) = Len(s) - 1
      /\ \A i \in 1..Len(Tail(s)) : Tail(s)[i] = s[i + 1]
      /\ Head(s) = s[1]
  BY HeadTailProperties
<1>2. /\ DOMAIN s = 1..Len(s)
      /\ DOMAIN Tail(s) = 1..(Len(s) - 1)
      /\ Len(s) \in Nat \ {0}
  BY <1>1
<1>3. Increasing(Tail(s))
  BY <1>1, <1>2 DEF Increasing
<1>4. Precedes({Head(s)}, Range(Tail(s)))
  BY <1>1, <1>2 DEF Precedes, Range, Increasing
<1>5. Range(s) \subseteq {Head(s)} \cup Range(Tail(s))
  <2> SUFFICES ASSUME NEW i \in 1..Len(s)
               PROVE  s[i] \in {Head(s)} \cup Range(Tail(s))
    BY <1>2 DEF Range
  <2>1. CASE i = 1
    BY <1>1, <2>1
  <2>2. CASE i # 1
    <3>1. i - 1 \in 1..(Len(s) - 1) /\ (i - 1) + 1 = i
      BY <1>2, <2>2
    <3>2. s[i] = Tail(s)[i - 1]
      BY <1>1, <1>2, <3>1
    <3> QED
      BY <1>2, <3>1, <3>2 DEF Range
  <2> QED
    BY <2>1, <2>2
<1>6. {Head(s)} \cup Range(Tail(s)) \subseteq Range(s)
  BY <1>1, <1>2 DEF Range
<1> QED
  BY <1>3, <1>4, <1>5, <1>6
-----------------------------------------------------------------------------
\* The inductive invariant.

Sequenced ==
    /\ queue \in [Reporters -> Seq(Records)]
    /\ inbox \in [Reporters -> Seq(Records)]
    /\ uploaded \in [Reporters -> Seq(Records)]
    /\ \A p \in Reporters : Len(queue[p]) <= SendHWM /\ Len(inbox[p]) <= RecvHWM

Types ==
    /\ reported \in [Reporters -> Nat]
    /\ \A p \in Reporters : reported[p] <= MaxRecords[p]
    /\ ended \subseteq Reporters
    /\ current \subseteq [from : Reporters, n : Records]
    /\ server \in ServerLocations
    /\ sup \in SupLocations
    /\ pid_log \in {"child", "failed"}
    /\ targets \subseteq {"server", "sup"}
    /\ afterStop \in Nat
    /\ crashes \in 0..MaxCrashes
    /\ server = "upload" => current # {}

Flags == server_flag \in BOOLEAN /\ sup_flag \in BOOLEAN /\ missed \in BOOLEAN

\* The record of process p in the hands of the log server.
Held(p) == {n \in Records : [from |-> p, n |-> n] \in current}

\* The records of a process are on their way in the order of their reports:
\* uploaded ones, the present one, those on its pipe and those on its socket.
OrderOf(p) ==
    /\ Increasing(inbox[p])
    /\ Increasing(queue[p])
    /\ Range(uploaded[p]) \subseteq 1..reported[p]
    /\ Held(p) \subseteq 1..reported[p]
    /\ Range(inbox[p]) \subseteq 1..reported[p]
    /\ Range(queue[p]) \subseteq 1..reported[p]
    /\ Precedes(Range(uploaded[p]), Held(p) \cup Range(inbox[p]) \cup Range(queue[p]))
    /\ Precedes(Held(p), Range(inbox[p]) \cup Range(queue[p]))
    /\ Precedes(Range(inbox[p]), Range(queue[p]))

OrderInv == \A p \in Reporters : OrderOf(p)

\* Nobody is told of a stop that nobody asks for.  Once one is asked for, a log
\* server that has not been told is still to be, or came too late for the list.
StopInv ==
    /\ sup = "gone" => sup_flag
    /\ "server" \in targets \/ server_flag => StopAsked
    /\ StopAsked /\ server # "dead" /\ ~server_flag =>
         "server" \in targets \/ missed

\* The signal comes at most once between the look at the flag and zmq_recv.
AfterStopInv ==
    /\ server # "dead" /\ ~server_flag => afterStop = 0
    /\ server \in {"call", "recv"} => afterStop = 0
    /\ afterStop <= 1

IInv == Sequenced /\ Types /\ Flags /\ OrderInv /\ StopInv /\ AfterStopInv

-----------------------------------------------------------------------------
\* Before the first record nothing is under way.
LEMMA InitInv == Init => IInv
<1> SUFFICES ASSUME Init PROVE IInv
  OBVIOUS
<1>1. Sequenced
  BY EmptySeq DEF Init, Sequenced, NoRecords
<1>2. Types
  BY DEF Init, Types, ServerLocations, SupLocations
<1>3. Flags /\ StopInv
  BY DEF Init, Flags, StopInv, StopAsked
<1>4. Range(<<>>) = {}
  BY DEF Range
<1>5. OrderInv
  <2> SUFFICES ASSUME NEW p \in Reporters PROVE OrderOf(p)
    BY DEF OrderInv
  <2>1. inbox[p] = <<>> /\ queue[p] = <<>> /\ uploaded[p] = <<>>
    BY DEF Init, NoRecords
  <2>2. Held(p) = {}
    BY DEF Init, Held
  <2> QED
    BY <1>4, <2>1, <2>2 DEF OrderOf, Increasing, Precedes
<1>6. AfterStopInv
  BY DEF Init, AfterStopInv
<1> QED
  BY <1>1, <1>2, <1>3, <1>5, <1>6 DEF IInv

-----------------------------------------------------------------------------
\* What a step does to the records of one process: it loses some, reports one,
\* carries one, takes one in hand or uploads the one in hand.

Loses(p) ==
    /\ reported'[p] = reported[p] /\ uploaded'[p] = uploaded[p]
    /\ inbox'[p] \in {inbox[p], <<>>}
    /\ queue'[p] \in {queue[p], <<>>}
    /\ Held(p)' \subseteq Held(p)

Reports(p) ==
    /\ reported[p] < MaxRecords[p] /\ reported'[p] = reported[p] + 1
    /\ \/ queue'[p] = queue[p]
       \/ Len(queue[p]) < SendHWM /\ queue'[p] = Append(queue[p], reported[p] + 1)
    /\ inbox'[p] = inbox[p] /\ uploaded'[p] = uploaded[p] /\ Held(p)' = Held(p)

Carries(p) ==
    /\ queue[p] # <<>> /\ Len(inbox[p]) < RecvHWM
    /\ inbox'[p] = Append(inbox[p], Head(queue[p]))
    /\ queue'[p] = Tail(queue[p])
    /\ reported'[p] = reported[p] /\ uploaded'[p] = uploaded[p]
    /\ Held(p)' = Held(p)

Takes(p) ==
    /\ inbox[p] # <<>>
    /\ inbox'[p] = Tail(inbox[p])
    /\ Held(p)' = {Head(inbox[p])}
    /\ reported'[p] = reported[p] /\ uploaded'[p] = uploaded[p]
    /\ queue'[p] = queue[p]

Sends(p) ==
    /\ \E n \in Held(p) : uploaded'[p] = Append(uploaded[p], n)
    /\ Held(p)' = {}
    /\ reported'[p] = reported[p] /\ inbox'[p] = inbox[p] /\ queue'[p] = queue[p]

\* The records stay functions of their processes.
LEMMA StillFunctions ==
    ASSUME Sequenced, Types, [Next]_vars
    PROVE  /\ queue' = [q \in Reporters |-> queue'[q]]
           /\ inbox' = [q \in Reporters |-> inbox'[q]]
           /\ uploaded' = [q \in Reporters |-> uploaded'[q]]
           /\ reported' = [q \in Reporters |-> reported'[q]]
<1> USE DEF Sequenced, Types, records
<1>1. CASE ReporterStep
  BY <1>1 DEF ReporterStep, Report, ReporterDies, Transfer
<1>2. CASE Crash \/ Start \/ Top \/ EnterRecv \/ Upload \/ Exit
  BY <1>2 DEF Crash, Start, Top, EnterRecv, Upload, Exit, ClosePull, NoRecords
<1>3. CASE \E p \in Reporters : Recv(p)
  BY <1>3 DEF Recv
<1>4. CASE SupStep
  BY <1>4 DEF SupStep, Check, NothingToDo, Restart, RestartFails, Wake
<1>5. CASE KillStep
  BY <1>5 DEF KillStep, ListPids, TellSup, TellServer, ClosePull, NoRecords
<1>6. CASE UNCHANGED vars
  BY <1>6 DEF vars
<1> QED
  BY <1>1, <1>2, <1>3, <1>4, <1>5, <1>6 DEF Next, ServerStep

\* Every step does one of the five to the records of p.
LEMMA Moves ==
    ASSUME Sequenced, Types, [Next]_vars, NEW p \in Reporters
    PROVE  Loses(p) \/ Reports(p) \/ Carries(p) \/ Takes(p) \/ Sends(p)
<1> USE DEF Sequenced, Types, records
<1>0. ASSUME current' = current PROVE Held(p)' = Held(p)
  BY <1>0 DEF Held
<1>1. CASE \E q \in Reporters : Report(q)
  <2>1. PICK q \in Reporters : Report(q)
    BY <1>1
  <2>2. current' = current
    BY <2>1 DEF Report
  <2>3. CASE q = p
    BY <1>0, <2>1, <2>2, <2>3 DEF Report, Reports
  <2>4. CASE q # p
    BY <1>0, <2>1, <2>2, <2>4 DEF Report, Loses
  <2> QED
    BY <2>3, <2>4
<1>2. CASE \E q \in Reporters : ReporterDies(q)
  <2>1. PICK q \in Reporters : ReporterDies(q)
    BY <1>2
  <2>2. current' = current
    BY <2>1 DEF ReporterDies
  <2> QED
    BY <1>0, <2>1, <2>2 DEF ReporterDies, Loses
<1>3. CASE \E q \in Reporters : Transfer(q)
  <2>1. PICK q \in Reporters : Transfer(q)
    BY <1>3
  <2>2. current' = current
    BY <2>1 DEF Transfer
  <2>3. CASE q = p
    BY <1>0, <2>1, <2>2, <2>3 DEF Transfer, Carries
  <2>4. CASE q # p
    BY <1>0, <2>1, <2>2, <2>4 DEF Transfer, Loses
  <2> QED
    BY <2>3, <2>4
<1>4. CASE \E q \in Reporters : Recv(q)
  <2>1. PICK q \in Reporters : Recv(q)
    BY <1>4
  <2>2. current' = {[from |-> q, n |-> Head(inbox[q])]} /\ inbox[q] # <<>>
    BY <2>1 DEF Recv
  <2>3. Head(inbox[q]) \in Records
    BY <2>2, HeadTailProperties
  <2>4. CASE q = p
    <3>1. Held(p)' = {Head(inbox[p])}
      BY <2>2, <2>3, <2>4 DEF Held
    <3> QED
      BY <2>1, <2>4, <3>1 DEF Recv, Takes
  <2>5. CASE q # p
    <3>1. Held(p)' = {}
      BY <2>2, <2>5 DEF Held
    <3> QED
      BY <2>1, <2>5, <3>1 DEF Recv, Loses
  <2> QED
    BY <2>4, <2>5
<1>5. CASE Upload
  <2>1. Held(p)' = {}
    BY <1>5 DEF Upload, Held
  <2>2. reported' = reported /\ inbox' = inbox /\ queue' = queue
    BY <1>5 DEF Upload
  <2>3. CASE uploaded' = uploaded
    BY <2>1, <2>2, <2>3 DEF Loses
  <2>4. CASE uploaded' # uploaded
    <3>1. PICK r \in current :
            uploaded' = [uploaded EXCEPT ![r.from] = Append(@, r.n)]
      BY <1>5, <2>4 DEF Upload
    <3>2. r.from \in Reporters /\ r.n \in Records /\ r = [from |-> r.from, n |-> r.n]
      OBVIOUS
    <3>3. CASE r.from = p
      <4>1. r.n \in Held(p)
        BY <3>2, <3>3 DEF Held
      <4>2. uploaded'[p] = Append(uploaded[p], r.n)
        BY <3>1, <3>3
      <4> QED
        BY <2>1, <2>2, <4>1, <4>2 DEF Sends
    <3>4. CASE r.from # p
      <4>1. uploaded'[p] = uploaded[p]
        BY <3>1, <3>2, <3>4
      <4> QED
        BY <2>1, <2>2, <4>1 DEF Loses
    <3> QED
      BY <3>3, <3>4
  <2> QED
    BY <2>3, <2>4
<1>6. CASE Top \/ TellServer
  <2>1. /\ UNCHANGED <<reported, uploaded, queue, current>>
        /\ inbox' = inbox \/ inbox' = NoRecords
    BY <1>6 DEF Top, TellServer, ClosePull
  <2> QED
    BY <1>0, <2>1 DEF Loses, NoRecords
<1>7. CASE Crash
  <2>1. Held(p)' = {}
    BY <1>7 DEF Crash, Held
  <2> QED
    BY <1>7, <2>1 DEF Crash, Loses, NoRecords
<1>8. CASE Start \/ EnterRecv \/ Exit \/ SupStep \/ ListPids \/ TellSup
           \/ UNCHANGED vars
  <2>1. UNCHANGED <<reported, uploaded, queue, inbox, current>>
    BY <1>8 DEF Start, EnterRecv, Exit, SupStep, Check, NothingToDo, Restart,
                RestartFails, Wake, ListPids, TellSup, vars
  <2> QED
    BY <1>0, <2>1 DEF Loses
<1> QED
  BY <1>1, <1>2, <1>3, <1>4, <1>5, <1>6, <1>7, <1>8
  DEF Next, ReporterStep, ServerStep, KillStep

\* The sequences of p stay sequences of records, within their marks.
LEMMA SequencedStep ==
    ASSUME Sequenced, Types, [Next]_vars
    PROVE  Sequenced'
<1>1. ASSUME NEW p \in Reporters
      PROVE  /\ queue'[p] \in Seq(Records) /\ Len(queue'[p]) <= SendHWM
             /\ inbox'[p] \in Seq(Records) /\ Len(inbox'[p]) <= RecvHWM
             /\ uploaded'[p] \in Seq(Records)
  <2> DEFINE Q == queue[p]
             I == inbox[p]
             U == uploaded[p]
  <2>0. /\ Q \in Seq(Records) /\ Len(Q) <= SendHWM
        /\ I \in Seq(Records) /\ Len(I) <= RecvHWM
        /\ U \in Seq(Records)
        /\ reported[p] \in Nat
        /\ Len(Q) \in Nat /\ Len(I) \in Nat /\ SendHWM \in Nat /\ RecvHWM \in Nat
    BY DEF Sequenced, Types
  <2>1. CASE Loses(p)
    <3>1. <<>> \in Seq(Records) /\ Len(<<>>) = 0
      BY EmptySeq
    <3>2. uploaded'[p] = U /\ inbox'[p] \in {I, <<>>} /\ queue'[p] \in {Q, <<>>}
      BY <2>1 DEF Loses
    <3> HIDE DEF Q, I, U
    <3>3. queue'[p] \in Seq(Records) /\ Len(queue'[p]) <= SendHWM
      <4>1. CASE queue'[p] = Q
        BY <2>0, <4>1
      <4>2. CASE queue'[p] = <<>>
        BY <2>0, <3>1, <4>2
      <4> QED
        BY <3>2, <4>1, <4>2
    <3>4. inbox'[p] \in Seq(Records) /\ Len(inbox'[p]) <= RecvHWM
      <4>1. CASE inbox'[p] = I
        BY <2>0, <4>1
      <4>2. CASE inbox'[p] = <<>>
        BY <2>0, <3>1, <4>2
      <4> QED
        BY <3>2, <4>1, <4>2
    <3> QED
      BY <2>0, <3>2, <3>3, <3>4
  <2>2. CASE Reports(p)
    <3>1. reported[p] + 1 \in Records
      BY <2>0 DEF Records
    <3>2. /\ Append(Q, reported[p] + 1) \in Seq(Records)
          /\ Len(Append(Q, reported[p] + 1)) = Len(Q) + 1
      BY <2>0, <3>1, AppendProperties
    <3>3. /\ inbox'[p] = I /\ uploaded'[p] = U
          /\ \/ queue'[p] = Q
             \/ Len(Q) < SendHWM /\ queue'[p] = Append(Q, reported[p] + 1)
      BY <2>2 DEF Reports
    <3> HIDE DEF Q, I, U
    <3>4. queue'[p] \in Seq(Records) /\ Len(queue'[p]) <= SendHWM
      <4>1. CASE queue'[p] = Q
        BY <2>0, <4>1
      <4>2. CASE Len(Q) < SendHWM /\ queue'[p] = Append(Q, reported[p] + 1)
        <5>1. Len(queue'[p]) = Len(Q) + 1 /\ queue'[p] \in Seq(Records)
          BY <3>2, <4>2
        <5> QED
          BY <2>0, <4>2, <5>1
      <4> QED
        BY <3>3, <4>1, <4>2
    <3> QED
      BY <2>0, <3>3, <3>4
  <2>3. CASE Carries(p)
    <3>1. Head(Q) \in Records /\ Tail(Q) \in Seq(Records)
          /\ Len(Tail(Q)) = Len(Q) - 1
      BY <2>0, <2>3, HeadTailProperties DEF Carries
    <3>2. /\ Append(I, Head(Q)) \in Seq(Records)
          /\ Len(Append(I, Head(Q))) = Len(I) + 1
      BY <2>0, <3>1, AppendProperties
    <3> QED
      BY <2>0, <2>3, <3>1, <3>2 DEF Carries
  <2>4. CASE Takes(p)
    <3>1. Tail(I) \in Seq(Records) /\ Len(Tail(I)) = Len(I) - 1
      BY <2>0, <2>4, HeadTailProperties DEF Takes
    <3> QED
      BY <2>0, <2>4, <3>1 DEF Takes
  <2>5. CASE Sends(p)
    <3>1. PICK n \in Held(p) : uploaded'[p] = Append(U, n)
      BY <2>5 DEF Sends
    <3>2. n \in Records
      BY <3>1 DEF Held
    <3>3. Append(U, n) \in Seq(Records)
      BY <2>0, <3>2, AppendProperties
    <3> QED
      BY <2>0, <2>5, <3>1, <3>3 DEF Sends
  <2> HIDE DEF Q, I, U
  <2> QED
    BY <2>1, <2>2, <2>3, <2>4, <2>5, Moves
<1>2. /\ queue' = [q \in Reporters |-> queue'[q]]
      /\ inbox' = [q \in Reporters |-> inbox'[q]]
      /\ uploaded' = [q \in Reporters |-> uploaded'[q]]
  BY StillFunctions
<1>3. /\ queue' \in [Reporters -> Seq(Records)]
      /\ inbox' \in [Reporters -> Seq(Records)]
      /\ uploaded' \in [Reporters -> Seq(Records)]
  BY <1>1, <1>2
<1> QED
  BY <1>1, <1>3 DEF Sequenced

\* The other variables keep their types; an upload always has a record.
LEMMA TypesStep ==
    ASSUME Sequenced, Types, [Next]_vars
    PROVE  Types'
<1> USE DEF Types, ServerLocations, SupLocations, stop, flags, records
<1>1. ASSUME NEW p \in Reporters
      PROVE  reported'[p] \in Nat /\ reported'[p] <= MaxRecords[p]
  <2>1. \/ reported'[p] = reported[p]
        \/ reported[p] < MaxRecords[p] /\ reported'[p] = reported[p] + 1
    BY Moves DEF Loses, Reports, Carries, Takes, Sends
  <2>2. reported[p] \in Nat /\ MaxRecords[p] \in Nat /\ reported[p] <= MaxRecords[p]
    OBVIOUS
  <2> QED
    BY <2>1, <2>2
<1>2. reported' \in [Reporters -> Nat]
  <2>1. reported' = [q \in Reporters |-> reported'[q]]
    BY StillFunctions
  <2> QED
    BY <1>1, <2>1
<1>3. ended' \subseteq Reporters
  BY DEF Next, ReporterStep, Report, ReporterDies, Transfer, Crash, ServerStep,
         Start, Top, EnterRecv, Recv, Upload, Exit, SupStep, Check, NothingToDo,
         Restart, RestartFails, Wake, KillStep, ListPids, TellSup, TellServer, vars
<1>4. current' \subseteq [from : Reporters, n : Records]
  <2>1. CASE \E p \in Reporters : Recv(p)
    <3>1. PICK p \in Reporters : Recv(p)
      BY <2>1
    <3>2. Head(inbox[p]) \in Records
      BY <3>1, HeadTailProperties DEF Recv, Sequenced
    <3> QED
      BY <3>1, <3>2 DEF Recv
  <2>2. CASE ~\E p \in Reporters : Recv(p)
    <3>1. current' = current \/ current' = {}
      BY <2>2 DEF Next, ReporterStep, Report, ReporterDies, Transfer, Crash,
         ServerStep, Start, Top, EnterRecv, Upload, Exit, SupStep, Check,
         NothingToDo, Restart, RestartFails, Wake, KillStep, ListPids, TellSup,
         TellServer, vars
    <3> QED
      BY <3>1
  <2> QED
    BY <2>1, <2>2
<1>5. /\ server' \in ServerLocations /\ sup' \in SupLocations
      /\ pid_log' \in {"child", "failed"}
      /\ targets' \subseteq {"server", "sup"}
      /\ afterStop' \in Nat /\ crashes' \in 0..MaxCrashes
      /\ server' = "upload" => current' # {}
  <2>0. /\ server \in ServerLocations /\ sup \in SupLocations
        /\ pid_log \in {"child", "failed"}
        /\ targets \subseteq {"server", "sup"}
        /\ afterStop \in Nat /\ crashes \in 0..MaxCrashes /\ MaxCrashes \in Nat
        /\ server = "upload" => current # {}
    BY GfLogAssumption
  <2> HIDE DEF Types
  <2> USE <2>0
  <2>1. CASE ReporterStep
    BY <2>1 DEF ReporterStep, Report, ReporterDies, Transfer
  <2>2. CASE Start \/ Top \/ EnterRecv \/ Exit
    BY <2>2 DEF Start, Top, EnterRecv, Exit, ClosePull
  <2>3. CASE \E p \in Reporters : Recv(p)
    <3>1. PICK p \in Reporters : Recv(p)
      BY <2>3
    <3>2. afterStop' \in Nat
      BY <3>1 DEF Recv
    <3>3. /\ current' # {} /\ server' = "upload"
          /\ UNCHANGED <<sup, pid_log, targets, crashes>>
      BY <3>1 DEF Recv
    <3> QED
      BY <3>2, <3>3
  <2>4. CASE Upload
    <3>1. /\ server' = "top"
          /\ UNCHANGED <<sup, pid_log, targets, crashes, afterStop>>
      BY <2>4 DEF Upload
    <3> QED
      BY <3>1
  <2>8. CASE Crash
    BY <2>8 DEF Crash
  <2>5. CASE Check \/ NothingToDo \/ RestartFails \/ Wake
    BY <2>5 DEF Check, NothingToDo, RestartFails, Wake
  <2>9. CASE Restart
    <3>1. /\ server' = "start" /\ sup' = "sleep" /\ afterStop' = 0
          /\ pid_log' = "child" /\ targets' = targets \ {"server"}
          /\ crashes' = crashes
      BY <2>9 DEF Restart, NewServer
    <3> QED
      BY <3>1
  <2>6. CASE KillStep
    BY <2>6 DEF KillStep, ListPids, TellSup, TellServer, ClosePull, Alive
  <2>7. CASE UNCHANGED vars
    BY <2>7 DEF vars
  <2> QED
    BY <2>1, <2>2, <2>3, <2>4, <2>5, <2>6, <2>7, <2>8, <2>9
     DEF Next, ServerStep, SupStep
<1> QED
  BY <1>1, <1>2, <1>3, <1>4, <1>5

\* The Boolean variables, apart from the numbers.
LEMMA FlagsStep ==
    ASSUME Flags, [Next]_vars
    PROVE  Flags'
<1> USE DEF Flags, stop, flags
<1>1. CASE KillStep
  BY <1>1 DEF KillStep, ListPids, TellSup, TellServer
<1>2. CASE Restart
  BY <1>2 DEF Restart, NewServer
<1>3. CASE ReporterStep \/ Crash \/ ServerStep \/ UNCHANGED vars
  BY <1>3 DEF ReporterStep, Report, ReporterDies, Transfer, Crash, ServerStep,
              Start, Top, EnterRecv, Recv, Upload, Exit, vars
<1>4. CASE Check \/ NothingToDo \/ RestartFails \/ Wake
  BY <1>4 DEF Check, NothingToDo, RestartFails, Wake
<1> QED
  BY <1>1, <1>2, <1>3, <1>4 DEF Next, SupStep

\* The records of a process keep their order from one place to the next.
LEMMA OrderStep ==
    ASSUME Sequenced, Types, OrderInv, [Next]_vars
    PROVE  OrderInv'
<1> SUFFICES ASSUME NEW p \in Reporters PROVE OrderOf(p)'
  BY DEF OrderInv
<1> DEFINE Q == queue[p]
           I == inbox[p]
           U == uploaded[p]
           n == reported[p]
<1>0. /\ Q \in Seq(Records) /\ I \in Seq(Records) /\ U \in Seq(Records)
      /\ n \in Nat
      /\ Range(<<>>) = {} /\ Increasing(<<>>)
  BY DEF Sequenced, Types, Range, Increasing
<1>a. /\ Increasing(I) /\ Increasing(Q)
      /\ Range(U) \subseteq 1..n /\ Held(p) \subseteq 1..n
      /\ Range(I) \subseteq 1..n /\ Range(Q) \subseteq 1..n
      /\ Precedes(Range(U), Held(p) \cup Range(I) \cup Range(Q))
      /\ Precedes(Held(p), Range(I) \cup Range(Q))
      /\ Precedes(Range(I), Range(Q))
  BY DEF OrderInv, OrderOf
<1>b. ASSUME /\ Increasing(inbox'[p]) /\ Increasing(queue'[p])
             /\ Range(uploaded'[p]) \subseteq 1..reported'[p]
             /\ Held(p)' \subseteq 1..reported'[p]
             /\ Range(inbox'[p]) \subseteq 1..reported'[p]
             /\ Range(queue'[p]) \subseteq 1..reported'[p]
             /\ Precedes(Range(uploaded'[p]),
                         Held(p)' \cup Range(inbox'[p]) \cup Range(queue'[p]))
             /\ Precedes(Held(p)', Range(inbox'[p]) \cup Range(queue'[p]))
             /\ Precedes(Range(inbox'[p]), Range(queue'[p]))
      PROVE  OrderOf(p)'
  BY <1>b DEF OrderOf, Increasing, Precedes, Range
<1>1. CASE Loses(p)
  <2>1. /\ reported'[p] = n /\ uploaded'[p] = U
        /\ inbox'[p] \in {I, <<>>} /\ queue'[p] \in {Q, <<>>}
        /\ Held(p)' \subseteq Held(p)
    BY <1>1 DEF Loses
  <2> HIDE DEF Q, I, U, n
  <2>2. /\ Increasing(inbox'[p]) /\ Range(inbox'[p]) \subseteq Range(I)
        /\ Increasing(queue'[p]) /\ Range(queue'[p]) \subseteq Range(Q)
    BY <1>0, <1>a, <2>1
  <2> QED
    BY <1>a, <1>b, <2>1, <2>2 DEF Precedes
<1>2. CASE Reports(p)
  <2>1. /\ reported'[p] = n + 1
        /\ queue'[p] = Q \/ queue'[p] = Append(Q, n + 1)
        /\ inbox'[p] = I /\ uploaded'[p] = U /\ Held(p)' = Held(p)
    BY <1>2 DEF Reports
  <2> HIDE DEF Q, I, U, n
  <2>2. n + 1 \in Records /\ \A i \in 1..n : i \in 1..(n + 1) /\ i < n + 1
    BY <1>0 DEF Records
  <2>3. Precedes(Range(Q), {n + 1})
    BY <1>a, <2>2 DEF Precedes
  <2>4. /\ Increasing(Append(Q, n + 1))
        /\ Range(Append(Q, n + 1)) = Range(Q) \cup {n + 1}
    BY <1>0, <1>a, <2>2, <2>3, AppendIncreasing
  <2>5. /\ Increasing(queue'[p])
        /\ Range(queue'[p]) \subseteq Range(Q) \cup {n + 1}
    BY <1>a, <2>1, <2>4
  <2>6. n + 1 \in 1..(n + 1)
    BY <1>0
  <2> QED
    BY <1>a, <1>b, <2>1, <2>2, <2>5, <2>6 DEF Precedes
<1>3. CASE Carries(p)
  <2>1. /\ Q # <<>> /\ inbox'[p] = Append(I, Head(Q)) /\ queue'[p] = Tail(Q)
        /\ reported'[p] = n /\ uploaded'[p] = U /\ Held(p)' = Held(p)
    BY <1>3 DEF Carries
  <2> HIDE DEF Q, I, U, n
  <2>2. /\ Head(Q) \in Records
        /\ Increasing(Tail(Q))
        /\ Range(Q) = {Head(Q)} \cup Range(Tail(Q))
        /\ Precedes({Head(Q)}, Range(Tail(Q)))
    BY <1>0, <1>a, <2>1, HeadTailProperties, TailIncreasing
  <2>3. Precedes(Range(I), {Head(Q)})
    BY <1>a, <2>2 DEF Precedes
  <2>4. /\ Increasing(Append(I, Head(Q)))
        /\ Range(Append(I, Head(Q))) = Range(I) \cup {Head(Q)}
    BY <1>0, <1>a, <2>2, <2>3, AppendIncreasing
  <2> QED
    BY <1>a, <1>b, <2>1, <2>2, <2>4 DEF Precedes
<1>4. CASE Takes(p)
  <2>1. /\ I # <<>> /\ inbox'[p] = Tail(I) /\ Held(p)' = {Head(I)}
        /\ reported'[p] = n /\ uploaded'[p] = U /\ queue'[p] = Q
    BY <1>4 DEF Takes
  <2> HIDE DEF Q, I, U, n
  <2>2. /\ Increasing(Tail(I))
        /\ Range(I) = {Head(I)} \cup Range(Tail(I))
        /\ Precedes({Head(I)}, Range(Tail(I)))
    BY <1>0, <1>a, <2>1, TailIncreasing
  <2> QED
    BY <1>a, <1>b, <2>1, <2>2 DEF Precedes
<1>5. CASE Sends(p)
  <2>1. PICK r \in Held(p) : uploaded'[p] = Append(U, r)
    BY <1>5 DEF Sends
  <2>2. /\ reported'[p] = n /\ Held(p)' = {} /\ inbox'[p] = I /\ queue'[p] = Q
        /\ r \in Records
    BY <1>5, <2>1 DEF Sends, Held
  <2> HIDE DEF Q, I, U, n
  <2>3. Range(Append(U, r)) = Range(U) \cup {r}
    <3>1. /\ DOMAIN Append(U, r) = 1..(Len(U) + 1)
          /\ DOMAIN U = 1..Len(U)
          /\ Len(U) \in Nat
          /\ \A i \in 1..Len(U) : Append(U, r)[i] = U[i]
          /\ Append(U, r)[Len(U) + 1] = r
      BY <1>0, <2>2, AppendProperties
    <3> QED
      BY <3>1 DEF Range
  <2> QED
    BY <1>a, <1>b, <2>1, <2>2, <2>3 DEF Precedes
<1> QED
  BY <1>1, <1>2, <1>3, <1>4, <1>5, Moves

\* A list has every living process, kill tells those listed, and a new log
\* server has what its parent has.
LEMMA StopStep ==
    ASSUME Types, Flags, StopInv, AfterStopInv, [Next]_vars
    PROVE  StopInv' /\ AfterStopInv'
<1> USE DEF Flags, StopInv, StopAsked, AfterStopInv, stop, flags
<1>1. CASE ReporterStep
  BY <1>1 DEF ReporterStep, Report, ReporterDies, Transfer
<1>2. CASE Start \/ Top \/ EnterRecv \/ Exit \/ Upload \/ Crash
  BY <1>2 DEF Start, Top, EnterRecv, Exit, Upload, Crash, ClosePull
<1>3. CASE \E p \in Reporters : Recv(p)
  BY <1>3 DEF Recv
<1>4. CASE Check \/ NothingToDo \/ RestartFails \/ Wake
  BY <1>4 DEF Check, NothingToDo, RestartFails, Wake
<1>5. CASE Restart
  <2>1. /\ server' = "start" /\ sup' = "sleep" /\ afterStop' = 0
        /\ targets' = targets \ {"server"}
        /\ server_flag' = sup_flag /\ sup_flag' = sup_flag
    BY <1>5 DEF Restart, NewServer
  <2>2. missed' <=> "sup" \in targets /\ ~sup_flag
    BY <1>5 DEF Restart, NewServer
  <2>3. StopInv'
    BY <2>1, <2>2
  <2>4. AfterStopInv'
    BY <2>1
  <2> QED
    BY <2>3, <2>4
<1>6. CASE ListPids
  <2>1. /\ targets' = targets \cup Alive
        /\ UNCHANGED <<server, sup, server_flag, sup_flag, afterStop>>
    BY <1>6 DEF ListPids
  <2>2. /\ "server" \in Alive <=> server # "dead"
        /\ "sup" \in Alive <=> sup # "gone"
    BY DEF Alive
  <2> QED
    BY <2>1, <2>2
<1>7. CASE TellSup
  BY <1>7 DEF TellSup
<1>8. CASE TellServer
  BY <1>8 DEF TellServer, ClosePull
<1>9. CASE UNCHANGED vars
  BY <1>9 DEF vars
<1> QED
  BY <1>1, <1>2, <1>3, <1>4, <1>5, <1>6, <1>7, <1>8, <1>9
  DEF Next, ServerStep, SupStep, KillStep

-----------------------------------------------------------------------------
\* Types, the order of the records, and who has been told to stop.
THEOREM InvHolds == Spec => []IInv
<1>1. IInv /\ [Next]_vars => IInv'
  BY SequencedStep, TypesStep, FlagsStep, OrderStep, StopStep DEF IInv
<1> QED
  BY <1>1, InitInv, PTL DEF Spec

\* Every variable has its type: no socket or pipe ever holds more than its mark.
THEOREM TypeCorrect == Spec => []TypeOK
<1>1. IInv => TypeOK
  BY DEF IInv, Sequenced, Types, Flags, TypeOK
<1> QED
  BY <1>1, InvHolds, PTL

\* A log server that has been told to stop takes one more record at most.
THEOREM StopsSoon == Spec => []StopsWithinOneRecord
<1>1. IInv => StopsWithinOneRecord
  BY DEF IInv, AfterStopInv, StopsWithinOneRecord
<1> QED
  BY <1>1, InvHolds, PTL

\* Only a log server that was forked between the list of the processes and the
\* signal to its supervisor can outlive it without being told.
THEOREM NobodyForgotten == Spec => []NoServerIsForgotten
<1>1. IInv => NoServerIsForgotten
  BY DEF IInv, StopInv, StopAsked, NoServerIsForgotten
<1> QED
  BY <1>1, InvHolds, PTL

-----------------------------------------------------------------------------
\* Every step reports a record, uploads one above all of its process that have
\* arrived, or is nothing to the reader of the log.
LEMMA StepRefines ==
    ASSUME IInv, [Next]_vars
    PROVE  [Channel!Next]_(Channel!vars)
<1> USE DEF Channel!vars, Channel!Next
<1>1. CASE \E p \in Reporters : Report(p)
  BY <1>1 DEF Report, Channel!Report
<1>2. CASE Upload
  <2>1. reported' = reported
    BY <1>2 DEF Upload
  <2>2. CASE uploaded' = uploaded
    BY <2>1, <2>2
  <2>3. CASE uploaded' # uploaded
    <3>1. PICK r \in current :
            uploaded' = [uploaded EXCEPT ![r.from] = Append(@, r.n)]
      BY <1>2, <2>3 DEF Upload
    <3>2. r.from \in Reporters /\ r.n \in Records /\ r = [from |-> r.from, n |-> r.n]
      BY DEF IInv, Types
    <3>3. r.n \in Held(r.from) /\ OrderOf(r.from)
      BY <3>2 DEF Held, IInv, OrderInv
    <3>4. r.n \in 1..reported[r.from]
      BY <3>3 DEF OrderOf
    <3>5. \A i \in DOMAIN uploaded[r.from] : uploaded[r.from][i] < r.n
      BY <3>3 DEF OrderOf, Precedes, Range
    <3>6. Channel!Upload(r.from)
      BY <2>1, <3>1, <3>4, <3>5 DEF Channel!Upload
    <3> QED
      BY <3>2, <3>6
  <2> QED
    BY <2>2, <2>3
<1>3. CASE \E p \in Reporters : ReporterDies(p) \/ Transfer(p) \/ Recv(p)
  BY <1>3 DEF ReporterDies, Transfer, Recv, records
<1>4. CASE Top \/ KillStep \/ Crash \/ Start \/ EnterRecv \/ Exit \/ SupStep
           \/ UNCHANGED vars
  BY <1>4 DEF Top, KillStep, ListPids, TellSup, TellServer, Crash, Start,
              EnterRecv, Exit, SupStep, Check, NothingToDo, Restart,
              RestartFails, Wake, records, vars
<1> QED
  BY <1>1, <1>2, <1>3, <1>4 DEF Next, ReporterStep, ServerStep

\* What is uploaded of a process is a subsequence of what it has reported,
\* whatever fails and however the log server mixes the processes.
THEOREM Refinement == Spec => ChannelSpec
<1>1. Init => Channel!Init
  BY DEF Init, Channel!Init, NoRecords
<1>2. IInv /\ [Next]_vars => [Channel!Next]_(Channel!vars)
  BY StepRefines
<1> QED
  BY <1>1, <1>2, InvHolds, PTL DEF Spec, ChannelSpec, Channel!Spec

-----------------------------------------------------------------------------
\* StateOK.  The log server leaves its loop with the flag set only, so that the
\* loop of gflog_run, to which it returns, ends it.

ExitIsTold == server = "exit" => server_flag

\* Nobody returns from gflog_server without having been told to stop.
THEOREM ExitIsToldHolds == Spec => []ExitIsTold
<1>1. Init => ExitIsTold
  BY DEF Init, ExitIsTold
<1>2. ExitIsTold /\ [Next]_vars => ExitIsTold'
  <2> SUFFICES ASSUME ExitIsTold, [Next]_vars PROVE ExitIsTold'
    OBVIOUS
  <2> USE DEF ExitIsTold, stop, flags, ClosePull
  <2>1. CASE ReporterStep \/ Crash \/ UNCHANGED vars
    BY <2>1 DEF ReporterStep, Report, ReporterDies, Transfer, Crash, vars
  <2>2. CASE ServerStep
    BY <2>2 DEF ServerStep, Start, Top, EnterRecv, Recv, Upload, Exit
  <2>3. CASE SupStep
    BY <2>3 DEF SupStep, Check, NothingToDo, Restart, NewServer, RestartFails, Wake
  <2>4. CASE KillStep
    BY <2>4 DEF KillStep, ListPids, TellSup, TellServer
  <2> QED
    BY <2>1, <2>2, <2>3, <2>4 DEF Next
<1> QED
  BY <1>1, <1>2, PTL DEF Spec

\* Neither process is ever stuck: the log server stops only where it waits for
\* a record or is dead, its supervisor only where it has ended.
THEOREM StateOKHolds == Spec /\ []StepRule => []StateOK
<1>1. IInv /\ TypeOK /\ ExitIsTold /\ StepRule => StateOK
  <2> SUFFICES ASSUME IInv, TypeOK, ExitIsTold
               PROVE  /\ server # "dead" /\ ~WaitsForRecord => ServerReady
                      /\ sup # "gone" => SupReady
    BY DEF StateOK, PipelineCanGoOn, StepRule
  <2>1. /\ server \in ServerLocations /\ sup \in SupLocations
        /\ server = "upload" => current # {}
    BY DEF IInv, Types
  <2> QED
    BY <2>1 DEF ExitIsTold, ServerReady, SupReady, WaitsForRecord,
                ServerLocations, SupLocations
<1> QED
  BY <1>1, InvHolds, TypeCorrect, ExitIsToldHolds, PTL

-----------------------------------------------------------------------------
\* StopCompletes.  Both flags stay set.  The supervisor goes from "wait" to
\* "sleep" and "check", and ends; from then on the log server is not replaced,
\* and takes one record at most before it sees the flag and ends.

\* The flags of a stop request stay set: a new log server inherits them.
LEMMA ToldStays ==
    ASSUME sup_flag, server_flag, [Next]_vars
    PROVE  sup_flag' /\ server_flag'
<1> USE DEF stop, flags
<1>1. CASE KillStep
  BY <1>1 DEF KillStep, ListPids, TellSup, TellServer
<1>2. CASE Restart
  BY <1>2 DEF Restart
<1>3. CASE ReporterStep \/ Crash \/ ServerStep \/ UNCHANGED vars
  BY <1>3 DEF ReporterStep, Report, ReporterDies, Transfer, Crash, ServerStep,
              Start, Top, EnterRecv, Recv, Upload, Exit, vars
<1>4. CASE Check \/ NothingToDo \/ RestartFails \/ Wake
  BY <1>4 DEF Check, NothingToDo, RestartFails, Wake
<1> QED
  BY <1>1, <1>2, <1>3, <1>4 DEF Next, SupStep

\* The way of the supervisor after a stop request.
LEMMA SupMoves ==
    ASSUME sup_flag, [Next]_vars
    PROVE  /\ sup = "wait" => sup' \in {"wait", "sleep"}
           /\ sup = "sleep" => sup' \in {"sleep", "check"}
           /\ sup = "check" => sup' \in {"check", "gone"}
           /\ sup = "gone" => sup' = "gone"
           /\ SupStep => sup' # sup
<1>0. SupStep => /\ sup = "wait" => sup' = "sleep"
                 /\ sup = "sleep" => sup' = "check"
                 /\ sup = "check" => sup' = "gone"
                 /\ sup \in {"wait", "sleep", "check"}
  BY DEF SupStep, Check, NothingToDo, Restart, RestartFails, Wake
<1>1. CASE KillStep
  BY <1>0, <1>1 DEF KillStep, ListPids, TellSup, TellServer
<1>2. CASE ReporterStep \/ Crash \/ ServerStep \/ UNCHANGED vars
  BY <1>0, <1>2 DEF ReporterStep, Report, ReporterDies, Transfer, Crash,
              ServerStep, Start, Top, EnterRecv, Recv, Upload, Exit, vars
<1>3. CASE SupStep
  BY <1>0, <1>3
<1> QED
  BY <1>1, <1>2, <1>3 DEF Next

\* The way of the log server once nobody replaces it.
LEMMA ServerMoves ==
    ASSUME Sequenced, server_flag, sup = "gone", [Next]_vars
    PROVE  /\ server = "start" => server' \in {"start", "top", "dead"}
           /\ server = "call" => server' \in {"call", "recv", "dead"}
           /\ server = "recv" /\ Fed =>
                \/ server' = "recv" /\ Fed'
                \/ server' \in {"upload", "dead"}
           /\ server = "upload" => server' \in {"upload", "top", "dead"}
           /\ server = "top" => server' \in {"top", "exit", "dead"}
           /\ server = "exit" => server' \in {"exit", "dead"}
           /\ ServerStep => server' # server
<1> USE DEF ClosePull
<1>1. CASE ServerStep
  BY <1>1 DEF ServerStep, Start, Top, EnterRecv, Recv, Upload, Exit
<1>2. CASE \E p \in Reporters : Transfer(p)
  <2>1. PICK p \in Reporters : Transfer(p)
    BY <1>2
  <2>2. /\ queue[p] # <<>> /\ queue[p] \in Seq(Records) /\ inbox[p] \in Seq(Records)
        /\ inbox'[p] = Append(inbox[p], Head(queue[p]))
        /\ server' = server
    BY <2>1 DEF Transfer, Sequenced
  <2>3. inbox'[p] # <<>>
    <3>1. Head(queue[p]) \in Records
      BY <2>2, HeadTailProperties
    <3> QED
      BY <2>2, <3>1, AppendProperties
  <2>4. Fed'
    BY <2>3 DEF Fed
  <2> QED
    BY <1>1, <2>2, <2>4
<1>3. CASE \E p \in Reporters : Report(p) \/ ReporterDies(p)
  <2>1. inbox' = inbox /\ server' = server
    BY <1>3 DEF Report, ReporterDies
  <2> QED
    BY <1>1, <2>1 DEF Fed
<1>4. CASE TellServer
  <2>1. \/ server' = server /\ inbox' = inbox
        \/ server = "recv" /\ ~Fed /\ server' = "exit"
    <3>1. IF server = "recv" /\ ~Fed THEN ClosePull ELSE UNCHANGED <<server, inbox>>
      BY <1>4 DEF TellServer
    <3> QED
      BY <3>1
  <2> QED
    BY <1>1, <2>1 DEF Fed
<1>5. CASE ListPids \/ TellSup \/ UNCHANGED vars
  <2>1. inbox' = inbox /\ server' = server
    BY <1>5 DEF ListPids, TellSup, vars
  <2> QED
    BY <1>1, <2>1 DEF Fed
<1>6. CASE Crash
  BY <1>1, <1>6 DEF Crash
<1>7. CASE SupStep
  BY <1>7 DEF SupStep, Check, NothingToDo, Restart, RestartFails, Wake
<1> QED
  BY <1>1, <1>2, <1>3, <1>4, <1>5, <1>6, <1>7 DEF Next, ReporterStep, KillStep

\* A stop request ends the supervisor, and the log server unless it waits for a
\* record, when both run on.
THEOREM StopCompletesHolds == FairSpec /\ []StepRule => StopCompletes
<1> DEFINE Told == sup_flag /\ server_flag
           Wait == sup = "wait"
           Sleep == sup = "sleep"
           Looks == sup = "check"
           Gone == sup = "gone"
           Starts == server = "start"
           Called == server = "call"
           Receives == server = "recv" /\ Fed
           Uploads == server = "upload"
           AtTop == server = "top"
           Exits == server = "exit"
           Done == server = "dead" \/ WaitsForRecord
<1>1. IInv => /\ Wait \/ Sleep \/ Looks \/ Gone
              /\ Starts \/ Called \/ Receives \/ Uploads \/ AtTop \/ Exits \/ Done
  BY DEF IInv, Types, ServerLocations, SupLocations, WaitsForRecord
<1>2. IInv /\ [Next]_vars /\ Told =>
        /\ Told'
        /\ Wait => Wait' \/ Sleep'
        /\ Sleep => Sleep' \/ Looks'
        /\ Looks => Looks' \/ Gone'
        /\ Gone => Gone'
  BY ToldStays, SupMoves
<1>3. IInv /\ <<SupStep>>_vars /\ Told =>
        (Wait => ~Wait') /\ (Sleep => ~Sleep') /\ (Looks => ~Looks')
  BY SupMoves DEF Next
<1>4. IInv /\ [Next]_vars /\ Told /\ Gone =>
        /\ Starts => Starts' \/ AtTop' \/ Done'
        /\ Called => Called' \/ Receives' \/ Done'
        /\ Receives => Receives' \/ Uploads' \/ Done'
        /\ Uploads => Uploads' \/ AtTop' \/ Done'
        /\ AtTop => AtTop' \/ Exits' \/ Done'
        /\ Exits => Exits' \/ Done'
  BY ServerMoves DEF IInv, WaitsForRecord
<1>5. IInv /\ <<ServerStep>>_vars /\ Told /\ Gone =>
        /\ Starts => ~Starts'
        /\ Called => ~Called'
        /\ Receives => ~Receives'
        /\ Uploads => ~Uploads'
        /\ AtTop => ~AtTop'
        /\ Exits => ~Exits'
  BY ServerMoves DEF IInv, Next
<1>6. StateOK =>
        /\ Wait \/ Sleep \/ Looks => ENABLED <<SupStep>>_vars
        /\ Starts \/ Called \/ Receives \/ Uploads \/ AtTop \/ Exits =>
             ENABLED <<ServerStep>>_vars
  BY DEF StateOK, PipelineCanGoOn, WaitsForRecord
<1>7. /\ sup_flag /\ server_flag <=> Told
      /\ sup = "gone" /\ (server = "dead" \/ WaitsForRecord) <=> Gone /\ Done
  OBVIOUS
<1> HIDE DEF Told, Wait, Sleep, Looks, Gone, Starts, Called, Receives, Uploads,
             AtTop, Exits, Done
<1> QED
  BY <1>1, <1>2, <1>3, <1>4, <1>5, <1>6, <1>7, InvHolds, StateOKHolds, PTL
     DEF FairSpec, Spec, StopCompletes

-----------------------------------------------------------------------------
\* RecordsMoveOn.  While nobody asks the pipeline to stop, a log server that has
\* died is replaced and one that lives makes room on every pipe; so the record
\* at the head of a queue goes, and each one behind it moves up.

\* The supervisor keeps what fork has returned.
ChildKept == pid_log = "child"

\* A fork that fails leaves pid_log as it was.
THEOREM ChildKeptHolds == Spec => []ChildKept
<1>1. Init => ChildKept
  BY DEF Init, ChildKept
<1>2. ChildKept /\ [Next]_vars => ChildKept'
  <2> SUFFICES ASSUME ChildKept, [Next]_vars PROVE ChildKept'
    OBVIOUS
  <2> USE DEF ChildKept
  <2>1. CASE KillStep
    BY <2>1 DEF KillStep, ListPids, TellSup, TellServer
  <2>2. CASE SupStep
    BY <2>2 DEF SupStep, Check, NothingToDo, Restart, NewServer, RestartFails, Wake
  <2>3. CASE ReporterStep \/ Crash \/ ServerStep \/ UNCHANGED vars
    BY <2>3 DEF ReporterStep, Report, ReporterDies, Transfer, Crash, ServerStep,
                Start, Top, EnterRecv, Recv, Upload, Exit, vars
  <2> QED
    BY <2>1, <2>2, <2>3 DEF Next
<1> QED
  BY <1>1, <1>2, PTL DEF Spec

\* No more log servers die.
NoCrash == crashes' = crashes

FaultsEnd == <>[][NoCrash]_vars

\* Fewer than n log servers are still to die.
FewerToDie(n) == MaxCrashes - crashes < n

\* When fewer than n are to die, at last no more do.
DyingEnds(n) == [](FewerToDie(n) => FaultsEnd)

\* Induction over the natural numbers, for DyingEnds.  It holds of every
\* formula; the provers have no rule for it when the formula is a temporal one.
FaultInduction ==
    DyingEnds(0) /\ (\A n \in Nat : DyingEnds(n) => DyingEnds(n + 1))
      => \A n \in Nat : DyingEnds(n)

\* The model has no more than MaxCrashes crashes, so they come to an end.
THEOREM FaultsEndHolds == Spec /\ FaultInduction => FaultsEnd
<1>1. Spec => DyingEnds(0)
  <2>1. IInv => ~FewerToDie(0)
    BY GfLogAssumption DEF IInv, Types, FewerToDie
  <2> QED
    BY <2>1, InvHolds, PTL DEF DyingEnds
<1>2. ASSUME NEW n \in Nat
      PROVE  Spec => (DyingEnds(n) => DyingEnds(n + 1))
  <2>1. IInv /\ IInv' /\ [Next]_vars =>
          (FewerToDie(n + 1) =>
             FewerToDie(n + 1)' /\ ([NoCrash]_vars \/ FewerToDie(n)'))
    <3> SUFFICES ASSUME IInv, IInv', [Next]_vars, FewerToDie(n + 1)
                 PROVE  FewerToDie(n + 1)' /\ ([NoCrash]_vars \/ FewerToDie(n)')
      OBVIOUS
    <3>1. /\ crashes \in Nat /\ crashes' \in Nat /\ MaxCrashes \in Nat
          /\ MaxCrashes - crashes < n + 1
      BY GfLogAssumption DEF IInv, Types, FewerToDie
    <3>2. crashes' = crashes \/ crashes' = crashes + 1
      BY DEF Next, ReporterStep, Crash, Report, ReporterDies, Transfer,
             KillStep, ListPids, TellSup, TellServer, ServerStep, Start, Top,
             EnterRecv, Recv, Upload, Exit, SupStep, Check, NothingToDo,
             Restart, RestartFails, Wake, vars
    <3>3. CASE crashes' = crashes
      BY <3>3 DEF FewerToDie, NoCrash
    <3>4. CASE crashes' = crashes + 1
      BY <3>1, <3>4 DEF FewerToDie
    <3> QED
      BY <3>2, <3>3, <3>4
  <2> QED
    BY <2>1, InvHolds, PTL DEF Spec, DyingEnds, FaultsEnd
<1>3. Spec /\ FaultInduction => \A n \in Nat : DyingEnds(n)
  BY <1>1, <1>2 DEF FaultInduction
<1>4. MaxCrashes + 1 \in Nat
  BY GfLogAssumption
<1>5. Spec /\ FaultInduction => DyingEnds(MaxCrashes + 1)
  BY <1>3, <1>4
<1>6. IInv => FewerToDie(MaxCrashes + 1)
  BY GfLogAssumption DEF IInv, Types, FewerToDie
<1> QED
  BY <1>5, <1>6, InvHolds, PTL DEF DyingEnds

Within(p, r, n) == \A i \in DOMAIN queue[p] : queue[p][i] = r => i <= n

\* Record r of p is among the first n of its queue and no stop is asked for.
Waits(p, r, n) == ~StopAsked /\ Queued(p, r) /\ Within(p, r, n)
Left(p, r) == StopAsked \/ ~Queued(p, r)

\* A record in the queue only moves up: the records reported later, which are
\* other ones, go behind it.
LEMMA QueueStep ==
    ASSUME IInv, [Next]_vars, NEW p \in Reporters, NEW r \in Records,
           NEW n \in Nat, Waits(p, r, n + 1)
    PROVE  /\ Waits(p, r, n + 1)' \/ Left(p, r)'
           /\ Transfer(p) => Waits(p, r, n)' \/ Left(p, r)'
<1> DEFINE Q == queue[p]
<1>0. /\ Q \in Seq(Records) /\ DOMAIN Q = 1..Len(Q) /\ Len(Q) \in Nat
      /\ Within(p, r, n + 1) /\ Queued(p, r)
      /\ reported[p] \in Nat /\ Range(Q) \subseteq 1..reported[p]
  <2>1. Q \in Seq(Records) /\ reported[p] \in Nat
    BY DEF IInv, Sequenced, Types
  <2>2. Range(Q) \subseteq 1..reported[p]
    BY DEF IInv, OrderInv, OrderOf
  <2>3. Within(p, r, n + 1) /\ Queued(p, r)
    BY DEF Waits
  <2> HIDE DEF Q
  <2> QED
    BY <2>1, <2>2, <2>3
<1>a. Q # <<>>
  BY <1>0 DEF Queued
<1>1. ASSUME queue'[p] = Q PROVE Within(p, r, n + 1)'
  BY <1>0, <1>1 DEF Within
<1>2. ASSUME queue'[p] = Tail(Q) PROVE Within(p, r, n)' /\ Within(p, r, n + 1)'
  <2>1. /\ Tail(Q) \in Seq(Records) /\ Len(Tail(Q)) = Len(Q) - 1
        /\ \A i \in 1..Len(Tail(Q)) : Tail(Q)[i] = Q[i + 1]
        /\ DOMAIN Tail(Q) = 1..(Len(Q) - 1)
    BY <1>0, <1>a, HeadTailProperties
  <2>2. ASSUME NEW i \in DOMAIN queue'[p], queue'[p][i] = r
        PROVE  i <= n /\ i <= n + 1
    <3>1. i + 1 \in DOMAIN Q /\ Q[i + 1] = r /\ i \in Int
      BY <1>0, <1>2, <2>1, <2>2
    <3>2. i + 1 <= n + 1
      BY <1>0, <3>1 DEF Within
    <3> QED
      BY <3>1, <3>2
  <2> QED
    BY <2>2 DEF Within
<1>3. ASSUME queue'[p] = Append(Q, reported[p] + 1) PROVE Within(p, r, n + 1)'
  <2>1. reported[p] + 1 \in Records
    BY <1>0 DEF Records
  <2>2. /\ Len(Append(Q, reported[p] + 1)) = Len(Q) + 1
        /\ DOMAIN Append(Q, reported[p] + 1) = 1..(Len(Q) + 1)
        /\ \A i \in 1..Len(Q) : Append(Q, reported[p] + 1)[i] = Q[i]
        /\ Append(Q, reported[p] + 1)[Len(Q) + 1] = reported[p] + 1
    BY <1>0, <2>1, AppendProperties
  <2>3. r # reported[p] + 1
    <3>1. r \in Range(Q)
      BY <1>0 DEF Queued, Range
    <3>2. r \in 1..reported[p]
      BY <1>0, <3>1
    <3> QED
      BY <1>0, <3>2
  <2>4. ASSUME NEW i \in DOMAIN queue'[p], queue'[p][i] = r PROVE i <= n + 1
    <3>1. i \in 1..Len(Q) /\ Q[i] = r
      BY <1>0, <1>3, <2>2, <2>3, <2>4
    <3> QED
      BY <1>0, <3>1 DEF Within
  <2> QED
    BY <2>4 DEF Within
<1>4. ASSUME queue'[p] = <<>> PROVE ~Queued(p, r)'
  BY <1>4 DEF Queued
<1>5. \/ queue'[p] = Q \/ queue'[p] = Tail(Q) \/ queue'[p] = <<>>
      \/ queue'[p] = Append(Q, reported[p] + 1)
  BY Moves DEF IInv, Loses, Reports, Carries, Takes, Sends
<1>6. Within(p, r, n + 1)' \/ ~Queued(p, r)'
  BY <1>1, <1>2, <1>3, <1>4, <1>5
<1>7. Transfer(p) => Within(p, r, n)'
  <2> SUFFICES ASSUME Transfer(p) PROVE Within(p, r, n)'
    OBVIOUS
  <2>1. queue'[p] = Tail(Q)
    BY DEF Transfer, IInv, Sequenced
  <2> QED
    BY <1>2, <2>1
<1> QED
  BY <1>6, <1>7 DEF Waits, Left

Full(p) == Len(inbox[p]) = RecvHWM
Room(p) == PullSocketOpen /\ Len(inbox[p]) < RecvHWM

\* While nobody asks for a stop, nobody is told of one.
LEMMA NobodyTold ==
    ASSUME IInv, ~StopAsked
    PROVE  ~server_flag /\ ~sup_flag /\ "server" \notin targets /\ sup # "gone"
BY DEF IInv, StopInv, StopAsked

\* The way of the log server to room on the pipe of p, and of the supervisor to
\* a new log server, while nobody asks for a stop.
LEMMA RoomStep ==
    ASSUME IInv, ChildKept, [Next]_vars, [NoCrash]_vars, ~StopAsked, ~StopAsked',
           NEW p \in Reporters
    PROVE  /\ server = "dead" => server' \in {"dead", "start"}
           /\ server = "start" => server' \in {"start", "top"}
           /\ server = "top" /\ Full(p) => server' \in {"top", "call"} /\ Full(p)'
           /\ server = "call" /\ Full(p) => server' \in {"call", "recv"} /\ Full(p)'
           /\ server = "recv" /\ Full(p) => \/ server' \in {"recv", "upload"} /\ Full(p)'
                                            \/ Room(p)'
           /\ server = "upload" /\ Full(p) => server' \in {"upload", "top"} /\ Full(p)'
           /\ Room(p) => Room(p)' \/ Transfer(p)
           /\ sup = "wait" => sup' \in {"wait", "sleep"}
           /\ sup = "sleep" => sup' \in {"sleep", "check"}
           /\ sup = "check" => sup' \in {"check", "wait"}
<1>0. /\ ~server_flag /\ ~sup_flag /\ "server" \notin targets /\ sup # "gone"
      /\ "sup" \notin targets
      /\ crashes' = crashes /\ crashes \in Nat
      /\ inbox[p] \in Seq(Records)
      /\ Len(inbox[p]) \in Nat /\ RecvHWM \in Nat \ {0}
  BY NobodyTold, GfLogAssumption
     DEF NoCrash, vars, IInv, Types, Sequenced, StopAsked
<1>a. ASSUME server' = server, inbox'[p] = inbox[p]
      PROVE  (Full(p)' <=> Full(p)) /\ (Room(p)' <=> Room(p))
  BY <1>a DEF Full, Room, PullSocketOpen
<1>b. ASSUME inbox'[p] = inbox[p], server \in {"top", "call", "recv", "upload"},
             server' \in {"top", "call", "recv", "upload"}
      PROVE  (Full(p)' <=> Full(p)) /\ (Room(p)' <=> Room(p))
  BY <1>b DEF Full, Room, PullSocketOpen
<1>c. server \notin {"top", "call", "recv", "upload"} => ~Room(p)
  BY DEF Room, PullSocketOpen
<1>1. CASE \E q \in Reporters : Transfer(q)
  <2>1. PICK q \in Reporters : Transfer(q)
    BY <1>1
  <2>2. server' = server /\ sup' = sup
    BY <2>1 DEF Transfer
  <2>3. CASE q = p
    <3>1. Len(inbox[p]) < RecvHWM /\ Transfer(p)
      BY <2>1, <2>3 DEF Transfer
    <3>2. ~Full(p)
      BY <3>1, <1>0 DEF Full
    <3> QED
      BY <2>2, <3>1, <3>2
  <2>4. CASE q # p
    <3>1. inbox'[p] = inbox[p]
      BY <2>1, <2>4 DEF Transfer, IInv, Sequenced
    <3> QED
      BY <1>a, <2>2, <3>1
  <2> QED
    BY <2>3, <2>4
<1>2. CASE \E q \in Reporters : Recv(q)
  <2>1. PICK q \in Reporters : Recv(q)
    BY <1>2
  <2>2. server = "recv" /\ server' = "upload" /\ sup' = sup
    BY <2>1 DEF Recv
  <2>3. CASE q = p
    <3>1. inbox[p] # <<>> /\ inbox'[p] = Tail(inbox[p])
      BY <2>1, <2>3 DEF Recv, IInv, Sequenced
    <3>2. Len(inbox'[p]) = Len(inbox[p]) - 1
      BY <1>0, <3>1, HeadTailProperties
    <3>3. Len(inbox[p]) <= RecvHWM
      BY DEF IInv, Sequenced
    <3>4. Len(inbox'[p]) < RecvHWM
      BY <1>0, <3>2, <3>3
    <3>5. Room(p)'
      BY <2>2, <3>4 DEF Room, PullSocketOpen
    <3> QED
      BY <2>2, <3>5
  <2>4. CASE q # p
    <3>1. inbox'[p] = inbox[p]
      BY <2>1, <2>4 DEF Recv, IInv, Sequenced
    <3> QED
      BY <1>b, <2>2, <3>1
  <2> QED
    BY <2>3, <2>4
<1>3. CASE Start \/ EnterRecv \/ Upload \/ Top
  <2>1. /\ inbox' = inbox /\ sup' = sup
        /\ \/ server = "start" /\ server' = "top"
           \/ server = "call" /\ server' = "recv"
           \/ server = "upload" /\ server' = "top"
           \/ server = "top" /\ server' = "call"
    BY <1>0, <1>3 DEF Start, EnterRecv, Upload, Top
  <2> QED
    BY <1>b, <1>c, <2>1
<1>4. CASE Exit
  BY <1>0, <1>4 DEF Exit
<1>5. CASE Restart
  <2>1. server = "dead" /\ server' = "start" /\ sup = "wait" /\ sup' = "sleep"
    BY <1>5 DEF Restart, NewServer, WaitFails
  <2> QED
    BY <1>c, <2>1
<1>6. CASE Check \/ NothingToDo \/ RestartFails \/ Wake
  <2>1. /\ server' = server /\ inbox' = inbox
        /\ \/ sup = "check" /\ sup' = "wait"
           \/ sup = "wait" /\ sup' = "sleep"
           \/ sup = "sleep" /\ sup' = "check"
    BY <1>0, <1>6 DEF Check, NothingToDo, RestartFails, Wake
  <2> QED
    BY <1>a, <2>1
<1>7. CASE Crash
  BY <1>0, <1>7 DEF Crash
<1>8. CASE KillStep
  <2>1. ~TellSup /\ ~TellServer
    BY <1>0 DEF TellSup, TellServer
  <2>2. ListPids
    BY <1>8, <2>1 DEF KillStep
  <2>3. server' = server /\ inbox' = inbox /\ sup' = sup
    BY <2>2 DEF ListPids
  <2> QED
    BY <1>a, <2>3
<1>9. CASE (\E q \in Reporters : Report(q) \/ ReporterDies(q)) \/ UNCHANGED vars
  <2>1. server' = server /\ inbox' = inbox /\ sup' = sup
    BY <1>9 DEF Report, ReporterDies, vars
  <2> QED
    BY <1>a, <2>1
<1> QED
  BY <1>1, <1>2, <1>3, <1>4, <1>5, <1>6, <1>7, <1>8, <1>9
  DEF Next, ReporterStep, ServerStep, SupStep

\* The steps that fairness promises leave their place on that way.
LEMMA FairStepsMove ==
    ASSUME IInv, NEW p \in Reporters
    PROVE  /\ ServerStep /\ server # "exit" => server' # server
           /\ SupStep /\ ~StopAsked => sup' # sup
           /\ Restart => server' = "start"
           /\ Recv(p) => Room(p)'
<1>1. ServerStep /\ server # "exit" => server' # server
  BY DEF ServerStep, Start, Top, EnterRecv, Recv, Upload, Exit, ClosePull
<1>2. SupStep /\ ~StopAsked => sup' # sup
  BY NobodyTold DEF SupStep, Check, NothingToDo, Restart, RestartFails, Wake
<1>3. Restart => server' = "start"
  BY DEF Restart, NewServer
<1>4. Recv(p) => Room(p)'
  <2> SUFFICES ASSUME Recv(p) PROVE Room(p)'
    OBVIOUS
  <2>1. /\ inbox[p] # <<>> /\ inbox[p] \in Seq(Records) /\ server' = "upload"
        /\ inbox'[p] = Tail(inbox[p])
        /\ Len(inbox[p]) <= RecvHWM /\ RecvHWM \in Nat
    BY GfLogAssumption DEF Recv, IInv, Sequenced
  <2>2. Len(inbox'[p]) = Len(inbox[p]) - 1 /\ Len(inbox[p]) \in Nat
    BY <2>1, HeadTailProperties
  <2> QED
    BY <2>1, <2>2 DEF Room, PullSocketOpen
<1> QED
  BY <1>1, <1>2, <1>3, <1>4

\* Wherever the log server is, it is dead, starts, has a full pipe or room.
LEMMA ServerPlaces ==
    ASSUME IInv, ExitIsTold, ~StopAsked, NEW p \in Reporters
    PROVE  /\ \/ server \in {"dead", "start"}
              \/ Room(p)
              \/ server \in {"top", "call", "recv", "upload"} /\ Full(p)
           /\ sup \in {"check", "wait", "sleep"}
<1>1. server \in ServerLocations \ {"exit"} /\ sup \in SupLocations \ {"gone"}
  BY NobodyTold DEF IInv, Types, ExitIsTold
<1>2. Len(inbox[p]) \in Nat /\ Len(inbox[p]) <= RecvHWM /\ RecvHWM \in Nat
  BY GfLogAssumption DEF IInv, Sequenced
<1> QED
  BY <1>1, <1>2
     DEF Room, Full, PullSocketOpen, ServerLocations, SupLocations

\* What is enabled on the way to room on the pipe of p.
LEMMA RoomReady ==
    ASSUME IInv, ChildKept, StepRule, NEW p \in Reporters
    PROVE  /\ \/ server = "start"
              \/ server \in {"top", "call", "recv", "upload"} /\ Full(p)
              => ENABLED <<ServerStep>>_vars
           /\ sup \in {"check", "wait", "sleep"} => ENABLED <<SupStep>>_vars
           /\ server = "dead" /\ sup = "wait" => ENABLED <<Restart>>_vars
           /\ server = "recv" /\ Full(p) => ENABLED <<Recv(p)>>_vars
           /\ Room(p) /\ queue[p] # <<>> => ENABLED <<Transfer(p)>>_vars
<1>1. Full(p) => inbox[p] # <<>>
  BY GfLogAssumption DEF Full
<1>2. Full(p) => Fed
  BY <1>1 DEF Fed
<1>3. server = "upload" => current # {}
  BY DEF IInv, Types
<1> QED
  BY <1>1, <1>2, <1>3 DEF StepRule, ServerReady, SupReady, TransferReady, Room,
                          WaitFails, ChildKept

\* When no more log servers die, a record among the first n + 1 of its queue
\* comes among the first n or leaves it, or somebody asks for a stop.
THEOREM RecordMovesUp ==
    ASSUME NEW p \in Reporters, NEW r \in Records, NEW n \in Nat
    PROVE  FairSpec /\ []StepRule /\ FaultsEnd =>
             [](Waits(p, r, n + 1) => <>(Left(p, r) \/ Waits(p, r, n)))
<1> DEFINE Wait == Waits(p, r, n + 1)
           Goal == Left(p, r) \/ Waits(p, r, n)
           Inv == IInv /\ ChildKept /\ ExitIsTold /\ StepRule
           Dead == server = "dead"
           Looks == sup = "check"
           Finds == sup = "wait"
           Sleeps == sup = "sleep"
           Starts == server = "start"
           HasRoom == Room(p)
           Tops == server = "top" /\ Full(p)
           Calls == server = "call" /\ Full(p)
           Recvs == server = "recv" /\ Full(p)
           Sends1 == server = "upload" /\ Full(p)
<1>1. IInv /\ [Next]_vars => (Wait => Wait' \/ Goal')
  BY QueueStep
<1>2. IInv /\ <<Transfer(p)>>_vars => (Wait => Goal')
  BY QueueStep DEF Next, ReporterStep
<1>3. Inv /\ Wait =>
        /\ Dead \/ Starts \/ HasRoom \/ Tops \/ Calls \/ Recvs \/ Sends1
        /\ Looks \/ Finds \/ Sleeps
  BY ServerPlaces DEF Waits
<1>4. Inv /\ Wait =>
        /\ Starts \/ Tops \/ Calls \/ Recvs \/ Sends1 => ENABLED <<ServerStep>>_vars
        /\ ENABLED <<SupStep>>_vars
        /\ Dead /\ Finds => ENABLED <<Restart>>_vars
        /\ Recvs => ENABLED <<Recv(p)>>_vars
        /\ HasRoom => ENABLED <<Transfer(p)>>_vars
  <2> SUFFICES ASSUME Inv, Wait
               PROVE  /\ Starts \/ Tops \/ Calls \/ Recvs \/ Sends1
                           => ENABLED <<ServerStep>>_vars
                      /\ ENABLED <<SupStep>>_vars
                      /\ Dead /\ Finds => ENABLED <<Restart>>_vars
                      /\ Recvs => ENABLED <<Recv(p)>>_vars
                      /\ HasRoom => ENABLED <<Transfer(p)>>_vars
    OBVIOUS
  <2>1. queue[p] # <<>>
    BY DEF Waits, Queued
  <2>2. sup \in {"check", "wait", "sleep"}
    BY <1>3
  <2> QED
    BY <2>1, <2>2, RoomReady
<1>5. IInv /\ IInv' /\ ChildKept /\ [Next]_vars /\ [NoCrash]_vars
      /\ Wait /\ Wait' =>
        /\ Dead => Dead' \/ Starts'
        /\ Starts => Starts' \/ HasRoom' \/ Tops'
        /\ Tops => Tops' \/ Calls'
        /\ Calls => Calls' \/ Recvs'
        /\ Recvs => Recvs' \/ Sends1' \/ HasRoom'
        /\ Sends1 => Sends1' \/ Tops'
        /\ HasRoom => HasRoom' \/ Goal'
        /\ Finds => Finds' \/ Sleeps'
        /\ Sleeps => Sleeps' \/ Looks'
        /\ Looks => Looks' \/ Finds'
  <2> SUFFICES ASSUME IInv, IInv', ChildKept, [Next]_vars, [NoCrash]_vars,
                      Wait, Wait'
               PROVE  /\ Dead => Dead' \/ Starts'
                      /\ Starts => Starts' \/ HasRoom' \/ Tops'
                      /\ Tops => Tops' \/ Calls'
                      /\ Calls => Calls' \/ Recvs'
                      /\ Recvs => Recvs' \/ Sends1' \/ HasRoom'
                      /\ Sends1 => Sends1' \/ Tops'
                      /\ HasRoom => HasRoom' \/ Goal'
                      /\ Finds => Finds' \/ Sleeps'
                      /\ Sleeps => Sleeps' \/ Looks'
                      /\ Looks => Looks' \/ Finds'
    OBVIOUS
  <2>1. ~StopAsked /\ ~StopAsked'
    BY DEF Waits
  <2>2. Len(inbox'[p]) <= RecvHWM /\ Len(inbox'[p]) \in Nat /\ RecvHWM \in Nat
    BY GfLogAssumption DEF IInv, Sequenced
  <2>3. server' = "top" => HasRoom' \/ Tops'
    BY <2>2 DEF Room, PullSocketOpen, Full
  <2>4. Transfer(p) => Goal'
    BY QueueStep
  <2> HIDE DEF Goal
  <2> QED
    BY <2>1, <2>3, <2>4, RoomStep
<1>6. IInv /\ Wait =>
        /\ <<ServerStep>>_vars =>
             ~(Starts /\ Starts') /\ ~(Tops /\ Tops') /\ ~(Calls /\ Calls')
             /\ ~(Recvs /\ Recvs') /\ ~(Sends1 /\ Sends1')
        /\ <<SupStep>>_vars =>
             ~(Looks /\ Looks') /\ ~(Finds /\ Finds') /\ ~(Sleeps /\ Sleeps')
        /\ <<Restart>>_vars => Starts'
        /\ <<Recv(p)>>_vars => HasRoom'
  BY FairStepsMove DEF Waits
<1>7. /\ Dead => ~Starts /\ ~HasRoom /\ ~Tops /\ ~Calls /\ ~Recvs /\ ~Sends1
      /\ HasRoom => ~Starts
  BY DEF Room, PullSocketOpen
<1>8. Inv <=> IInv /\ ChildKept /\ ExitIsTold /\ StepRule
  OBVIOUS
<1>9. FairSpec => PipeFair(p)
  <2>1. FairSpec => PipesFair
    BY PTL DEF FairSpec
  <2>2. PipesFair => PipeFair(p)
    BY DEF PipesFair
  <2> QED
    BY <2>1, <2>2
<1> HIDE DEF Wait, Goal, Inv, Dead, Looks, Finds, Sleeps, Starts, HasRoom, Tops,
             Calls, Recvs, Sends1
<1>10. FairSpec /\ []StepRule /\ FaultsEnd => [](Wait => <>Goal)
  BY <1>1, <1>2, <1>3, <1>4, <1>5, <1>6, <1>7, <1>8, <1>9, InvHolds,
     ChildKeptHolds, ExitIsToldHolds, PTL
     DEF FairSpec, Spec, FaultsEnd, PipeFair
<1> QED
  BY <1>10 DEF Wait, Goal

\* A record among the first n of its queue leaves it, or a stop is asked for.
MovesOn(p, r, n) == [](Waits(p, r, n) => <>Left(p, r))

\* Induction over the natural numbers, for MovesOn.  It holds of every formula;
\* the provers have no rule for it when the formula is a temporal one.
Induction ==
    \A p \in Reporters : \A r \in Records :
        MovesOn(p, r, 0) /\ (\A n \in Nat : MovesOn(p, r, n) => MovesOn(p, r, n + 1))
          => \A n \in Nat : MovesOn(p, r, n)

\* No record is among the first 0 of its queue, and each is among the first
\* SendHWM: the push socket holds no more.
LEMMA QueueBounds ==
    ASSUME IInv, NEW p \in Reporters, NEW r \in Records
    PROVE  ~Waits(p, r, 0) /\ (Queued(p, r) => Left(p, r) \/ Waits(p, r, SendHWM))
<1>1. DOMAIN queue[p] = 1..Len(queue[p]) /\ Len(queue[p]) \in Nat
      /\ SendHWM \in Nat /\ Len(queue[p]) <= SendHWM
  BY GfLogAssumption DEF IInv, Sequenced
<1>2. Within(p, r, SendHWM)
  BY <1>1 DEF Within
<1>3. ~(Queued(p, r) /\ Within(p, r, 0))
  BY <1>1 DEF Within, Queued
<1> QED
  BY <1>2, <1>3 DEF Waits, Left

\* A record that waits leaves the push socket, unless a stop is asked for: log
\* servers die, forks and uploads fail, others report too, and yet nothing holds
\* it up for ever.
THEOREM RecordsMoveOnHolds ==
    FairSpec /\ []StepRule /\ FaultInduction /\ Induction => RecordsMoveOn
<1>1. ASSUME NEW p \in Reporters, NEW r \in Records
      PROVE  FairSpec => MovesOn(p, r, 0)
  <2>1. IInv => ~Waits(p, r, 0)
    BY QueueBounds
  <2> QED
    BY <2>1, InvHolds, PTL DEF FairSpec, MovesOn
<1>2. ASSUME NEW p \in Reporters, NEW r \in Records, NEW n \in Nat
      PROVE  FairSpec /\ []StepRule /\ FaultsEnd =>
               (MovesOn(p, r, n) => MovesOn(p, r, n + 1))
  <2>1. FairSpec /\ []StepRule /\ FaultsEnd =>
          [](Waits(p, r, n + 1) => <>(Left(p, r) \/ Waits(p, r, n)))
    BY RecordMovesUp
  <2> QED
    BY <2>1, PTL DEF MovesOn
<1>3. FairSpec /\ []StepRule /\ FaultsEnd /\ Induction =>
        \A p \in Reporters : \A r \in Records : \A n \in Nat : MovesOn(p, r, n)
  BY <1>1, <1>2 DEF Induction
<1>4. FairSpec /\ []StepRule /\ FaultsEnd /\ Induction =>
        \A p \in Reporters : \A r \in Records : MovesOn(p, r, SendHWM)
  BY <1>3, GfLogAssumption
<1>5. ASSUME NEW p \in Reporters, NEW r \in Records
      PROVE  FairSpec /\ MovesOn(p, r, SendHWM) =>
               (Queued(p, r) ~> (StopAsked \/ ~Queued(p, r)))
  <2>1. Left(p, r) <=> StopAsked \/ ~Queued(p, r)
    BY DEF Left
  <2>2. IInv => (Queued(p, r) => Left(p, r) \/ Waits(p, r, SendHWM))
    BY QueueBounds
  <2> QED
    BY <2>1, <2>2, InvHolds, PTL DEF FairSpec, MovesOn
<1>6. ASSUME NEW p \in Reporters, NEW r \in 1..MaxRecords[p] PROVE r \in Records
  BY DEF Records
<1>7. FairSpec /\ (\A p \in Reporters : \A r \in Records : MovesOn(p, r, SendHWM))
        => RecordsMoveOn
  BY <1>5, <1>6 DEF RecordsMoveOn
<1>8. FairSpec /\ FaultInduction => FaultsEnd
  BY FaultsEndHolds, PTL DEF FairSpec
<1> QED
  BY <1>4, <1>7, <1>8
=============================================================================
