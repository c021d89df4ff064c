-------------------------- MODULE Supervisor_proofs --------------------------
(***************************************************************************)
(* Theorems about Supervisor, for any number of processes, crashes, failed *)
(* forks and failed initialisations.                                       *)
(***************************************************************************)
EXTENDS Supervisor, FiniteSetTheorems, TLAPS

USE SupervisorAssumption DEF Procs, NoPid, JunkPid, Loop, Comm, Alive

-----------------------------------------------------------------------------
\* Type correctness.  A process number that is stored in pid_busi is one of
\* the run, 0, or the junk of the first child.

\* The first supervisor has forked nobody.
LEMMA TypeInit == Init => TypeOK
BY DEF Init, TypeOK

\* What SIGUSR1 does to the process it is sent to; a dead one keeps its values.
LEMMA Told ==
    ASSUME TypeOK, NEW q \in Procs, Tell(q)
    PROVE  /\ \A p \in Procs \ {q} : st'[p] = st[p] /\ exit_flag'[p] = exit_flag[p]
           /\ exit_flag'[q] = IF Alive(q) THEN 1 ELSE exit_flag[q]
           /\ \/ st'[q] = st[q] /\ st[q] # "sleep"
              \/ st[q] = "sleep" /\ st'[q] = "check"
              \/ st[q] = "terminating" /\ st'[q] \in {"check", "sleep"}
           /\ st' \in [Procs -> Loop \cup Comm \cup {"unborn", "dead"}]
           /\ exit_flag' \in [Procs -> {0, 1}]
           /\ UNCHANGED <<pid_busi, parent, back, bound>>
           /\ UNCHANGED <<crashes, forkFails, initFails>>
<1>1. back[q] \in {"check", "sleep"}
  BY DEF TypeOK
<1>2. st' \in [Procs -> Loop \cup Comm \cup {"unborn", "dead"}]
  BY <1>1 DEF TypeOK, Tell
<1>3. exit_flag' \in [Procs -> {0, 1}]
  BY DEF TypeOK, Tell
<1>4. \A p \in Procs \ {q} : st'[p] = st[p] /\ exit_flag'[p] = exit_flag[p]
  BY DEF TypeOK, Tell
<1>5. exit_flag'[q] = IF Alive(q) THEN 1 ELSE exit_flag[q]
  BY DEF TypeOK, Tell
<1>6. \/ st'[q] = st[q] /\ st[q] # "sleep"
      \/ st[q] = "sleep" /\ st'[q] = "check"
      \/ st[q] = "terminating" /\ st'[q] \in {"check", "sleep"}
  BY <1>1 DEF TypeOK, Tell
<1> QED
  BY <1>2, <1>3, <1>4, <1>5, <1>6 DEF Tell

\* Every action keeps the types; the number fork returns is a free process.
LEMMA TypeStep == ASSUME TypeOK, [Next]_vars PROVE TypeOK'
<1> USE DEF TypeOK
<1>a. CASE ListPids
  BY <1>a DEF ListPids
<1>1. ASSUME NEW q \in Procs, Tell(q) PROVE TypeOK'
  <2>1. targets' \subseteq Procs
    BY <1>1 DEF Tell
  <2> QED
    BY <1>1, <2>1, Told
<1>2. ASSUME NEW p \in Procs, Check(p) PROVE TypeOK'
  BY <1>2 DEF Check
<1>3. ASSUME NEW p \in Procs, NothingToDo(p) PROVE TypeOK'
  BY <1>3 DEF NothingToDo
<1>4. ASSUME NEW p \in Procs, Restart(p) PROVE TypeOK'
  <2> USE DEF Restart, ChildFlag
  <2>1. PICK c \in Procs : Restart(p)!3!(c)
    BY <1>4 DEF Fresh
  <2>2. st' \in [Procs -> Loop \cup Comm \cup {"unborn", "dead"}]
    BY <2>1
  <2>3. pid_busi' \in [Procs -> 0..JunkPid]
    <3> DEFINE Pids == 0..JunkPid
    <3>1. c \in Pids /\ pid_busi[p] \in Pids /\ pid_busi \in [Procs -> Pids]
      OBVIOUS
    <3> HIDE DEF Pids
    <3>2. pid_busi' \in [Procs -> Pids]
      BY <2>1, <3>1
    <3> QED
      BY <3>2 DEF Pids
  <2>4. parent' \in [Procs -> 0..MaxProcs]
    BY <2>1
  <2>5. back' \in [Procs -> {"check", "sleep"}]
    BY <2>1
  <2>6. exit_flag' \in [Procs -> {0, 1}]
    BY <2>1
  <2>7. targets' \subseteq Procs /\ bound' \subseteq Procs
    BY <1>4
  <2>8. /\ crashes' \in 0..MaxCrashes /\ forkFails' \in 0..MaxForkFails
        /\ initFails' \in 0..MaxInitFails
    BY <1>4
  <2> HIDE DEF Restart, ChildFlag, Procs, JunkPid, Loop, Comm
  <2> QED
    BY <2>2, <2>3, <2>4, <2>5, <2>6, <2>7, <2>8
<1>5. ASSUME NEW p \in Procs, RestartFails(p) PROVE TypeOK'
  <2>1. forkFails' \in 0..MaxForkFails
    BY <1>5 DEF RestartFails
  <2>2. st' = [st EXCEPT ![p] = "sleep"]
    BY <1>5 DEF RestartFails
  <2>3. UNCHANGED <<pid_busi, parent, back, exit_flag, targets, bound, crashes,
                    initFails>>
    BY <1>5 DEF RestartFails
  <2> QED
    BY <2>1, <2>2, <2>3
<1>6. ASSUME NEW p \in Procs, Wake(p) PROVE TypeOK'
  BY <1>6 DEF Wake
<1>7. ASSUME NEW p \in Procs, Bind(p) PROVE TypeOK'
  BY <1>7 DEF Bind
<1>8. ASSUME NEW p \in Procs, InitOk(p) PROVE TypeOK'
  BY <1>8 DEF InitOk
<1>9. ASSUME NEW p \in Procs, InitFailed(p) PROVE TypeOK'
  BY <1>9 DEF InitFailed
<1>10. ASSUME NEW p \in Procs, Leave(p) PROVE TypeOK'
  BY <1>10 DEF Leave
<1>11. ASSUME NEW p \in Procs, Crash(p) PROVE TypeOK'
  BY <1>11 DEF Crash
<1>12. CASE UNCHANGED vars
  BY <1>12 DEF vars
<1> QED
  <2> HIDE DEF TypeOK
  <2> QED
    BY <1>a, <1>1, <1>2, <1>3, <1>4, <1>5, <1>6, <1>7, <1>8, <1>9, <1>10, <1>11,
       <1>12 DEF Next, Step

\* Every variable has its type, for any number of processes, crashes and
\* failures.
THEOREM TypeCorrect == Spec => []TypeOK
<1>1. TypeOK /\ [Next]_vars => TypeOK'
  BY TypeStep
<1> QED
  BY <1>1, TypeInit, PTL DEF Spec

-----------------------------------------------------------------------------
\* StopIsInherited: a child is forked by a living process and has its flag.

\* Once every living process has the flag, so has each that is forked later.
THEOREM StopInherited == Spec => StopIsInherited
<1>1. TypeOK /\ [Next]_vars => [AllTold => AllTold']_vars
  <2> SUFFICES ASSUME TypeOK, Next, AllTold PROVE AllTold'
    BY DEF vars
  <2> USE DEF TypeOK, AllTold
  <2>a. CASE ListPids
    BY <2>a DEF ListPids
  <2>1. ASSUME NEW q \in Procs, Tell(q) PROVE AllTold'
    BY <2>1, Told
  <2>2. ASSUME NEW p \in Procs, Check(p) PROVE AllTold'
    BY <2>2 DEF Check
  <2>3. ASSUME NEW p \in Procs, NothingToDo(p) PROVE AllTold'
    BY <2>3 DEF NothingToDo
  <2>4. ASSUME NEW p \in Procs, Restart(p) PROVE AllTold'
    BY <2>4 DEF Restart, Fresh, ChildFlag
  <2>5. ASSUME NEW p \in Procs, RestartFails(p) PROVE AllTold'
    BY <2>5 DEF RestartFails
  <2>6. ASSUME NEW p \in Procs, Wake(p) PROVE AllTold'
    BY <2>6 DEF Wake
  <2>7. ASSUME NEW p \in Procs, Bind(p) PROVE AllTold'
    BY <2>7 DEF Bind
  <2>8. ASSUME NEW p \in Procs, InitOk(p) PROVE AllTold'
    BY <2>8 DEF InitOk
  <2>9. ASSUME NEW p \in Procs, InitFailed(p) PROVE AllTold'
    BY <2>9 DEF InitFailed
  <2>10. ASSUME NEW p \in Procs, Leave(p) PROVE AllTold'
    BY <2>10 DEF Leave
  <2>11. ASSUME NEW p \in Procs, Crash(p) PROVE AllTold'
    BY <2>11 DEF Crash
  <2> QED
    BY <2>a, <2>1, <2>2, <2>3, <2>4, <2>5, <2>6, <2>7, <2>8, <2>9, <2>10,
       <2>11 DEF Next, Step
<1> QED
  BY <1>1, TypeCorrect, PTL DEF Spec, StopIsInherited
-----------------------------------------------------------------------------
\* OneServer.  Until an initialisation fails, process 1 is
\* the only one that forks: a child comes back to the supervising loop only by
\* a stop request, and then does not get past the check of its flag.  It forks
\* only when its last child is dead, so that a living child is pid_busi[1].

OnlyChild ==
    /\ st[1] \in Loop \cup {"dead"}
    /\ \A p \in Procs \ {1} : Alive(p) => parent[p] = 1 /\ pid_busi[1] = p
    /\ \A p \in Procs \ {1} :
           st[p] \in Loop => exit_flag[p] = 1 /\ st[p] # "wait"
    /\ \A p \in Procs : st[p] = "terminating" => exit_flag[p] = 1
    /\ \A p \in Procs : p \in bound <=> st[p] \in {"init", "serve"}

SupInv == TypeOK /\ (initFails = 0 => OnlyChild)

\* At first there is no child.
LEMMA OnlyChildInit == Init => OnlyChild
BY DEF Init, OnlyChild

\* Whoever is in gfread_busi_comm is the present child.
LEMMA CommIsChild ==
    ASSUME TypeOK, OnlyChild, NEW p \in Procs, st[p] \in Comm
    PROVE  p # 1 /\ pid_busi[1] = p
<1>1. st[1] \notin Comm
  BY DEF OnlyChild
<1>2. p # 1
  BY <1>1
<1> QED
  BY <1>2 DEF OnlyChild

\* While no initialisation fails a child comes only after the last has died.
LEMMA OnlyChildStep ==
    ASSUME TypeOK, initFails = 0, OnlyChild, [Next]_vars, initFails' = 0
    PROVE  OnlyChild'
<1> USE DEF TypeOK, OnlyChild
<1>0. 1 \in Procs
  OBVIOUS
<1>a. CASE ListPids
  BY <1>a DEF ListPids
<1>1. ASSUME NEW q \in Procs, Tell(q) PROVE OnlyChild'
  <2> HIDE DEF TypeOK
  <2>1. /\ \A p \in Procs \ {q} : st'[p] = st[p] /\ exit_flag'[p] = exit_flag[p]
        /\ exit_flag'[q] = IF Alive(q) THEN 1 ELSE exit_flag[q]
        /\ \/ st'[q] = st[q] /\ st[q] # "sleep"
           \/ st[q] = "sleep" /\ st'[q] = "check"
           \/ st[q] = "terminating" /\ st'[q] \in {"check", "sleep"}
    BY <1>1, Told
  <2>2. pid_busi' = pid_busi /\ parent' = parent /\ bound' = bound
    BY <1>1, Told
  <2>3. \A p \in Procs : Alive(p)' => Alive(p)
    BY <2>1
  <2>4. st'[1] \in Loop \cup {"dead"}
    BY <1>0, <2>1
  <2>5. \A p \in Procs \ {1} : Alive(p)' => parent'[p] = 1 /\ pid_busi'[1] = p
    BY <2>2, <2>3
  <2>6. \A p \in Procs \ {1} :
          st'[p] \in Loop => exit_flag'[p] = 1 /\ st'[p] # "wait"
    BY <2>1
  <2>7. \A p \in Procs : p \in bound' <=> st'[p] \in {"init", "serve"}
    BY <2>1, <2>2
  <2>8. \A p \in Procs : st'[p] = "terminating" => exit_flag'[p] = 1
    BY <2>1
  <2> QED
    BY <2>4, <2>5, <2>6, <2>7, <2>8
<1>2. ASSUME NEW p \in Procs, Check(p) PROVE OnlyChild'
  <2>1. CASE exit_flag[p] = 1
    BY <1>0, <1>2, <2>1 DEF Check
  <2>2. CASE exit_flag[p] = 0
    <3>1. p = 1
      BY <1>2, <2>2 DEF Check
    <3>2. /\ st' = [st EXCEPT ![1] = "wait"]
          /\ UNCHANGED <<pid_busi, parent, exit_flag, bound>>
      BY <1>2, <2>2, <3>1 DEF Check
    <3>3. st[1] = "check"
      BY <1>2, <3>1 DEF Check
    <3> QED
      BY <1>0, <3>2, <3>3
  <2> QED
    BY <2>1, <2>2
<1>3. ASSUME NEW p \in Procs, NothingToDo(p) PROVE OnlyChild'
  BY <1>0, <1>3 DEF NothingToDo
<1>4. ASSUME NEW p \in Procs, Restart(p) PROVE OnlyChild'
  <2>1. p = 1
    BY <1>4 DEF Restart
  <2>2. \A q \in Procs \ {1} : ~Alive(q)
    BY <1>4, <2>1 DEF Restart, WaitFails
  <2>3. PICK c \in Procs \ {1} :
          /\ st[c] = "unborn"
          /\ st' = [st EXCEPT ![p] = "sleep", ![c] = "comm"]
          /\ pid_busi' = [pid_busi EXCEPT ![p] = c, ![c] = pid_busi[p]]
          /\ parent' = [parent EXCEPT ![c] = p]
          /\ exit_flag' = [exit_flag EXCEPT ![c] = exit_flag[p]]
          /\ bound' = bound
    BY <1>0, <1>4 DEF Restart, Fresh, ChildFlag
  <2>4. \A q \in Procs \ {1} : Alive(q)' => q = c
    BY <2>1, <2>2, <2>3
  <2>5. st'[1] = "sleep" /\ st'[c] = "comm" /\ parent'[c] = 1 /\ pid_busi'[1] = c
    BY <1>0, <2>1, <2>3
  <2>6. \A q \in Procs : q \in bound' <=> st'[q] \in {"init", "serve"}
    BY <2>1, <2>2, <2>3, <2>5
  <2>7. \A q \in Procs \ {1} : Alive(q)' => parent'[q] = 1 /\ pid_busi'[1] = q
    BY <2>4, <2>5
  <2>8. \A q \in Procs \ {1} :
          st'[q] \in Loop => exit_flag'[q] = 1 /\ st'[q] # "wait"
    BY <2>4, <2>5
  <2>9. \A q \in Procs : st'[q] = "terminating" => exit_flag'[q] = 1
    BY <2>4, <2>5
  <2> QED
    BY <2>5, <2>6, <2>7, <2>8, <2>9
<1>5. ASSUME NEW p \in Procs, RestartFails(p) PROVE OnlyChild'
  BY <1>0, <1>5 DEF RestartFails
<1>6. ASSUME NEW p \in Procs, Wake(p) PROVE OnlyChild'
  BY <1>0, <1>6 DEF Wake
<1>7. ASSUME NEW p \in Procs, Bind(p) PROVE OnlyChild'
  <2>1. p # 1
    BY <1>7 DEF Bind
  <2>2. bound = {}
    <3> SUFFICES ASSUME NEW q \in bound PROVE FALSE
      OBVIOUS
    <3>1. q \in Procs /\ st[q] \in {"init", "serve"} /\ st[p] = "comm"
      BY <1>7 DEF Bind
    <3>2. pid_busi[1] = q /\ pid_busi[1] = p
      BY <3>1, CommIsChild
    <3> QED
      BY <3>1, <3>2
  <2> QED
    BY <1>0, <1>7, <2>1, <2>2 DEF Bind
<1>8. ASSUME NEW p \in Procs, InitOk(p) PROVE OnlyChild'
  BY <1>0, <1>8 DEF InitOk
<1>9. ASSUME NEW p \in Procs, InitFailed(p) PROVE OnlyChild'
  BY <1>0, <1>9 DEF InitFailed
<1>10. ASSUME NEW p \in Procs, Leave(p) PROVE OnlyChild'
  BY <1>0, <1>10 DEF Leave
<1>11. ASSUME NEW p \in Procs, Crash(p) PROVE OnlyChild'
  BY <1>0, <1>11 DEF Crash
<1>12. CASE UNCHANGED vars
  BY <1>12 DEF vars
<1> QED
  BY <1>a, <1>1, <1>2, <1>3, <1>4, <1>5, <1>6, <1>7, <1>8, <1>9, <1>10, <1>11,
     <1>12 DEF Next, Step

\* Until an initialisation fails the program is a supervisor and its child.
THEOREM SupInvHolds == Spec => []SupInv
<1>1. Init => SupInv
  BY OnlyChildInit, TypeInit DEF SupInv
<1>2. SupInv /\ [Next]_vars => SupInv'
  <2> SUFFICES ASSUME SupInv, [Next]_vars, initFails' = 0 PROVE OnlyChild'
    BY TypeStep DEF SupInv
  <2>1. TypeOK
    BY DEF SupInv
  <2>2. initFails = 0
    BY <2>1 DEF TypeOK, Next, Step, vars, ListPids, Tell, Check, NothingToDo,
         Restart, RestartFails, Wake, Bind, InitOk, InitFailed, Leave, Crash
  <2> QED
    BY <2>1, <2>2, OnlyChildStep DEF SupInv
<1> QED
  BY <1>1, <1>2, PTL DEF Spec

-----------------------------------------------------------------------------
\* Who watches whom.  A process forks only when waitpid fails, that is, when
\* the child it names is dead; so it has at most one living child at any time,
\* and that child is the one it names.  The spawners are process 1, those that
\* have forked, and those in the supervising loop that still may: one more with
\* each failed initialisation and with nothing else, for who comes back to the
\* loop by a stop request has the flag and gets no further than its check.

Watched ==
    /\ st[1] # "unborn" /\ parent[1] = NoPid
    /\ \A p, q \in Procs : st[p] = "unborn" => parent[q] # p
    /\ \A p \in Procs : Alive(p) /\ p # 1 => parent[p] # NoPid
    /\ \A p \in Procs : Alive(p) /\ parent[p] # NoPid => pid_busi[parent[p]] = p

LeavesWithFlag == \A p \in Procs : st[p] = "terminating" => exit_flag[p] = 1

Spawners ==
    {p \in Procs : \/ p = 1
                   \/ \E q \in Procs : parent[q] = p
                   \/ st[p] = "wait"
                   \/ st[p] \in Loop /\ exit_flag[p] = 0}

\* What a fork does.
LEMMA Forked ==
    ASSUME TypeOK, NEW p \in Procs, Restart(p)
    PROVE  \E c \in Procs \ {p} :
             /\ st[c] = "unborn"
             /\ st' = [st EXCEPT ![p] = "sleep", ![c] = "comm"]
             /\ pid_busi' = [pid_busi EXCEPT ![p] = c, ![c] = pid_busi[p]]
             /\ parent' = [parent EXCEPT ![c] = p]
             /\ exit_flag' = [exit_flag EXCEPT ![c] = exit_flag[p]]
             /\ initFails' = initFails
<1>1. PICK c \in Procs : c \in Fresh /\ Restart(p)!3!(c)
  BY DEF Restart, Fresh
<1>2. st[c] = "unborn" /\ c # p
  BY <1>1 DEF Fresh, Restart
<1> QED
  BY <1>1, <1>2 DEF Restart, ChildFlag

\* fork is called only by who has no living child, and its child is a process
\* without children.
LEMMA ForkWatched ==
    ASSUME TypeOK, Watched, NEW p \in Procs, Restart(p)
    PROVE  Watched'
<1> USE DEF TypeOK
<1>1. PICK c \in Procs \ {p} :
        /\ st[c] = "unborn"
        /\ st' = [st EXCEPT ![p] = "sleep", ![c] = "comm"]
        /\ pid_busi' = [pid_busi EXCEPT ![p] = c, ![c] = pid_busi[p]]
        /\ parent' = [parent EXCEPT ![c] = p]
  BY Forked
<1>2. \A q \in Procs : /\ st'[q] = IF q = c THEN "comm"
                                   ELSE IF q = p THEN "sleep" ELSE st[q]
                       /\ pid_busi'[q] = IF q = c THEN pid_busi[p]
                                         ELSE IF q = p THEN c ELSE pid_busi[q]
                       /\ parent'[q] = IF q = c THEN p ELSE parent[q]
  BY <1>1
<1>3. c # 1 /\ \A q \in Procs : parent[q] # c
  BY <1>1 DEF Watched
<1>4. ASSUME NEW q \in Procs, Alive(q) PROVE parent[q] # p
  <2> SUFFICES ASSUME parent[q] = p PROVE FALSE
    OBVIOUS
  <2>1. pid_busi[p] = q
    BY <1>4 DEF Watched
  <2> QED
    BY <1>4, <2>1 DEF Restart, WaitFails
<1>5. st[p] = "wait"
  BY DEF Restart
<1>6. st'[1] # "unborn" /\ parent'[1] = NoPid
  BY <1>2, <1>3 DEF Watched
<1>7. ASSUME NEW q \in Procs, NEW r \in Procs, st'[q] = "unborn"
      PROVE  parent'[r] # q
  <2>1. q # c /\ q # p /\ st[q] = "unborn"
    BY <1>2, <1>7
  <2>2. parent[r] # q
    BY <2>1 DEF Watched
  <2> QED
    BY <1>2, <2>1, <2>2
<1>8. \A q \in Procs : Alive(q)' => q = c \/ Alive(q)
  BY <1>2, <1>5
<1>9. ASSUME NEW q \in Procs, Alive(q)', q # 1
      PROVE  parent'[q] # NoPid
  <2>1. CASE q = c
    BY <1>2, <2>1
  <2>2. CASE q # c
    <3>1. Alive(q) /\ parent'[q] = parent[q]
      BY <1>2, <1>8, <1>9, <2>2
    <3> QED
      BY <1>9, <3>1 DEF Watched
  <2> QED
    BY <2>1, <2>2
<1>10. ASSUME NEW q \in Procs, Alive(q)', parent'[q] # NoPid
       PROVE  pid_busi'[parent'[q]] = q
  <2>1. CASE q = c
    BY <1>1, <1>2, <2>1
  <2>2. CASE q # c
    <3>1. Alive(q) /\ parent'[q] = parent[q] /\ parent[q] # NoPid
      BY <1>2, <1>8, <1>10, <2>2
    <3>2. parent[q] \in Procs /\ parent[q] # p /\ parent[q] # c
      BY <1>3, <1>4, <3>1
    <3>3. pid_busi'[parent[q]] = pid_busi[parent[q]]
      BY <1>2, <3>2
    <3> QED
      BY <3>1, <3>3 DEF Watched
  <2> QED
    BY <2>1, <2>2
<1> QED
  BY <1>6, <1>7, <1>9, <1>10 DEF Watched

\* No other action touches pid_busi or parent, or brings a process to life.
LEMMA NobodyElseForks ==
    ASSUME TypeOK, [Next]_vars, \A p \in Procs : ~Restart(p)
    PROVE  /\ pid_busi' = pid_busi /\ parent' = parent
           /\ \A p \in Procs : /\ Alive(p)' => Alive(p)
                               /\ st'[p] = "unborn" <=> st[p] = "unborn"
<1> USE DEF TypeOK
<1>a. CASE ListPids
  BY <1>a DEF ListPids
<1>1. CASE \E q \in Procs : Tell(q)
  BY <1>1, Told
<1>2. CASE \E p \in Procs : Check(p) \/ NothingToDo(p) \/ RestartFails(p)
                            \/ Wake(p)
  BY <1>2 DEF Check, NothingToDo, RestartFails, Wake
<1>3. CASE \E p \in Procs : Bind(p) \/ InitOk(p) \/ InitFailed(p)
  BY <1>3 DEF Bind, InitOk, InitFailed
<1>4. CASE \E p \in Procs : Leave(p) \/ Crash(p)
  BY <1>4 DEF Leave, Crash
<1>5. CASE UNCHANGED vars
  BY <1>5 DEF vars
<1> QED
  BY <1>a, <1>1, <1>2, <1>3, <1>4, <1>5 DEF Next, Step

\* The flag, once set, stays, and who terminates has it.
LEMMA FlagStep ==
    ASSUME TypeOK, LeavesWithFlag, [Next]_vars
    PROVE  LeavesWithFlag'
<1> USE DEF TypeOK, LeavesWithFlag
<1>a. CASE ListPids
  BY <1>a DEF ListPids
<1>1. CASE \E q \in Procs : Tell(q)
  BY <1>1, Told
<1>2. CASE \E p \in Procs : Check(p) \/ NothingToDo(p) \/ RestartFails(p)
                            \/ Wake(p)
  BY <1>2 DEF Check, NothingToDo, RestartFails, Wake
<1>3. CASE \E p \in Procs : Bind(p) \/ InitOk(p) \/ InitFailed(p)
  BY <1>3 DEF Bind, InitOk, InitFailed
<1>4. CASE \E p \in Procs : Leave(p) \/ Crash(p)
  BY <1>4 DEF Leave, Crash
<1>5. ASSUME NEW p \in Procs, Restart(p) PROVE LeavesWithFlag'
  <2>1. PICK c \in Procs \ {p} :
          /\ st' = [st EXCEPT ![p] = "sleep", ![c] = "comm"]
          /\ exit_flag' = [exit_flag EXCEPT ![c] = exit_flag[p]]
    BY <1>5, Forked
  <2> QED
    BY <2>1
<1>6. CASE UNCHANGED vars
  BY <1>6 DEF vars
<1> QED
  BY <1>a, <1>1, <1>2, <1>3, <1>4, <1>5, <1>6 DEF Next, Step

\* Only a failed initialisation makes another spawner, and it makes one.
LEMMA SpawnersStep ==
    ASSUME TypeOK, LeavesWithFlag, [Next]_vars
    PROVE  \/ Spawners' \subseteq Spawners /\ initFails' = initFails
           \/ /\ initFails' = initFails + 1
              /\ \E p \in Procs : Spawners' \subseteq Spawners \cup {p}
<1> USE DEF TypeOK, Spawners
<1>a. CASE ListPids
  BY <1>a DEF ListPids
<1>1. ASSUME NEW q \in Procs, Tell(q)
      PROVE  Spawners' \subseteq Spawners /\ initFails' = initFails
  <2>1. /\ \A p \in Procs \ {q} : st'[p] = st[p] /\ exit_flag'[p] = exit_flag[p]
        /\ exit_flag'[q] = IF Alive(q) THEN 1 ELSE exit_flag[q]
        /\ \/ st'[q] = st[q]
           \/ Alive(q) /\ st'[q] \in {"check", "sleep"}
    BY <1>1, Told
  <2>2. parent' = parent /\ initFails' = initFails
    BY <1>1, Told
  <2>3. \A p \in Procs : st'[p] = "wait" => st[p] = "wait"
    BY <2>1
  <2>4. st'[q] \in Loop => exit_flag'[q] = 1
    BY <2>1
  <2> QED
    BY <2>1, <2>2, <2>3, <2>4
<1>2. CASE \E p \in Procs : Check(p) \/ NothingToDo(p) \/ RestartFails(p)
                            \/ Wake(p)
  BY <1>2 DEF Check, NothingToDo, RestartFails, Wake
<1>3. CASE \E p \in Procs : Bind(p) \/ InitOk(p)
  BY <1>3 DEF Bind, InitOk
<1>4. CASE \E p \in Procs : Leave(p) \/ Crash(p)
  BY <1>4 DEF Leave, Crash
<1>5. ASSUME NEW p \in Procs, InitFailed(p)
      PROVE  /\ initFails' = initFails + 1
             /\ Spawners' \subseteq Spawners \cup {p}
  BY <1>5 DEF InitFailed
<1>6. ASSUME NEW p \in Procs, Restart(p)
      PROVE  Spawners' \subseteq Spawners /\ initFails' = initFails
  <2>1. PICK c \in Procs \ {p} :
          /\ st[c] = "unborn"
          /\ st' = [st EXCEPT ![p] = "sleep", ![c] = "comm"]
          /\ parent' = [parent EXCEPT ![c] = p]
          /\ exit_flag' = [exit_flag EXCEPT ![c] = exit_flag[p]]
          /\ initFails' = initFails
    BY <1>6, Forked
  <2>2. p \in Spawners
    BY <1>6 DEF Restart
  <2> QED
    BY <2>1, <2>2
<1>7. CASE UNCHANGED vars
  BY <1>7 DEF vars
<1> QED
  BY <1>a, <1>1, <1>2, <1>3, <1>4, <1>5, <1>6, <1>7 DEF Next, Step

SpawnInv == Watched /\ LeavesWithFlag /\ Cardinality(Spawners) <= 1 + initFails

\* The processes are finitely many.
LEMMA SpawnersFinite == IsFiniteSet(Spawners) /\ Cardinality(Spawners) \in Nat
<1>1. IsFiniteSet(Procs)
  BY FS_Interval
<1>2. IsFiniteSet(Spawners)
  BY <1>1, FS_Subset DEF Spawners
<1> QED
  BY <1>2, FS_CardinalityType

\* Whatever fails, every living child is named by the process that forked it,
\* and only failed initialisations make spawners.
THEOREM SpawnInvHolds == Spec => []SpawnInv
<1>1. Init => SpawnInv
  <2> SUFFICES ASSUME Init PROVE SpawnInv
    OBVIOUS
  <2>1. Watched /\ LeavesWithFlag
    BY DEF Init, Watched, LeavesWithFlag
  <2>2. Spawners = {1}
    BY DEF Init, Spawners
  <2>3. Cardinality({1}) = 1 /\ initFails = 0
    BY FS_Singleton DEF Init
  <2> QED
    BY <2>1, <2>2, <2>3 DEF SpawnInv
<1>2. TypeOK /\ SpawnInv /\ [Next]_vars => SpawnInv'
  <2> SUFFICES ASSUME TypeOK, SpawnInv, [Next]_vars PROVE SpawnInv'
    OBVIOUS
  <2> USE DEF SpawnInv
  <2>1. Watched'
    <3>1. CASE \A p \in Procs : ~Restart(p)
      <4>1. 1 \in Procs
        OBVIOUS
      <4>2. /\ pid_busi' = pid_busi /\ parent' = parent
            /\ \A p \in Procs : /\ Alive(p)' => Alive(p)
                                /\ st'[p] = "unborn" <=> st[p] = "unborn"
        BY <3>1, NobodyElseForks
      <4> HIDE DEF Alive
      <4> QED
        BY <4>1, <4>2 DEF Watched
    <3> QED
      BY <3>1, ForkWatched
  <2>2. LeavesWithFlag'
    BY FlagStep
  <2>3. Cardinality(Spawners') <= 1 + initFails'
    <3>0. /\ IsFiniteSet(Spawners) /\ Cardinality(Spawners) \in Nat
          /\ Cardinality(Spawners) <= 1 + initFails /\ initFails \in Nat
      BY SpawnersFinite DEF TypeOK
    <3>1. CASE Spawners' \subseteq Spawners /\ initFails' = initFails
      <4>1. Cardinality(Spawners') <= Cardinality(Spawners)
            /\ IsFiniteSet(Spawners')
        BY <3>0, <3>1, FS_Subset
      <4>2. Cardinality(Spawners') \in Nat
        BY <4>1, FS_CardinalityType
      <4> QED
        BY <3>0, <3>1, <4>1, <4>2
    <3>2. ASSUME NEW p \in Procs, Spawners' \subseteq Spawners \cup {p},
                 initFails' = initFails + 1
          PROVE  Cardinality(Spawners') <= 1 + initFails'
      <4>1. /\ IsFiniteSet(Spawners \cup {p})
            /\ Cardinality(Spawners \cup {p}) <= Cardinality(Spawners) + 1
            /\ Cardinality(Spawners \cup {p}) \in Nat
        BY <3>0, FS_AddElement, FS_CardinalityType
      <4>2. /\ Cardinality(Spawners') <= Cardinality(Spawners \cup {p})
            /\ IsFiniteSet(Spawners')
        BY <3>2, <4>1, FS_Subset
      <4>3. Cardinality(Spawners') \in Nat
        BY <4>2, FS_CardinalityType
      <4> QED
        BY <3>0, <3>2, <4>1, <4>2, <4>3
    <3> QED
      BY <3>1, <3>2, SpawnersStep
  <2> QED
    BY <2>1, <2>2, <2>3
<1> QED
  BY <1>1, <1>2, TypeCorrect, PTL DEF Spec

\* Two living processes have two parents, so there are not more of them than
\* spawners, and process 1.
LEMMA FewAlive ==
    ASSUME TypeOK, SpawnInv
    PROVE  Cardinality({p \in Procs : Alive(p)}) <= 2 + initFails
<1> DEFINE Living == {p \in Procs : Alive(p)}
           Children == Living \ {1}
<1>0. IsFiniteSet(Procs)
  BY FS_Interval
<1>1. /\ IsFiniteSet(Living) /\ IsFiniteSet(Children)
      /\ Living \subseteq Children \cup {1}
  <2>1. Living \in SUBSET Procs /\ Children \in SUBSET Procs
    OBVIOUS
  <2> HIDE DEF Procs
  <2>2. IsFiniteSet(Living) /\ IsFiniteSet(Children)
    BY <1>0, <2>1, FS_Subset
  <2> QED
    BY <2>2
<1>2. Cardinality(Children) \in Nat /\ Cardinality(Living) \in Nat
  BY <1>1, FS_CardinalityType
<1>3. IsFiniteSet(Spawners) /\ Cardinality(Spawners) \in Nat
  BY SpawnersFinite
<1>4. Cardinality(Children) <= Cardinality(Spawners)
  <2> SUFFICES ASSUME Cardinality(Spawners) < Cardinality(Children) PROVE FALSE
    BY <1>2, <1>3
  <2> DEFINE f == [p \in Children |-> parent[p]]
  <2>1. \A p \in Children : /\ parent[p] \in Spawners
                            /\ pid_busi[parent[p]] = p
    BY DEF TypeOK, SpawnInv, Watched, Spawners
  <2>2. f \in [Children -> Spawners]
    BY <2>1
  <2>3. \E p, q \in Children : p # q /\ f[p] = f[q]
    <3> HIDE DEF Children, f
    <3> QED
      BY <1>1, <1>3, <2>2, FS_PigeonHole
  <2> QED
    BY <2>1, <2>3
<1>5. Cardinality(Living) <= Cardinality(Children) + 1
  <2> HIDE DEF Living, Children
  <2>1. /\ IsFiniteSet(Children \cup {1})
        /\ Cardinality(Children \cup {1}) <= Cardinality(Children) + 1
        /\ Cardinality(Children \cup {1}) \in Nat
    <3>1. /\ IsFiniteSet(Children \cup {1})
          /\ Cardinality(Children \cup {1}) =
               IF 1 \in Children THEN Cardinality(Children)
                                ELSE Cardinality(Children) + 1
      BY <1>1, FS_AddElement
    <3> QED
      BY <1>2, <3>1
  <2>2. Cardinality(Living) <= Cardinality(Children \cup {1})
    BY <1>1, <2>1, FS_Subset
  <2> QED
    BY <1>2, <2>1, <2>2
<1>6. Cardinality(Spawners) <= 1 + initFails /\ initFails \in Nat
  BY DEF SpawnInv, TypeOK
<1> HIDE DEF Living, Children
<1>7. Cardinality(Living) <= 2 + initFails
  BY <1>2, <1>3, <1>4, <1>5, <1>6
<1> QED
  BY <1>7 DEF Living

\* Restarts never pile up processes; and until an initialisation fails there is
\* one business process at most, and the one that serves owns the request
\* address.
THEOREM OneServerHolds == Spec => []OneServer
<1>1. SupInv /\ SpawnInv => OneServer
  <2> SUFFICES ASSUME TypeOK, SpawnInv, OnlyChild PROVE OneServer
    BY FewAlive DEF SupInv, OneServer
  <2> USE DEF TypeOK, OnlyChild
  <2>1. ASSUME NEW p \in Procs, NEW q \in Procs, st[p] \in Comm, st[q] \in Comm
        PROVE  p = q
    <3>1. pid_busi[1] = p /\ pid_busi[1] = q
      BY <2>1, CommIsChild
    <3> QED
      BY <3>1
  <2>2. ASSUME NEW p \in Procs, st[p] = "serve" PROVE bound = {p}
    <3>1. p \in bound
      BY <2>2
    <3>2. \A q \in bound : q \in Procs /\ st[q] \in Comm
      OBVIOUS
    <3> QED
      BY <2>1, <2>2, <3>1, <3>2
  <2> QED
    BY <2>1, <2>2, FewAlive DEF OneServer
<1> QED
  BY <1>1, SupInvHolds, SpawnInvHolds, PTL

-----------------------------------------------------------------------------
\* DeathIsSeen.  Process 1 is nobody's child and always names a process it has
\* forked, so that waitpid can only fail for it when that process is dead; and
\* until a stop request the only living child is in gfread_busi_comm.

FirstProcess ==
    /\ st[1] \in Loop \/ (st[1] = "dead" /\ exit_flag[1] = 1)
    /\ parent[1] = NoPid
    /\ pid_busi[1] > NoPid

\* Nobody forks process 1, and it stores what fork returns only when it works.
THEOREM FirstProcessHolds == Spec => []FirstProcess
<1>1. Init => FirstProcess
  BY DEF Init, FirstProcess
<1>2. TypeOK /\ FirstProcess /\ [Next]_vars => FirstProcess'
  <2> SUFFICES ASSUME TypeOK, FirstProcess, [Next]_vars PROVE FirstProcess'
    OBVIOUS
  <2> USE DEF TypeOK, FirstProcess
  <2>0. 1 \in Procs
    OBVIOUS
  <2>a. CASE ListPids
    BY <2>a DEF ListPids
  <2>1. ASSUME NEW q \in Procs, Tell(q) PROVE FirstProcess'
    BY <2>0, <2>1, Told
  <2>2. ASSUME NEW p \in Procs, Check(p) \/ NothingToDo(p) \/ RestartFails(p)
                                \/ Wake(p) \/ Bind(p)
        PROVE  FirstProcess'
    BY <2>0, <2>2 DEF Check, NothingToDo, RestartFails, Wake, Bind
  <2>3. ASSUME NEW p \in Procs, InitOk(p) \/ InitFailed(p) \/ Leave(p)
                                \/ Crash(p)
        PROVE  FirstProcess'
    BY <2>0, <2>3 DEF InitOk, InitFailed, Leave, Crash
  <2>4. ASSUME NEW p \in Procs, Restart(p) PROVE FirstProcess'
    <3>1. PICK c \in Procs : /\ st[c] = "unborn"
                             /\ st' = [st EXCEPT ![p] = "sleep", ![c] = "comm"]
                             /\ pid_busi' = [pid_busi EXCEPT ![p] = c,
                                                      ![c] = pid_busi[p]]
                             /\ parent' = [parent EXCEPT ![c] = p]
                             /\ exit_flag' = [exit_flag EXCEPT ![c] = ChildFlag(p)]
      BY <2>4 DEF Restart, Fresh
    <3>2. c # 1
      BY <3>1
    <3>3. /\ st'[1] = IF p = 1 THEN "sleep" ELSE st[1]
          /\ exit_flag'[1] = exit_flag[1]
          /\ parent'[1] = NoPid
      BY <2>0, <3>1, <3>2
    <3>4. pid_busi'[1] = IF p = 1 THEN c ELSE pid_busi[1]
      BY <2>0, <3>1, <3>2
    <3>5. c > NoPid
      OBVIOUS
    <3> QED
      BY <3>3, <3>4, <3>5
  <2>5. CASE UNCHANGED vars
    BY <2>5 DEF vars
  <2> QED
    BY <2>a, <2>1, <2>2, <2>3, <2>4, <2>5 DEF Next, Step
<1> QED
  BY <1>1, <1>2, TypeCorrect, PTL DEF Spec

\* A living child is named by the process that forked it, always; and until an
\* initialisation fails or a stop request comes, waitpid fails for the
\* supervisor exactly when there is no business process, and then the request
\* address is free.
THEOREM DeathIsSeenHolds == Spec => []DeathIsSeen
<1>1. SupInv /\ SpawnInv /\ FirstProcess => DeathIsSeen
  <2>a. SpawnInv =>
          \A p \in Procs :
              Alive(p) /\ parent[p] # NoPid => pid_busi[parent[p]] = p
    BY DEF SpawnInv, Watched
  <2> SUFFICES ASSUME TypeOK, OnlyChild, FirstProcess, ~Stopping
               PROVE  /\ st[1] \in Loop
                      /\ WaitFails(1) <=> \A p \in Procs : st[p] \notin Comm
                      /\ WaitFails(1) => bound = {}
    BY <2>a DEF SupInv, DeathIsSeen
  <2> USE DEF TypeOK, OnlyChild, FirstProcess
  <2>0. 1 \in Procs /\ \A p \in Procs : exit_flag[p] = 0
    BY DEF Stopping
  <2>1. st[1] \in Loop
    BY <2>0
  <2>2. ASSUME NEW p \in Procs, st[p] \in Comm PROVE ~WaitFails(1)
    <3>1. p # 1 /\ pid_busi[1] = p /\ parent[p] = 1
      BY <2>2, CommIsChild
    <3> QED
      BY <2>2, <3>1 DEF WaitFails
  <2>3. ASSUME ~WaitFails(1) PROVE \E p \in Procs : st[p] \in Comm
    <3>1. /\ pid_busi[1] \in Procs
          /\ parent[pid_busi[1]] = 1
          /\ Alive(pid_busi[1])
      BY <2>3 DEF WaitFails
    <3>2. pid_busi[1] # 1
      BY <3>1
    <3>3. st[pid_busi[1]] \notin Loop
      BY <2>0, <3>1, <3>2
    <3> QED
      BY <3>1, <3>3
  <2>4. ASSUME WaitFails(1) PROVE bound = {}
    <3>1. \A p \in Procs : st[p] \notin Comm
      BY <2>2, <2>4
    <3> QED
      BY <3>1
  <2> QED
    BY <2>1, <2>2, <2>3, <2>4
<1> QED
  BY <1>1, SupInvHolds, SpawnInvHolds, FirstProcessHolds, PTL

-----------------------------------------------------------------------------
\* StateOK.  In every location of the supervising loop the guard of some action
\* holds: with waitpid's answer and fork's, whatever they are.

\* Nobody who supervises is ever stuck.
THEOREM StateOKHolds == Spec /\ []StepRule => []StateOK
<1>1. TypeOK /\ StepRule => StateOK
  <2> SUFFICES ASSUME TypeOK, StepRule, NEW p \in Procs, st[p] \in Loop
               PROVE  Ready(p)
    BY DEF StateOK, SupervisorCanGoOn, StepRule
  <2>1. exit_flag[p] \in {0, 1}
    BY DEF TypeOK
  <2> QED
    BY <2>1 DEF Ready
<1> QED
  BY <1>1, TypeCorrect, PTL

-----------------------------------------------------------------------------
\* SupervisorsStop.  A process that has the flag goes from "wait" to "sleep" and
\* to "check", and there it ends; a signal only shortens the way.

\* A step of a process in the supervising loop takes it on.
LEMMA LoopStep ==
    ASSUME TypeOK, NEW p \in Procs, Step(p), st[p] \in Loop
    PROVE  /\ exit_flag'[p] = exit_flag[p]
           /\ st[p] = "wait" => st'[p] = "sleep"
           /\ st[p] = "sleep" => st'[p] = "check"
           /\ st[p] = "check" /\ exit_flag[p] = 1 => st'[p] = "dead"
<1> USE DEF TypeOK
<1>1. CASE Check(p)
  BY <1>1 DEF Check
<1>2. CASE NothingToDo(p) \/ RestartFails(p) \/ Wake(p)
  BY <1>2 DEF NothingToDo, RestartFails, Wake
<1>3. CASE Restart(p)
  <2>1. PICK c \in Procs : /\ st[c] = "unborn"
                           /\ st' = [st EXCEPT ![p] = "sleep", ![c] = "comm"]
                           /\ exit_flag' = [exit_flag EXCEPT ![c] = ChildFlag(p)]
    BY <1>3 DEF Restart, Fresh
  <2>2. st[p] = "wait" /\ c # p
    BY <1>3, <2>1 DEF Restart
  <2> QED
    BY <2>1, <2>2
<1>4. CASE Bind(p) \/ InitOk(p) \/ InitFailed(p)
  BY <1>4 DEF Bind, InitOk, InitFailed
<1> QED
  BY <1>1, <1>2, <1>3, <1>4 DEF Step

\* The others only send it the signal.
LEMMA LoopOthers ==
    ASSUME TypeOK, [Next]_vars, NEW p \in Procs, ~Step(p), st[p] \in Loop
    PROVE  \/ st'[p] = st[p] /\ exit_flag'[p] = exit_flag[p]
           \/ /\ exit_flag'[p] = 1
              /\ st'[p] = IF st[p] = "sleep" THEN "check" ELSE st[p]
<1> USE DEF TypeOK
<1>a. CASE ListPids
  BY <1>a DEF ListPids
<1>1. ASSUME NEW q \in Procs, Tell(q)
      PROVE  \/ st'[p] = st[p] /\ exit_flag'[p] = exit_flag[p]
             \/ /\ exit_flag'[p] = 1
                /\ st'[p] = IF st[p] = "sleep" THEN "check" ELSE st[p]
  BY <1>1, Told
<1>2. ASSUME NEW q \in Procs, Step(q)
      PROVE  st'[p] = st[p] /\ exit_flag'[p] = exit_flag[p]
  <2>1. q # p
    BY <1>2
  <2>2. CASE Restart(q)
    <3>1. PICK c \in Procs :
            /\ st[c] = "unborn"
            /\ st' = [st EXCEPT ![q] = "sleep", ![c] = "comm"]
            /\ exit_flag' = [exit_flag EXCEPT ![c] = ChildFlag(q)]
      BY <2>2 DEF Restart, Fresh
    <3>2. c # p
      BY <3>1
    <3> QED
      BY <2>1, <3>1, <3>2
  <2>3. CASE Check(q) \/ NothingToDo(q) \/ RestartFails(q) \/ Wake(q)
    BY <2>1, <2>3 DEF Check, NothingToDo, RestartFails, Wake
  <2>4. CASE Bind(q) \/ InitOk(q) \/ InitFailed(q)
    BY <2>1, <2>4 DEF Bind, InitOk, InitFailed
  <2> QED
    BY <1>2, <2>2, <2>3, <2>4 DEF Step
<1>3. ASSUME NEW q \in Procs, Leave(q) \/ Crash(q)
      PROVE  st'[p] = st[p] /\ exit_flag'[p] = exit_flag[p]
  <2>1. q # p
    BY <1>3 DEF Leave, Crash
  <2> QED
    BY <1>3, <2>1 DEF Leave, Crash
<1>4. CASE UNCHANGED vars
  BY <1>4 DEF vars
<1> QED
  BY <1>a, <1>1, <1>2, <1>3, <1>4 DEF Next

\* The way of one process.
LEMMA SupervisorStops ==
    ASSUME NEW p \in Procs
    PROVE  Spec /\ Runs(p) /\ []SupervisorCanGoOn =>
             ((exit_flag[p] = 1 /\ st[p] \in Loop) ~> st[p] = "dead")
<1> DEFINE Waiting == exit_flag[p] = 1 /\ st[p] = "wait"
           Sleeping == exit_flag[p] = 1 /\ st[p] = "sleep"
           Checking == exit_flag[p] = 1 /\ st[p] = "check"
           Dead == st[p] = "dead"
<1>1. TypeOK /\ [Next]_vars => /\ Waiting => Waiting' \/ Sleeping'
                               /\ Sleeping => Sleeping' \/ Checking'
                               /\ Checking => Checking' \/ Dead'
  BY LoopStep, LoopOthers
<1>2. TypeOK /\ <<Step(p)>>_vars => /\ Waiting => ~Waiting'
                                    /\ Sleeping => ~Sleeping'
                                    /\ Checking => ~Checking'
  BY LoopStep
<1>3. SupervisorCanGoOn =>
        (Waiting \/ Sleeping \/ Checking => ENABLED <<Step(p)>>_vars)
  BY DEF SupervisorCanGoOn
<1>4. /\ exit_flag[p] = 1 /\ st[p] \in Loop <=> Waiting \/ Sleeping \/ Checking
      /\ st[p] = "dead" <=> Dead
  OBVIOUS
<1> HIDE DEF Waiting, Sleeping, Checking, Dead
<1> QED
  BY <1>1, <1>2, <1>3, <1>4, TypeCorrect, PTL DEF Spec, Runs

\* Whoever supervises ends after a stop request, wherever in the loop it comes
\* and whatever is forked meanwhile, when every process runs on.
THEOREM SupervisorsStopHolds == FairSpec /\ []StepRule => SupervisorsStop
<1>1. ASSUME NEW p \in Procs
      PROVE  FairSpec /\ []StepRule =>
               ((exit_flag[p] = 1 /\ st[p] \in Loop) ~> st[p] = "dead")
  <2>1. FairSpec => Spec /\ Runs(p)
    BY DEF FairSpec
  <2>2. StateOK => SupervisorCanGoOn
    BY DEF StateOK
  <2> QED
    BY <2>1, <2>2, SupervisorStops, StateOKHolds, PTL
<1> QED
  BY <1>1 DEF SupervisorsStop

-----------------------------------------------------------------------------
\* ServiceRecovers.  While nobody is told to stop only a crash kills, so that
\* there are never more dead processes than crashes, and processes are numbered
\* in the order of their forks: with MaxCrashes + 2 processes one is left
\* whenever the supervisor needs it.

Dead == {p \in Procs : st[p] = "dead"}

BornInOrder ==
    \E n \in 1..MaxProcs : \A p \in Procs : st[p] = "unborn" <=> p > n

UnbornUntold == \A p \in Procs : st[p] = "unborn" => exit_flag[p] = 0

DeadByCrash == ~Stopping => Cardinality(Dead) <= crashes

NumbersInv == BornInOrder /\ UnbornUntold /\ DeadByCrash

LEMMA DeadFinite == IsFiniteSet(Dead) /\ Cardinality(Dead) \in Nat
<1>1. IsFiniteSet(Procs) /\ Dead \in SUBSET Procs
  BY FS_Interval DEF Dead
<1> HIDE DEF Procs, Dead
<1> QED
  BY <1>1, FS_Subset, FS_CardinalityType

\* The new process is the one after the last.
LEMMA BornStep ==
    ASSUME TypeOK, BornInOrder, [Next]_vars
    PROVE  BornInOrder'
<1> USE DEF TypeOK
<1>1. PICK n \in 1..MaxProcs : \A p \in Procs : st[p] = "unborn" <=> p > n
  BY DEF BornInOrder
<1>2. CASE \A p \in Procs : ~Restart(p)
  <2>1. \A p \in Procs : st'[p] = "unborn" <=> st[p] = "unborn"
    BY <1>2, NobodyElseForks
  <2> QED
    BY <1>1, <2>1 DEF BornInOrder
<1>3. ASSUME NEW p \in Procs, Restart(p) PROVE BornInOrder'
  <2>1. PICK c \in Procs : c \in Fresh /\ Restart(p)!3!(c)
    BY <1>3 DEF Restart, Fresh
  <2>2. /\ st[c] = "unborn" /\ \A q \in 1..(c-1) : st[q] # "unborn"
        /\ st' = [st EXCEPT ![p] = "sleep", ![c] = "comm"]
        /\ st[p] = "wait"
    BY <1>3, <2>1 DEF Fresh, Restart
  <2>3. c = n + 1
    <3>1. c > n
      BY <1>1, <2>2
    <3>2. c > n + 1 => n + 1 \in Procs /\ n + 1 \in 1..(c-1)
      BY <3>1
    <3>3. n + 1 \in Procs => st[n + 1] = "unborn"
      BY <1>1
    <3> QED
      BY <2>2, <3>1, <3>2, <3>3
  <2>4. \A q \in Procs : st'[q] = "unborn" <=> q > c
    BY <1>1, <2>2, <2>3
  <2> QED
    BY <2>4 DEF BornInOrder
<1> QED
  BY <1>2, <1>3

\* Only a living process gets the flag.
LEMMA UntoldStep ==
    ASSUME TypeOK, UnbornUntold, [Next]_vars
    PROVE  UnbornUntold'
<1> USE DEF TypeOK, UnbornUntold
<1>a. CASE ListPids
  BY <1>a DEF ListPids
<1>1. ASSUME NEW q \in Procs, Tell(q) PROVE UnbornUntold'
  BY <1>1, Told
<1>2. ASSUME NEW p \in Procs, Restart(p) PROVE UnbornUntold'
  <2>1. PICK c \in Procs \ {p} :
          /\ st[c] = "unborn"
          /\ st' = [st EXCEPT ![p] = "sleep", ![c] = "comm"]
          /\ exit_flag' = [exit_flag EXCEPT ![c] = exit_flag[p]]
    BY <1>2, Forked
  <2> QED
    BY <2>1
<1>3. ASSUME NEW p \in Procs,
             Check(p) \/ NothingToDo(p) \/ RestartFails(p) \/ Wake(p) \/ Bind(p)
             \/ InitOk(p) \/ InitFailed(p) \/ Leave(p) \/ Crash(p)
      PROVE  UnbornUntold'
  BY <1>3 DEF Check, NothingToDo, RestartFails, Wake, Bind, InitOk, InitFailed,
              Leave, Crash
<1>4. CASE UNCHANGED vars
  BY <1>4 DEF vars
<1> QED
  BY <1>a, <1>1, <1>2, <1>3, <1>4 DEF Next, Step

\* Nobody dies without a crash or a stop request.
LEMMA DeadStep ==
    ASSUME TypeOK, UnbornUntold, [Next]_vars, ~Stopping'
    PROVE  /\ ~Stopping
           /\ \/ Dead' \subseteq Dead /\ crashes' = crashes
              \/ \E p \in Procs : Dead' \subseteq Dead \cup {p}
                                  /\ crashes' = crashes + 1
<1> USE DEF TypeOK, Stopping, Dead
<1>0. \A q \in Procs : exit_flag'[q] # 1
  OBVIOUS
<1>a. CASE ListPids
  BY <1>a DEF ListPids
<1>1. ASSUME NEW q \in Procs, Tell(q)
      PROVE  ~Stopping /\ Dead' \subseteq Dead /\ crashes' = crashes
  BY <1>1, Told
<1>2. ASSUME NEW p \in Procs, Check(p)
      PROVE  ~Stopping /\ Dead' \subseteq Dead /\ crashes' = crashes
  BY <1>2 DEF Check
<1>3. ASSUME NEW p \in Procs,
             NothingToDo(p) \/ RestartFails(p) \/ Wake(p) \/ Bind(p) \/ InitOk(p)
             \/ InitFailed(p) \/ Leave(p)
      PROVE  ~Stopping /\ Dead' \subseteq Dead /\ crashes' = crashes
  BY <1>3 DEF NothingToDo, RestartFails, Wake, Bind, InitOk, InitFailed, Leave
<1>4. ASSUME NEW p \in Procs, Restart(p)
      PROVE  ~Stopping /\ Dead' \subseteq Dead /\ crashes' = crashes
  <2>1. PICK c \in Procs \ {p} :
          /\ st[c] = "unborn"
          /\ st' = [st EXCEPT ![p] = "sleep", ![c] = "comm"]
          /\ exit_flag' = [exit_flag EXCEPT ![c] = exit_flag[p]]
    BY <1>4, Forked
  <2>2. \A q \in Procs : q # c => exit_flag'[q] = exit_flag[q]
    BY <2>1
  <2>3. exit_flag[c] = 0
    BY <2>1 DEF UnbornUntold
  <2>4. crashes' = crashes /\ Dead' \subseteq Dead
    BY <1>4, <2>1 DEF Restart
  <2>5. \A q \in Procs : exit_flag[q] # 1
    <3> HIDE DEF TypeOK, Stopping, Dead, Procs
    <3> QED
      BY <1>0, <2>2, <2>3
  <2> QED
    BY <2>4, <2>5
<1>5. ASSUME NEW p \in Procs, Crash(p)
      PROVE  ~Stopping /\ Dead' \subseteq Dead \cup {p} /\ crashes' = crashes + 1
  BY <1>5 DEF Crash
<1>6. CASE UNCHANGED vars
  BY <1>6 DEF vars
<1> QED
  BY <1>a, <1>1, <1>2, <1>3, <1>4, <1>5, <1>6 DEF Next, Step

\* Processes are born in order, and while nobody is told to stop there are no
\* more dead ones than crashes.
THEOREM NumbersHold == Spec => []NumbersInv
<1>1. Init => NumbersInv
  <2> SUFFICES ASSUME Init PROVE NumbersInv
    OBVIOUS
  <2>1. BornInOrder
    <3>1. CASE MaxProcs = 1
      <4>1. \A p \in Procs : st[p] = "unborn" <=> p > 1
        BY <3>1 DEF Init
      <4> QED
        BY <4>1 DEF BornInOrder
    <3>2. CASE MaxProcs # 1
      <4>1. 2 \in 1..MaxProcs
        BY <3>2
      <4>2. \A p \in Procs : st[p] = "unborn" <=> p > 2
        BY <3>2 DEF Init
      <4> QED
        BY <4>1, <4>2 DEF BornInOrder
    <3> QED
      BY <3>1, <3>2
  <2>2. Dead = {} /\ crashes = 0 /\ UnbornUntold
    BY DEF Init, Dead, UnbornUntold
  <2>3. Cardinality({}) = 0
    BY FS_EmptySet
  <2> QED
    BY <2>1, <2>2, <2>3 DEF NumbersInv, DeadByCrash
<1>2. TypeOK /\ NumbersInv /\ [Next]_vars => NumbersInv'
  <2> SUFFICES ASSUME TypeOK, NumbersInv, [Next]_vars PROVE NumbersInv'
    OBVIOUS
  <2>0. BornInOrder /\ UnbornUntold /\ DeadByCrash
    BY DEF NumbersInv
  <2>1. BornInOrder'
    BY <2>0, BornStep
  <2>2. UnbornUntold'
    BY <2>0, UntoldStep
  <2>3. ASSUME ~Stopping' PROVE Cardinality(Dead') <= crashes'
    <3>0. /\ IsFiniteSet(Dead) /\ Cardinality(Dead) \in Nat
          /\ Cardinality(Dead) <= crashes /\ crashes \in Nat
      BY <2>0, <2>3, DeadFinite, DeadStep DEF DeadByCrash, TypeOK
    <3>1. CASE Dead' \subseteq Dead /\ crashes' = crashes
      <4>1. Cardinality(Dead') <= Cardinality(Dead) /\ IsFiniteSet(Dead')
        BY <3>0, <3>1, FS_Subset
      <4>2. Cardinality(Dead') \in Nat
        BY <4>1, FS_CardinalityType
      <4> QED
        BY <3>0, <3>1, <4>1, <4>2
    <3>2. ASSUME NEW p \in Procs, Dead' \subseteq Dead \cup {p},
                 crashes' = crashes + 1
          PROVE  Cardinality(Dead') <= crashes'
      <4>0. /\ IsFiniteSet(Dead \cup {p})
            /\ Cardinality(Dead \cup {p}) = IF p \in Dead THEN Cardinality(Dead)
                                            ELSE Cardinality(Dead) + 1
        BY <3>0, FS_AddElement
      <4>1. /\ IsFiniteSet(Dead \cup {p})
            /\ Cardinality(Dead \cup {p}) <= Cardinality(Dead) + 1
            /\ Cardinality(Dead \cup {p}) \in Nat
        BY <3>0, <4>0
      <4>2. /\ Cardinality(Dead') <= Cardinality(Dead \cup {p})
            /\ IsFiniteSet(Dead')
        BY <3>2, <4>1, FS_Subset
      <4>3. Cardinality(Dead') \in Nat
        BY <4>2, FS_CardinalityType
      <4> QED
        BY <3>0, <3>2, <4>1, <4>2, <4>3
    <3> QED
      BY <2>0, <2>3, <3>1, <3>2, DeadStep
  <2> QED
    BY <2>1, <2>2, <2>3 DEF NumbersInv, DeadByCrash
<1> QED
  BY <1>1, <1>2, TypeCorrect, PTL DEF Spec

\* With a supervisor and otherwise dead processes there is one left to fork.
LEMMA OneLeft ==
    ASSUME TypeOK, NumbersInv, ~Stopping, MaxProcs >= MaxCrashes + 2,
           \A p \in Procs \ {1} : ~Alive(p)
    PROVE  Fresh # {}
<1>1. PICK n \in 1..MaxProcs : \A p \in Procs : st[p] = "unborn" <=> p > n
  BY DEF NumbersInv, BornInOrder
<1>2. IsFiniteSet(Dead) /\ Cardinality(Dead) \in Nat
  BY DeadFinite
<1>3. Cardinality(Dead) <= MaxCrashes
  BY <1>2 DEF NumbersInv, DeadByCrash, TypeOK
<1>4. ASSUME NEW p \in 2..n PROVE p \in Dead
  <2>1. p \in Procs \ {1} /\ st[p] # "unborn"
    BY <1>1
  <2>2. st[p] \in Loop \cup Comm \cup {"unborn", "dead"}
    BY <2>1 DEF TypeOK
  <2> QED
    BY <2>1, <2>2 DEF Dead
<1>5. Cardinality(2..n) = IF n < 2 THEN 0 ELSE n - 1
  <2>1. Cardinality(2..n) = IF 2 > n THEN 0 ELSE n - 2 + 1
    BY FS_Interval
  <2> QED
    BY <2>1
<1>6. Cardinality(2..n) <= Cardinality(Dead)
  BY <1>2, <1>4, FS_Subset
<1>7. n + 1 \in Procs
  <2> DEFINE dead == Cardinality(Dead)
             born == Cardinality(2..n)
  <2>1. dead \in Nat /\ dead <= MaxCrashes /\ born <= dead
    BY <1>2, <1>3, <1>6
  <2>2. born = IF n < 2 THEN 0 ELSE n - 1
    BY <1>5
  <2> HIDE DEF dead, born
  <2> QED
    BY <2>1, <2>2
<1>8. st[n + 1] = "unborn" /\ \A q \in 1..((n + 1) - 1) : st[q] # "unborn"
  BY <1>1, <1>7
<1> QED
  BY <1>7, <1>8 DEF Fresh

\* From some moment on no business process crashes and fork does not fail for
\* want of anything but processes.
Undisturbed == crashes' = crashes /\ forkFails' = forkFails

FaultsEnd == <>[][Undisturbed]_vars

\* Fewer than n crashes and failing forks are still to come.
FewerFaults(n) == (MaxCrashes - crashes) + (MaxForkFails - forkFails) < n

\* When fewer than n are to come, at last no more do.
DisturbancesEnd(n) == [](FewerFaults(n) => FaultsEnd)

\* Induction over the natural numbers, for DisturbancesEnd.  It holds of every
\* formula; the provers have no rule for it when the formula is a temporal one.
FaultInduction ==
    DisturbancesEnd(0)
      /\ (\A n \in Nat : DisturbancesEnd(n) => DisturbancesEnd(n + 1))
      => \A n \in Nat : DisturbancesEnd(n)

\* A crash or a failing fork leaves fewer to come, and no other step brings more.
LEMMA FaultStep ==
    ASSUME TypeOK, TypeOK', [Next]_vars, NEW n \in Nat, FewerFaults(n + 1)
    PROVE  FewerFaults(n + 1)' /\ ([Undisturbed]_vars \/ FewerFaults(n)')
<1>1. /\ crashes \in Nat /\ crashes' \in Nat /\ MaxCrashes \in Nat
      /\ forkFails \in Nat /\ forkFails' \in Nat /\ MaxForkFails \in Nat
  BY SupervisorAssumption DEF TypeOK
<1>2. (MaxCrashes - crashes) + (MaxForkFails - forkFails) < n + 1
  BY DEF FewerFaults
<1>3. \/ crashes' = crashes /\ forkFails' = forkFails
      \/ crashes' = crashes + 1 /\ forkFails' = forkFails
      \/ crashes' = crashes /\ forkFails' = forkFails + 1
  BY DEF Next, Step, Check, NothingToDo, Restart, RestartFails, Wake, Bind,
         InitOk, InitFailed, Leave, Crash, ListPids, Tell, vars
<1>4. CASE crashes' = crashes /\ forkFails' = forkFails
  BY <1>4 DEF FewerFaults, Undisturbed
<1>5. CASE crashes' = crashes + 1 /\ forkFails' = forkFails
  BY <1>1, <1>2, <1>5 DEF FewerFaults
<1>6. CASE crashes' = crashes /\ forkFails' = forkFails + 1
  BY <1>1, <1>2, <1>6 DEF FewerFaults
<1> QED
  BY <1>3, <1>4, <1>5, <1>6

\* The model has a bounded number of faults, so they come to an end.
THEOREM FaultsEndHolds == Spec /\ FaultInduction => FaultsEnd
<1> DEFINE all == MaxCrashes + MaxForkFails + 1
<1>1. Spec => DisturbancesEnd(0)
  <2>1. TypeOK => ~FewerFaults(0)
    BY SupervisorAssumption DEF TypeOK, FewerFaults
  <2> QED
    BY <2>1, TypeCorrect, PTL DEF DisturbancesEnd
<1>2. ASSUME NEW n \in Nat
      PROVE  Spec => (DisturbancesEnd(n) => DisturbancesEnd(n + 1))
  <2>1. TypeOK /\ TypeOK' /\ [Next]_vars =>
          (FewerFaults(n + 1) =>
             FewerFaults(n + 1)' /\ ([Undisturbed]_vars \/ FewerFaults(n)'))
    BY FaultStep
  <2> QED
    BY <2>1, TypeCorrect, PTL DEF Spec, DisturbancesEnd, FaultsEnd
<1>3. Spec /\ FaultInduction => \A n \in Nat : DisturbancesEnd(n)
  BY <1>1, <1>2 DEF FaultInduction
<1>4. all \in Nat
  BY SupervisorAssumption
<1>5. TypeOK => FewerFaults(all)
  BY SupervisorAssumption DEF TypeOK, FewerFaults
<1> HIDE DEF all
<1>6. Spec /\ FaultInduction => DisturbancesEnd(all)
  BY <1>3, <1>4
<1> QED
  BY <1>5, <1>6, TypeCorrect, PTL DEF DisturbancesEnd

Recovered == Serving \/ Stopping \/ initFails > 0

\* What holds as long as the service has not recovered.
RecInv ==
    TypeOK /\ SupInv /\ FirstProcess /\ DeathIsSeen /\ NumbersInv

THEOREM RecInvHolds == Spec => []RecInv
BY TypeCorrect, SupInvHolds, FirstProcessHolds, DeathIsSeenHolds, NumbersHold, PTL
DEF RecInv

\* Nothing holds up a child on its way to service but its own steps.
LEMMA ChildStep ==
    ASSUME RecInv, [Next]_vars, [Undisturbed]_vars, ~Recovered',
           NEW p \in Procs, st[p] \in {"comm", "init"}
    PROVE  /\ Step(p) => st[p] = "comm" /\ st'[p] = "init"
           /\ ~Step(p) => st'[p] = st[p]
<1> USE DEF TypeOK, RecInv
<1>1. /\ ~Stopping' /\ initFails' = 0
      /\ \A q \in Procs : st'[q] = "serve" => q \notin bound'
  <2>1. initFails' \in Nat
    BY TypeStep
  <2>2. ~(Serving') /\ ~(Stopping') /\ ~(initFails' > 0)
    BY DEF Recovered
  <2>3. \A q \in Procs : st'[q] = "serve" => q \notin bound'
    BY <2>2 DEF Serving
  <2> QED
    BY <2>1, <2>2, <2>3
<1>2. crashes' = crashes
  BY DEF Undisturbed, vars
<1>3. ASSUME NEW q \in Procs, Tell(q) PROVE st'[p] = st[p]
  BY <1>3, Told
<1>4. ASSUME NEW q \in Procs, Restart(q) PROVE q # p /\ st'[p] = st[p]
  <2>1. PICK c \in Procs \ {q} :
          /\ st[c] = "unborn"
          /\ st' = [st EXCEPT ![q] = "sleep", ![c] = "comm"]
    BY <1>4, Forked
  <2>2. st[q] = "wait"
    BY <1>4 DEF Restart
  <2> QED
    BY <2>1, <2>2
<1>5. ASSUME NEW q \in Procs,
             Check(q) \/ NothingToDo(q) \/ RestartFails(q) \/ Wake(q) \/ Leave(q)
      PROVE  q # p /\ st'[p] = st[p]
  BY <1>5 DEF Check, NothingToDo, RestartFails, Wake, Leave
<1>6. ASSUME NEW q \in Procs, Crash(q) PROVE FALSE
  BY <1>2, <1>6 DEF Crash
<1>7. ASSUME NEW q \in Procs, InitFailed(q) PROVE FALSE
  BY <1>1, <1>7 DEF InitFailed
<1>8. ASSUME NEW q \in Procs, InitOk(q) PROVE FALSE
  <2>1. st[q] = "init" /\ st'[q] = "serve" /\ bound' = bound /\ initFails' = initFails
    BY <1>8 DEF InitOk
  <2>2. q \in bound
    BY <1>1, <2>1 DEF SupInv, OnlyChild
  <2> QED
    BY <1>1, <2>1, <2>2
<1>9. ASSUME NEW q \in Procs, Bind(q)
      PROVE  /\ st[q] = "comm" /\ st'[q] = "init"
             /\ q # p => st'[p] = st[p]
  BY <1>9 DEF Bind
<1>10. UNCHANGED vars => st'[p] = st[p]
  BY DEF vars
<1>11. Step(p) => st[p] = "comm" /\ st'[p] = "init"
  BY <1>4, <1>5, <1>7, <1>8, <1>9 DEF Step
<1>12. ~Step(p) => st'[p] = st[p]
  <2>1. ListPids => st'[p] = st[p]
    BY DEF ListPids
  <2> QED
    BY <2>1, <1>3, <1>4, <1>5, <1>6, <1>7, <1>8, <1>9, <1>10 DEF Next, Step
<1> QED
  BY <1>11, <1>12

\* A child that runs serves, or an initialisation fails, or it is told to stop.
LEMMA ChildServes ==
    ASSUME NEW p \in Procs
    PROVE  [][Next]_vars /\ []RecInv /\ []StepRule /\ [][Undisturbed]_vars
             /\ Runs(p) =>
             [](st[p] \in {"comm", "init"} => <>Recovered)
<1> DEFINE Called == st[p] = "comm"
           Initialising == st[p] = "init"
           Child == st[p] \in {"comm", "init"}
<1>1. RecInv /\ [Next]_vars /\ [Undisturbed]_vars =>
        /\ Called => Called' \/ Initialising' \/ Recovered'
        /\ Initialising => Initialising' \/ Recovered'
  BY ChildStep
<1>2. RecInv /\ [Next]_vars /\ [Undisturbed]_vars /\ <<Step(p)>>_vars =>
        /\ Called => Initialising' \/ Recovered'
        /\ Initialising => Recovered'
  BY ChildStep
<1>3. StepRule => (Called \/ Initialising => ENABLED <<Step(p)>>_vars)
  BY DEF StepRule, Ready
<1>4. Child <=> Called \/ Initialising
  OBVIOUS
<1>5. Initialising => ~Called
  OBVIOUS
<1> HIDE DEF Called, Initialising, Child
<1>6. [][Next]_vars /\ []RecInv /\ []StepRule /\ [][Undisturbed]_vars /\ Runs(p) =>
        [](Child => <>Recovered)
  BY <1>1, <1>2, <1>3, <1>4, <1>5, PTL DEF Runs
<1> QED
  BY <1>6 DEF Child

Childless == \A p \in Procs : st[p] \notin {"comm", "init"}

\* Until the service has recovered and while there is no child, process 1 is the
\* only one that lives, its waitpid fails, and there is a process to fork.
LEMMA OnlySupervisor ==
    ASSUME RecInv, MaxProcs >= MaxCrashes + 2, ~Recovered, Childless
    PROVE  /\ st[1] \in Loop /\ exit_flag[1] = 0
           /\ \A p \in Procs \ {1} : ~Alive(p)
           /\ WaitFails(1) /\ Fresh # {}
<1> USE DEF RecInv
<1>0. 1 \in Procs
  OBVIOUS
<1>1. ~Stopping /\ initFails = 0 /\ ~Serving
  BY DEF Recovered, TypeOK
<1>2. OnlyChild
  BY <1>1 DEF SupInv
<1>3. \A p \in Procs : exit_flag[p] = 0
  BY <1>1 DEF Stopping, TypeOK
<1>4. \A p \in Procs : st[p] \notin Comm
  BY <1>1, <1>2, <1>3 DEF Childless, OnlyChild, Serving
<1>5. \A p \in Procs \ {1} : ~Alive(p)
  BY <1>2, <1>3, <1>4 DEF OnlyChild
<1>6. st[1] \in Loop /\ WaitFails(1)
  BY <1>1, <1>4 DEF DeathIsSeen
<1>7. Fresh # {}
  BY <1>1, <1>5, OneLeft
<1> QED
  BY <1>0, <1>3, <1>5, <1>6, <1>7

\* Then it goes round its loop until it forks.
LEMMA SupervisorStep ==
    ASSUME RecInv, [Next]_vars, [Undisturbed]_vars, MaxProcs >= MaxCrashes + 2,
           ~Recovered, ~Recovered', Childless
    PROVE  /\ Step(1) =>
                /\ st[1] = "sleep" => Childless' /\ st'[1] = "check"
                /\ st[1] = "check" => Childless' /\ st'[1] = "wait"
                /\ st[1] = "wait" => ~Childless'
           /\ ~Step(1) => Childless' /\ st'[1] = st[1]
<1> USE DEF TypeOK, RecInv, Childless
<1>0. 1 \in Procs
  OBVIOUS
<1>1. /\ st[1] \in Loop /\ exit_flag[1] = 0
      /\ \A p \in Procs \ {1} : ~Alive(p)
      /\ WaitFails(1) /\ Fresh # {}
  BY OnlySupervisor
<1>2. ~Stopping'
  BY DEF Recovered
<1>3. forkFails' = forkFails
  BY DEF Undisturbed, vars
<1>4. CASE Step(1)
  <2>1. CASE Check(1)
    BY <1>0, <1>1, <1>4, <2>1 DEF Check
  <2>2. CASE Wake(1)
    BY <1>0, <1>1, <1>4, <2>2 DEF Wake
  <2>3. CASE Restart(1)
    <3>1. PICK c \in Procs \ {1} :
            st' = [st EXCEPT ![1] = "sleep", ![c] = "comm"]
      BY <1>0, <2>3, Forked
    <3> QED
      BY <1>4, <2>3, <3>1 DEF Restart
  <2>4. CASE RestartFails(1) \/ NothingToDo(1)
    BY <1>1, <1>3, <2>4 DEF RestartFails, NothingToDo
  <2>5. CASE Bind(1) \/ InitOk(1) \/ InitFailed(1)
    BY <1>1, <2>5 DEF Bind, InitOk, InitFailed
  <2> QED
    BY <1>4, <2>1, <2>2, <2>3, <2>4, <2>5 DEF Step
<1>a. ASSUME st' = st PROVE Childless' /\ st'[1] = st[1]
  BY <1>a
<1>b. CASE ListPids
  <2>1. st' = st
    BY <1>b DEF ListPids
  <2> QED
    BY <1>4, <1>a, <2>1
<1>5. ASSUME NEW q \in Procs, Tell(q) PROVE Childless' /\ st'[1] = st[1]
  <2>1. q # 1
    <3> SUFFICES ASSUME q = 1 PROVE FALSE
      OBVIOUS
    <3>1. exit_flag'[1] = 1
      BY <1>0, <1>1, <1>5, Told
    <3> QED
      BY <1>0, <1>2, <3>1 DEF Stopping
  <2>2. ~Alive(q)
    BY <1>1, <2>1
  <2> QED
    BY <1>0, <1>5, <2>1, <2>2, Told
<1>6. ASSUME NEW p \in Procs, Step(p), ~Step(1) PROVE FALSE
  <2>1. p # 1 /\ ~Alive(p)
    BY <1>1, <1>6
  <2> QED
    BY <1>6, <2>1 DEF Step, Check, NothingToDo, Restart, RestartFails, Wake,
                      Bind, InitOk, InitFailed
<1>7. ASSUME NEW p \in Procs, Leave(p) \/ Crash(p) PROVE FALSE
  BY <1>0, <1>1, <1>7 DEF Leave, Crash
<1>8. CASE UNCHANGED vars
  <2>1. st' = st
    BY <1>8 DEF vars
  <2> QED
    BY <1>4, <1>a, <2>1
<1> QED
  BY <1>4, <1>b, <1>5, <1>6, <1>7, <1>8 DEF Next

\* A supervisor that runs forks a new child.
LEMMA SupervisorForks ==
    ASSUME MaxProcs >= MaxCrashes + 2, NEW p \in Procs, p = 1
    PROVE  [][Next]_vars /\ []RecInv /\ []StepRule /\ [][Undisturbed]_vars
             /\ Runs(p) =>
             [](Childless => <>(~Childless \/ Recovered))
<1> DEFINE Sleeping == Childless /\ ~Recovered /\ st[1] = "sleep"
           Checking == Childless /\ ~Recovered /\ st[1] = "check"
           Waiting == Childless /\ ~Recovered /\ st[1] = "wait"
           Done == ~Childless \/ Recovered
<1>1. RecInv /\ [Next]_vars /\ [Undisturbed]_vars =>
        /\ Sleeping => Sleeping' \/ Checking' \/ Done'
        /\ Checking => Checking' \/ Waiting' \/ Done'
        /\ Waiting => Waiting' \/ Done'
  BY SupervisorStep
<1>2. RecInv /\ [Next]_vars /\ [Undisturbed]_vars /\ <<Step(p)>>_vars =>
        /\ Sleeping => Checking' \/ Done'
        /\ Checking => Waiting' \/ Done'
        /\ Waiting => Done'
  BY SupervisorStep
<1>3. RecInv /\ StepRule =>
        (Sleeping \/ Checking \/ Waiting => ENABLED <<Step(p)>>_vars)
  <2>1. RecInv /\ (Sleeping \/ Checking \/ Waiting) => Ready(p)
    BY OnlySupervisor DEF Ready
  <2> HIDE DEF Sleeping, Checking, Waiting
  <2> QED
    BY <2>1 DEF StepRule
<1>4. RecInv => (Childless => Sleeping \/ Checking \/ Waiting \/ Done)
  BY OnlySupervisor
<1>5. ~Childless \/ Recovered <=> Done
  OBVIOUS
<1> HIDE DEF Sleeping, Checking, Waiting, Done
<1> QED
  BY <1>1, <1>2, <1>3, <1>4, <1>5, PTL DEF Runs

AllRun == \A p \in Procs : Runs(p)

\* Fairness is the same at every moment.
LEMMA AllRunAlways == AllRun => []AllRun
<1>1. ASSUME NEW p \in Procs PROVE Runs(p) => []Runs(p)
  BY PTL DEF Runs
<1>2. (\A p \in Procs : Runs(p)) => (\A p \in Procs : []Runs(p))
  BY <1>1
<1>3. (\A p \in Procs : []Runs(p)) => [](\A p \in Procs : Runs(p))
  OBVIOUS
<1> QED
  BY <1>2, <1>3 DEF AllRun

\* Whichever process it is that is called, it recovers the service.
LEMMA AnyChildServes ==
    [][Next]_vars /\ []RecInv /\ []StepRule /\ [][Undisturbed]_vars /\ AllRun =>
        [](~Childless => <>Recovered)
<1> DEFINE Child(p) == st[p] \in {"comm", "init"}
           Serves == \A p \in Procs : Child(p) => <>Recovered
           H == [][Next]_vars /\ []RecInv /\ []StepRule /\ [][Undisturbed]_vars
<1>1. ASSUME NEW p \in Procs
      PROVE  H /\ Runs(p) => [](st[p] \in {"comm", "init"} => <>Recovered)
  BY ChildServes
<1>2. H /\ (\A p \in Procs : Runs(p)) =>
        \A p \in Procs : [](st[p] \in {"comm", "init"} => <>Recovered)
  BY <1>1
<1>3. (\A p \in Procs : [](st[p] \in {"comm", "init"} => <>Recovered)) =>
        [](\A p \in Procs : st[p] \in {"comm", "init"} => <>Recovered)
  OBVIOUS
<1>4. H /\ AllRun => []Serves
  BY <1>2, <1>3 DEF AllRun
<1>5. Serves => ((\E p \in Procs : Child(p)) => <>Recovered)
  OBVIOUS
<1>6. ~Childless => \E p \in Procs : Child(p)
  BY DEF Childless
<1> HIDE DEF Child, Serves
<1> QED
  BY <1>4, <1>5, <1>6, PTL

\* After a failure a business process serves again, unless a stop request comes
\* or an initialisation fails: when every process runs on and there are processes
\* enough to replace every one that crashes, wherever crashes and failing forks
\* come.
THEOREM ServiceRecoversHolds ==
    ASSUME MaxProcs >= MaxCrashes + 2
    PROVE  FairSpec /\ []StepRule /\ FaultInduction => ServiceRecovers
<1>1. FairSpec => Spec /\ AllRun
  BY DEF FairSpec, AllRun
<1>2. [][Next]_vars /\ []RecInv /\ []StepRule /\ [][Undisturbed]_vars /\ AllRun =>
        [](Childless => <>(~Childless \/ Recovered))
  <2> DEFINE H == [][Next]_vars /\ []RecInv /\ []StepRule /\ [][Undisturbed]_vars
             Forks == [](Childless => <>(~Childless \/ Recovered))
  <2>1. \A p \in Procs : p = 1 => (H /\ Runs(p) => Forks)
    BY SupervisorForks
  <2>2. 1 \in Procs
    OBVIOUS
  <2> HIDE DEF H, Forks
  <2>3. H /\ AllRun => Forks
    BY <2>1, <2>2 DEF AllRun
  <2> QED
    BY <2>3 DEF H, Forks
<1>3. ServiceRecovers <=> []<>Recovered
  BY DEF ServiceRecovers, Recovered
<1>4. [][Next]_vars /\ []RecInv /\ []StepRule /\ [][Undisturbed]_vars /\ AllRun =>
        []<>Recovered
  BY <1>2, AnyChildServes, PTL
<1>5. Spec /\ FaultInduction => FaultsEnd
  BY FaultsEndHolds
<1> QED
  BY <1>1, <1>3, <1>4, <1>5, RecInvHolds, AllRunAlways, PTL DEF Spec, FaultsEnd
=============================================================================
