----------------------------- MODULE Supervisor -----------------------------
(***************************************************************************)
(* The processes of the card-reading server: gfread_busi_run in            *)
(* doorsys_box/src/public/libgfreadbusi.c forks the business process,      *)
(* looks at it once a minute and forks another one when waitpid fails.     *)
(* (SIGCHLD is ignored in gfreadsvr.c, so the kernel reaps a dead child    *)
(* and waitpid fails with ECHILD.)                                         *)
(*                                                                         *)
(* A forked child runs gfread_busi_comm and, when that returns, goes on    *)
(* with the parent's loop, with the parent's variables as they were at the *)
(* fork.  In the first child pid_busi is not initialised.                  *)
(*                                                                         *)
(* The business process is seen from outside: sockets bound, device        *)
(* initialised, serving, stopping.  BusiProcess has the inside.            *)
(***************************************************************************)
EXTENDS Integers, FiniteSets

CONSTANTS
    MaxProcs,       \* bound: processes of a run, after which fork fails
    MaxCrashes,     \* bound: how many business processes crash
    MaxForkFails,   \* bound: how many calls of fork fail after the first
    MaxInitFails,   \* bound: how many device initialisations fail
    Stops           \* may SIGUSR1 be sent?

ASSUME SupervisorAssumption ==
    /\ MaxProcs \in Nat \ {0}
    /\ MaxCrashes \in Nat
    /\ MaxForkFails \in Nat
    /\ MaxInitFails \in Nat
    /\ Stops \in BOOLEAN

Procs == 1..MaxProcs

\* Values of pid_busi that name no process of the run: not positive, or the
\* positive number of something that is not a child.
NoPid == 0
JunkPid == MaxProcs + 1

VARIABLES
    st,             \* where each process is
    pid_busi,       \* each process's pid_busi
    parent,         \* who forked it
    back,           \* where it goes on when gfread_busi_comm returns
    exit_flag,      \* each process's exit_flag
    targets,        \* whom killsiguser has listed and not yet signalled
    bound,          \* the processes whose request socket is bound
    crashes,        \* crashes so far
    forkFails,      \* failed forks so far
    initFails       \* failed initialisations so far

vars == <<st, pid_busi, parent, back, exit_flag, targets, bound, crashes,
          forkFails, initFails>>

Loop == {"check", "wait", "sleep"}                  \* the supervising loop
Comm == {"comm", "init", "serve", "terminating"}    \* in gfread_busi_comm

Alive(p) == st[p] \in Loop \cup Comm

\* The lowest process number not yet used.
Fresh ==
    {p \in Procs : st[p] = "unborn" /\ \A q \in 1..(p-1) : st[q] # "unborn"}

\* Process 1 has made its first fork (a failure ends the program at once):
\* process 2 is in gfread_busi_comm, with whatever pid_busi contained.
Init ==
    \E junk \in {NoPid, JunkPid} :
        /\ st = [p \in Procs |-> CASE p = 1 -> "check"
                                   [] p = 2 -> "comm"
                                   [] OTHER -> "unborn"]
        /\ pid_busi = [p \in Procs |-> CASE p = 1 -> 2
                                         [] p = 2 -> junk
                                         [] OTHER -> NoPid]
        /\ parent = [p \in Procs |-> IF p = 2 THEN 1 ELSE NoPid]
        /\ back = [p \in Procs |-> "check"]
        /\ exit_flag = [p \in Procs |-> 0]
        /\ targets = {}
        /\ bound = {}
        /\ crashes = 0
        /\ forkFails = 0
        /\ initFails = 0

-----------------------------------------------------------------------------
\* The supervising loop.

\* exit_flag ends the process; whatever socket it still holds is released.
Check(p) ==
    /\ st[p] = "check"
    /\ \/ /\ exit_flag[p] = 1
          /\ st' = [st EXCEPT ![p] = "dead"]
          /\ bound' = bound \ {p}
       \/ /\ exit_flag[p] = 0
          /\ st' = [st EXCEPT ![p] = "wait"]
          /\ UNCHANGED bound
    /\ UNCHANGED <<pid_busi, parent, back, exit_flag, targets, crashes,
                   forkFails, initFails>>

\* mutant: waitpid's 0, for a child that still runs, is taken for a failure
WaitFailsAtZero(p) == pid_busi[p] > NoPid

\* waitpid(pid_busi, &status, WNOHANG) < 0: not a living child of p.
WaitFails(p) ==
    /\ pid_busi[p] > NoPid
    /\ ~ /\ pid_busi[p] \in Procs
         /\ parent[pid_busi[p]] = p
         /\ Alive(pid_busi[p])

\* mutant: without a child to wait for there is no way on
NothingToDoWithChild(p) ==
    /\ st[p] = "wait"
    /\ pid_busi[p] > NoPid
    /\ ~WaitFails(p)
    /\ st' = [st EXCEPT ![p] = "sleep"]
    /\ UNCHANGED <<pid_busi, parent, back, exit_flag, targets, bound, crashes,
                   forkFails, initFails>>

NothingToDo(p) ==
    /\ st[p] = "wait"
    /\ ~WaitFails(p)
    /\ st' = [st EXCEPT ![p] = "sleep"]
    /\ UNCHANGED <<pid_busi, parent, back, exit_flag, targets, bound, crashes,
                   forkFails, initFails>>

\* mutant: a new child starts with a clear exit_flag
ChildFlagCleared(p) == 0

ChildFlag(p) == exit_flag[p]

\* fork: the child starts with copies of the parent's variables.
Restart(p) ==
    /\ st[p] = "wait"
    /\ WaitFails(p)
    /\ \E c \in Fresh :
         /\ st' = [st EXCEPT ![p] = "sleep", ![c] = "comm"]
         /\ pid_busi' = [pid_busi EXCEPT ![p] = c, ![c] = pid_busi[p]]
         /\ parent' = [parent EXCEPT ![c] = p]
         /\ back' = [back EXCEPT ![c] = "sleep"]
         /\ exit_flag' = [exit_flag EXCEPT ![c] = ChildFlag(p)]
    /\ UNCHANGED <<targets, bound, crashes, forkFails, initFails>>

\* mutant: the result of the failed fork is stored in pid_busi
RestartFailsStored(p) ==
    /\ st[p] = "wait"
    /\ WaitFails(p)
    /\ \/ forkFails < MaxForkFails /\ forkFails' = forkFails + 1
       \/ Fresh = {} /\ UNCHANGED forkFails
    /\ st' = [st EXCEPT ![p] = "sleep"]
    /\ pid_busi' = [pid_busi EXCEPT ![p] = -1]
    /\ UNCHANGED <<parent, back, exit_flag, targets, bound, crashes,
                   initFails>>

\* fork fails, always when there can be no more processes: sleep(5) and again.
RestartFails(p) ==
    /\ st[p] = "wait"
    /\ WaitFails(p)
    /\ \/ forkFails < MaxForkFails /\ forkFails' = forkFails + 1
       \/ Fresh = {} /\ UNCHANGED forkFails
    /\ st' = [st EXCEPT ![p] = "sleep"]
    /\ UNCHANGED <<pid_busi, parent, back, exit_flag, targets, bound, crashes,
                   initFails>>

\* mutant: the flag is checked once, before the loop
WakeToWait(p) ==
    /\ st[p] = "sleep"
    /\ st' = [st EXCEPT ![p] = "wait"]
    /\ UNCHANGED <<pid_busi, parent, back, exit_flag, targets, bound, crashes,
                   forkFails, initFails>>

Wake(p) ==
    /\ st[p] = "sleep"
    /\ st' = [st EXCEPT ![p] = "check"]
    /\ UNCHANGED <<pid_busi, parent, back, exit_flag, targets, bound, crashes,
                   forkFails, initFails>>

-----------------------------------------------------------------------------
\* gfread_busi_comm.

\* The request socket is bound, unless another process has the address; the
\* result of zmq_bind is not looked at.
Bind(p) ==
    /\ st[p] = "comm"
    /\ bound' = IF bound = {} THEN {p} ELSE bound
    /\ st' = [st EXCEPT ![p] = "init"]
    /\ UNCHANGED <<pid_busi, parent, back, exit_flag, targets, crashes,
                   forkFails, initFails>>

InitOk(p) ==
    /\ st[p] = "init"
    /\ st' = [st EXCEPT ![p] = "serve"]
    /\ UNCHANGED <<pid_busi, parent, back, exit_flag, targets, bound, crashes,
                   forkFails, initFails>>

\* return -1: the socket stays bound and the process goes on in the loop.
InitFailed(p) ==
    /\ st[p] = "init"
    /\ initFails < MaxInitFails
    /\ initFails' = initFails + 1
    /\ st' = [st EXCEPT ![p] = back[p]]
    /\ UNCHANGED <<pid_busi, parent, back, exit_flag, targets, bound, crashes,
                   forkFails>>

\* exit_flag is seen: the request socket is closed and zmq_term waits for the
\* sockets that are not.
Leave(p) ==
    /\ st[p] = "serve"
    /\ exit_flag[p] = 1
    /\ st' = [st EXCEPT ![p] = "terminating"]
    /\ bound' = bound \ {p}
    /\ UNCHANGED <<pid_busi, parent, back, exit_flag, targets, crashes,
                   forkFails, initFails>>

-----------------------------------------------------------------------------
\* The environment.

\* The business process dies in a library or in a handler.
Crash(p) ==
    /\ crashes < MaxCrashes
    /\ st[p] \in {"init", "serve"}
    /\ st' = [st EXCEPT ![p] = "dead"]
    /\ bound' = bound \ {p}
    /\ crashes' = crashes + 1
    /\ UNCHANGED <<pid_busi, parent, back, exit_flag, targets, forkFails,
                   initFails>>

\* killsiguser: ps lists the living processes of the name, then kill sends
\* SIGUSR1 to each of the list.  A process forked in between is not in it.
ListPids ==
    /\ Stops
    /\ targets' = targets \cup {p \in Procs : Alive(p)}
    /\ UNCHANGED <<st, pid_busi, parent, back, exit_flag, bound, crashes,
                   forkFails, initFails>>

\* A sleep ends, and a pending zmq_term, after which gfread_busi_comm returns.
Tell(p) ==
    /\ p \in targets
    /\ targets' = targets \ {p}
    /\ exit_flag' = IF Alive(p) THEN [exit_flag EXCEPT ![p] = 1] ELSE exit_flag
    /\ \/ st[p] = "sleep" /\ st' = [st EXCEPT ![p] = "check"]
       \/ st[p] = "terminating" /\ st' = [st EXCEPT ![p] = back[p]]
       \/ st[p] \notin {"sleep", "terminating"} /\ UNCHANGED st
    /\ UNCHANGED <<pid_busi, parent, back, bound, crashes, forkFails,
                   initFails>>

-----------------------------------------------------------------------------
Step(p) ==
    \/ Check(p) \/ NothingToDo(p) \/ Restart(p) \/ RestartFails(p) \/ Wake(p)
    \/ Bind(p) \/ InitOk(p) \/ InitFailed(p)

Next ==
    \/ ListPids
    \/ \E p \in Procs : Step(p) \/ Leave(p) \/ Crash(p) \/ Tell(p)

Spec == Init /\ [][Next]_vars

\* Every process is scheduled and the sleeps end.  Crashes and signals may
\* never come, and the business process notices a signal between its check of
\* exit_flag and zmq_poll only with the next message: Leave is not fair.
Runs(p) == WF_vars(Step(p))

FairSpec == Spec /\ \A p \in Procs : Runs(p)

-----------------------------------------------------------------------------
\* Properties.

TypeOK ==
    /\ st \in [Procs -> Loop \cup Comm \cup {"unborn", "dead"}]
    /\ pid_busi \in [Procs -> 0..JunkPid]
    /\ parent \in [Procs -> 0..MaxProcs]
    /\ back \in [Procs -> {"check", "sleep"}]
    /\ exit_flag \in [Procs -> {0, 1}]
    /\ targets \subseteq Procs
    /\ bound \subseteq Procs
    /\ crashes \in 0..MaxCrashes
    /\ forkFails \in 0..MaxForkFails
    /\ initFails \in 0..MaxInitFails

\* However often the business process crashes, restarts never pile up processes:
\* a failed initialisation, which leaves one more supervisor, adds at most one.
\* As long as none has failed there are never two business processes at the same
\* card reader, and the one that serves owns the request address.
OneServer ==
    /\ Cardinality({p \in Procs : Alive(p)}) <= 2 + initFails
    /\ initFails = 0 =>
        /\ \A p, q \in Procs : st[p] \in Comm /\ st[q] \in Comm => p = q
        /\ \A p \in Procs : st[p] = "serve" => bound = {p}

Stopping == \E p \in Procs : exit_flag[p] = 1

\* Nobody ever loses sight of a living child: the process that forked it names
\* it in pid_busi, whatever failed on the way and wherever either of them is.
\* And for the first supervisor waitpid fails when the business process is dead
\* and only then, and the request address is free for the next one: through
\* crashes and forks that fail, until an initialisation fails or a stop request
\* comes.
DeathIsSeen ==
    /\ \A p \in Procs : Alive(p) /\ parent[p] # NoPid => pid_busi[parent[p]] = p
    /\ initFails = 0 /\ ~Stopping =>
        /\ st[1] \in Loop
        /\ WaitFails(1) <=> \A p \in Procs : st[p] \notin Comm
        /\ WaitFails(1) => bound = {}

Serving == \E p \in Procs : st[p] = "serve" /\ p \in bound

\* After a failure a business process serves again, on the same address, also
\* when fork fails on the way, unless an initialisation fails.
ServiceRecovers == []<>(Serving \/ Stopping \/ initFails > 0)

AllTold == \A p \in Procs : Alive(p) => exit_flag[p] = 1

\* A stop request reaches the whole program: once every living process has the
\* flag, so has each that is forked later (a child inherits it).
StopIsInherited == [][AllTold => AllTold']_vars

\* Whoever supervises ends after a stop request, wherever in the loop it comes
\* and whatever is forked meanwhile.
SupervisorsStop ==
    \A p \in Procs : (exit_flag[p] = 1 /\ st[p] \in Loop) ~> st[p] = "dead"

\* The guards of the actions of Step.
Ready(p) ==
    \/ st[p] = "check" /\ exit_flag[p] \in {0, 1}
    \/ st[p] = "wait" /\ ~WaitFails(p)
    \/ st[p] = "wait" /\ WaitFails(p) /\ Fresh # {}
    \/ st[p] = "wait" /\ WaitFails(p) /\ (forkFails < MaxForkFails \/ Fresh = {})
    \/ st[p] \in {"sleep", "comm", "init"}

\* An action that can be taken is enabled.  By the meaning of ENABLED this is
\* so in every state; TLC evaluates it, and the proofs have no other way to it.
StepRule == \A p \in Procs : Ready(p) => ENABLED <<Step(p)>>_vars

\* No process is ever stuck in the supervising loop, with or without a child,
\* whether fork works or not.
SupervisorCanGoOn ==
    \A p \in Procs : st[p] \in Loop => ENABLED <<Step(p)>>_vars

\* The state is well typed and nobody who supervises is stuck.
StateOK == TypeOK /\ StepRule /\ SupervisorCanGoOn

-----------------------------------------------------------------------------
\* What the repository says and the code does not do.

\* A business process that fails is restarted: unless it is told to stop, the
\* program serves again, also after an initialisation that failed.
FailedProcessRestarted == []<>(Serving \/ Stopping)
=============================================================================
