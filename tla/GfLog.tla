-------------------------------- MODULE GfLog --------------------------------
(***************************************************************************)
(* The log pipeline of the gateway, doorsys_box/src/public/libgflog.c: a   *)
(* process reports a record with gflog_clt, which puts it on its push      *)
(* socket and never waits; ZeroMQ carries it to the pull socket of the log *)
(* server (gflog_server), which uploads one record at a time by HTTP.      *)
(* gflog_run forks the log server, and another one when it has died.       *)
(*                                                                         *)
(* The pull socket has a pipe of its own for every reporting process and   *)
(* reads the pipes in turns: order holds within a pipe, not across pipes.  *)
(* A business process that is forked again is another reporting process.   *)
(* Records are numbered in the order in which their process reports them.  *)
(*                                                                         *)
(* A stop is asked for by killsiguser, which lists the processes of the    *)
(* name with ps and then sends SIGUSR1 to those it has listed.  The signal *)
(* sets exit_flag; the server looks at it between two records only.        *)
(*                                                                         *)
(* Faults: reporting processes and the log server may die, uploads fail or *)
(* time out after the record has arrived, fork fails.                      *)
(***************************************************************************)
EXTENDS Integers, Sequences

CONSTANTS
    Reporters,      \* the processes that report, one after the other or together
    MaxRecords,     \* bound: how many records each process reports
    SendHWM,        \* high-water mark of a push socket
    RecvHWM,        \* high-water mark of a pipe of the pull socket
    MaxCrashes      \* bound: how many log servers die

ASSUME GfLogAssumption ==
    /\ MaxRecords \in [Reporters -> Nat]
    /\ SendHWM \in Nat \ {0}
    /\ RecvHWM \in Nat \ {0}
    /\ MaxCrashes \in Nat

VARIABLES
    reported,   \* how many records each process has reported
    queue,      \* the numbers of the records on each push socket
    ended,      \* the reporting processes that have died
    inbox,      \* the numbers of the records on each pipe of the pull socket
    current,    \* recv_buf: the record being uploaded, if there is one
    uploaded,   \* the records of each process that have arrived, in order
    server,     \* where the log server is
    server_flag,\* exit_flag of the log server
    sup,        \* where gflog_run is in the parent
    sup_flag,   \* exit_flag of the parent
    pid_log,    \* "child": the present log server, "failed": what fork returned
    targets,    \* whom a killsiguser has listed and not yet signalled
    missed,     \* the present log server has been forked after the last list,
                \* by a supervisor that had not yet been told to stop
    afterStop,  \* records received since the log server was told to stop
    crashes     \* log servers that have died of a fault

records == <<reported, queue, ended, uploaded>>
flags == <<server_flag, sup_flag>>
stop == <<flags, targets, missed>>
vars == <<records, inbox, current, server, stop, sup, pid_log, afterStop,
          crashes>>

ServerLocations == {"start", "top", "call", "recv", "upload", "exit", "dead"}

SupLocations == {"check", "wait", "sleep", "gone"}

Records == Nat \ {0}

NoRecords == [p \in Reporters |-> <<>>]

\* gflog_run has forked the first log server.
Init ==
    /\ reported = [p \in Reporters |-> 0]
    /\ queue = NoRecords
    /\ ended = {}
    /\ inbox = NoRecords
    /\ current = {}
    /\ uploaded = NoRecords
    /\ server = "start"
    /\ server_flag = FALSE
    /\ sup = "check"
    /\ sup_flag = FALSE
    /\ pid_log = "child"
    /\ targets = {}
    /\ missed = FALSE
    /\ afterStop = 0
    /\ crashes = 0

-----------------------------------------------------------------------------
\* The reporting processes and the sockets.

\* gflog_clt: without room the record is dropped, and nobody is told (the
\* result -1 ends in gflog_send_err).
Report(p) ==
    /\ p \notin ended
    /\ reported[p] < MaxRecords[p]
    /\ reported' = [reported EXCEPT ![p] = @ + 1]
    /\ queue' = IF Len(queue[p]) < SendHWM
                   THEN [queue EXCEPT ![p] = Append(@, reported[p] + 1)]
                   ELSE queue
    /\ UNCHANGED <<ended, inbox, current, uploaded, server, stop, sup, pid_log,
                   afterStop, crashes>>

\* A reporting process dies, and its push socket with it; what the pull socket
\* has received from it can still be read.  (To die with an empty push socket is
\* to report no more.)
ReporterDies(p) ==
    /\ queue[p] # <<>>
    /\ ended' = ended \cup {p}
    /\ queue' = [queue EXCEPT ![p] = <<>>]
    /\ UNCHANGED <<reported, inbox, current, uploaded, server, stop, sup,
                   pid_log, afterStop, crashes>>

PullSocketOpen == server \in {"top", "call", "recv", "upload"}

\* ZeroMQ carries a record to the pipe of its process.
Transfer(p) ==
    /\ PullSocketOpen
    /\ queue[p] # <<>>
    /\ Len(inbox[p]) < RecvHWM
    /\ inbox' = [inbox EXCEPT ![p] = Append(@, Head(queue[p]))]
    /\ queue' = [queue EXCEPT ![p] = Tail(@)]
    /\ UNCHANGED <<reported, ended, current, uploaded, server, stop, sup,
                   pid_log, afterStop, crashes>>

-----------------------------------------------------------------------------
\* gflog_server.

\* Signal handler, configuration, zmq_socket_new_pull.
Start ==
    /\ server = "start"
    /\ server' = "top"
    /\ UNCHANGED <<records, inbox, current, stop, sup, pid_log, afterStop,
                   crashes>>

\* The pull socket is closed and what it has received is lost.
ClosePull ==
    /\ inbox' = NoRecords
    /\ server' = "exit"

\* mutant: the flag is looked at only when zmq_recv fails
TopFlagIgnored ==
    /\ server = "top"
    /\ server' = "call"
    /\ UNCHANGED <<records, inbox, current, stop, sup, pid_log, afterStop,
                   crashes>>

Top ==
    /\ server = "top"
    /\ IF server_flag THEN ClosePull ELSE server' = "call" /\ UNCHANGED inbox
    /\ UNCHANGED <<records, current, stop, sup, pid_log, afterStop, crashes>>

\* zmq_recv is entered: from now on a signal ends the wait.
EnterRecv ==
    /\ server = "call"
    /\ server' = "recv"
    /\ UNCHANGED <<records, inbox, current, stop, sup, pid_log, afterStop,
                   crashes>>

\* zmq_recv returns a record of one of the pipes that have some.
Recv(p) ==
    /\ server = "recv"
    /\ inbox[p] # <<>>
    /\ current' = {[from |-> p, n |-> Head(inbox[p])]}
    /\ inbox' = [inbox EXCEPT ![p] = Tail(@)]
    /\ afterStop' = IF server_flag THEN afterStop + 1 ELSE afterStop
    /\ server' = "upload"
    /\ UNCHANGED <<records, stop, sup, pid_log, crashes>>

\* mutant: an upload that reports an error is tried again
UploadUntilOk ==
    /\ server = "upload"
    /\ \E r \in current :
         /\ Len(uploaded[r.from]) <= MaxRecords[r.from]
         /\ \/ /\ uploaded' = [uploaded EXCEPT ![r.from] = Append(@, r.n)]
               /\ current' = {}
               /\ server' = "top"
            \/ /\ uploaded' = [uploaded EXCEPT ![r.from] = Append(@, r.n)]
               /\ UNCHANGED <<current, server>>
            \/ UNCHANGED <<uploaded, current, server>>
    /\ UNCHANGED <<reported, queue, ended, inbox, stop, sup, pid_log, afterStop,
                   crashes>>

\* curl_send: the record arrives or not; the result is not looked at.
Upload ==
    /\ server = "upload"
    /\ \E r \in current :
         \/ uploaded' = [uploaded EXCEPT ![r.from] = Append(@, r.n)]
         \/ UNCHANGED uploaded
    /\ current' = {}
    /\ server' = "top"
    /\ UNCHANGED <<reported, queue, ended, inbox, stop, sup, pid_log, afterStop,
                   crashes>>

\* gflog_server returns into the loop of gflog_run, where exit_flag ends the
\* process.
Exit ==
    /\ server = "exit"
    /\ server_flag
    /\ server' = "dead"
    /\ UNCHANGED <<records, inbox, current, stop, sup, pid_log, afterStop,
                   crashes>>

Crash ==
    /\ crashes < MaxCrashes
    /\ server # "dead"
    /\ crashes' = crashes + 1
    /\ server' = "dead"
    /\ inbox' = NoRecords
    /\ current' = {}
    /\ UNCHANGED <<records, stop, sup, pid_log, afterStop>>

-----------------------------------------------------------------------------
\* gflog_run.

Check ==
    /\ sup = "check"
    /\ sup' = IF sup_flag THEN "gone" ELSE "wait"
    /\ UNCHANGED <<records, inbox, current, server, stop, pid_log, afterStop,
                   crashes>>

\* waitpid(pid_log, &status, WNOHANG) < 0
WaitFails == pid_log = "child" /\ server = "dead"

NothingToDo ==
    /\ sup = "wait"
    /\ ~WaitFails
    /\ sup' = "sleep"
    /\ UNCHANGED <<records, inbox, current, server, stop, pid_log, afterStop,
                   crashes>>

\* The process that is forked is in no list yet: a listed log server is a dead
\* one.  Its parent may be listed and not yet signalled.
NewServer ==
    /\ targets' = targets \ {"server"}
    /\ missed' = ("sup" \in targets /\ ~sup_flag)
    /\ afterStop' = 0
    /\ server' = "start"
    /\ pid_log' = "child"

\* mutant: a new log server starts with a clear exit_flag
RestartFlagCleared ==
    /\ sup = "wait"
    /\ WaitFails
    /\ NewServer
    /\ server_flag' = FALSE
    /\ sup' = "sleep"
    /\ UNCHANGED <<records, inbox, current, sup_flag, crashes>>

\* fork: the child has the parent's exit_flag.
Restart ==
    /\ sup = "wait"
    /\ WaitFails
    /\ NewServer
    /\ server_flag' = sup_flag
    /\ sup' = "sleep"
    /\ UNCHANGED <<records, inbox, current, sup_flag, crashes>>

\* mutant: the result of the failed fork is kept
RestartFailsStored ==
    /\ sup = "wait"
    /\ WaitFails
    /\ sup' = "sleep"
    /\ pid_log' = "failed"
    /\ UNCHANGED <<records, inbox, current, server, stop, afterStop, crashes>>

\* fork fails: sleep(5), and again.
RestartFails ==
    /\ sup = "wait"
    /\ WaitFails
    /\ sup' = "sleep"
    /\ UNCHANGED <<records, inbox, current, server, stop, pid_log, afterStop,
                   crashes>>

\* mutant: the flag is looked at once, before the loop
WakeToWait ==
    /\ sup = "sleep"
    /\ sup' = "wait"
    /\ UNCHANGED <<records, inbox, current, server, stop, pid_log, afterStop,
                   crashes>>

Wake ==
    /\ sup = "sleep"
    /\ sup' = "check"
    /\ UNCHANGED <<records, inbox, current, server, stop, pid_log, afterStop,
                   crashes>>

-----------------------------------------------------------------------------
\* killsiguser.

Alive == {p \in {"server", "sup"} :
            (p = "server" => server # "dead") /\ (p = "sup" => sup # "gone")}

\* ps lists the living processes; a killsiguser still under way has its own list.
ListPids ==
    /\ Alive # {}
    /\ targets' = targets \cup Alive
    /\ missed' = FALSE
    /\ UNCHANGED <<records, inbox, current, server, flags, sup, pid_log,
                   afterStop, crashes>>

\* kill signals the supervisor: EINTR ends a sleep.
TellSup ==
    /\ "sup" \in targets
    /\ targets' = targets \ {"sup"}
    /\ sup_flag' = (sup_flag \/ sup # "gone")
    /\ sup' = IF sup = "sleep" THEN "check" ELSE sup
    /\ UNCHANGED <<records, inbox, current, server, server_flag, missed, pid_log,
                   afterStop, crashes>>

Fed == \E p \in Reporters : inbox[p] # <<>>

\* mutant: the log server is interrupted but not told
TellServerEintrOnly ==
    /\ "server" \in targets
    /\ targets' = targets \ {"server"}
    /\ IF server = "recv" /\ ~Fed THEN ClosePull ELSE UNCHANGED <<server, inbox>>
    /\ UNCHANGED <<records, current, flags, sup, missed, pid_log, afterStop,
                   crashes>>

\* kill signals the log server: EINTR ends a zmq_recv that waits.
TellServer ==
    /\ "server" \in targets
    /\ targets' = targets \ {"server"}
    /\ server_flag' = (server_flag \/ server # "dead")
    /\ IF server = "recv" /\ ~Fed THEN ClosePull ELSE UNCHANGED <<server, inbox>>
    /\ UNCHANGED <<records, current, sup_flag, sup, missed, pid_log, afterStop,
                   crashes>>

-----------------------------------------------------------------------------
ReporterStep == \E p \in Reporters : Report(p) \/ ReporterDies(p) \/ Transfer(p)

ServerStep ==
    \/ Start \/ Top \/ EnterRecv \/ Upload \/ Exit
    \/ \E p \in Reporters : Recv(p)

SupStep == Check \/ NothingToDo \/ Restart \/ RestartFails \/ Wake

KillStep == ListPids \/ TellSup \/ TellServer

Next == ReporterStep \/ Crash \/ ServerStep \/ SupStep \/ KillStep

Spec == Init /\ [][Next]_vars

\* ZeroMQ carries the records of a process, and takes its pipe in turn.
PipeFair(p) == WF_vars(Transfer(p)) /\ SF_vars(Recv(p))

PipesFair == \A p \in Reporters : PipeFair(p)

\* Both processes are scheduled (an upload ends after 20 seconds, a sleep
\* after a minute), fork does not fail for ever, and ZeroMQ serves every
\* pipe.  Reports, signals and faults need not come.
FairSpec ==
    /\ Spec
    /\ WF_vars(ServerStep)
    /\ WF_vars(SupStep)
    /\ SF_vars(Restart)
    /\ PipesFair

-----------------------------------------------------------------------------
\* Properties.

TypeOK ==
    /\ reported \in [Reporters -> Nat]
    /\ queue \in [Reporters -> Seq(Records)]
    /\ ended \subseteq Reporters
    /\ inbox \in [Reporters -> Seq(Records)]
    /\ \A p \in Reporters :
         /\ reported[p] <= MaxRecords[p]
         /\ Len(queue[p]) <= SendHWM /\ Len(inbox[p]) <= RecvHWM
    /\ current \subseteq [from : Reporters, n : Records]
    /\ uploaded \in [Reporters -> Seq(Records)]
    /\ server \in ServerLocations
    /\ server_flag \in BOOLEAN
    /\ sup \in SupLocations
    /\ sup_flag \in BOOLEAN
    /\ pid_log \in {"child", "failed"}
    /\ targets \subseteq {"server", "sup"}
    /\ missed \in BOOLEAN
    /\ afterStop \in Nat
    /\ crashes \in 0..MaxCrashes

Channel == INSTANCE LogChannel

\* No crash, restart, full queue or failed upload ever makes a record arrive
\* twice, or after a later one of the same reporting process: what arrives of a
\* process is a subsequence of what it reports.
ChannelSpec == Channel!Spec

\* A log server that has been told to stop takes one more record at most,
\* although the signal may come between the look at the flag and zmq_recv.
StopsWithinOneRecord == afterStop <= 1

\* A log server that outlives its supervisor has been told to stop, or is about
\* to be; the only one that is forgotten was forked between the list of the
\* processes and the signal to its supervisor.
NoServerIsForgotten ==
    sup = "gone" /\ server # "dead" /\ ~server_flag =>
        "server" \in targets \/ missed

\* A stop is asked for: the supervisor has been told, or is about to be.
StopAsked == sup_flag \/ "sup" \in targets

Queued(p, r) == \E i \in DOMAIN queue[p] : queue[p][i] = r

\* A record that waits does not wait for ever: log servers die and are
\* replaced, forks and uploads fail, others report too, and yet it leaves the
\* push socket, unless somebody asks the pipeline to stop.
RecordsMoveOn ==
    \A p \in Reporters : \A r \in 1..MaxRecords[p] :
        Queued(p, r) ~> (StopAsked \/ ~Queued(p, r))

WaitsForRecord == server = "recv" /\ ~Fed

\* A stop request ends the supervisor, and the log server too unless it waits
\* for a record that does not come.
StopCompletes ==
    (sup_flag /\ server_flag) ~>
        (sup = "gone" /\ (server = "dead" \/ WaitsForRecord))

\* The guards of the actions of ServerStep and of SupStep.
ServerReady ==
    \/ server \in {"start", "top", "call"}
    \/ server = "recv" /\ Fed
    \/ server = "upload" /\ current # {}
    \/ server = "exit" /\ server_flag

SupReady ==
    \/ sup \in {"check", "sleep"}
    \/ sup = "wait" /\ ~WaitFails
    \/ sup = "wait" /\ WaitFails

\* The guard of Transfer.
TransferReady(p) ==
    PullSocketOpen /\ queue[p] # <<>> /\ Len(inbox[p]) < RecvHWM

\* An action that can be taken is enabled.  By the meaning of ENABLED this is
\* so in every state; TLC evaluates it, and the proofs have no other way to it.
StepRule ==
    /\ ServerReady => ENABLED <<ServerStep>>_vars
    /\ SupReady => ENABLED <<SupStep>>_vars
    /\ sup = "wait" /\ WaitFails => ENABLED <<Restart>>_vars
    /\ \A p \in Reporters :
         /\ TransferReady(p) => ENABLED <<Transfer(p)>>_vars
         /\ server = "recv" /\ inbox[p] # <<>> => ENABLED <<Recv(p)>>_vars

\* Neither process is ever stuck: the log server stops only where it waits for
\* a record or is dead, its supervisor only where it has ended.
PipelineCanGoOn ==
    /\ server # "dead" /\ ~WaitsForRecord => ENABLED <<ServerStep>>_vars
    /\ sup # "gone" => ENABLED <<SupStep>>_vars

\* The state is well typed and neither process stuck.
StateOK == TypeOK /\ StepRule /\ PipelineCanGoOn
=============================================================================
