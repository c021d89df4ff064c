# TLA+ for doorsys

Models, model checking and proofs for the card-reading side of *doorsys*: the
gateway programs in `src/doorsys_box` and the identity-card library in
`src/include` that they link. Line numbers are those of the files in `src/`
(the C files under `doorsys_box` are GBK encoded, with CRLF line ends).

## 1. The system

`gfreadsvr` is a program of a door gateway. It holds an NFC reader, and for
each request on a ZeroMQ socket it reads a Chinese identity card: the card's
encrypted pieces go to a remote server that authenticates the card and returns
the identity. The answer goes to another process of the gateway, `gopanbox`.

```
 clients ──request──▶ business process ──answer──▶ gopanbox
                       │      │     │
             fork,     │      │     └─ log records ──▶ gflogsvr ──HTTP──▶ server
             waitpid   │      └─ gpbox_stat.json ("readstatus")
                       │
 supervisor ───────────┘      identity-card task ◀── TCP/UDP ──▶ server
                              (DoIDTask)         ◀── commands ─▶ reader, card
```

| component | source | state | operations | what makes it correct |
|---|---|---|---|---|
| **business process** | `doorsys_box/src/public/libgfreadbusi.c` (`gfread_busi_comm`, `busi_parse_packet`, `busi_read_id`) | `exit_flag`, poll timeout, `busi_stat`, answer buffer and length, reference number, the status it asks to be written | receive, search, read offline, read online, encrypt, send, poll timeout, leave, SIGUSR1 | an answer is for its request; no data of an earlier read; order; the status it asks for agrees; every message is handled |
| **supervisor** | same file, `gfread_busi_run`; `gfreadsvr.c` | `pid_busi`, `exit_flag`, the process tree | check, waitpid, fork, sleep, SIGUSR1 | one business process, it comes back after a crash, whoever is told to stop tells its children |
| **identity-card task** | `include/IDCardBussiness.h`, `IDCardDevFlow.h`, `IDCardTask.h`, `IDCardInfo.h`, `IDNetResumeCore.h` | safe channel, `m_cmd04Buf`, AppKeyHash, DN, caches of pieces 09, 0A, 0B | prepare, build channel (two exchanges), authenticate (04), multiple command, decrypt, error branches | pieces of one card only; no session on an incomplete channel; ends |
| **retrying sockets** | `include/IDCardRetrySocket.h` on `IDCardSocket.h` (TCP), `IDCardRetryUDP.h` on `IDCardUDP.h` (datagrams) | connection, chain number, `writeFlag`, retry count, time waited, cancel flags | connect, send and receive, wait and send again, give up, cancel | the answer returned is for the packet sent; sends and retries are bounded; a call returns |
| **log pipeline** | `public/libgflog.c`, `gflogsvr/gflogsvr.c` | push sockets, the pipes of the pull socket, record in hand, `exit_flag`, `pid_log` | report, carry, receive, upload, restart, stop | a record arrives once at most, and those of one process in order; the server comes back; a stop ends it |
| **status file** | `cjsonpub/libjsonpub.c` (`cjson_update_value`) | one JSON file shared by processes, an image of it in each | read, truncate, write, fail, die | an update that met no other is kept; the file can be parsed |
| packets and encodings | `tools/libtlv.c`, `libnetutil.c`, `libbase64.c`, `include/IDCardPackage.h` | none | encode, decode | decode inverts encode |
| reader access | `include/AKeyCommand.h`, `AKeySession.h`, `LiumaComm.h`, `KCardComm.h` | the device | commands | (I/O) |
| helpers | `tools/libtcp.c`, `liblog.c`, `libanalysisconf.c`, `public/libsysbase.c` | none | | |
| vendored | `curl-7.48.0`, `openssl-1.0.1e`, `ssl`, `cJSON.c` | | | |

**How they interact.** The supervisor forks the business process and looks at
it with `waitpid(WNOHANG)` once a minute; SIGUSR1 sets `exit_flag` in each of
them. The business process calls the identity-card task through
`gfreadIDInfo` (`libgfreadpub.cpp`) and blocks until it returns. Results leave
through globals (`g_busi_config`) which the answer, the log record and the
status file are built from. The task exchanges packets with the server through
`ISocket::SendAndRecv`, a retrying TCP or datagram socket. Log records go to
`gflogsvr` over ZeroMQ without waiting; a supervisor of the same shape as the
business process's keeps that server alive. The status file has no lock.

**What is hard.** Globals that outlive a request (answer buffer, reference
number, caches of card pieces, channel keys); a signal at any instruction; a
send that blocks; a `fork`ed child that *returns* into its parent's loop; a
card exchanged between two commands; a channel of which only one half has been
negotiated; an answer that arrives after its call has moved on; a file that is
empty between two calls of another process. The list with lines and properties is `hazards` in `PROJECT.json`.

## 2. Modules

| module | what it is |
|---|---|
| `ReadService` | abstract: what a client of the business process may rely on |
| `BusiProcess`, `BusiProcess_proofs` | the business process, its clients, gopanbox and SIGUSR1; its theorems and its refinement of `ReadService` |
| `Supervisor`, `Supervisor_proofs` | supervisor, forked processes, crashes, stop; its theorems |
| `ReadTask`, `ReadTask_proofs` | the identity-card task, the card and the clock; its theorems |
| `Exchange` | abstract: what the task may rely on when it exchanges a packet |
| `RetryTcp`, `RetryTcp_proofs` | `SendAndRecv` on a TCP connection; its theorems and its refinement of `Exchange` |
| `RetryUdp`, `RetryUdp_proofs` | `SendAndRecv` on datagrams; its theorems and its refinement of `Exchange` |
| `StatusFile`, `StatusFile_proofs` | updates of the shared JSON file; its theorems |
| `LogChannel` | abstract: what a reader of the uploaded log may rely on |
| `GfLog`, `GfLog_proofs` | reports, sockets, log server and its supervisor; its theorems and its refinement of `LogChannel` |
| `MC...` | one for each detailed module: the module that TLC is started on |

Definitions marked `\* mutant` are changed versions of the definition that
follows them (a dropped guard, a missing reset); no specification uses them.
Each belongs to one property, which it must break: they show that the property
depends on the code's control.

### BusiProcess

One atomic action per stretch of code between two points at which another
actor can do something that matters: a signal, a message, room on the answer
socket. `pc` names these points.

| action | code (`libgfreadbusi.c`) |
|---|---|
| `Boot` | 103-163, initialisation, any part of which may fail |
| `Exit` / `SetIdle` | 166-173 / 175-182, the check of `exit_flag` and the status before an unlimited wait |
| `EnterPoll` | entering `zmq_poll`: the moment from which a signal interrupts the wait |
| `PollTimeout`, `Receive` | 183-199, and the `switch` of `busi_parse_packet` |
| `FindCard`, `ReadOffline`, `ReadOnline`, `Encrypt` | the parts of `busi_read_id`, with the log record and the status each writes |
| `NothingToSend`, `Send`, `SendBlocks` | 200-216 |
| `Signal` | `busi_sig`; EINTR in `zmq_poll`, `zmq_send`, `zmq_term` |
| `ClientSend`, `GopanboxReceive` | the peers (external) |

Data is reduced to where it came from: an answer is `[for, kind, ref]`, the
request it was built for, its kind, and the read whose reference number it
carries; `refnum` is the number of the read that filled the global buffer. So
"another person's data" is visible as `for # req` or `ref # for`.

`SearchResults` gives the outcomes of `gffind_card`. In this build the function
returns 0 without looking for a card (`libgfreadpub.cpp`), so `{"found"}` is
exact; the callers' branches for the other outcomes are checked as well, and
the theorems hold for any subset.

`statusAsked` is the "readstatus" that the process last handed to
`cjson_update_value`, whose result it never looks at. What `gpbox_stat.json`
then holds is another question, that of `StatusFile`: an update may be dropped
because the file cannot be read (`libjsonpub.c` 315-320), may fail (190-194), or
may be undone by another program's that overlaps it. So
`StatusAgreesWithAnswer` speaks of what the process asks for, and not of the
file, which can contradict an answer.

### ReadService

Three actions: a message arrives, a message is handled with an answer that was
made for it and fits its code, a message is handled without one. The mapping is
in `BusiProcess`: `handled` counts the messages received except the one in
progress, `answers` is the gopanbox socket without the reference numbers.

### Supervisor

Processes `1..MaxProcs`; process 1 is the program, process 2 the child of its
first `fork`. `gfread_busi_run` (526-577) gives `Check`, `NothingToDo`,
`Restart`, `RestartFails`, `Wake`. `gfread_busi_comm`, seen from outside, gives
`Bind`, `InitOk`, `InitFailed`, `Leave`. A child has a copy of its parent's
variables, so `pid_busi` of a child is whatever the parent had *before* the
assignment of `fork`'s result; of the first child it is uninitialised (528),
chosen by `Init`. `back` is the place in the loop to which
a child returns: the check of `exit_flag` for the first child, the `sleep` at
the end of the loop body for later ones. `gfreadsvr.c` ignores SIGCHLD, so a
dead child is reaped by the kernel and `waitpid` fails: `WaitFails`.
`ListPids` is the `ps` of `killsiguser` (7), which lists the processes of the
name, and `Tell` the signal that `kill` (9) sends to each of them later, with
`busi_sig`. A process forked in between is in no list: it has the flag only if
its parent had it by then.

### ReadTask

`DoIDTask` with the functions it calls, in gateway mode. The caches are
`buf[p]`: the card whose piece each holds. `dn` is the card whose DN is stored.
`authed` is the card whose answer to command 04 went to the server and `pieces`
the set of cards whose data the packet of the multiple command holds.
`CardMoves` exchanges or removes the card at any time; the reader then has no
selected card and answers 6FF0 until command 04 selects one. `TimePasses` is
`checkTimeOut`'s total time. The server is external: it answers with a single
command, the multiple command, the identity or an error. A task inherits
everything from the one before; `Prepare` (`PrepareWork`) and `Disconnect`
happen between tasks. The time-out -1, never (`IDCardUtil.h` 674), is left out:
the gateway sets 60 seconds (`libgfreadpub.cpp` 350). With -1 `TimePasses` would
not happen, and a card that comes and goes could keep the task busy for ever.

### Exchange

A call returns the server's word on this packet or an error of its own. Both
sockets implement it, with one difference: over TCP the server's error is also
known to be for this packet, so `Verdicts` holds "ok" and "error"; over
datagrams only "ok" is, and "error" counts among the local errors.

### RetryTcp

A packet is the number of its call, which stands for its chain number.

| action | code (`IDCardRetrySocket.h`, `IDCardSocket.h`) |
|---|---|
| `Call`, `Enter`, `Cancelled` | the head of `SendAndRecv`: chain number, counters, cancel flags |
| `GoOn`, `WaitEnds` | the head of its loop: after a wait, the time waited and the search of the card |
| `Write`, `ReadFails` | `CSocketTCP::Write` and `Read`; a failure closes the connection |
| `ReadVerdict`, `ReadWait`, `ReadSpoilt` | the branches of an answer: error or answer, "wait and send again", one that does not fit |
| `GiveUp`, `Reconnect` | `OnSendAndRecvFail` |
| `Serve`, `Connect`, `Cancel`, `QuitWait`, `StartTask`, `TimePasses` | server, caller, the user's threads, the clock |

`wire` and `answers` are what is under way on the present connection in each
direction; closing it loses both. `recv` reads past the frame, so all that
follows the first answer is lost with it (`Taken`). `ReadSpoilt` sets
`writeFlag` to 0, and after a retry it is still 0: the new connection is read
without having been written to.

### RetryUdp

`packets` and `answers` are the datagrams of the present socket. The sets only
grow and any element may arrive at any time, any number of times or never:
that is loss, delay, repetition and reordering at once. `opened` is the number
of the last call when the socket was made, so that "of an earlier connection"
can be said. It is assumed that a new socket does not get the ephemeral port of
the one just closed: with the same port the server's late datagrams to the old
socket would reach the new one.

### StatusFile

`fopen(..., "w")` empties the file (`Open`) and `fclose` fills it (`Close`),
since the image is smaller than the buffer of a stream. Each process writes one
key, so the file is a function from processes to values, or `Unreadable`.
`ReadFails` is the update that is dropped because the file is empty; `OpenFails`
and `CloseFails` are failures that nobody looks at; `Killed` may come at any
point. Processes are killed while they write (`stopbusi` ends with `kill -9`).

### GfLog and LogChannel

| action | code (`libgflog.c`) |
|---|---|
| `Report` | `gflog_clt`, with `ZMQ_DONTWAIT` |
| `Transfer` | ZeroMQ, from a push socket to its pipe of the pull socket |
| `Start`, `Top`, `EnterRecv`, `Recv`, `Upload`, `Exit` | `gflog_server` |
| `Check`, `NothingToDo`, `Restart`, `RestartFails`, `Wake` | `gflog_run` |
| `ListPids`, `TellSup`, `TellServer` | `killsiguser` (7, 9) with `gflog_sig` |

The records of a process are numbered as it reports them. A pull socket has a
pipe, and a mark, for each peer, and takes from the pipes in turns; so `queue`,
`inbox` and `uploaded` are one for each reporting process, and `Recv` takes from
any pipe that has a record. A business process that is forked again connects a
socket of its own: it is another element of `Reporters`, and its records may
overtake those that the dead one left in its pipe. `ReporterDies` loses what is
still on the push socket; what has been received can be read.

`EnterRecv` is the moment from which a signal ends the wait: one that comes
between `Top` and it is noticed after the next record only. `Crash` and
`ClosePull` lose the pipes of the pull socket. `Upload` may fail, or succeed and
report a failure, and is never repeated. `LogChannel` says for each reporting
process: a record is uploaded once at most, and in the order of its reports.

`targets` are the processes on `killsiguser`'s list that have not been signalled
yet. `missed` remembers that the present log server was forked by a supervisor
that was on the list and had not been signalled: that server is in no list and
inherits a clear flag. It is a history variable: no action looks at it.

## 3. What the runs check

Passing runs.

| run | bounds | properties |
|---|---|---|
| `busi` | 3 messages of 4 codes, 3 outcomes of the search, queue 1 | `StateOK`, `AnswerIsForItsRequest`, `ReferenceIsOfThisRead`, `AnswersInOrder`, `StatusAgreesWithAnswer`, `EveryMessageHandled`, `StopNoticedAtNextMessage` |
| `busi_service` | 3 messages, known codes and empty ones | `ServiceSpec` (refinement), `OnlineNeverDropped` |
| `supervisor` | 4 processes, 2 crashes, a failing initialisation, a failing fork, stops | `StateOK`, `OneServer`, `DeathIsSeen`, `ServiceRecovers`, `StopIsInherited`, `SupervisorsStop` |
| `read_task` | 2 cards, 1 single command | `StateOK`, `PiecesOfAuthenticatedCard`, `SessionOnCompleteChannel`, `TaskEnds`, `LateTaskRunsDown` |
| `retry_tcp` | 3 calls, 3 retries, 3 intervals in the time to wait | `StateOK`, `OneAnswerUnderWay`, `SendsBounded`, `ExchangeSpec` (refinement), `CallReturns`, `CallRunsDown` |
| `retry_udp` | 2 calls | `StateOK`, `ErrorsAreOfThisConnection`, `ExchangeSpec` (refinement), `CallReturns` |
| `status_file` | 3 processes, 2 values | `StateOK`, `ReadableUnlessFault`, `AloneIsKept`, `ReadableAgain` |
| `log_pipeline` | 2 reporting processes with 3 records and 1, queues of 2 and pipes of 1, a crash | `StateOK`, `StopsWithinOneRecord`, `NoServerIsForgotten`, `ChannelSpec` (refinement), `RecordsMoveOn`, `StopCompletes` |

`StateOK` is `TypeOK`, an invariant that says where an actor may stop
(`ProcessCanGoOn`, `SupervisorCanGoOn`, `TaskCanGoOn`, `CallCanGoOn`,
`UpdateCanGoOn`, `PipelineCanGoOn`), and `StepRule`. At any other point the
actor's step is enabled: a branch that no condition covers, or a wait that nobody
ends, violates it. `StepRule` says that a step is enabled when the guard of one
of its actions holds. By the meaning of `ENABLED` it is true in every state, so it
says nothing of the code; TLC evaluates it because the proofs of section 4, to
which `ENABLED` is opaque, take it as their hypothesis.

Some properties say less than one would like, because the code does less:
`AloneIsKept` is about updates that met no other one, since updates that overlap
undo each other; `ErrorsAreOfThisConnection` allows the error of an earlier
packet of the same socket, since errors are returned before the chain number is
compared; `StatusAgreesWithAnswer` is about what is asked to be written, since
nobody looks whether it is; `ChannelSpec` orders the records of one process only;
`NoServerIsForgotten` excepts the log server that is forked between
`killsiguser`'s list and its signal to the supervisor (that server does live on,
TLC shows), and `StopIsInherited` begins when every living process has been told.

Violation runs. Each checks one sentence of the repository that the code does
not keep; `findings` in `PROJECT.json` quotes it.

| run | what the code does |
|---|---|
| `busi_unknown_code` | answers a message with an unknown code with the previous answer |
| `busi_shutdown` | waits in `zmq_term` for sockets that are never closed |
| `supervisor_init` | after a failed initialisation the child supervises instead of serving, and is not replaced |
| `retry_resend` | after an answer that does not fit, retries on new connections without sending the packet again |

More disagreements were met while modelling. They are plain in the models, or
below their detail:

* `SetIdle` writes `READSTAT_1` (reading) where the comment at line 177 of
  `libgfreadbusi.c` says "set to idle waiting"; the failing branch of `Encrypt`
  leaves the status at "reading" where the failing reads set `READSTAT_3`.
* The record of an error carries the reference number of the previous read
  (`libgfreadbusi.c` 270), which is why `ReferenceIsOfThisRead` is about
  identities and time chains only.
* A signal between the check of `exit_flag` and `zmq_poll` (183) waits for the
  next message: hence the name `StopNoticedAtNextMessage`.
* A child that supervises after `InitFailed` may fork although no child of its
  own has exited, because the `pid_busi` it has is not its child's.
* After an error of the multiple command the channel is built anew with the
  AppKeyHash still set (`IDCardBussiness.h` 566; `IDCardDevFlow.h` 374 resets it
  elsewhere). What the server does with it is not in the repository.
* `m_u32SamWaitTimeOut` is 5, "默认是5s" (`IDCardManager.h` 27), and is compared
  with milliseconds (`IDCardRetrySocket.h` 90).
* Errors that come as datagrams end the call of another packet (see above).
* `killsiguser` lists the processes before it signals them. A log server that is
  forked in between by a supervisor not yet signalled is never told, and
  uploads on after its supervisor has ended; so does a business process. No text
  of the repository promises otherwise, so there is no run for it.
* The records of a reporting process that was restarted may arrive before the
  last ones of its predecessor.
* `cjson_update_value` returns 0 though the write has failed
  (`libjsonpub.c` 355), and overlapping updates are lost.

### Bounds, and why they are enough

* `MaxReq = 3`: an answer buffer or reference number is carried from one
  message to the next; three messages give a stale value, a message that does
  not overwrite it, and a later one. The theorems cover any number.
* `SendHWM = 1` (1000 in ZeroMQ): with three messages the socket is full at the
  second answer, so blocking, interruption and release all occur.
* `MaxProcs = 4`: with two crashes the numbers are not used up, so recovery is
  not cut short by the bound; with a failing initialisation they are used up,
  which is a `fork` that fails for ever (the process limit of the machine). One
  failing initialisation gives the child that supervises and forks on; the
  theorems cover any number of failures and of processes.
* `Cards`: two, since the property is about the data of two cards in a packet.
  No symmetry is used, since the same run checks liveness.
* `RetryCount = 3` is the code's value; `WaitTimeout / WaitInterval = 3` lets
  three waits mix with three retries, and `MaxSends = 8` lies above the
  1 + 3 + 2 sends that are possible (the third wait is the last and sends nothing),
  so that one too many would be seen.
* `MaxCalls`: 3 over TCP and 2 over datagrams: what a call leaves behind meets
  the next one. Sockets are opened and closed between calls at any time.
* `Procs`: three, since an update may be undone by two others that overlap each
  other; two values, the old and the new one.
* `Reporters`, `SendHWM = 2`, `RecvHWM = 1`: with three records of one process its
  pipe is full while another record waits behind it, and records are dropped
  between others that are kept; the record of the second process may be taken
  before, between or after those of the first. The pipes are read in any turn, so
  longer ones add no order that these do not have.
* `MaxCrashes = 1` in `log_pipeline`: a log server is replaced, with the stop
  request before, between and after. Signals may be sent again at any time.
* `MaxSingles`: single commands between 04 and the multiple command. They
  change nothing but the point at which an error comes.

`CHECK_DEADLOCK FALSE` is set where the program may rightly stop: a business
process that has returned, failed or waits with no more messages to come; a
program all of whose processes are dead; a log server that waits for a record
that does not come; a socket all of whose calls have been made. `ReadTask` and
`StatusFile` never stop, and deadlock is checked.

### Fairness

* `BusiProcess`: weak fairness of the process's steps (it is scheduled, and the
  reader's calls have time-outs) and of gopanbox. `Step` as a whole is fair and
  at most one of its actions is enabled at a `pc`, apart from outcomes of a call.
  Clients and signals are not fair.
* `Supervisor`: weak fairness of each process's steps (sleeps end). `Leave`,
  `Crash`, `ListPids` and `Tell` are not fair: a business process that missed the
  signal before `zmq_poll` may never notice the flag.
* `ReadTask`: weak fairness of the task's steps (every exchange and command has
  a time-out) and of the clock. `TaskEnds` needs both: with no clock a card that
  comes and goes restarts the authentication for ever.
* `RetryTcp`: weak fairness of the call's steps only. Every system call in it has
  a time-out. Neither server, network nor clock is assumed to act.
* `RetryUdp`: the same and the clock. The clock is needed: answers that do not
  fit may come for ever, and only the time of the packet ends the call.
* `StatusFile`: weak fairness of each update that has begun.
* `GfLog`: weak fairness of both processes and of each `Transfer`; strong fairness
  of `Recv` for each pipe, since ZeroMQ takes the pipes in turns and passes over
  none that has a record; and strong fairness of `Restart`: a `fork` that fails
  again and again succeeds at last. Reports, signals and faults need not come.

## 4. What is proved

For every value of the constants allowed by the named assumptions
(`BusiAssumption`, `SupervisorAssumption`, `ReadTaskAssumption`,
`RetryTcpAssumption`, `RetryUdpAssumption`, `StatusFileAssumption`,
`GfLogAssumption`), checked by TLAPS: every property that a passing run checks has
its theorem. These are all invariants, the three action properties, the four
refinements, and the liveness properties, the last from two kinds of hypothesis
that are true of every behaviour of the model and explained under *Liveness*.

| module | safety and refinement | liveness |
|---|---|---|
| `BusiProcess_proofs` | `TypeCorrect`, `AnswersCorrect`, `ReferencesCorrect`, `OrderCorrect`, `StatusCorrect`, `OnlineHolds`, `MarkHolds`, `StopsWhenToldHolds`, `BlockedHasPacketHolds`, `StateOKHolds`; `Refinement`: if no message has an unknown code the process implements `ReadService` | `StopNoticedHolds`, `NextMessageHandled`, `EveryMessageHandledHolds` |
| `Supervisor_proofs` | `TypeCorrect`, `StopInherited`, `SpawnInvHolds`, `OneServerHolds`, `FirstProcessHolds`, `DeathIsSeenHolds`, `NumbersHold`, `StateOKHolds` | `SupervisorsStopHolds`, `FaultsEndHolds`, `ServiceRecoversHolds` |
| `ReadTask_proofs` | `TypeCorrect`, `SessionCorrect`, `PiecesCorrect`, `StepsBounded`, `LateTaskHolds`, `MoreToReadHolds`, `StateOKHolds` | `SinglesMoveOn`, `ServerEndsHolds`, `TaskEndsHolds` |
| `RetryTcp_proofs` | `TypeCorrect`, `ConnectionClean`, `SendsBoundedHolds`, `StepsBounded`, `CallRunsDownHolds`, `StateOKHolds`, `Refinement` to `Exchange` | `CallMovesOn`, `CallReturnsHolds` |
| `RetryUdp_proofs` | `TypeCorrect`, `ErrorsHold`, `StateOKHolds`, `Refinement` to `Exchange` | `CallsReturn` |
| `StatusFile_proofs` | `TypeCorrect`, `ReadableHolds`, `AloneIsKeptHolds`, `StateOKHolds` | `ReadableAgainHolds` |
| `GfLog_proofs` | `TypeCorrect`, `StopsSoon`, `InvHolds`, `NobodyForgotten`, `ExitIsToldHolds`, `ChildKeptHolds`, `StateOKHolds`, `Refinement` to `LogChannel` | `StopCompletesHolds`, `FaultsEndHolds`, `RecordMovesUp`, `RecordsMoveOnHolds` |

**BusiProcess.** The invariants speak of the answers already sent; whether they
stay true depends on what the globals hold between a request and its answer. So
the inductive invariant is `IInv == TypeOK /\ LocalInv /\ HistoryInv`.
`LocalInv` says, location by location, what the globals hold (the packet is
this request's once "answer" is reached, the reference number is this read's
while encrypting, the status is "reading" until there is a result, all answers
sent are for earlier requests); `HistoryInv` is the conjunction of the three
invariants about answers and records. `LocalStep` does not need `HistoryInv`,
and `HistoryStep` uses `LocalInv` at `Send` and `ReadOnline` only.
`StatusAgreesWithAnswer` is a part of `LocalInv`; it needs no assumption about the
file, since it speaks of what the process asks to be written.

**Refinement.** `RefinementStep` maps `ClientSend` to `Ask`, `Send` to
`Answer`, `NothingToSend` and the receipt of an empty message to `Skip`, a
signal that interrupts a blocked send to `Skip`, and all else to a stutter. Its
extra fact is `KindFitsCode`: the packet's kind suits the request's code.
`NoUnknownCode` is needed, as `busi_unknown_code` shows.

**ReadTask.** `ChannelInv` adds to `SessionOnCompleteChannel` that a cached
command 04 implies a complete channel with its hash. `CardInv` adds to
`PiecesOfAuthenticatedCard` that all non-empty caches hold the card of the
stored DN, that this is the authenticated card when the task resumes, that the
selected card is the authenticated one while the task reads, and that the pieces
so far are its.

**Supervisor.** Two invariants. `OnlyChild`, until an initialisation fails: at
most one child lives, it is the one `pid_busi` of the program names, and it is
where a child can be. `SpawnInv`, without any condition: a living child is named
by the process that forked it, which is why a process forks only when it has no
living child (`Watched`), and of those that may fork (`Spawners`) there are no more
than the program and one for each failed initialisation. Each of them has one
living child at most, so there are no more than `2 + initFails` processes: this is
`OneServer`, with `OnlyChild` for the business processes among them. `DeathIsSeen`
is the first part of `Watched`, and from `OnlyChild` that `waitpid` fails exactly
when there is no child, and that the request address is then free.
`StopIsInherited` needs no invariant but types: a child has its parent's
`exit_flag`, so the set of processes that have not been told to stop cannot grow
from nothing. None of the invariants speaks of `targets`: they hold whomever
`killsiguser` has listed, `Told` being all that a signal does.

**RetryTcp.** `UnderWay` says what may be on the connection: nothing, or while
the answer is read this call's packet, or one answer to it. With it `ExchangeSpec`
follows although errors are taken without a look at the chain number.
`SendsBounded` alone is not inductive: `Counted` gives the number n of waits so
far, from which the time waited is n intervals, and the sends are at most one
for each retry and each wait, and one more unless the packet is about to be sent.

**RetryUdp.** `OnSocket` says that the packets and the answers of a socket are
those of calls made since it was opened; an answer that is taken as "ok" has been
compared with the call, so the network needs no other invariant.

**StatusFile.** `UpdateInv`: a process in an update has an image that can be
written, and an update that is alone is the only one. `KeepInv` adds to
`AloneIsKept` that every other update under way has the kept value in its image,
so that it writes it back.

**GfLog.** The refinement needs `OrderInv`: of each process, what has been
uploaded, what is in hand, what is on its pipe and what is on its push socket
follow each other in the order of its reports; a record in hand belongs to one
process only, so a step of one leaves the order of the others alone. `StopInv`: a
log server is told only if a stop is asked for of the supervisor too, and once one
is, a living server without the flag is still on the list or came too late for it
(`missed`); from this `NoServerIsForgotten`, since a supervisor that has ended had
the flag. `AfterStopInv`: a server told to stop that is still on its way to
`zmq_recv` has taken no record since.

**Requests that are not dropped.** `OnlineNeverDropped` is a safety property:
once a request has been dealt with there is an answer to it. It rests on
`OnlineHasAnswer` (at "answer" the packet of an ONLINE request is not empty
unless a search may find no card), proved beside `IInv`. With
`EveryMessageHandled` it gives that every ONLINE request is answered, if searches
find a card or fail, but for one that a stop request cuts short.

**Measures.** `StepsLeft` of `RetryTcp` weighs what can still happen to a call:
six for each retry, three for each unit of waiting, two for each packet under
way, and the worth of the location. It is a natural number bounded by the limits
(`StepsBounded`); every step of the call lowers it and neither the server nor the
users, the clock or new connections raise it (`CallRunsDownHolds`). `StepsLeft` of
`ReadTask` does the same for a task whose time is up: before that an error may
send it back, afterwards never (`LateTaskHolds`).

**Never stuck.** `StateOKHolds` of each module: where an actor may not stop, the
guard of one of its actions holds; with `StepRule` its step is enabled. The facts
behind it are that a blocked send has a packet (`BlockedHasPacketHolds`), that a
task that reads has a piece to read (`MoreToReadHolds`), and that a log server
returns only when it has been told to stop (`ExitIsToldHolds`).

**Liveness.** Each proof names the locations an actor passes through, shows that
its step leaves each for a later one, that the others never take it back, and that
it is not stuck there; the temporal prover combines these. Besides fairness a
theorem has hypotheses of two kinds, both true of every behaviour of the model,
for which the provers have no rule:

* `[]StepRule`, as explained in section 3. TLC checks it in the run that checks
  the property.
* `Induction` or `FaultInduction`: one instance of induction over the natural
  numbers, `P(0) /\ (\A n \in Nat : P(n) => P(n + 1)) => \A n \in Nat : P(n)`
  or the same with all smaller m, for one temporal formula P. It is valid whatever
  P says; that P(0) holds and that P(n) gives P(n + 1) is proved.

Where each process is fair (`\A p \in Procs : Runs(p)`) and the process that
matters changes with the state, fairness from every moment on is first exchanged
with the quantifier: `[](\A p \in Procs : ...)`, so that the temporal prover can use
it for whichever process it is then.

* `SupervisorsStopHolds`, for each of any number of processes: from any place in
  the loop to the check of the flag, and out. The fork in between does not matter.
* `ServiceRecoversHolds`: a child that has been forked binds and initialises; when
  there is none, the program comes to `waitpid`, sees it, and forks, for which
  there must be a number left. `NumbersInv`: until an initialisation fails or a stop
  request comes, every process forked so far has used up a crash but the program
  and one child, so `MaxProcs >= MaxCrashes + 2` is enough. This assumption is
  the bound of the model (section 3): without it the numbers are used up, which is
  a `fork` that fails for ever. A crash may undo what has been gained, so the
  argument starts when no more come: `FaultsEndHolds`, by induction over those
  that are left.
* `StopCompletesHolds`: the supervisor as above; the log server goes through one
  record at most to the check of its flag, or waits for one.
* `RecordsMoveOnHolds`: `RecordMovesUp` takes a record among the first n + 1 of the
  queue to the first n, and induction over n to the head and off. In between the
  log server that is dead is replaced (`ChildKept`: the supervisor keeps its
  number; and it is there as long as no stop is asked for) and one whose
  socket is full takes a record. Crashes come to an end as above.
* `StopNoticedHolds`: from any place of the loop to its top. A blocked answer
  waits for gopanbox, which makes room (`MarkHolds`: the socket holds no more
  than its mark).
* `EveryMessageHandledHolds`: `NextMessageHandled` says that the message after k
  others is dealt with, unless the process failed to start or was told to stop
  (`StopsWhenToldHolds`: it leaves the loop for no other reason); induction over k.
* `CallReturnsHolds`: `CallMovesOn` takes a call with n steps left to fewer;
  induction over the measure `StepsLeft`.
* `CallsReturn`: the clock makes a datagram call late, and then each branch ends it.
* `TaskEndsHolds`: the clock makes the task late, and then each location leads
  to a later one, a read to one with fewer pieces left. The exchanges after command
  04 end by induction over the single commands to come (`SinglesMoveOn`).
* `ReadableAgainHolds`: an empty file has a process between `fopen` and `fclose`
  (`ReadableUnlessFault`), and that process goes on.

Only model-checked is what the violation runs show. `StepRule` is evaluated by
TLC and taken by the proofs as said above.

## 5. What is not modelled

* `IDCardRetryTCPUDP`, the mixed socket, and the choice of a socket by
  `CSockManager::getSockFromStep`. An application may configure it for a step;
  the default of every step is TCP (`g_NetType`, `IDCardConfig.h` 43), and no
  caller of `setIpAndPort` is in the repository. Two things a model of it should
  ask: the branch that reads again after an answer that does not fit does not
  look at the time (`IDCardRetryTCPUDP.h` 110), as it does over datagrams; and
  the server answers on both sockets, so an error on the second one meets the
  next call.
* The bytes of packets, ciphertext, photographs, and their lengths.
* Request ports (not used in gateway mode), the SAM index and addresses of the
  packet's header (routing among the server's modules), binding, time logs, and
  `ReadImage`: the gateway calls `ReadIDCardInfo` (`libgfreadpub.cpp` 299) and
  never `ReadIDCardImage`.
* `mng_clt_to_server`: never called.
* TLV, CRC, base64, packet formats, and the offline status word
  (`libgfreadpub.cpp` 129): pure functions on bytes.
* Reader access (`AKeyCommand.h` and others): device I/O; a command succeeds or fails.
* `libtcp.c`, which the card-reading server does not call; output of logs; the
  parsers of configuration files, which keep no state.
* Faults of the libraries other than a call that fails or a process that dies.
* Vendored code: curl, OpenSSL, cJSON, prebuilt binaries. It is nearly all of the
  repository's lines.

## 6. Plan

Done: all modules and proofs above. What could follow, in this order:

1. Compositions: `Supervisor` with `BusiProcess` inside each child (the request
   address, messages lost with a crash); `ReadTask` over `Exchange` instead of
   its own server.
2. `IDCardRetryTCPUDP`, with `Exchange` as its specification.
3. The SAM index and binding in `ReadTask`.
4. Pure functions against reference definitions: TLV, version comparison
   (`libsysbase.c` 109-205), CRC16.
