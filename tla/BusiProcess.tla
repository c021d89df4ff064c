---------------------------- MODULE BusiProcess ----------------------------
(***************************************************************************)
(* The business process of the card-reading server, gfread_busi_comm in    *)
(* doorsys_box/src/public/libgfreadbusi.c: one loop that polls the request *)
(* socket, reads an identity card for each request and sends the answer to *)
(* the gopanbox process on a second socket.                                *)
(*                                                                         *)
(* Other actors: the clients that send requests, the gopanbox process that *)
(* drains the answers, and whoever sends SIGUSR1 to stop the process.  The *)
(* handler sets exit_flag and interrupts a blocking ZeroMQ call (EINTR).   *)
(*                                                                         *)
(* Requests are numbered by their place in reqs, and data that comes out   *)
(* of a card carries the number of the request whose read produced it.     *)
(*                                                                         *)
(* The status in gpbox_stat.json is seen from this side only: statusAsked  *)
(* is what the process asks cjson_update_value to write, and it never      *)
(* looks whether that was done.  StatusFile has the file, where an update  *)
(* may be dropped, fail, or be undone by another program's.                *)
(***************************************************************************)
EXTENDS Integers, Sequences

CONSTANTS
    MaxReq,         \* bound: how many messages the clients send
    SendHWM,        \* high-water mark of the answer socket (1000 in ZeroMQ)
    Codes,          \* kinds of message the clients send
    SearchResults   \* outcomes of gffind_card; {"found"} in this build

\* READ_INFO_ONLINE, READ_INFO_OFFLINE
Known == {"ONLINE", "OFFLINE"}

ASSUME BusiAssumption ==
    /\ MaxReq \in Nat \ {0}
    /\ SendHWM \in Nat \ {0}
    /\ Codes \subseteq Known \cup {"OTHER", "EMPTY"}
    /\ SearchResults \subseteq {"found", "nocard", "error"}
    /\ SearchResults # {}

\* The wait after a search without a card, in milliseconds.
ShortWait == 1000

BUSI_STAT_FREE == 1
BUSI_STAT_FIND == 2
BUSI_STAT_READ == 3

READSTAT_0 == 0     \* idle; also: nothing asked yet
READSTAT_1 == 1     \* reading
READSTAT_2 == 2     \* read succeeded
READSTAT_3 == 3     \* read failed

VARIABLES
    pc,             \* where the process is
    exit_flag,      \* set by the SIGUSR1 handler
    timeout,        \* argument of the next zmq_poll: -1 or ShortWait
    busi_stat,      \* business state, 0 until the loop starts
    statusAsked,    \* "readstatus" last handed to cjson_update_value
    reqs,           \* every message the clients sent, in order
    received,       \* how many of them zmq_recv has returned
    packet,         \* send_buf and send_len, which outlive an iteration
    refnum,         \* request whose read filled refnum_buf, 0: none
    sent,           \* every answer put on the answer socket, with its request
    drained,        \* how many of them gopanbox has received
    logs            \* records sent to the log server

vars == <<pc, exit_flag, timeout, busi_stat, statusAsked, reqs, received,
          packet, refnum, sent, drained, logs>>

Locations == {"boot", "failed", "top", "entering", "poll", "search", "read",
              "encrypt", "answer", "blocked", "terminating", "returned"}

\* send_len == 0
NoPacket == [for |-> 0, kind |-> "none", ref |-> 0]

\* mutant: busi_packet does not set rsp_len
ErrorPacketWithoutLength == packet

\* busi_packet: transaction code and error number
ErrorPacket == [for |-> received, kind |-> "error", ref |-> 0]

\* the answer to a successful ONLINE read: ciphertext and reference number
IdentPacket == [for |-> received, kind |-> "ident", ref |-> refnum]

\* the answer to a successful OFFLINE read; an empty DN adds nothing to it
DnPacket == [for |-> received, kind |-> "dn", ref |-> 0]

\* mutant: rsp_len is set only when there is a DN
OfflineAnswersKeptLength == {packet, DnPacket}

OfflineAnswers == {NoPacket, DnPacket}

Code == reqs[received]

Init ==
    /\ pc = "boot"
    /\ exit_flag = 0
    /\ timeout = -1
    /\ busi_stat = 0
    /\ statusAsked = READSTAT_0
    /\ reqs = <<>>
    /\ received = 0
    /\ packet = NoPacket
    /\ refnum = 0
    /\ sent = <<>>
    /\ drained = 0
    /\ logs = {}

-----------------------------------------------------------------------------
\* The other actors.

\* A client sends a message; MaxReq bounds the run.
ClientSend ==
    /\ Len(reqs) < MaxReq
    /\ \E c \in Codes : reqs' = Append(reqs, c)
    /\ UNCHANGED <<pc, exit_flag, timeout, busi_stat, statusAsked, received,
                   packet, refnum, sent, drained, logs>>

\* The gopanbox process receives the oldest answer.
GopanboxReceive ==
    /\ drained < Len(sent)
    /\ drained' = drained + 1
    /\ UNCHANGED <<pc, exit_flag, timeout, busi_stat, statusAsked, reqs,
                   received, packet, refnum, sent, logs>>

\* SIGUSR1: zmq_poll fails (and timeout becomes -1), a blocked zmq_send drops
\* its message, zmq_term gives up; anywhere else only the flag changes.
Signal ==
    /\ exit_flag' = 1
    /\ pc' = CASE pc \in {"poll", "blocked"} -> "top"
               [] pc = "terminating" -> "returned"
               [] OTHER -> pc
    /\ timeout' = IF pc = "poll" THEN -1 ELSE timeout
    /\ UNCHANGED <<busi_stat, statusAsked, reqs, received, packet, refnum,
                   sent, drained, logs>>

-----------------------------------------------------------------------------
\* The process.

\* The four initialisation calls, any of which may fail, up to the loop.
Boot ==
    /\ pc = "boot"
    /\ \/ /\ pc' = "failed"
          /\ UNCHANGED <<timeout, busi_stat>>
       \/ /\ pc' = "top"
          /\ timeout' = -1
          /\ busi_stat' = BUSI_STAT_FREE
    /\ UNCHANGED <<exit_flag, statusAsked, reqs, received, packet, refnum,
                   sent, drained, logs>>

\* The sockets that are still open when zmq_term is called: only request has
\* been closed, and zmq_term waits until every socket is.
OpenAtTerm == {"request", "gopanbox_del", "control_del"} \ {"request"}

Exit ==
    /\ pc = "top"
    /\ exit_flag = 1
    /\ pc' = IF OpenAtTerm = {} THEN "returned" ELSE "terminating"
    /\ UNCHANGED <<exit_flag, timeout, busi_stat, statusAsked, reqs, received,
                   packet, refnum, sent, drained, logs>>

\* mutant: exit_flag is not looked at
SetIdleAnyway ==
    /\ pc = "top"
    /\ statusAsked' = IF timeout = -1 THEN READSTAT_1 ELSE statusAsked
    /\ pc' = "entering"
    /\ UNCHANGED <<exit_flag, timeout, busi_stat, reqs, received, packet,
                   refnum, sent, drained, logs>>

\* exit_flag was clear: the status is updated before an unlimited wait.
SetIdle ==
    /\ pc = "top"
    /\ exit_flag = 0
    /\ statusAsked' = IF timeout = -1 THEN READSTAT_1 ELSE statusAsked
    /\ pc' = "entering"
    /\ UNCHANGED <<exit_flag, timeout, busi_stat, reqs, received, packet,
                   refnum, sent, drained, logs>>

\* The process is inside zmq_poll: from here a signal wakes it.
EnterPoll ==
    /\ pc = "entering"
    /\ pc' = "poll"
    /\ UNCHANGED <<exit_flag, timeout, busi_stat, statusAsked, reqs, received,
                   packet, refnum, sent, drained, logs>>

PollTimeout ==
    /\ pc = "poll"
    /\ timeout = ShortWait
    /\ received = Len(reqs)
    /\ timeout' = -1
    /\ pc' = "top"
    /\ UNCHANGED <<exit_flag, busi_stat, statusAsked, reqs, received, packet,
                   refnum, sent, drained, logs>>

\* zmq_recv and the switch on the transaction code: an empty message goes back
\* to the loop, an unknown code does nothing, a known one starts the search.
Receive ==
    /\ pc = "poll"
    /\ received < Len(reqs)
    /\ received' = received + 1
    /\ \/ /\ reqs[received'] = "EMPTY"
          /\ pc' = "top"
          /\ UNCHANGED <<busi_stat, statusAsked>>
       \/ /\ reqs[received'] = "OTHER"
          /\ pc' = "answer"
          /\ UNCHANGED <<busi_stat, statusAsked>>
       \/ /\ reqs[received'] \in Known
          /\ statusAsked' = READSTAT_1
          /\ busi_stat' = BUSI_STAT_FIND
          /\ pc' = "search"
    /\ UNCHANGED <<exit_flag, timeout, reqs, packet, refnum, sent, drained,
                   logs>>

\* gffind_card: "nocard" is 0xE0E06FF0, "error" any other failure.
FindCard ==
    /\ pc = "search"
    /\ \E result \in SearchResults :
         \/ /\ result = "nocard"
            /\ packet' = NoPacket
            /\ pc' = "answer"
            /\ UNCHANGED busi_stat
         \/ /\ result = "error"
            /\ packet' = ErrorPacket
            /\ busi_stat' = BUSI_STAT_FREE
            /\ pc' = "answer"
         \/ /\ result = "found"
            /\ busi_stat' = BUSI_STAT_READ
            /\ pc' = "read"
            /\ UNCHANGED packet
    /\ UNCHANGED <<exit_flag, timeout, statusAsked, reqs, received, refnum,
                   sent, drained, logs>>

\* gfOffLineReadInfo; the DN of a successful read may be empty.
ReadOffline ==
    /\ pc = "read"
    /\ Code = "OFFLINE"
    /\ \/ statusAsked' = READSTAT_3 /\ packet' = ErrorPacket
       \/ statusAsked' = READSTAT_2 /\ packet' \in OfflineAnswers
    /\ busi_stat' = BUSI_STAT_FREE
    /\ pc' = "answer"
    /\ UNCHANGED <<exit_flag, timeout, reqs, received, refnum, sent, drained,
                   logs>>

\* mutant: the record is built before the read has stored its number
LogRecordOfStoredRef(kind, ref) ==
    [req |-> received, kind |-> kind, ref |-> refnum]

\* busi_send_log: a record carries whatever reference number is stored.
LogRecord(kind, ref) == [req |-> received, kind |-> kind, ref |-> ref]

\* gfreadIDInfo stores the reference number only when it succeeds.
ReadOnline ==
    /\ pc = "read"
    /\ Code = "ONLINE"
    /\ \/ /\ logs' = logs \cup {LogRecord("error", refnum)}
          /\ statusAsked' = READSTAT_3
          /\ packet' = ErrorPacket
          /\ busi_stat' = BUSI_STAT_FREE
          /\ pc' = "answer"
          /\ UNCHANGED refnum
       \/ /\ refnum' = received
          /\ logs' = logs \cup {LogRecord("timechain", refnum')}
          /\ pc' = "encrypt"
          /\ UNCHANGED <<statusAsked, packet, busi_stat>>
    /\ UNCHANGED <<exit_flag, timeout, reqs, received, sent, drained>>

\* mutant: the status says success before the data is encrypted
EncryptStatusFirst ==
    /\ pc = "encrypt"
    /\ packet' \in {ErrorPacket, IdentPacket}
    /\ statusAsked' = READSTAT_2
    /\ busi_stat' = BUSI_STAT_FREE
    /\ pc' = "answer"
    /\ UNCHANGED <<exit_flag, timeout, reqs, received, refnum, sent, drained,
                   logs>>

\* mutant: a failure to encrypt ends the process
EncryptFailureReturns ==
    /\ pc = "encrypt"
    /\ \/ packet' = ErrorPacket /\ pc' = "returned" /\ UNCHANGED statusAsked
       \/ packet' = IdentPacket /\ pc' = "answer" /\ statusAsked' = READSTAT_2
    /\ busi_stat' = BUSI_STAT_FREE
    /\ UNCHANGED <<exit_flag, timeout, reqs, received, refnum, sent, drained,
                   logs>>

\* gfreadEncIdData and the packing of the answer.
Encrypt ==
    /\ pc = "encrypt"
    /\ \/ packet' = ErrorPacket /\ UNCHANGED statusAsked
       \/ packet' = IdentPacket /\ statusAsked' = READSTAT_2
    /\ busi_stat' = BUSI_STAT_FREE
    /\ pc' = "answer"
    /\ UNCHANGED <<exit_flag, timeout, reqs, received, refnum, sent, drained,
                   logs>>

\* send_len == 0: no answer, and a short wait if the search found no card.
NothingToSend ==
    /\ pc = "answer"
    /\ packet.kind = "none"
    /\ timeout' = IF busi_stat = BUSI_STAT_FIND THEN ShortWait ELSE timeout
    /\ pc' = "top"
    /\ UNCHANGED <<exit_flag, busi_stat, statusAsked, reqs, received, packet,
                   refnum, sent, drained, logs>>

HasRoom == Len(sent) - drained < SendHWM

\* mutant: an answer that had to wait is sent again
SendAgain ==
    /\ pc \in {"answer", "blocked"}
    /\ packet.kind # "none"
    /\ HasRoom
    /\ sent' = Append(sent, [req |-> received, pkt |-> packet])
    /\ pc' = IF pc = "blocked" THEN "answer" ELSE "top"
    /\ UNCHANGED <<exit_flag, timeout, busi_stat, statusAsked, reqs, received,
                   packet, refnum, drained, logs>>

\* zmq_send puts the answer on the socket, at once or after having waited.
Send ==
    /\ pc \in {"answer", "blocked"}
    /\ packet.kind # "none"
    /\ HasRoom
    /\ sent' = Append(sent, [req |-> received, pkt |-> packet])
    /\ pc' = "top"
    /\ UNCHANGED <<exit_flag, timeout, busi_stat, statusAsked, reqs, received,
                   packet, refnum, drained, logs>>

\* mutant: waits only when there is more on the socket than its mark
SendBlocksAboveHWM ==
    /\ pc = "answer"
    /\ packet.kind # "none"
    /\ Len(sent) - drained > SendHWM
    /\ pc' = "blocked"
    /\ UNCHANGED <<exit_flag, timeout, busi_stat, statusAsked, reqs, received,
                   packet, refnum, sent, drained, logs>>

\* zmq_send without ZMQ_DONTWAIT waits for room.
SendBlocks ==
    /\ pc = "answer"
    /\ packet.kind # "none"
    /\ ~HasRoom
    /\ pc' = "blocked"
    /\ UNCHANGED <<exit_flag, timeout, busi_stat, statusAsked, reqs, received,
                   packet, refnum, sent, drained, logs>>

-----------------------------------------------------------------------------
Step ==
    \/ Boot \/ Exit \/ SetIdle \/ EnterPoll \/ PollTimeout \/ Receive
    \/ FindCard \/ ReadOffline \/ ReadOnline \/ Encrypt
    \/ NothingToSend \/ Send \/ SendBlocks

Next == ClientSend \/ GopanboxReceive \/ Signal \/ Step

Spec == Init /\ [][Next]_vars

\* The process is scheduled, the reader's calls return (they have time-outs)
\* and gopanbox receives.  Clients and signals are not bound to act.
FairSpec == Spec /\ WF_vars(Step) /\ WF_vars(GopanboxReceive)

-----------------------------------------------------------------------------
\* Properties.

PacketKinds == {"none", "error", "ident", "dn"}

LogKinds == {"error", "timechain"}

Packets == [for : Nat, kind : PacketKinds, ref : Nat]

\* The type of every variable, and the counters' order.
TypeOK ==
    /\ pc \in Locations
    /\ exit_flag \in {0, 1}
    /\ timeout \in {-1, 1000}
    /\ busi_stat \in 0..3
    /\ statusAsked \in 0..3
    /\ reqs \in Seq(Codes)
    /\ received \in 0..Len(reqs)
    /\ packet \in Packets
    /\ refnum \in Nat
    /\ sent \in Seq([req : Nat, pkt : Packets])
    /\ drained \in 0..Len(sent)
    /\ logs \subseteq [req : Nat, kind : LogKinds, ref : Nat]

\* An answer to a read request was built for that very request: the answer
\* buffer outlives an iteration (send_buf and send_len are declared outside
\* the loop), and no read request is answered with what another one left.
AnswerIsForItsRequest ==
    \A i \in DOMAIN sent :
        reqs[sent[i].req] \in Known => sent[i].pkt.for = sent[i].req

\* The reference number is global and survives a request, yet an identity
\* answer and a time-chain record always carry the number of their own read.
ReferenceIsOfThisRead ==
    /\ \A i \in DOMAIN sent :
           sent[i].pkt.kind = "ident" => sent[i].pkt.ref = sent[i].pkt.for
    /\ \A r \in logs : r.kind = "timechain" => r.ref = r.req

\* Answers leave in the order of their requests and no request is answered
\* twice, also when a signal interrupts a blocked zmq_send.
AnswersInOrder ==
    \A i, j \in DOMAIN sent : i < j => sent[i].req < sent[j].req

\* While an answer to a read request is about to leave, the last status the
\* process asked to be written does not contradict it, whichever step of the
\* read failed: success only with a success, failure only with an error.  (What
\* the file then holds is not this process's alone to say: see StatusFile.)
StatusAgreesWithAnswer ==
    pc \in {"answer", "blocked"} /\ Code \in Known =>
        /\ statusAsked = READSTAT_2 => packet.kind # "error"
        /\ statusAsked = READSTAT_3 => packet.kind = "error"
        /\ packet.kind \in {"ident", "dn"} => statusAsked = READSTAT_2

\* A message has been taken and not yet dealt with.
InProgress == pc \in {"search", "read", "encrypt", "answer", "blocked"}

\* How many messages have been dealt with.
Handled == IF InProgress THEN received - 1 ELSE received

\* A message never waits for ever behind the short wait of a missing card, a
\* full answer socket or an earlier request, and once taken it is dealt with,
\* unless the process failed to start or was told to stop.
EveryMessageHandled ==
    \A n \in 1..MaxReq :
        Len(reqs) >= n ~> (Handled >= n \/ exit_flag = 1 \/ pc = "failed")

\* A stop request is noticed at the latest when the next message arrives: the
\* process then leaves the loop, even if the signal came just before zmq_poll.
StopNoticedAtNextMessage ==
    (exit_flag = 1 /\ received < Len(reqs)) ~>
        pc \in {"terminating", "returned", "failed"}

\* The guards of the actions of Step.
Ready ==
    \/ pc \in {"boot", "entering", "encrypt"}
    \/ pc = "top" /\ exit_flag \in {0, 1}
    \/ pc = "poll" /\ timeout = ShortWait /\ received = Len(reqs)
    \/ /\ pc = "poll" /\ received < Len(reqs)
       /\ reqs[received + 1] \in Known \cup {"OTHER", "EMPTY"}
    \/ pc = "search" /\ SearchResults \cap {"found", "nocard", "error"} # {}
    \/ pc = "read" /\ Code \in {"ONLINE", "OFFLINE"}
    \/ pc = "answer" /\ packet.kind = "none"
    \/ pc = "answer" /\ packet.kind # "none" /\ ~HasRoom
    \/ pc \in {"answer", "blocked"} /\ packet.kind # "none" /\ HasRoom

\* An action that can be taken is enabled.  By the meaning of ENABLED this is
\* so in every state; TLC evaluates it, and the proofs have no other way to it.
StepRule ==
    /\ Ready => ENABLED <<Step>>_vars
    /\ drained < Len(sent) => ENABLED <<GopanboxReceive>>_vars

\* The process is never stuck: it stops only where it waits for a message or
\* for room on the answer socket, or has ended.
ProcessCanGoOn ==
    /\ \/ pc \in {"failed", "terminating", "returned"}
       \/ pc = "poll" /\ received = Len(reqs) /\ timeout = -1
       \/ pc = "blocked" /\ ~HasRoom
       \/ ENABLED <<Step>>_vars
    /\ drained < Len(sent) => ENABLED <<GopanboxReceive>>_vars

\* The state is well typed and the process not stuck.
StateOK == TypeOK /\ StepRule /\ ProcessCanGoOn

\* No ONLINE request is dealt with in silence, whatever the search and the read
\* come to, except that a stop request may drop its answer, and that the client
\* of a search without a card is left to ask again.
OnlineNeverDropped ==
    "nocard" \notin SearchResults =>
        \A n \in 1..Handled :
            reqs[n] = "ONLINE" =>
                exit_flag = 1 \/ \E i \in DOMAIN sent : sent[i].req = n

\* What the answers so far look like to the clients.
Answers == [i \in DOMAIN sent |->
               [req |-> sent[i].pkt.for, kind |-> sent[i].pkt.kind]]

Service == INSTANCE ReadService WITH
    asked <- reqs, handled <- Handled, answers <- Answers

\* The process implements the service for messages that are read requests or
\* empty: one answer at most, in order, made for the request and of its kind.
ServiceSpec == Service!Spec

-----------------------------------------------------------------------------
\* What the repository says and the code does not do.

\* After the device and the request socket are closed the process closes its
\* log and returns.
ShutdownCompletes == pc = "terminating" ~> pc = "returned"
=============================================================================
