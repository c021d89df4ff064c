------------------------------ MODULE ReadTask ------------------------------
(***************************************************************************)
(* One reader's identity-card task: IDCardBussiness::DoIDTask and what it  *)
(* calls in src/include/IDCardBussiness.h and IDCardDevFlow.h, entered     *)
(* from IDCardTask::ReadIDCardInfo.  A task builds a safe channel with the *)
(* server (or goes on with the one it has), authenticates the card with    *)
(* command 04, reads three pieces of it (09, 0A, 0B), sends them in one    *)
(* packet and decrypts the answer.  Errors restart it from the channel,    *)
(* from the authentication, or end it.                                     *)
(*                                                                         *)
(* With the resume flag a piece that was read is cached and not read again *)
(* when the task, or the next one, starts over with the same card.  The    *)
(* last 32 bytes of the answer to command 04, the DN, tell cards apart.    *)
(*                                                                         *)
(* External: the card (it may be taken away or exchanged at any time, and  *)
(* the reader then answers 6FF0 until a card is selected with 04) and the  *)
(* server (which answers by the protocol or with an error).                *)
(***************************************************************************)
EXTENDS Integers, FiniteSets

CONSTANTS
    Cards,          \* the identity cards
    NoCard,         \* no card, an empty buffer
    MaxSingles      \* bound: single commands of one authentication after 04

ASSUME ReadTaskAssumption ==
    /\ NoCard \notin Cards
    /\ MaxSingles \in Nat

Pieces == {"09", "0A", "0B"}

\* AKEY_RV_PACKAGE_COMM_TIMEOUT, 0xE0E06FF0, AKEY_RV_DEC_ENC_DATA_ERROR, any
\* other status word of the reader, any other error of the client, the rest.
Errors == {"commTimeout", "noCard", "decrypt", "sw", "client", "server"}

\* mutant: a class of reader errors that DoIDTask does not know
ReaderErrorsUnknown == {"noCard", "removed", "client"}

\* What Reader_Execute may return.
ReaderErrors == {"noCard", "sw", "client"}

VARIABLES
    pc,             \* where the task is
    err,            \* the error being handled
    late,           \* has the total time of the task run out?
    singles,        \* single commands of this authentication so far
    resume,         \* the resume flag of ParamManager
    cmd04,          \* is m_cmd04Buf filled?
    hash,           \* is the AppKeyHash set?
    chan,           \* the channel with the server: "none", "half" or "full"
    dn,             \* m_dnBuf: the card whose DN it holds
    buf,            \* m_buf09, m_buf0A, m_buf0B: whose data each holds
    todo,           \* pieces of the multiple command not yet executed
    pieces,         \* whose data m_mulResponse holds
    authed,         \* the card whose answer to 04 goes to the server
    card,           \* the card at the reader
    selected        \* the card selected in the reader

flow == <<cmd04, hash, chan, dn, buf>>
cards == <<card, selected>>
vars == <<pc, err, late, singles, resume, flow, todo, pieces, authed, cards>>

Locations == {"idle", "build", "channel1", "channel2", "auth", "exchange",
              "report", "authError", "read", "mul", "readError", "check"}

NoCache == [p \in Pieces |-> NoCard]

Init ==
    /\ pc = "idle"
    /\ err = "client"
    /\ late = FALSE
    /\ singles = 0
    /\ resume \in BOOLEAN
    /\ cmd04 = FALSE
    /\ hash = FALSE
    /\ chan = "none"
    /\ dn = NoCard
    /\ buf = NoCache
    /\ todo = {}
    /\ pieces = {}
    /\ authed = NoCard
    /\ card \in Cards \cup {NoCard}
    /\ selected = NoCard

-----------------------------------------------------------------------------
\* The environment.

\* The card is taken away or another one is presented.
CardMoves ==
    /\ card' \in (Cards \cup {NoCard}) \ {card}
    /\ selected' = NoCard
    /\ UNCHANGED <<pc, err, late, singles, resume, flow, todo, pieces, authed>>

TimePasses ==
    /\ pc # "idle"
    /\ late' = TRUE
    /\ UNCHANGED <<pc, err, singles, resume, flow, todo, pieces, authed,
                   cards>>

-----------------------------------------------------------------------------
\* Between tasks.

\* mutant: the cached command 04 survives
PrepareKeepsCommand ==
    /\ pc = "idle"
    /\ resume' \in BOOLEAN
    /\ hash' = FALSE
    /\ UNCHANGED <<pc, err, late, singles, cmd04, chan, dn, buf, todo, pieces,
                   authed, cards>>

\* PrepareWork: the flag is what the reader says.
Prepare ==
    /\ pc = "idle"
    /\ resume' \in BOOLEAN
    /\ cmd04' = FALSE
    /\ hash' = FALSE
    /\ UNCHANGED <<pc, err, late, singles, chan, dn, buf, todo, pieces, authed,
                   cards>>

\* DeviceDisConnect, called by gfDisConnect when the process stops.
Disconnect ==
    /\ pc = "idle"
    /\ cmd04' = FALSE
    /\ hash' = FALSE
    /\ UNCHANGED <<pc, err, late, singles, resume, chan, dn, buf, todo, pieces,
                   authed, cards>>

\* DoIDTask: with a cached command 04 the task starts at the authentication.
Start ==
    /\ pc = "idle"
    /\ late' = FALSE
    /\ pc' = IF cmd04 THEN "auth" ELSE "build"
    /\ UNCHANGED <<err, singles, resume, flow, todo, pieces, authed, cards>>

\* The task ends with an error: FindCard tells the reader.
Fail == pc' = "idle" /\ selected' = NoCard /\ UNCHANGED card

-----------------------------------------------------------------------------
\* buildSafeChannel.

Build ==
    /\ pc = "build"
    /\ cmd04' = FALSE
    /\ \/ pc' = "channel1" /\ UNCHANGED cards
       \/ Fail                                  \* no connection
    /\ UNCHANGED <<err, late, singles, resume, hash, chan, dn, buf, todo,
                   pieces, authed>>

Channel1 ==
    /\ pc = "channel1"
    /\ chan' = "half"
    /\ \/ hash' = TRUE /\ pc' = "channel2" /\ UNCHANGED cards
       \/ Fail /\ UNCHANGED hash
    /\ UNCHANGED <<err, late, singles, resume, cmd04, dn, buf, todo, pieces,
                   authed>>

\* A new channel clears the caches, before the server has accepted it.
Channel2 ==
    /\ pc = "channel2"
    /\ buf' = NoCache
    /\ \/ cmd04' = TRUE /\ chan' = "full" /\ pc' = "auth" /\ UNCHANGED cards
       \/ Fail /\ UNCHANGED <<cmd04, chan>>
    /\ UNCHANGED <<err, late, singles, resume, hash, dn, todo, pieces, authed>>

-----------------------------------------------------------------------------
\* Authentication.

\* mutant: the DN of another card does not clear the caches
CachesAfterDNKept == buf

\* cleanCacheBuf when the DN of the selected card is not the one stored.
CachesAfterDN == IF dn \notin {NoCard, card} THEN NoCache ELSE buf

\* Execute_single of command 04, which selects the card.
Select ==
    /\ pc = "auth"
    /\ \/ /\ card # NoCard
          /\ selected' = card
          /\ authed' = card
          /\ dn' = IF resume THEN card ELSE dn
          /\ buf' = IF resume THEN CachesAfterDN ELSE buf
          /\ singles' = 0
          /\ pc' = "exchange"
          /\ UNCHANGED err
       \/ /\ err' \in ReaderErrors
          /\ pc' = "authError"
          /\ UNCHANGED <<singles, authed, dn, buf, selected>>
    /\ UNCHANGED <<late, resume, cmd04, hash, chan, todo, pieces, card>>

\* The server answers with a single command; if the reader cannot execute it
\* the error is what the next exchange sends.
Single ==
    /\ pc = "exchange"
    /\ singles < MaxSingles
    /\ singles' = singles + 1
    /\ \/ selected # NoCard /\ UNCHANGED pc
       \/ pc' = "report"
    /\ UNCHANGED <<err, late, resume, flow, todo, pieces, authed, cards>>

\* The server answers with the multiple command: the authentication is done.
Authenticated ==
    /\ pc = "exchange"
    /\ todo' = Pieces
    /\ pieces' = {}
    /\ pc' = "read"
    /\ UNCHANGED <<err, late, singles, resume, flow, authed, cards>>

\* cleanCacheBuf after a successful decryption
CachesAfterEnd == IF resume THEN NoCache ELSE buf

\* The server answers with the identity: the card's data has been decrypted.
Done ==
    /\ pc \in {"exchange", "mul"}
    /\ buf' = CachesAfterEnd
    /\ pc' = "idle"
    /\ UNCHANGED <<err, late, singles, resume, cmd04, hash, chan, dn, todo,
                   pieces, authed, cards>>

\* The exchange fails, or the server answers with an error, or it was told one.
ExchangeFails ==
    /\ pc \in {"exchange", "report", "mul"}
    /\ err' \in Errors
    /\ pc' = IF pc = "mul" THEN "readError" ELSE "authError"
    /\ UNCHANGED <<late, singles, resume, flow, todo, pieces, authed, cards>>

\* mutant: a lost packet leads to a new authentication whatever the time
AuthErrorNoDeadline ==
    /\ pc = "authError"
    /\ \/ err \in {"commTimeout", "noCard"} /\ pc' = "check"
          /\ UNCHANGED <<hash, cards>>
       \/ ~late /\ err = "decrypt" /\ hash' = FALSE /\ pc' = "build"
          /\ UNCHANGED cards
       \/ err \notin {"commTimeout", "noCard"} /\ (late \/ err # "decrypt")
          /\ Fail /\ UNCHANGED hash
    /\ UNCHANGED <<err, late, singles, resume, cmd04, chan, dn, buf, todo,
                   pieces, authed>>

AuthError ==
    /\ pc = "authError"
    /\ \/ ~late /\ err \in {"commTimeout", "noCard"} /\ pc' = "check"
          /\ UNCHANGED <<hash, cards>>
       \/ ~late /\ err = "decrypt" /\ hash' = FALSE /\ pc' = "build"
          /\ UNCHANGED cards
       \/ (late \/ err \in {"sw", "client", "server"}) /\ Fail
          /\ UNCHANGED hash
    /\ UNCHANGED <<err, late, singles, resume, cmd04, chan, dn, buf, todo,
                   pieces, authed>>

\* checkCard: FindCard, three times at most.
CheckCard ==
    /\ pc = "check"
    /\ \/ card # NoCard /\ pc' = "auth" /\ UNCHANGED cards
       \/ Fail
    /\ UNCHANGED <<err, late, singles, resume, flow, todo, pieces, authed>>

-----------------------------------------------------------------------------
\* ReadIDInfo.

\* IDReader_Execute_Mul: a cached piece is taken from its buffer.
FromCache(p) ==
    /\ resume
    /\ buf[p] # NoCard
    /\ pieces' = pieces \cup {buf[p]}
    /\ UNCHANGED buf

FromReader(p) ==
    /\ ~resume \/ buf[p] = NoCard
    /\ selected # NoCard
    /\ pieces' = pieces \cup {selected}
    /\ buf' = IF resume THEN [buf EXCEPT ![p] = selected] ELSE buf

\* One command of the multiple command, in the order the server chose; after
\* the last one the packet is ready.
ReadPiece ==
    /\ pc = "read"
    /\ \E p \in todo :
         /\ FromCache(p) \/ FromReader(p)
         /\ todo' = todo \ {p}
    /\ pc' = IF todo' = {} THEN "mul" ELSE "read"
    /\ UNCHANGED <<err, late, singles, resume, cmd04, hash, chan, dn, authed,
                   cards>>

\* The reader cannot execute a command: the server is told, and whatever comes
\* of that is not looked at.
ReadFails ==
    /\ pc = "read"
    /\ \E p \in todo : ~resume \/ buf[p] = NoCard
    /\ err' \in ReaderErrors
    /\ pc' = "readError"
    /\ UNCHANGED <<late, singles, resume, flow, todo, pieces, authed, cards>>

ReadError ==
    /\ pc = "readError"
    /\ \/ ~late /\ err \in {"commTimeout", "noCard"} /\ pc' = "check"
          /\ UNCHANGED cards
       \/ ~late /\ err \in {"sw", "decrypt"} /\ pc' = "build"
          /\ UNCHANGED cards
       \/ (late \/ err \in {"client", "server"}) /\ Fail
    /\ UNCHANGED <<err, late, singles, resume, flow, todo, pieces, authed>>

-----------------------------------------------------------------------------
Step ==
    \/ Build \/ Channel1 \/ Channel2 \/ Select \/ Single \/ Authenticated
    \/ Done \/ ExchangeFails \/ AuthError \/ CheckCard \/ ReadPiece
    \/ ReadFails \/ ReadError

Next == CardMoves \/ TimePasses \/ Prepare \/ Disconnect \/ Start \/ Step

Spec == Init /\ [][Next]_vars

\* The task is scheduled, the reader and the exchanges return (each has a
\* time-out) and the clock runs.  Tasks and card movements need not happen.
FairSpec == Spec /\ WF_vars(Step) /\ WF_vars(TimePasses)

-----------------------------------------------------------------------------
\* Properties.

Someone == Cards \cup {NoCard}

TypeOK ==
    /\ pc \in Locations
    /\ err \in Errors
    /\ late \in BOOLEAN
    /\ singles \in 0..MaxSingles
    /\ resume \in BOOLEAN
    /\ cmd04 \in BOOLEAN
    /\ hash \in BOOLEAN
    /\ chan \in {"none", "half", "full"}
    /\ dn \in Someone
    /\ buf \in [Pieces -> Someone]
    /\ todo \subseteq Pieces
    /\ pieces \subseteq Someone
    /\ authed \in Someone
    /\ card \in Someone
    /\ selected \in {NoCard, card}

\* The packet of pieces holds data of one card only, the one whose answer to
\* command 04 the server was given, however cards were exchanged and caches
\* kept before (m_buf09 to m_buf0B outlive errors, tasks and cards).
PiecesOfAuthenticatedCard == pc = "mul" => pieces = {authed}

InSession == pc \in {"auth", "exchange", "report", "authError", "read", "mul",
                     "readError", "check"}

\* Command 04 and all that follows run under the key of a channel both sides
\* have completed, although a task may start with the channel of an earlier
\* one and a build may fail half-way.
SessionOnCompleteChannel == InSession => chan = "full" /\ hash

\* A task ends, with an answer or an error, whatever cards and network do.
TaskEnds == pc # "idle" ~> pc = "idle"

TaskLimit == MaxSingles + 10

\* An upper bound of the steps a task has left once its time is up, by the
\* order in which it then goes through its locations.
StepsLeft ==
    CASE pc = "build" -> TaskLimit
      [] pc = "channel1" -> TaskLimit - 1
      [] pc \in {"channel2", "check"} -> TaskLimit - 2
      [] pc = "auth" -> TaskLimit - 3
      [] pc = "exchange" -> 6 + (MaxSingles - singles)
      [] pc = "read" -> 2 + Cardinality(todo)
      [] pc \in {"mul", "report"} -> 2
      [] pc \in {"authError", "readError"} -> 1
      [] OTHER -> 0

\* A task whose time is up never starts anything over, although its errors are
\* handled in two places and each may send it back to the card, the
\* authentication or the channel: every step uses up one that is left, and
\* neither the card nor the clock gives one back.
LateTaskRunsDown ==
    [][late /\ pc # "idle" =>
         /\ StepsLeft' <= StepsLeft
         /\ Step => StepsLeft' < StepsLeft]_vars

\* The guards of the actions of Step.
Ready ==
    \/ pc \in {"build", "channel1", "channel2", "auth", "exchange", "report",
               "mul", "check"}
    \/ /\ pc = "authError"
       /\ \/ ~late /\ err \in {"commTimeout", "noCard", "decrypt"}
          \/ late \/ err \in {"sw", "client", "server"}
    \/ /\ pc = "read"
       /\ \E p \in todo : \/ resume /\ buf[p] # NoCard
                         \/ ~resume \/ buf[p] = NoCard
    \/ /\ pc = "readError"
       /\ \/ ~late /\ err \in {"commTimeout", "noCard", "sw", "decrypt"}
          \/ late \/ err \in {"client", "server"}

\* An action that can be taken is enabled.  By the meaning of ENABLED this is
\* so in every state; TLC evaluates it, and the proofs have no other way to it.
StepRule ==
    /\ Ready => ENABLED <<Step>>_vars
    /\ pc # "idle" /\ ~late => ENABLED <<TimePasses>>_vars

\* A task is never stuck: every error of the reader, the network and the server
\* is one that some branch of DoIDTask handles, with any card or none; and its
\* time runs.
TaskCanGoOn ==
    pc # "idle" => /\ ENABLED <<Step>>_vars
                   /\ ~late => ENABLED <<TimePasses>>_vars

\* The state is well typed and the task not stuck.
StateOK == TypeOK /\ StepRule /\ TaskCanGoOn
=============================================================================
