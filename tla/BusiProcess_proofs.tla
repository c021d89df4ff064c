------------------------- MODULE BusiProcess_proofs -------------------------
(***************************************************************************)
(* Proofs about BusiProcess, for any number of messages and any            *)
(* high-water mark.                                                        *)
(*                                                                         *)
(* Between the moment a read request is taken and the moment its answer    *)
(* leaves, the process carries facts in its globals (send_buf, refnum) and *)
(* in the status it last asked to be written, which the invariants alone   *)
(* do not mention; the named parts below state them, location by location. *)
(***************************************************************************)
EXTENDS BusiProcess, TLAPS

\* Reading a card goes on only for a read request, and the identity data is
\* encrypted only for an ONLINE one.
CodeAtLocation ==
    /\ InProgress => received >= 1
    /\ pc \in {"search", "read", "encrypt"} => Code \in Known
    /\ pc = "encrypt" => Code = "ONLINE"

\* Once a read request has reached the answer, the buffer is its own.
PacketIsFresh ==
    pc \in {"answer", "blocked"} /\ Code \in Known =>
        packet.kind = "none" \/ packet.for = received

\* The stored reference number is that of the current read while encrypting.
ReferenceIsFresh ==
    /\ pc = "encrypt" => refnum = received
    /\ packet.kind = "ident" => packet.ref = packet.for

\* The status asked for is "reading" until the read has a result.
StatusWhileReading ==
    pc \in {"search", "read", "encrypt"} => statusAsked = READSTAT_1

\* The request of every answer has been received, and is not the one that is
\* being handled.
SentBeforeCurrent ==
    \A i \in DOMAIN sent :
        /\ 1 <= sent[i].req /\ sent[i].req <= received
        /\ InProgress => sent[i].req < received

-----------------------------------------------------------------------------
\* What appending an element does to a sequence.
LEMMA AppendFacts ==
    ASSUME NEW S, NEW s \in Seq(S), NEW e \in S
    PROVE  /\ Append(s, e) \in Seq(S)
           /\ Len(Append(s, e)) = Len(s) + 1
           /\ DOMAIN Append(s, e) = 1..(Len(s) + 1)
           /\ \A i \in 1..Len(s) : Append(s, e)[i] = s[i]
           /\ Append(s, e)[Len(s) + 1] = e
    OBVIOUS

\* What the elements of a sequence are.
LEMMA ElementFacts ==
    ASSUME NEW S, NEW s \in Seq(S)
    PROVE  /\ Len(s) \in Nat
           /\ DOMAIN s = 1..Len(s)
           /\ \A i \in DOMAIN s : s[i] \in S
    OBVIOUS

\* The initial states are well typed: TypeOK holds before the first step.
LEMMA TypeInit == Init => TypeOK
  BY BusiAssumption
     DEF Init, TypeOK, Locations, NoPacket, Packets, PacketKinds,
         READSTAT_0, READSTAT_1, READSTAT_2, READSTAT_3

\* Every step of the process and of its environment keeps the types.
LEMMA TypeStep == TypeOK /\ [Next]_vars => TypeOK'
  <1> SUFFICES ASSUME TypeOK, [Next]_vars PROVE TypeOK'
      OBVIOUS
  <1> USE BusiAssumption DEF TypeOK, Locations, Packets, PacketKinds
  <1>1. CASE ClientSend
    <2>1. PICK c \in Codes : reqs' = Append(reqs, c)
          BY <1>1 DEF ClientSend
    <2>2. reqs' \in Seq(Codes) /\ Len(reqs') = Len(reqs) + 1
          BY <2>1, AppendFacts
    <2>3. QED BY <1>1, <2>2 DEF ClientSend
  <1>2. CASE GopanboxReceive
        BY <1>2 DEF GopanboxReceive
  <1>3. CASE Signal
        BY <1>3 DEF Signal
  <1>4. CASE Boot
        BY <1>4 DEF Boot, BUSI_STAT_FREE
  <1>5. CASE Exit
        BY <1>5 DEF Exit
  <1>6. CASE SetIdle
        BY <1>6 DEF SetIdle, READSTAT_1
  <1>7. CASE EnterPoll
        BY <1>7 DEF EnterPoll
  <1>8. CASE PollTimeout
        BY <1>8 DEF PollTimeout, ShortWait
  <1>9. CASE Receive
    <2>1. /\ pc' \in Locations
          /\ busi_stat' \in 0..3
          /\ statusAsked' \in 0..3
          BY <1>9 DEF Receive, READSTAT_1, BUSI_STAT_FIND
    <2>2. received' \in 0..Len(reqs)
          BY <1>9 DEF Receive
    <2>3. QED BY <1>9, <2>1, <2>2 DEF Receive
  <1>10. CASE FindCard
    <2>1. NoPacket \in Packets /\ ErrorPacket \in Packets
          BY DEF NoPacket, ErrorPacket
    <2>2. pc' \in Locations /\ busi_stat' \in 0..3 /\ packet' \in Packets
          BY <1>10, <2>1 DEF FindCard, BUSI_STAT_FREE, BUSI_STAT_READ
    <2>3. QED BY <1>10, <2>2 DEF FindCard
  <1>11. CASE ReadOffline
        BY <1>11 DEF ReadOffline, OfflineAnswers, NoPacket, ErrorPacket, DnPacket,
                     READSTAT_2, READSTAT_3, BUSI_STAT_FREE
  <1>12. CASE ReadOnline
    <2> DEFINE Records == [req : Nat, kind : LogKinds, ref : Nat]
    <2>1. ErrorPacket \in Packets
          BY DEF ErrorPacket
    <2>2. /\ LogRecord("error", refnum) \in Records
          /\ LogRecord("timechain", received) \in Records
          BY DEF LogRecord, LogKinds
    <2>3. logs \subseteq Records
          OBVIOUS
    <2> HIDE DEF Records
    <2>4. CASE pc' = "answer"
      <3>1. logs' = logs \cup {LogRecord("error", refnum)}
            BY <1>12, <2>4 DEF ReadOnline
      <3>2. logs' \subseteq Records
            BY <2>2, <2>3, <3>1
      <3>3. QED BY <1>12, <2>1, <2>4, <3>2
                DEF Records, ReadOnline, READSTAT_3, BUSI_STAT_FREE
    <2>5. CASE pc' = "encrypt"
      <3>1. logs' = logs \cup {LogRecord("timechain", received)}
            BY <1>12, <2>5 DEF ReadOnline
      <3>2. logs' \subseteq Records
            BY <2>2, <2>3, <3>1
      <3>3. QED BY <1>12, <2>5, <3>2 DEF Records, ReadOnline
    <2>6. QED BY <1>12, <2>4, <2>5 DEF ReadOnline
  <1>13. CASE Encrypt
        BY <1>13 DEF Encrypt, ErrorPacket, IdentPacket, READSTAT_2,
                     BUSI_STAT_FREE
  <1>14. CASE NothingToSend
        BY <1>14 DEF NothingToSend, ShortWait
  <1>15. CASE Send
    <2> DEFINE e == [req |-> received, pkt |-> packet]
    <2>1. e \in [req : Nat, pkt : Packets]
          OBVIOUS
    <2>2. /\ sent' \in Seq([req : Nat, pkt : Packets])
          /\ Len(sent') = Len(sent) + 1
          BY <1>15, <2>1, AppendFacts DEF Send
    <2>3. QED BY <1>15, <2>2 DEF Send
  <1>16. CASE SendBlocks
        BY <1>16 DEF SendBlocks
  <1>17. CASE UNCHANGED vars
        BY <1>17 DEF vars
  <1>18. QED
        BY <1>1, <1>2, <1>3, <1>4, <1>5, <1>6, <1>7, <1>8, <1>9, <1>10,
           <1>11, <1>12, <1>13, <1>14, <1>15, <1>16, <1>17 DEF Next, Step

\* Type correctness of the business process, whatever the bounds.
THEOREM TypeCorrect == Spec => []TypeOK
  BY TypeInit, TypeStep, PTL DEF Spec

-----------------------------------------------------------------------------
\* The parts that speak of the location, the code being handled, the buffer,
\* the stored reference number and the status asked to be written.
LocalInv ==
    /\ CodeAtLocation
    /\ PacketIsFresh
    /\ ReferenceIsFresh
    /\ StatusWhileReading
    /\ StatusAgreesWithAnswer

\* Every step keeps what is true of the request in progress.
LEMMA LocalStep == TypeOK /\ LocalInv /\ [Next]_vars => LocalInv'
  <1> SUFFICES ASSUME TypeOK, LocalInv, [Next]_vars PROVE LocalInv'
      OBVIOUS
  <1> USE DEF LocalInv, CodeAtLocation, PacketIsFresh, ReferenceIsFresh,
              StatusWhileReading, StatusAgreesWithAnswer, InProgress, Code
  <1> received \in 0..Len(reqs) /\ received \in Nat /\ Len(reqs) \in Nat
      BY DEF TypeOK
  <1>1. CASE ClientSend
    <2>1. PICK c \in Codes : reqs' = Append(reqs, c)
          BY <1>1 DEF ClientSend
    <2>2. \A i \in 1..Len(reqs) : reqs'[i] = reqs[i]
          BY <2>1, AppendFacts DEF TypeOK
    <2>3. received >= 1 => reqs'[received] = reqs[received]
          BY <2>2
    <2>4. QED BY <1>1, <2>3 DEF ClientSend
  <1>2. CASE GopanboxReceive
        BY <1>2 DEF GopanboxReceive
  <1>3. CASE Signal
        BY <1>3 DEF Signal
  <1>4. CASE Boot
        BY <1>4 DEF Boot
  <1>5. CASE Exit
        BY <1>5 DEF Exit
  <1>6. CASE SetIdle
        BY <1>6 DEF SetIdle
  <1>7. CASE EnterPoll
        BY <1>7 DEF EnterPoll
  <1>8. CASE PollTimeout
        BY <1>8 DEF PollTimeout, ShortWait
  <1>9. CASE Receive
    <2>1. CASE reqs[received'] = "EMPTY" /\ pc' = "top"
          BY <1>9, <2>1 DEF Receive
    <2>2. CASE reqs[received'] = "OTHER" /\ pc' = "answer"
          BY <1>9, <2>2 DEF Receive, Known
    <2>3. CASE reqs[received'] \in Known /\ pc' = "search"
               /\ statusAsked' = READSTAT_1
          BY <1>9, <2>3 DEF Receive
    <2>4. QED BY <1>9, <2>1, <2>2, <2>3 DEF Receive
  <1>10. CASE FindCard
        BY <1>10 DEF FindCard, NoPacket, ErrorPacket, READSTAT_1, READSTAT_2,
                     READSTAT_3
  <1>11. CASE ReadOffline
    <2>1. CASE statusAsked' = READSTAT_3 /\ packet' = ErrorPacket
          BY <1>11, <2>1 DEF ReadOffline, OfflineAnswers, ErrorPacket, READSTAT_2,
                             READSTAT_3
    <2>2. CASE statusAsked' = READSTAT_2 /\ packet' \in {NoPacket, DnPacket}
          BY <1>11, <2>2 DEF ReadOffline, OfflineAnswers, NoPacket, DnPacket, READSTAT_2,
                             READSTAT_3
    <2>3. QED BY <1>11, <2>1, <2>2 DEF ReadOffline, OfflineAnswers
  <1>12. CASE ReadOnline
    <2>1. CASE pc' = "answer"
          BY <1>12, <2>1 DEF ReadOnline, ErrorPacket, READSTAT_2, READSTAT_3
    <2>2. CASE pc' = "encrypt"
          BY <1>12, <2>2 DEF ReadOnline, Known
    <2>3. QED BY <1>12, <2>1, <2>2 DEF ReadOnline
  <1>13. CASE Encrypt
    <2>1. CASE packet' = ErrorPacket /\ UNCHANGED statusAsked
          BY <1>13, <2>1 DEF Encrypt, ErrorPacket, READSTAT_1, READSTAT_2,
                             READSTAT_3
    <2>2. CASE packet' = IdentPacket /\ statusAsked' = READSTAT_2
          BY <1>13, <2>2 DEF Encrypt, IdentPacket, READSTAT_2, READSTAT_3
    <2>3. QED BY <1>13, <2>1, <2>2 DEF Encrypt
  <1>14. CASE NothingToSend
        BY <1>14 DEF NothingToSend, ShortWait
  <1>15. CASE Send
        BY <1>15 DEF Send
  <1>16. CASE SendBlocks
        BY <1>16 DEF SendBlocks
  <1>17. CASE UNCHANGED vars
        BY <1>17 DEF vars
  <1>18. QED
        BY <1>1, <1>2, <1>3, <1>4, <1>5, <1>6, <1>7, <1>8, <1>9, <1>10,
           <1>11, <1>12, <1>13, <1>14, <1>15, <1>16, <1>17 DEF Next, Step

\* The parts that speak of the answers and log records already sent.
HistoryInv ==
    /\ SentBeforeCurrent
    /\ AnswerIsForItsRequest
    /\ ReferenceIsOfThisRead
    /\ AnswersInOrder

\* A step that leaves the histories alone and does not go back in received.
LEMMA HistoryUnchanged ==
    ASSUME TypeOK, HistoryInv,
           UNCHANGED <<sent, logs, reqs, received>>,
           InProgress' => InProgress
    PROVE  HistoryInv'
  BY DEF HistoryInv, SentBeforeCurrent, AnswerIsForItsRequest,
         ReferenceIsOfThisRead, AnswersInOrder

\* The fields of the answers in the history.
LEMMA SentFields ==
    ASSUME TypeOK, NEW i \in DOMAIN sent
    PROVE  sent[i].req \in Nat
  <1> DEFINE S == [req : Nat, pkt : Packets]
  <1>1. sent \in Seq(S)
        BY DEF TypeOK
  <1> HIDE DEF S
  <1>2. sent[i] \in S
        BY <1>1, ElementFacts
  <1>3. QED BY <1>2 DEF S

\* Every step keeps what is true of the answers and the log records.
LEMMA HistoryStep ==
    TypeOK /\ LocalInv /\ HistoryInv /\ [Next]_vars => HistoryInv'
  <1> SUFFICES ASSUME TypeOK, LocalInv, HistoryInv, [Next]_vars
               PROVE  HistoryInv'
      OBVIOUS
  <1> received \in Nat /\ Len(reqs) \in Nat /\ received <= Len(reqs)
      BY DEF TypeOK
  <1>1. CASE ClientSend
    <2> USE DEF HistoryInv, SentBeforeCurrent, AnswerIsForItsRequest,
                ReferenceIsOfThisRead, AnswersInOrder
    <2>1. PICK c \in Codes : reqs' = Append(reqs, c)
          BY <1>1 DEF ClientSend
    <2>2. \A i \in 1..Len(reqs) : reqs'[i] = reqs[i]
          BY <2>1, AppendFacts DEF TypeOK
    <2>3. UNCHANGED <<sent, logs, received, pc>>
          BY <1>1 DEF ClientSend
    <2>4. ASSUME NEW i \in DOMAIN sent, reqs'[sent[i].req] \in Known
          PROVE  sent[i].pkt.for = sent[i].req
      <3>1. sent[i].req \in Nat
            BY SentFields
      <3>2. sent[i].req \in 1..Len(reqs)
            BY <3>1
      <3>3. QED BY <2>2, <2>4, <3>2
    <2>5. AnswerIsForItsRequest'
          BY <2>3, <2>4
    <2>6. QED BY <2>3, <2>5 DEF InProgress
  <1>2. CASE Receive
    <2> USE DEF HistoryInv, SentBeforeCurrent, AnswerIsForItsRequest,
                ReferenceIsOfThisRead, AnswersInOrder
    <2>1. received' = received + 1 /\ UNCHANGED <<sent, logs, reqs>>
          BY <1>2 DEF Receive
    <2>2. \A i \in DOMAIN sent : sent[i].req \in Nat /\ sent[i].req <= received
          BY SentFields
    <2>3. QED BY <2>1, <2>2
  <1>3. CASE ReadOnline
    <2>1. UNCHANGED <<sent, reqs, received>> /\ InProgress
          BY <1>3 DEF ReadOnline, InProgress
    <2>2. \A r \in logs' : r \in logs \/ r = LogRecord("error", refnum)
                                     \/ r = LogRecord("timechain", received)
          BY <1>3 DEF ReadOnline
    <2>3. QED BY <2>1, <2>2 DEF HistoryInv, SentBeforeCurrent,
                     AnswerIsForItsRequest, ReferenceIsOfThisRead,
                     AnswersInOrder, LogRecord
  <1>4. CASE Send
    <2> DEFINE e == [req |-> received, pkt |-> packet]
    <2>1. /\ sent' = Append(sent, e) /\ pc' = "top" /\ InProgress
          /\ UNCHANGED <<reqs, received, logs, packet>>
          /\ pc \in {"answer", "blocked"} /\ packet.kind # "none"
          BY <1>4 DEF Send, InProgress
    <2>2. e \in [req : Nat, pkt : Packets]
          BY DEF TypeOK
    <2>3. sent \in Seq([req : Nat, pkt : Packets])
          BY DEF TypeOK
    <2>4. /\ Len(sent) \in Nat /\ DOMAIN sent = 1..Len(sent)
          /\ DOMAIN sent' = 1..(Len(sent) + 1)
          /\ \A i \in 1..Len(sent) : sent'[i] = sent[i]
          /\ sent'[Len(sent) + 1] = e
          BY <2>1, <2>2, <2>3, AppendFacts
    <2>5. \A i \in 1..Len(sent) : /\ sent[i].req \in Nat
                                  /\ 1 <= sent[i].req
                                  /\ sent[i].req < received
          BY <2>1, <2>4, SentFields DEF HistoryInv, SentBeforeCurrent
    <2>6. SentBeforeCurrent'
      <3>1. received >= 1
            BY <2>1 DEF LocalInv, CodeAtLocation
      <3>2. QED BY <2>1, <2>4, <2>5, <3>1 DEF SentBeforeCurrent, InProgress
    <2>7. AnswerIsForItsRequest'
      <3>1. reqs[received] \in Known => packet.for = received
            BY <2>1 DEF LocalInv, PacketIsFresh, Code
      <3>2. QED BY <2>1, <2>4, <3>1 DEF HistoryInv, AnswerIsForItsRequest
    <2>8. ReferenceIsOfThisRead'
      <3>1. packet.kind = "ident" => packet.ref = packet.for
            BY DEF LocalInv, ReferenceIsFresh
      <3>2. QED BY <2>1, <2>4, <3>1 DEF HistoryInv, ReferenceIsOfThisRead
    <2>9. AnswersInOrder'
      <3>1. SUFFICES ASSUME NEW i \in 1..(Len(sent) + 1),
                            NEW j \in 1..(Len(sent) + 1), i < j
                     PROVE  sent'[i].req < sent'[j].req
            BY <2>4 DEF AnswersInOrder
      <3>2. CASE j = Len(sent) + 1
            BY <2>4, <2>5, <3>1, <3>2
      <3>3. CASE j # Len(sent) + 1
            BY <2>4, <3>1, <3>3 DEF HistoryInv, AnswersInOrder
      <3>4. QED BY <3>2, <3>3
    <2>10. QED BY <2>6, <2>7, <2>8, <2>9 DEF HistoryInv
  <1>5. CASE \/ GopanboxReceive \/ Signal \/ Boot \/ Exit \/ SetIdle
             \/ EnterPoll \/ PollTimeout \/ UNCHANGED vars
    <2>1. UNCHANGED <<sent, logs, reqs, received>> /\ (InProgress' => InProgress)
          BY <1>5 DEF GopanboxReceive, Signal, Boot, Exit, SetIdle, EnterPoll,
                      PollTimeout, vars, InProgress
    <2>2. QED BY <2>1, HistoryUnchanged
  <1>6. CASE \/ FindCard \/ ReadOffline \/ Encrypt \/ NothingToSend
             \/ SendBlocks
    <2>1. UNCHANGED <<sent, logs, reqs, received>> /\ InProgress
          BY <1>6 DEF FindCard, ReadOffline, Encrypt, NothingToSend,
                      SendBlocks, InProgress
    <2>2. QED BY <2>1, HistoryUnchanged
  <1>7. QED
        BY <1>1, <1>2, <1>3, <1>4, <1>5, <1>6 DEF Next, Step

-----------------------------------------------------------------------------
\* The inductive invariant.
IInv == TypeOK /\ LocalInv /\ HistoryInv

\* The inductive invariant holds initially.
LEMMA InvInit == Init => IInv
  BY TypeInit
     DEF Init, IInv, LocalInv, HistoryInv, CodeAtLocation, PacketIsFresh,
         ReferenceIsFresh, StatusWhileReading, StatusAgreesWithAnswer,
         SentBeforeCurrent, AnswerIsForItsRequest, ReferenceIsOfThisRead,
         AnswersInOrder, InProgress, NoPacket

\* Every step keeps the inductive invariant.
LEMMA InvStep == IInv /\ [Next]_vars => IInv'
  BY TypeStep, LocalStep, HistoryStep DEF IInv

\* The inductive invariant holds in every reachable state.
THEOREM InvHolds == Spec => []IInv
  BY InvInit, InvStep, PTL DEF Spec

\* No read request is answered with what another one left in the buffer.
THEOREM AnswersCorrect == Spec => []AnswerIsForItsRequest
  <1>1. IInv => AnswerIsForItsRequest
        BY DEF IInv, HistoryInv
  <1>2. QED BY <1>1, InvHolds, PTL

\* No identity answer and no time chain carries another read's reference.
THEOREM ReferencesCorrect == Spec => []ReferenceIsOfThisRead
  <1>1. IInv => ReferenceIsOfThisRead
        BY DEF IInv, HistoryInv
  <1>2. QED BY <1>1, InvHolds, PTL

\* Answers leave in the order of the requests, one for each at most.
THEOREM OrderCorrect == Spec => []AnswersInOrder
  <1>1. IInv => AnswersInOrder
        BY DEF IInv, HistoryInv
  <1>2. QED BY <1>1, InvHolds, PTL

\* The status the process last asked to be written does not contradict the
\* answer that is about to leave.
THEOREM StatusCorrect == Spec => []StatusAgreesWithAnswer
  <1>1. IInv => StatusAgreesWithAnswer
        BY DEF IInv, LocalInv
  <1>2. QED BY <1>1, InvHolds, PTL

-----------------------------------------------------------------------------
(***************************************************************************)
(* Refinement.  The process implements ReadService when every message is a *)
(* read request or empty.  An answer then always has the kind its code     *)
(* allows.                                                                 *)
(***************************************************************************)
NoUnknownCode == Codes \subseteq Known \cup {"EMPTY"}

KindFitsCode ==
    pc \in {"answer", "blocked"} =>
        /\ Code \in Known
        /\ packet.kind \in {"none"} \cup Service!Kinds(Code)

\* KindFitsCode holds initially.
LEMMA KindInit == Init => KindFitsCode
  BY DEF Init, KindFitsCode

\* Every step keeps KindFitsCode: the kind of the packet in the buffer fits
\* the code of the request being answered.
LEMMA KindStep ==
    ASSUME NoUnknownCode, IInv, KindFitsCode, [Next]_vars
    PROVE  KindFitsCode'
  <1> USE DEF KindFitsCode, Code
  <1> TypeOK /\ LocalInv /\ received \in Nat /\ received <= Len(reqs)
      /\ Len(reqs) \in Nat
      BY DEF IInv, TypeOK
  <1>1. CASE ClientSend
    <2>1. PICK c \in Codes : reqs' = Append(reqs, c)
          BY <1>1 DEF ClientSend
    <2>2. \A i \in 1..Len(reqs) : reqs'[i] = reqs[i]
          BY <2>1, AppendFacts DEF TypeOK
    <2>3. pc \in {"answer", "blocked"} => received >= 1
          BY DEF LocalInv, CodeAtLocation, InProgress
    <2>4. pc \in {"answer", "blocked"} => reqs'[received] = reqs[received]
          BY <2>2, <2>3
    <2>5. QED BY <1>1, <2>4 DEF ClientSend
  <1>2. CASE Receive
    <2>1. reqs[received + 1] \in Known \cup {"EMPTY"}
      <3>1. received + 1 \in DOMAIN reqs
            BY <1>2, ElementFacts DEF Receive, TypeOK
      <3>2. reqs[received + 1] \in Codes
            BY <3>1, ElementFacts DEF TypeOK
      <3>3. QED BY <3>2 DEF NoUnknownCode
    <2>2. pc' \in {"top", "search"}
          BY <1>2, <2>1 DEF Receive, Known
    <2>3. QED BY <2>2
  <1>3. CASE FindCard
    <2>1. Code \in Known /\ Code' = Code
          BY <1>3 DEF FindCard, LocalInv, CodeAtLocation
    <2>2. pc' \in {"answer", "blocked"} => packet'.kind \in {"none", "error"}
          BY <1>3 DEF FindCard, NoPacket, ErrorPacket
    <2>3. QED BY <2>1, <2>2 DEF Service!Kinds, Known
  <1>4. CASE ReadOffline
    <2>1. Code = "OFFLINE" /\ Code' = Code
          BY <1>4 DEF ReadOffline, OfflineAnswers
    <2>2. packet'.kind \in {"none", "dn", "error"}
          BY <1>4 DEF ReadOffline, OfflineAnswers, NoPacket, ErrorPacket, DnPacket
    <2>3. QED BY <2>1, <2>2 DEF Service!Kinds, Known
  <1>5. CASE ReadOnline
    <2>1. Code = "ONLINE" /\ Code' = Code
          BY <1>5 DEF ReadOnline
    <2>2. pc' \in {"answer", "blocked"} => packet'.kind = "error"
          BY <1>5 DEF ReadOnline, ErrorPacket
    <2>3. QED BY <2>1, <2>2 DEF Service!Kinds, Known
  <1>6. CASE Encrypt
    <2>1. Code = "ONLINE" /\ Code' = Code
          BY <1>6 DEF Encrypt, LocalInv, CodeAtLocation
    <2>2. packet'.kind \in {"ident", "error"}
          BY <1>6 DEF Encrypt, IdentPacket, ErrorPacket
    <2>3. QED BY <2>1, <2>2 DEF Service!Kinds, Known
  <1>7. CASE SendBlocks
    <2>1. UNCHANGED <<reqs, received, packet>> /\ pc = "answer"
          BY <1>7 DEF SendBlocks
    <2>2. QED BY <2>1 DEF Service!Kinds
  <1>8. CASE \/ Signal \/ GopanboxReceive \/ UNCHANGED vars
    <2>1. UNCHANGED <<reqs, received, packet>> /\ (pc' = pc \/ pc' \in {"top", "returned"})
          BY <1>8 DEF Signal, GopanboxReceive, vars
    <2>2. QED BY <2>1 DEF Service!Kinds
  <1>9. CASE \/ Boot \/ Exit \/ SetIdle \/ EnterPoll \/ PollTimeout
             \/ NothingToSend \/ Send
    <2>1. pc' \notin {"answer", "blocked"}
          BY <1>9 DEF Boot, Exit, SetIdle, EnterPoll, PollTimeout,
                      NothingToSend, Send
    <2>2. QED BY <2>1
  <1>10. QED
        BY <1>1, <1>2, <1>3, <1>4, <1>5, <1>6, <1>7, <1>8, <1>9
           DEF Next, Step

\* A step that only moves inside the handling of one message, or outside any.
LEMMA StutterStep ==
    ASSUME UNCHANGED <<reqs, received, sent>>, InProgress' = InProgress
    PROVE  UNCHANGED Service!vars
  BY DEF Service!vars, Handled, Answers

\* A message that is finished without an answer.
LEMMA SkipStep ==
    ASSUME TypeOK, UNCHANGED <<reqs, sent>>,
           Handled < Len(reqs), Handled' = Handled + 1
    PROVE  Service!Skip
  BY DEF Service!Skip, Answers

\* An answer added to the concrete history is added to the abstract one.
LEMMA AnswersAppend ==
    ASSUME TypeOK, NEW e \in [req : Nat, pkt : Packets],
           sent' = Append(sent, e)
    PROVE  Answers' = Append(Answers, [req |-> e.pkt.for, kind |-> e.pkt.kind])
  <1> DEFINE S == [req : Nat, pkt : Packets]
             T == [req : Nat, kind : PacketKinds]
             x == [req |-> e.pkt.for, kind |-> e.pkt.kind]
             f(a) == [req |-> a.pkt.for, kind |-> a.pkt.kind]
  <1>1. /\ sent \in Seq(S)
        /\ x \in T
        /\ \A a \in S : f(a) \in T
        BY DEF TypeOK, Packets
  <1> HIDE DEF S, T
  <1>2. /\ Len(sent) \in Nat /\ DOMAIN sent = 1..Len(sent)
        /\ \A i \in DOMAIN sent : sent[i] \in S
        BY <1>1, ElementFacts
  <1>3. /\ DOMAIN sent' = 1..(Len(sent) + 1)
        /\ \A i \in 1..Len(sent) : sent'[i] = sent[i]
        /\ sent'[Len(sent) + 1] = e
        BY <1>1, AppendFacts DEF S
  <1>4. Answers = [i \in 1..Len(sent) |-> f(sent[i])]
        BY <1>2 DEF Answers
  <1>5. Answers \in Seq(T) /\ Len(Answers) = Len(sent)
        BY <1>1, <1>2, <1>4
  <1>6. Answers' = [i \in 1..(Len(sent) + 1) |-> f(sent'[i])]
        BY <1>3 DEF Answers
  <1>7. /\ Append(Answers, x) \in Seq(T)
        /\ DOMAIN Append(Answers, x) = 1..(Len(sent) + 1)
        /\ \A i \in 1..Len(sent) : Append(Answers, x)[i] = Answers[i]
        /\ Append(Answers, x)[Len(sent) + 1] = x
        BY <1>1, <1>5, AppendFacts
  <1>8. ASSUME NEW i \in 1..(Len(sent) + 1)
        PROVE  Answers'[i] = Append(Answers, x)[i]
    <2>1. CASE i = Len(sent) + 1
          BY <1>3, <1>6, <1>7, <2>1
    <2>2. CASE i # Len(sent) + 1
      <3>1. i \in 1..Len(sent)
            BY <1>2, <2>2
      <3>2. QED BY <1>3, <1>4, <1>6, <1>7, <3>1
    <2>3. QED BY <2>1, <2>2
  <1>9. QED BY <1>6, <1>7, <1>8

\* Every step is a step of the service or leaves it unchanged.
LEMMA RefinementStep ==
    ASSUME NoUnknownCode, IInv, KindFitsCode, [Next]_vars
    PROVE  [Service!Next]_(Service!vars)
  <1> TypeOK /\ LocalInv /\ received \in Nat /\ received <= Len(reqs)
      /\ Len(reqs) \in Nat /\ (InProgress => received >= 1)
      BY DEF IInv, TypeOK, LocalInv, CodeAtLocation
  <1> USE DEF Service!Next
  <1>1. CASE ClientSend
    <2>1. PICK c \in Codes : reqs' = Append(reqs, c)
          BY <1>1 DEF ClientSend
    <2>2. UNCHANGED <<pc, received, sent>>
          BY <1>1 DEF ClientSend
    <2>3. Service!Ask
          BY <2>1, <2>2 DEF Service!Ask, Handled, Answers, InProgress
    <2>4. QED BY <2>3
  <1>2. CASE Receive
    <2>1. UNCHANGED <<reqs, sent>> /\ received' = received + 1
          /\ pc = "poll" /\ received < Len(reqs)
          BY <1>2 DEF Receive
    <2>2. pc' \in {"top", "search", "answer"}
          BY <1>2 DEF Receive
    <2>3. CASE pc' = "top"
      <3>1. Handled = received /\ Handled' = received + 1
            BY <2>1, <2>3 DEF Handled, InProgress
      <3>2. QED BY <2>1, <3>1, SkipStep
    <2>4. CASE pc' \in {"search", "answer"}
      <3>1. UNCHANGED Service!vars
            BY <2>1, <2>4 DEF Service!vars, Handled, Answers, InProgress
      <3>2. QED BY <3>1
    <2>5. QED BY <2>2, <2>3, <2>4
  <1>3. CASE NothingToSend
    <2>1. UNCHANGED <<reqs, sent, received>> /\ pc = "answer" /\ pc' = "top"
          BY <1>3 DEF NothingToSend, ShortWait
    <2>2. Handled = received - 1 /\ Handled' = received /\ received >= 1
          BY <2>1 DEF Handled, InProgress
    <2>3. QED BY <2>1, <2>2, SkipStep
  <1>4. CASE Send
    <2> DEFINE e == [req |-> received, pkt |-> packet]
    <2>1. /\ sent' = Append(sent, e) /\ UNCHANGED <<reqs, received>>
          /\ pc \in {"answer", "blocked"} /\ pc' = "top"
          /\ packet.kind # "none"
          BY <1>4 DEF Send
    <2>2. e \in [req : Nat, pkt : Packets]
          BY DEF TypeOK
    <2>3. /\ packet.for = received
          /\ packet.kind \in Service!Kinds(reqs[received])
          BY <2>1 DEF KindFitsCode, LocalInv, PacketIsFresh, Code
    <2>4. Answers' = Append(Answers, [req |-> received, kind |-> packet.kind])
          BY <2>1, <2>2, <2>3, AnswersAppend
    <2>5. Handled = received - 1 /\ Handled' = received /\ received >= 1
          BY <2>1 DEF Handled, InProgress
    <2>6. Service!Answer
          BY <2>1, <2>3, <2>4, <2>5 DEF Service!Answer
    <2>7. QED BY <2>6
  <1>5. CASE Signal
    <2>1. UNCHANGED <<reqs, received, sent>>
          BY <1>5 DEF Signal
    <2>2. CASE pc = "blocked"
      <3>1. Handled = received - 1 /\ Handled' = received /\ received >= 1
            BY <1>5, <2>2 DEF Signal, Handled, InProgress
      <3>2. QED BY <2>1, <3>1, SkipStep
    <2>3. CASE pc # "blocked"
      <3>1. InProgress' = InProgress
            BY <1>5, <2>3 DEF Signal, InProgress
      <3>2. QED BY <2>1, <3>1, StutterStep
    <2>4. QED BY <2>2, <2>3
  <1>6. CASE \/ GopanboxReceive \/ Boot \/ Exit \/ SetIdle \/ EnterPoll
             \/ PollTimeout \/ FindCard \/ ReadOffline \/ ReadOnline
             \/ Encrypt \/ SendBlocks \/ UNCHANGED vars
    <2>1. UNCHANGED <<reqs, received, sent>> /\ InProgress' = InProgress
          BY <1>6 DEF GopanboxReceive, Boot, Exit, SetIdle, EnterPoll,
                      PollTimeout, FindCard, ReadOffline, ReadOnline,
                      Encrypt, SendBlocks, vars, InProgress
    <2>2. QED BY <2>1, StutterStep
  <1>7. QED
        BY <1>1, <1>2, <1>3, <1>4, <1>5, <1>6 DEF Next, Step

\* The process implements the service it promises, if every message is a read
\* request or empty.
THEOREM Refinement == ASSUME NoUnknownCode PROVE Spec => ServiceSpec
  <1>1. Init => Service!Init
        BY DEF Init, Service!Init, Handled, Answers, InProgress
  <1>2. IInv /\ KindFitsCode /\ [Next]_vars => [Service!Next]_(Service!vars)
        BY RefinementStep
  <1>3. IInv /\ KindFitsCode /\ [Next]_vars => KindFitsCode'
        BY KindStep
  <1>4. Spec => []KindFitsCode
        BY <1>3, KindInit, InvHolds, PTL DEF Spec
  <1>5. QED
        BY <1>1, <1>2, <1>4, InvHolds, PTL DEF Spec, ServiceSpec, Service!Spec

-----------------------------------------------------------------------------
\* OnlineNeverDropped.  Without a search that finds no card, an ONLINE request
\* always comes to "answer" with something in the buffer.

OnlineHasAnswer ==
    "nocard" \notin SearchResults /\ pc \in {"answer", "blocked"}
        /\ Code = "ONLINE" => packet.kind # "none"

\* An ONLINE request reaches the answer with an error or an identity, and until
\* it leaves the buffer is not touched.
LEMMA OnlineHasAnswerStep ==
    ASSUME IInv, OnlineHasAnswer, [Next]_vars
    PROVE  OnlineHasAnswer'
  <1> USE DEF OnlineHasAnswer, Code
  <1> TypeOK /\ LocalInv /\ received \in Nat /\ received <= Len(reqs)
      /\ Len(reqs) \in Nat
      BY DEF IInv, TypeOK
  <1>1. CASE ClientSend
    <2>1. PICK c \in Codes : reqs' = Append(reqs, c)
          BY <1>1 DEF ClientSend
    <2>2. \A i \in 1..Len(reqs) : reqs'[i] = reqs[i]
          BY <2>1, AppendFacts DEF TypeOK
    <2>3. pc \in {"answer", "blocked"} => received \in 1..Len(reqs)
          BY DEF LocalInv, CodeAtLocation, InProgress
    <2>4. QED BY <1>1, <2>2, <2>3 DEF ClientSend
  <1>2. CASE Receive
        BY <1>2 DEF Receive, Known
  <1>3. CASE FindCard
        BY <1>3 DEF FindCard, ErrorPacket
  <1>4. CASE ReadOffline
        BY <1>4 DEF ReadOffline
  <1>5. CASE ReadOnline
        BY <1>5 DEF ReadOnline, ErrorPacket
  <1>6. CASE Encrypt
        BY <1>6 DEF Encrypt, ErrorPacket, IdentPacket
  <1>7. CASE \/ GopanboxReceive \/ Signal \/ SendBlocks \/ UNCHANGED vars
        BY <1>7 DEF GopanboxReceive, Signal, SendBlocks, vars
  <1>8. CASE \/ Boot \/ Exit \/ SetIdle \/ EnterPoll \/ PollTimeout
             \/ NothingToSend \/ Send
        BY <1>8 DEF Boot, Exit, SetIdle, EnterPoll, PollTimeout,
                    NothingToSend, Send
  <1>9. QED
        BY <1>1, <1>2, <1>3, <1>4, <1>5, <1>6, <1>7, <1>8 DEF Next, Step

\* A step that finishes no message.
LEMMA OnlineKept ==
    ASSUME OnlineNeverDropped, UNCHANGED <<reqs, sent>>, Handled' = Handled,
           exit_flag = 1 => exit_flag' = 1
    PROVE  OnlineNeverDropped'
  BY DEF OnlineNeverDropped

\* A message is finished with its answer, or by a stop request, or it was no
\* ONLINE request.
LEMMA OnlineStep ==
    ASSUME IInv, OnlineHasAnswer, OnlineNeverDropped, [Next]_vars
    PROVE  OnlineNeverDropped'
  <1> TypeOK /\ LocalInv /\ received \in Nat /\ received <= Len(reqs)
      /\ Len(reqs) \in Nat /\ (InProgress => received >= 1)
      BY DEF IInv, TypeOK, LocalInv, CodeAtLocation
  <1>1. CASE ClientSend
    <2>1. PICK c \in Codes : reqs' = Append(reqs, c)
          BY <1>1 DEF ClientSend
    <2>2. \A i \in 1..Len(reqs) : reqs'[i] = reqs[i]
          BY <2>1, AppendFacts DEF TypeOK
    <2>3. UNCHANGED <<pc, received, sent, exit_flag>>
          BY <1>1 DEF ClientSend
    <2>4. Handled' = Handled /\ Handled \in Int /\ Handled <= Len(reqs)
          BY <2>3 DEF Handled, InProgress
    <2>5. QED BY <2>2, <2>3, <2>4 DEF OnlineNeverDropped
  <1>2. CASE Receive
    <2>1. /\ received' = received + 1
          /\ UNCHANGED <<reqs, sent, exit_flag>>
          /\ pc = "poll"
          BY <1>2 DEF Receive
    <2>2. CASE pc' = "top"
      <3>1. reqs[received + 1] = "EMPTY"
            BY <1>2, <2>2 DEF Receive
      <3>2. Handled = received /\ Handled' = received + 1
            BY <2>1, <2>2 DEF Handled, InProgress
      <3>3. QED BY <2>1, <3>1, <3>2 DEF OnlineNeverDropped
    <2>3. CASE pc' # "top"
      <3>1. pc' \in {"search", "answer"}
            BY <1>2, <2>3 DEF Receive
      <3>2. Handled' = Handled
            BY <2>1, <3>1 DEF Handled, InProgress
      <3>3. QED BY <2>1, <3>2, OnlineKept
    <2>4. QED BY <2>2, <2>3
  <1>3. CASE NothingToSend
    <2>1. /\ UNCHANGED <<reqs, sent, exit_flag, received>>
          /\ pc = "answer" /\ pc' = "top" /\ packet.kind = "none"
          BY <1>3 DEF NothingToSend
    <2>2. Handled = received - 1 /\ Handled' = received
          BY <2>1 DEF Handled, InProgress
    <2>3. "nocard" \notin SearchResults => reqs[received] # "ONLINE"
          BY <2>1 DEF OnlineHasAnswer, Code
    <2>4. QED BY <2>1, <2>2, <2>3 DEF OnlineNeverDropped
  <1>4. CASE Send
    <2> DEFINE e == [req |-> received, pkt |-> packet]
    <2>1. /\ sent' = Append(sent, e)
          /\ UNCHANGED <<reqs, exit_flag, received>>
          /\ pc \in {"answer", "blocked"} /\ pc' = "top"
          BY <1>4 DEF Send
    <2>2. e \in [req : Nat, pkt : Packets]
          BY DEF TypeOK
    <2>3. /\ Len(sent) \in Nat /\ DOMAIN sent = 1..Len(sent)
          /\ DOMAIN sent' = 1..(Len(sent) + 1)
          /\ \A i \in 1..Len(sent) : sent'[i] = sent[i]
          /\ sent'[Len(sent) + 1] = e
          BY <2>1, <2>2, AppendFacts DEF TypeOK
    <2>4. Handled = received - 1 /\ Handled' = received
          BY <2>1 DEF Handled, InProgress
    <2>5. \E i \in DOMAIN sent' : sent'[i].req = received
          BY <2>3
    <2>6. \A n : (\E i \in DOMAIN sent : sent[i].req = n)
                   => \E i \in DOMAIN sent' : sent'[i].req = n
          BY <2>3
    <2>7. QED BY <2>1, <2>4, <2>5, <2>6 DEF OnlineNeverDropped
  <1>5. CASE Signal
        BY <1>5 DEF Signal, OnlineNeverDropped
  <1>6. CASE \/ GopanboxReceive \/ Boot \/ Exit \/ SetIdle \/ EnterPoll
             \/ PollTimeout \/ FindCard \/ ReadOffline \/ ReadOnline
             \/ Encrypt \/ SendBlocks \/ UNCHANGED vars
    <2>1. /\ UNCHANGED <<reqs, received, sent, exit_flag>>
          /\ InProgress' = InProgress
          BY <1>6 DEF GopanboxReceive, Boot, Exit, SetIdle, EnterPoll,
                      PollTimeout, FindCard, ReadOffline, ReadOnline,
                      Encrypt, SendBlocks, vars, InProgress
    <2>2. QED BY <2>1, OnlineKept DEF Handled
  <1>7. QED
        BY <1>1, <1>2, <1>3, <1>4, <1>5, <1>6 DEF Next, Step

\* An ONLINE request is only left without an answer by a stop request, or by a
\* search that finds no card.
THEOREM OnlineHolds == Spec => []OnlineNeverDropped
  <1>1. Init => OnlineHasAnswer /\ OnlineNeverDropped
        BY DEF Init, OnlineHasAnswer, OnlineNeverDropped, Handled, InProgress
  <1>2. IInv /\ OnlineHasAnswer /\ OnlineNeverDropped /\ [Next]_vars =>
            OnlineHasAnswer' /\ OnlineNeverDropped'
        BY OnlineHasAnswerStep, OnlineStep
  <1>3. QED BY <1>1, <1>2, InvHolds, PTL DEF Spec

-----------------------------------------------------------------------------
\* StateOK.  Wherever the process does not wait for somebody else, the guard of
\* some action holds; in particular a known code has its case in the switch.

\* The process waits inside zmq_send only with an answer.
BlockedHasPacket == pc = "blocked" => packet.kind # "none"

\* Nothing is sent for an empty buffer, so nothing waits with one.
THEOREM BlockedHasPacketHolds == Spec => []BlockedHasPacket
  <1>1. Init => BlockedHasPacket
        BY DEF Init, BlockedHasPacket
  <1>2. BlockedHasPacket /\ [Next]_vars => BlockedHasPacket'
    <2> SUFFICES ASSUME BlockedHasPacket, [Next]_vars PROVE BlockedHasPacket'
        OBVIOUS
    <2> USE DEF BlockedHasPacket
    <2>1. CASE ClientSend \/ GopanboxReceive \/ Signal \/ UNCHANGED vars
          BY <2>1 DEF ClientSend, GopanboxReceive, Signal, vars
    <2>2. CASE Boot \/ Exit \/ SetIdle \/ EnterPoll \/ PollTimeout \/ Receive
          BY <2>2 DEF Boot, Exit, SetIdle, EnterPoll, PollTimeout, Receive
    <2>3. CASE \/ FindCard \/ ReadOffline \/ ReadOnline \/ Encrypt
               \/ NothingToSend \/ Send \/ SendBlocks
          BY <2>3 DEF FindCard, ReadOffline, ReadOnline, Encrypt,
                      NothingToSend, Send, SendBlocks
    <2>4. QED BY <2>1, <2>2, <2>3 DEF Next, Step
  <1>3. QED BY <1>1, <1>2, PTL DEF Spec

\* The process is never stuck: it stops only where it waits for a message or
\* for room on the answer socket, or has ended.
THEOREM StateOKHolds == Spec /\ []StepRule => []StateOK
  <1>1. IInv /\ BlockedHasPacket /\ StepRule => StateOK
    <2> SUFFICES ASSUME IInv, BlockedHasPacket,
                        pc \notin {"failed", "terminating", "returned"},
                        ~(pc = "poll" /\ received = Len(reqs) /\ timeout = -1),
                        ~(pc = "blocked" /\ ~HasRoom)
                 PROVE  Ready
        BY DEF IInv, StateOK, ProcessCanGoOn, StepRule
    <2>1. /\ pc \in Locations /\ exit_flag \in {0, 1}
          /\ timeout \in {-1, 1000}
          /\ received \in 0..Len(reqs) /\ Len(reqs) \in Nat
          BY DEF IInv, TypeOK
    <2>2. CASE pc = "poll"
      <3>1. CASE received = Len(reqs)
            BY <2>1, <2>2, <3>1 DEF Ready, ShortWait
      <3>2. CASE received < Len(reqs)
        <4>1. reqs[received + 1] \in Codes
              BY <2>1, <3>2, ElementFacts DEF IInv, TypeOK
        <4>2. reqs[received + 1] \in Known \cup {"OTHER", "EMPTY"}
              BY <4>1, BusiAssumption
        <4>3. QED BY <2>2, <3>2, <4>2 DEF Ready
      <3>3. QED BY <2>1, <3>1, <3>2
    <2>3. CASE pc = "search"
          BY <2>3, BusiAssumption DEF Ready
    <2>4. CASE pc = "read"
          BY <2>4 DEF IInv, LocalInv, CodeAtLocation, Known, Ready
    <2>5. CASE pc \in {"answer", "blocked"}
          BY <2>5 DEF BlockedHasPacket, Ready
    <2>6. CASE pc \in {"boot", "top", "entering", "encrypt"}
          BY <2>1, <2>6 DEF Ready
    <2>7. QED BY <2>1, <2>2, <2>3, <2>4, <2>5, <2>6 DEF Locations
  <1>2. QED BY <1>1, InvHolds, BlockedHasPacketHolds, PTL

-----------------------------------------------------------------------------
\* StopNoticedAtNextMessage.  With the flag set the process does not get past
\* the top of the loop, and before that it waits in two places only: for a
\* message, which is there, and for room, which gopanbox makes.

\* The answer socket never holds more than its mark.
WithinMark == Len(sent) - drained <= SendHWM

\* Answers are put on the socket only while there is room for one more.
THEOREM MarkHolds == Spec => []WithinMark
  <1> USE BusiAssumption DEF WithinMark
  <1>1. Init => WithinMark
        BY DEF Init
  <1>2. IInv /\ WithinMark /\ [Next]_vars => WithinMark'
    <2> SUFFICES ASSUME IInv, WithinMark, [Next]_vars PROVE WithinMark'
        OBVIOUS
    <2>0. drained \in Nat /\ Len(sent) \in Nat
          BY DEF IInv, TypeOK
    <2>1. CASE Send
      <3>1. Len(sent') = Len(sent) + 1
        <4>1. [req |-> received, pkt |-> packet] \in [req : Nat, pkt : Packets]
              BY DEF IInv, TypeOK
        <4>2. QED BY <2>1, <4>1, AppendFacts DEF Send, IInv, TypeOK
      <3>2. QED BY <2>0, <2>1, <3>1 DEF Send, HasRoom
    <2>2. CASE GopanboxReceive
          BY <2>0, <2>2 DEF GopanboxReceive
    <2>3. CASE \/ ClientSend \/ Signal \/ Boot \/ Exit \/ SetIdle
               \/ EnterPoll \/ PollTimeout \/ Receive \/ FindCard
               \/ ReadOffline \/ ReadOnline \/ Encrypt \/ NothingToSend
               \/ SendBlocks \/ UNCHANGED vars
          BY <2>3 DEF ClientSend, Signal, Boot, Exit, SetIdle, EnterPoll,
                      PollTimeout, Receive, FindCard, ReadOffline, ReadOnline,
                      Encrypt, NothingToSend, SendBlocks, vars
    <2>4. QED BY <2>1, <2>2, <2>3 DEF Next, Step
  <1>3. QED BY <1>1, <1>2, InvHolds, PTL DEF Spec

\* Where a step takes a process that has been told to stop.
LEMMA ToldStep ==
    ASSUME exit_flag = 1, Step
    PROVE  /\ exit_flag' = 1
           /\ pc = "boot" => pc' \in {"failed", "top"}
           /\ pc = "entering" => pc' = "poll" /\ UNCHANGED <<reqs, received>>
           /\ pc = "poll" /\ received # Len(reqs) =>
                pc' \in {"top", "search", "answer"}
           /\ pc = "search" => pc' \in {"read", "answer"}
           /\ pc = "read" => pc' \in {"encrypt", "answer"}
           /\ pc = "encrypt" => pc' = "answer"
           /\ pc = "answer" => pc' \in {"top", "blocked"}
           /\ pc = "blocked" => pc' = "top"
           /\ pc = "top" => pc' \in {"terminating", "returned"}
           /\ pc \notin {"terminating", "returned", "failed"}
  <1>1. CASE Boot \/ Exit \/ SetIdle \/ EnterPoll \/ PollTimeout
        BY <1>1 DEF Boot, Exit, SetIdle, EnterPoll, PollTimeout, OpenAtTerm
  <1>2. CASE Receive
        BY <1>2 DEF Receive
  <1>3. CASE FindCard \/ ReadOffline \/ ReadOnline \/ Encrypt
        BY <1>3 DEF FindCard, ReadOffline, ReadOnline, Encrypt
  <1>4. CASE NothingToSend \/ Send \/ SendBlocks
        BY <1>4 DEF NothingToSend, Send, SendBlocks
  <1>5. QED BY <1>1, <1>2, <1>3, <1>4 DEF Step

\* What the clients, gopanbox and further signals do to it.
LEMMA ToldOthers ==
    ASSUME IInv, exit_flag = 1, [Next]_vars, ~Step
    PROVE  /\ exit_flag' = 1
           /\ \/ pc' = pc
              \/ pc \in {"poll", "blocked"} /\ pc' = "top"
              \/ pc = "terminating" /\ pc' = "returned"
           /\ received # Len(reqs) => received' # Len(reqs')
           /\ HasRoom => HasRoom'
           /\ GopanboxReceive => /\ Len(sent') - drained' < Len(sent) - drained
                                 /\ pc' = pc
  <1>0. /\ received \in Nat /\ received <= Len(reqs) /\ Len(reqs) \in Nat
        /\ drained \in Nat /\ Len(sent) \in Nat
        BY DEF IInv, TypeOK
  <1> USE BusiAssumption DEF HasRoom
  <1>1. CASE ClientSend
    <2>1. PICK c \in Codes : reqs' = Append(reqs, c)
          BY <1>1 DEF ClientSend
    <2>2. Len(reqs') = Len(reqs) + 1
          BY <2>1, AppendFacts DEF IInv, TypeOK
    <2>3. UNCHANGED <<pc, exit_flag, received, sent, drained>>
          BY <1>1 DEF ClientSend
    <2>4. ~GopanboxReceive
          BY <1>0, <2>3 DEF GopanboxReceive
    <2>5. QED BY <1>0, <2>2, <2>3, <2>4
  <1>2. CASE GopanboxReceive
        BY <1>0, <1>2 DEF GopanboxReceive
  <1>3. CASE Signal
    <2>1. UNCHANGED <<received, reqs, sent, drained>> /\ exit_flag' = 1
          BY <1>3 DEF Signal
    <2>2. \/ pc' = pc
          \/ pc \in {"poll", "blocked"} /\ pc' = "top"
          \/ pc = "terminating" /\ pc' = "returned"
          BY <1>3 DEF Signal
    <2>3. ~GopanboxReceive
          BY <1>0, <2>1 DEF GopanboxReceive
    <2>4. QED BY <2>1, <2>2, <2>3
  <1>4. CASE UNCHANGED vars
    <2>1. UNCHANGED <<pc, exit_flag, received, reqs, sent, drained>>
          BY <1>4 DEF vars
    <2>2. ~GopanboxReceive
          BY <1>0, <2>1 DEF GopanboxReceive
    <2>3. QED BY <2>1, <2>2
  <1>5. QED BY <1>1, <1>2, <1>3, <1>4 DEF Next

\* A stop request is noticed at the latest when the next message arrives, when
\* the process runs on and gopanbox receives.
THEOREM StopNoticedHolds ==
    FairSpec /\ []StepRule => StopNoticedAtNextMessage
  <1> DEFINE Told == exit_flag = 1
             Waiting == received # Len(reqs)
             Boots == pc = "boot"
             Top == pc = "top"
             Enters == pc = "entering"
             Polls == pc = "poll"
             Searches == pc = "search"
             Reads == pc = "read"
             Encrypts == pc = "encrypt"
             Answering == pc = "answer"
             Blocked == pc = "blocked"
             Room == HasRoom
             Left == pc \in {"terminating", "returned", "failed"}
  <1>1. IInv => \/ Boots \/ Top \/ Enters \/ Polls \/ Searches \/ Reads
                \/ Encrypts \/ Answering \/ Blocked \/ Left
        BY DEF IInv, TypeOK, Locations
  <1>2. IInv /\ [Next]_vars /\ Told =>
           /\ Told'
           /\ Boots => Boots' \/ Left' \/ Top'
           /\ Enters /\ Waiting => Waiting' /\ (Enters' \/ Polls')
           /\ Polls /\ Waiting =>
                (Polls' /\ Waiting') \/ Top' \/ Searches' \/ Answering'
           /\ Searches => Searches' \/ Reads' \/ Answering'
           /\ Reads => Reads' \/ Encrypts' \/ Answering'
           /\ Encrypts => Encrypts' \/ Answering'
           /\ Answering => Answering' \/ Blocked' \/ Top'
           /\ Blocked => Blocked' \/ Top'
           /\ Blocked /\ Blocked' /\ Room => Room'
           /\ Top => Top' \/ Left'
        BY ToldStep, ToldOthers
  <1>3. IInv /\ <<Step>>_vars /\ Told =>
           /\ Boots => ~Boots'
           /\ Enters => ~Enters'
           /\ Polls /\ Waiting => ~Polls'
           /\ Searches => ~Searches'
           /\ Reads => ~Reads'
           /\ Encrypts => ~Encrypts'
           /\ Answering => ~Answering'
           /\ Blocked => ~Blocked'
           /\ Top => ~Top'
        BY ToldStep
  <1>4. IInv /\ WithinMark /\ <<GopanboxReceive>>_vars /\ Told =>
           (Blocked => Room' \/ ~Blocked')
    <2> SUFFICES ASSUME IInv, WithinMark, GopanboxReceive PROVE HasRoom'
        OBVIOUS
    <2>1. drained \in Nat /\ Len(sent) \in Nat
          BY DEF IInv, TypeOK
    <2>2. QED BY <2>1, BusiAssumption DEF WithinMark, GopanboxReceive, HasRoom
  <1>5. IInv /\ StateOK =>
           /\ Boots \/ Top \/ Enters \/ (Polls /\ Waiting) \/ Searches
              \/ Reads \/ Encrypts \/ Answering \/ (Blocked /\ Room)
                => ENABLED <<Step>>_vars
           /\ ~Room => ENABLED <<GopanboxReceive>>_vars
    <2> SUFFICES ASSUME IInv, StateOK
                 PROVE  /\ ~Left /\ ~(Polls /\ ~Waiting) /\ ~(Blocked /\ ~Room)
                             => ENABLED <<Step>>_vars
                        /\ ~Room => ENABLED <<GopanboxReceive>>_vars
        OBVIOUS
    <2>1. ~HasRoom => drained < Len(sent)
      <3>1. drained \in Nat /\ Len(sent) \in Nat
            BY DEF IInv, TypeOK
      <3>2. QED BY <3>1, BusiAssumption DEF HasRoom
    <2>2. QED BY <2>1 DEF StateOK, ProcessCanGoOn
  <1>6. /\ IInv => ((exit_flag = 1 /\ received < Len(reqs)) => Told /\ Waiting)
        /\ pc \in {"terminating", "returned", "failed"} <=> Left
        BY DEF IInv, TypeOK
  <1> HIDE DEF Told, Waiting, Boots, Top, Enters, Polls, Searches, Reads,
               Encrypts, Answering, Blocked, Room, Left
  <1>7. QED BY <1>1, <1>2, <1>3, <1>4, <1>5, <1>6, InvHolds, MarkHolds,
               StateOKHolds, PTL
               DEF FairSpec, Spec, StopNoticedAtNextMessage
-----------------------------------------------------------------------------
\* The next message.  EveryMessageHandled follows from NextMessageHandled by an
\* induction over the messages that are still to be dealt with.

\* The loop is left for a stop request only.
StopsWhenTold == pc \in {"terminating", "returned"} => exit_flag = 1

\* The process serves until it is told to stop, whatever its requests do.
THEOREM StopsWhenToldHolds == Spec => []StopsWhenTold
  <1>1. Init => StopsWhenTold
        BY DEF Init, StopsWhenTold
  <1>2. StopsWhenTold /\ [Next]_vars => StopsWhenTold'
    <2> SUFFICES ASSUME StopsWhenTold, [Next]_vars PROVE StopsWhenTold'
        OBVIOUS
    <2> USE DEF StopsWhenTold
    <2>1. CASE ClientSend \/ GopanboxReceive \/ Signal \/ UNCHANGED vars
          BY <2>1 DEF ClientSend, GopanboxReceive, Signal, vars
    <2>2. CASE Boot \/ Exit \/ SetIdle \/ EnterPoll \/ PollTimeout \/ Receive
          BY <2>2 DEF Boot, Exit, SetIdle, EnterPoll, PollTimeout, Receive
    <2>3. CASE \/ FindCard \/ ReadOffline \/ ReadOnline \/ Encrypt
               \/ NothingToSend \/ Send \/ SendBlocks
          BY <2>3 DEF FindCard, ReadOffline, ReadOnline, Encrypt,
                      NothingToSend, Send, SendBlocks
    <2>4. QED BY <2>1, <2>2, <2>3 DEF Next, Step
  <1>3. QED BY <1>1, <1>2, PTL DEF Spec

\* Where a step takes a process that has not been told to stop, while a message
\* is dealt with or waits.
LEMMA ServingStep ==
    ASSUME exit_flag = 0, InProgress \/ received # Len(reqs), Step
    PROVE  /\ UNCHANGED reqs
           /\ pc = "poll" => received' = received + 1
           /\ pc # "poll" => received' = received
           /\ pc = "boot" => pc' \in {"failed", "top"}
           /\ pc = "top" => pc' = "entering"
           /\ pc = "entering" => pc' = "poll"
           /\ pc = "poll" => pc' \in {"top", "search", "answer"}
           /\ pc = "search" => pc' \in {"read", "answer"}
           /\ pc = "read" => pc' \in {"encrypt", "answer"}
           /\ pc = "encrypt" => pc' = "answer"
           /\ pc = "answer" => pc' \in {"top", "blocked"}
           /\ pc = "blocked" => pc' = "top"
  <1>1. CASE Boot \/ Exit \/ SetIdle \/ EnterPoll \/ PollTimeout
        BY <1>1 DEF Boot, Exit, SetIdle, EnterPoll, PollTimeout, InProgress
  <1>2. CASE Receive
        BY <1>2 DEF Receive
  <1>3. CASE FindCard \/ ReadOffline \/ ReadOnline \/ Encrypt
        BY <1>3 DEF FindCard, ReadOffline, ReadOnline, Encrypt
  <1>4. CASE NothingToSend \/ Send \/ SendBlocks
        BY <1>4 DEF NothingToSend, Send, SendBlocks
  <1>5. QED BY <1>1, <1>2, <1>3, <1>4 DEF Step

\* The others leave such a process where it is, or tell it to stop.
LEMMA ServingOthers ==
    ASSUME IInv, exit_flag = 0, [Next]_vars, ~Step
    PROVE  \/ exit_flag' = 1
           \/ /\ UNCHANGED <<pc, received>>
              /\ Len(reqs') >= Len(reqs)
              /\ HasRoom => HasRoom'
  <1>0. /\ Len(reqs) \in Nat /\ drained \in Nat /\ Len(sent) \in Nat
        BY DEF IInv, TypeOK
  <1>1. CASE ClientSend
    <2>1. PICK c \in Codes : reqs' = Append(reqs, c)
          BY <1>1 DEF ClientSend
    <2>2. Len(reqs') = Len(reqs) + 1
          BY <2>1, AppendFacts DEF IInv, TypeOK
    <2>3. UNCHANGED <<pc, received, sent, drained>>
          BY <1>1 DEF ClientSend
    <2>4. QED BY <1>0, <2>2, <2>3 DEF HasRoom
  <1>2. CASE GopanboxReceive
    <2>1. UNCHANGED <<pc, received, reqs>>
          BY <1>2 DEF GopanboxReceive
    <2>2. HasRoom => HasRoom'
          BY <1>0, <1>2, BusiAssumption DEF GopanboxReceive, HasRoom
    <2>3. QED BY <1>0, <2>1, <2>2
  <1>3. CASE Signal
        BY <1>3 DEF Signal
  <1>4. CASE UNCHANGED vars
        BY <1>0, <1>4 DEF vars, HasRoom
  <1>5. QED BY <1>1, <1>2, <1>3, <1>4 DEF Next

\* Exactly k messages have been dealt with and there is another one.
Behind(k) == Handled = k /\ k < Len(reqs)

\* More than k have been dealt with, or the process does not serve any more.
Ended == exit_flag = 1 \/ pc = "failed"
Passed(k) == Handled > k

\* What Behind says of the next message: it is in progress or waits.
LEMMA BehindFacts ==
    ASSUME IInv, NEW k \in Nat, Behind(k)
    PROVE  /\ received \in Nat /\ Len(reqs) \in Nat
           /\ received = IF InProgress THEN k + 1 ELSE k
           /\ InProgress \/ received # Len(reqs)
  BY DEF Behind, Handled, IInv, TypeOK, LocalInv, CodeAtLocation

\* A message that is the next one after k others is dealt with, unless the
\* process failed to start or is told to stop: neither a search without a card,
\* nor a failing read, nor a full answer socket keeps the process from it.
THEOREM NextMessageHandled ==
    ASSUME NEW k \in Nat
    PROVE  FairSpec /\ []StepRule =>
             [](Behind(k) => <>(Ended \/ Passed(k)))
  <1> DEFINE Waits == Behind(k)
             Gone == Handled > k \/ exit_flag = 1 \/ pc = "failed"
             Boots == pc = "boot"
             Top == pc = "top"
             Enters == pc = "entering"
             Polls == pc = "poll"
             Searches == pc = "search"
             Reads == pc = "read"
             Encrypts == pc = "encrypt"
             Answering == pc = "answer"
             Blocked == pc = "blocked"
             Room == HasRoom
  <1>1. IInv /\ StopsWhenTold /\ ~Gone =>
          \/ Boots \/ Top \/ Enters \/ Polls \/ Searches \/ Reads
          \/ Encrypts \/ Answering \/ Blocked
        BY DEF IInv, TypeOK, Locations, StopsWhenTold
  <1>2. IInv /\ Waits /\ ~Gone /\ Step =>
          \/ Gone'
          \/ /\ Waits'
             /\ Boots => Top'
             /\ Top => Enters'
             /\ Enters => Polls'
             /\ Polls => Searches' \/ Answering'
             /\ Searches => Reads' \/ Answering'
             /\ Reads => Encrypts' \/ Answering'
             /\ Encrypts => Answering'
             /\ Answering => Blocked'
             /\ ~Blocked
    <2> SUFFICES ASSUME IInv, Waits, ~Gone, Step, ~Gone'
                 PROVE  /\ Waits'
                        /\ Boots => Top'
                        /\ Top => Enters'
                        /\ Enters => Polls'
                        /\ Polls => Searches' \/ Answering'
                        /\ Searches => Reads' \/ Answering'
                        /\ Reads => Encrypts' \/ Answering'
                        /\ Encrypts => Answering'
                        /\ Answering => Blocked'
                        /\ ~Blocked
        OBVIOUS
    <2>1. exit_flag = 0 /\ pc' # "failed" /\ ~(Handled' > k)
          BY DEF IInv, TypeOK
    <2>2. /\ received \in Nat /\ received = IF InProgress THEN k + 1 ELSE k
          /\ InProgress \/ received # Len(reqs)
          BY BehindFacts
    <2>3. /\ received' = IF pc = "poll" THEN received + 1 ELSE received
          /\ reqs' = reqs
          BY <2>1, <2>2, ServingStep
    <2>4. pc \in {"poll", "answer", "blocked"} => pc' # "top"
          BY <2>1, <2>2, <2>3 DEF Handled, InProgress
    <2>5. /\ pc = "boot" => pc' = "top"
          /\ pc = "top" => pc' = "entering"
          /\ pc = "entering" => pc' = "poll"
          /\ pc = "poll" => pc' \in {"search", "answer"}
          /\ pc = "search" => pc' \in {"read", "answer"}
          /\ pc = "read" => pc' \in {"encrypt", "answer"}
          /\ pc = "encrypt" => pc' = "answer"
          /\ pc = "answer" => pc' = "blocked"
          /\ pc # "blocked"
          BY <2>1, <2>2, <2>4, ServingStep
    <2>6. pc \in Locations \ {"failed", "terminating", "returned"}
          BY <2>1, <2>5 DEF IInv, TypeOK, Locations, Step, Boot, Exit, SetIdle,
             EnterPoll, PollTimeout, Receive, FindCard, ReadOffline,
             ReadOnline, Encrypt, NothingToSend, Send, SendBlocks
    <2>7. Handled' = k
          BY <2>2, <2>3, <2>5, <2>6 DEF Handled, InProgress, Locations
    <2>8. Waits'
          BY <2>3, <2>7 DEF Behind
    <2>9. QED BY <2>5, <2>8
  <1>3. IInv /\ [Next]_vars /\ Waits /\ ~Gone /\ ~Step =>
          \/ Gone'
          \/ /\ Waits'
             /\ Boots => Boots'
             /\ Top => Top'
             /\ Enters => Enters'
             /\ Polls => Polls'
             /\ Searches => Searches'
             /\ Reads => Reads'
             /\ Encrypts => Encrypts'
             /\ Answering => Answering'
             /\ Blocked => Blocked'
             /\ Room => Room'
    <2> SUFFICES ASSUME IInv, [Next]_vars, Waits, ~Gone, ~Step, ~Gone'
                 PROVE  UNCHANGED pc /\ Waits' /\ (HasRoom => HasRoom')
        OBVIOUS
    <2>1. exit_flag = 0 /\ exit_flag' # 1
          BY DEF IInv, TypeOK
    <2>2. /\ UNCHANGED <<pc, received>>
          /\ Len(reqs') >= Len(reqs)
          /\ HasRoom => HasRoom'
          BY <2>1, ServingOthers
    <2>3. Handled' = Handled
          BY <2>2 DEF Handled, InProgress
    <2>4. Len(reqs') \in Nat
          BY TypeStep DEF IInv, TypeOK
    <2>5. Waits'
          BY <2>2, <2>3, <2>4, BehindFacts DEF Behind
    <2>6. QED BY <2>2, <2>5
  <1>4. IInv /\ WithinMark /\ <<GopanboxReceive>>_vars => Room'
    <2> SUFFICES ASSUME IInv, WithinMark, GopanboxReceive PROVE HasRoom'
        OBVIOUS
    <2>1. drained \in Nat /\ Len(sent) \in Nat
          BY DEF IInv, TypeOK
    <2>2. QED BY <2>1, BusiAssumption DEF WithinMark, GopanboxReceive, HasRoom
  <1>5. IInv /\ StopsWhenTold /\ StateOK /\ Waits /\ ~Gone =>
          /\ Boots \/ Top \/ Enters \/ Polls \/ Searches \/ Reads \/ Encrypts
             \/ Answering \/ (Blocked /\ Room) => ENABLED <<Step>>_vars
          /\ ~Room => ENABLED <<GopanboxReceive>>_vars
    <2> SUFFICES ASSUME IInv, StopsWhenTold, StateOK, Waits, ~Gone
                 PROVE  /\ ~(Blocked /\ ~Room) => ENABLED <<Step>>_vars
                        /\ ~Room => ENABLED <<GopanboxReceive>>_vars
        OBVIOUS
    <2>1. ~HasRoom => drained < Len(sent)
      <3>1. drained \in Nat /\ Len(sent) \in Nat
            BY DEF IInv, TypeOK
      <3>2. QED BY <3>1, BusiAssumption DEF HasRoom
    <2>2. pc = "poll" => received # Len(reqs)
          BY BehindFacts DEF InProgress
    <2>3. pc \notin {"terminating", "returned", "failed"}
          BY DEF StopsWhenTold
    <2>4. QED BY <2>1, <2>2, <2>3 DEF StateOK, ProcessCanGoOn
  <1>6. /\ Behind(k) <=> Waits
        /\ Ended \/ Passed(k) <=> Gone
        BY DEF Passed, Ended
  <1> HIDE DEF Waits, Gone, Boots, Top, Enters, Polls, Searches, Reads,
               Encrypts, Answering, Blocked, Room
  <1>7. QED BY <1>1, <1>2, <1>3, <1>4, <1>5, <1>6, InvHolds, MarkHolds,
               StopsWhenToldHolds, StateOKHolds, PTL DEF FairSpec, Spec
-----------------------------------------------------------------------------
\* EveryMessageHandled.  When m messages are dealt with and there is one more,
\* it is the next; so all are, by induction over their number.

Arrived(m) == Len(reqs) >= m
DealtWith(m) == Handled >= m \/ Ended

\* The first m messages are dealt with.
DealtWithAll(m) == [](Arrived(m) => <>DealtWith(m))

\* Induction over the natural numbers, for DealtWithAll.  It holds of every
\* formula; the provers have no rule for it when the formula is a temporal one.
Induction ==
    DealtWithAll(0) /\ (\A m \in Nat : DealtWithAll(m) => DealtWithAll(m + 1))
      => \A m \in Nat : DealtWithAll(m)

\* Messages do not go away.
LEMMA ArrivedStays ==
    ASSUME IInv, NEW m \in Nat, Arrived(m), [Next]_vars
    PROVE  Arrived(m)'
  <1>1. Len(reqs) \in Nat
        BY DEF IInv, TypeOK
  <1>2. CASE ClientSend
    <2>1. PICK c \in Codes : reqs' = Append(reqs, c)
          BY <1>2 DEF ClientSend
    <2>2. Len(reqs') = Len(reqs) + 1
          BY <2>1, AppendFacts DEF IInv, TypeOK
    <2>3. QED BY <1>1, <2>2 DEF Arrived
  <1>3. CASE Step
        BY <1>3 DEF Arrived, Step, Boot, Exit, SetIdle, EnterPoll, PollTimeout,
                    Receive, FindCard, ReadOffline, ReadOnline, Encrypt,
                    NothingToSend, Send, SendBlocks
  <1>4. CASE GopanboxReceive \/ Signal \/ UNCHANGED vars
        BY <1>4 DEF Arrived, GopanboxReceive, Signal, vars
  <1>5. QED BY <1>2, <1>3, <1>4 DEF Next

\* After k messages the next one.
LEMMA OneMore ==
    ASSUME NEW k \in Nat
    PROVE  FairSpec /\ []StepRule => (DealtWithAll(k) => DealtWithAll(k + 1))
  <1>1. IInv /\ [Next]_vars => (Arrived(k + 1) => Arrived(k + 1)')
        BY ArrivedStays
  <1>2. IInv => (Arrived(k + 1) => Arrived(k))
        BY DEF Arrived, IInv, TypeOK
  <1>3. IInv => (Arrived(k + 1) /\ DealtWith(k) => DealtWith(k + 1) \/ Behind(k))
    <2> SUFFICES ASSUME IInv, Arrived(k + 1), Handled >= k
                 PROVE  Handled >= k + 1 \/ Behind(k)
        BY DEF DealtWith
    <2>1. Len(reqs) \in Nat /\ received \in Nat
          BY DEF IInv, TypeOK
    <2>2. Handled \in Int
          BY <2>1 DEF Handled
    <2>3. QED BY <2>1, <2>2 DEF Arrived, Behind
  <1>4. IInv => (Ended \/ Passed(k) => DealtWith(k + 1))
    <2> SUFFICES ASSUME IInv, Handled > k PROVE Handled >= k + 1
        BY DEF DealtWith, Passed
    <2>1. Handled \in Int
          BY DEF Handled, IInv, TypeOK
    <2>2. QED BY <2>1
  <1>5. FairSpec /\ []StepRule => [](Behind(k) => <>(Ended \/ Passed(k)))
        BY NextMessageHandled
  <1>6. QED BY <1>1, <1>2, <1>3, <1>4, <1>5, InvHolds, PTL
               DEF FairSpec, Spec, DealtWithAll

\* Every message is dealt with, unless the process failed to start or is told to
\* stop: whatever the messages before it were and however they ended.
THEOREM EveryMessageHandledHolds ==
    FairSpec /\ []StepRule /\ Induction => EveryMessageHandled
  <1>1. FairSpec => DealtWithAll(0)
    <2>1. IInv => DealtWith(0)
          BY DEF IInv, TypeOK, LocalInv, CodeAtLocation, DealtWith, Handled
    <2>2. QED BY <2>1, InvHolds, PTL DEF FairSpec, DealtWithAll
  <1>2. FairSpec /\ []StepRule =>
          \A m \in Nat : DealtWithAll(m) => DealtWithAll(m + 1)
        BY OneMore
  <1>3. FairSpec /\ []StepRule /\ Induction => \A m \in Nat : DealtWithAll(m)
        BY <1>1, <1>2 DEF Induction
  <1>4. ASSUME NEW n \in 1..MaxReq
        PROVE  DealtWithAll(n) =>
                 (Len(reqs) >= n ~> (Handled >= n \/ exit_flag = 1 \/ pc = "failed"))
    <2>1. DealtWith(n) <=> Handled >= n \/ exit_flag = 1 \/ pc = "failed"
          BY DEF DealtWith, Ended
    <2>2. Arrived(n) <=> Len(reqs) >= n
          BY DEF Arrived
    <2>3. QED BY <2>1, <2>2, PTL DEF DealtWithAll
  <1>5. (\A m \in Nat : DealtWithAll(m)) => EveryMessageHandled
    <2>1. \A n \in 1..MaxReq : n \in Nat
          OBVIOUS
    <2>2. QED BY <1>4, <2>1 DEF EveryMessageHandled
  <1>6. QED BY <1>3, <1>5
=============================================================================
