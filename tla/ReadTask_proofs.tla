--------------------------- MODULE ReadTask_proofs ---------------------------
(***************************************************************************)
(* Proofs about ReadTask: its types, that a session runs on a completed    *)
(* channel, that the packet of pieces holds data of one card, and that a   *)
(* task ends.                                                              *)
(***************************************************************************)
EXTENDS ReadTask, FiniteSetTheorems, TLAPS

\* The initial states are well typed.
LEMMA TypeInit == Init => TypeOK
  <1> SUFFICES ASSUME Init PROVE TypeOK
      OBVIOUS
  <1>1. resume \in BOOLEAN /\ late \in BOOLEAN /\ cmd04 \in BOOLEAN
    BY DEF Init
  <1>2. hash \in BOOLEAN
    BY DEF Init
  <1>3. buf \in [Pieces -> Someone]
    BY DEF Init, NoCache, Someone
  <1>4. QED
    BY <1>1, <1>2, <1>3, ReadTaskAssumption
       DEF Init, TypeOK, Locations, Errors, Someone

\* Every step of the task, the card and the clock keeps the types.
LEMMA TypeStep == TypeOK /\ [Next]_vars => TypeOK'
  <1> SUFFICES ASSUME TypeOK, [Next]_vars PROVE TypeOK'
      OBVIOUS
  <1> USE DEF TypeOK, Locations, Errors, Someone, flow, cards
  <1>1. CASE CardMoves
    BY <1>1 DEF CardMoves
  <1>2. CASE TimePasses
    BY <1>2 DEF TimePasses
  <1>3. CASE Prepare
    BY <1>3 DEF Prepare
  <1>4. CASE Disconnect
    BY <1>4 DEF Disconnect
  <1>5. CASE Start
    BY <1>5 DEF Start
  <1>6. CASE Build
    BY <1>6 DEF Build, Fail
  <1>7. CASE Channel1
    BY <1>7 DEF Channel1, Fail
  <1>8. CASE Channel2
    BY <1>8 DEF Channel2, Fail, NoCache
  <1>9. CASE Select
    BY <1>9, ReadTaskAssumption
       DEF Select, CachesAfterDN, NoCache, ReaderErrors
  <1>10. CASE Single
    BY <1>10, ReadTaskAssumption DEF Single
  <1>11. CASE Authenticated
    BY <1>11 DEF Authenticated
  <1>12. CASE Done
    BY <1>12 DEF Done, CachesAfterEnd, NoCache
  <1>13. CASE ExchangeFails
    BY <1>13 DEF ExchangeFails
  <1>14. CASE AuthError
    BY <1>14 DEF AuthError, Fail
  <1>15. CASE CheckCard
    BY <1>15 DEF CheckCard, Fail
  <1>16. CASE ReadPiece
    BY <1>16 DEF ReadPiece, FromCache, FromReader
  <1>17. CASE ReadFails
    BY <1>17 DEF ReadFails, ReaderErrors
  <1>18. CASE ReadError
    BY <1>18 DEF ReadError, Fail
  <1>19. CASE UNCHANGED vars
    BY <1>19 DEF vars
  <1>20. QED
    BY <1>1, <1>2, <1>3, <1>4, <1>5, <1>6, <1>7, <1>8, <1>9, <1>10, <1>11,
       <1>12, <1>13, <1>14, <1>15, <1>16, <1>17, <1>18, <1>19 DEF Next, Step

\* Type correctness of the task, for any cards and any number of commands.
THEOREM TypeCorrect == Spec => []TypeOK
  BY TypeInit, TypeStep, PTL DEF Spec

-----------------------------------------------------------------------------
\* A cached command 04 stands for a completed channel, except just before the
\* channel is built anew.
ChannelInv ==
    /\ SessionOnCompleteChannel
    /\ cmd04 /\ pc # "build" => chan = "full" /\ hash
    /\ pc \in {"channel1", "channel2"} => ~cmd04
    /\ pc = "channel2" => hash

\* Every step keeps ChannelInv.
LEMMA ChannelStep == TypeOK /\ ChannelInv /\ [Next]_vars => ChannelInv'
  <1> SUFFICES ASSUME TypeOK, ChannelInv, [Next]_vars PROVE ChannelInv'
      OBVIOUS
  <1> USE DEF TypeOK, Locations, ChannelInv, SessionOnCompleteChannel,
              InSession, flow
  <1>1. CASE CardMoves
    BY <1>1 DEF CardMoves
  <1>2. CASE TimePasses
    BY <1>2 DEF TimePasses
  <1>3. CASE Prepare
    BY <1>3 DEF Prepare
  <1>4. CASE Disconnect
    BY <1>4 DEF Disconnect
  <1>5. CASE Start
    BY <1>5 DEF Start
  <1>6. CASE Build
    BY <1>6 DEF Build, Fail
  <1>7. CASE Channel1
    BY <1>7 DEF Channel1, Fail
  <1>8. CASE Channel2
    BY <1>8 DEF Channel2, Fail
  <1>9. CASE Select
    BY <1>9 DEF Select
  <1>10. CASE Single
    BY <1>10 DEF Single
  <1>11. CASE Authenticated
    BY <1>11 DEF Authenticated
  <1>12. CASE Done
    BY <1>12 DEF Done
  <1>13. CASE ExchangeFails
    BY <1>13 DEF ExchangeFails
  <1>14. CASE AuthError
    BY <1>14 DEF AuthError, Fail
  <1>15. CASE CheckCard
    BY <1>15 DEF CheckCard, Fail
  <1>16. CASE ReadPiece
    BY <1>16 DEF ReadPiece
  <1>17. CASE ReadFails
    BY <1>17 DEF ReadFails
  <1>18. CASE ReadError
    BY <1>18 DEF ReadError, Fail
  <1>19. CASE UNCHANGED vars
    BY <1>19 DEF vars
  <1>20. QED
    BY <1>1, <1>2, <1>3, <1>4, <1>5, <1>6, <1>7, <1>8, <1>9, <1>10, <1>11,
       <1>12, <1>13, <1>14, <1>15, <1>16, <1>17, <1>18, <1>19 DEF Next, Step

-----------------------------------------------------------------------------
\* Between command 04 and the packet of pieces.
Reading == pc \in {"exchange", "report", "read", "mul"}

\* Every cache holds data of the card whose DN is stored, and while the card
\* is read that is the authenticated card, as is any card still selected.
CardInv ==
    /\ \A p \in Pieces : buf[p] \in {NoCard, dn}
    /\ Reading => selected \in {NoCard, authed}
    /\ Reading /\ resume => dn = authed
    /\ pc \in {"read", "mul"} => pieces \subseteq {authed}
    /\ pc = "mul" => pieces # {}

\* The initial states satisfy CardInv.
LEMMA CardInit == Init => CardInv
  BY DEF Init, CardInv, Reading, NoCache

\* One piece more leaves the packet and the caches with one card.
LEMMA PieceStep ==
    ASSUME TypeOK, CardInv, pc = "read",
           NEW p \in Pieces, FromCache(p) \/ FromReader(p)
    PROVE  /\ \A q \in Pieces : buf'[q] \in {NoCard, dn}
           /\ pieces' \subseteq {authed}
           /\ pieces' # {}
  <1>1. CASE FromCache(p)
    BY <1>1 DEF FromCache, CardInv, Reading
  <1>2. CASE FromReader(p)
    <2>1. selected = authed
      BY <1>2 DEF FromReader, CardInv, Reading
    <2>2. \A q \in Pieces : buf'[q] \in {NoCard, dn}
      BY <1>2, <2>1 DEF FromReader, CardInv, Reading, TypeOK
    <2>3. pieces' \subseteq {authed} /\ pieces' # {}
      BY <1>2, <2>1 DEF FromReader, CardInv
    <2>4. QED BY <2>2, <2>3
  <1>3. QED BY <1>1, <1>2

\* Every step keeps CardInv.
LEMMA CardStep == TypeOK /\ CardInv /\ [Next]_vars => CardInv'
  <1> SUFFICES ASSUME TypeOK, CardInv, [Next]_vars PROVE CardInv'
      OBVIOUS
  <1> USE DEF CardInv, Reading, flow, cards
  <1>1. CASE CardMoves
    BY <1>1 DEF CardMoves
  <1>2. CASE TimePasses
    BY <1>2 DEF TimePasses
  <1>3. CASE Prepare
    BY <1>3 DEF Prepare
  <1>4. CASE Disconnect
    BY <1>4 DEF Disconnect
  <1>5. CASE Start
    BY <1>5 DEF Start
  <1>6. CASE Build
    BY <1>6 DEF Build, Fail
  <1>7. CASE Channel1
    BY <1>7 DEF Channel1, Fail
  <1>8. CASE Channel2
    BY <1>8 DEF Channel2, Fail, NoCache
  <1>9. CASE Select
    <2>1. CASE pc' = "authError"
      BY <1>9, <2>1 DEF Select
    <2>2. CASE pc' = "exchange" /\ resume
      <3>1. dn' = card /\ authed' = card /\ selected' = card
        BY <1>9, <2>2 DEF Select
      <3>2. buf' = CachesAfterDN
        BY <1>9, <2>2 DEF Select
      <3>3. \A p \in Pieces : buf'[p] \in {NoCard, dn'}
        BY <3>1, <3>2 DEF CachesAfterDN, NoCache
      <3>4. QED BY <2>2, <3>1, <3>3
    <2>3. CASE pc' = "exchange" /\ ~resume
      BY <1>9, <2>3 DEF Select
    <2>4. QED BY <1>9, <2>1, <2>2, <2>3 DEF Select, TypeOK
  <1>10. CASE Single
    BY <1>10 DEF Single
  <1>11. CASE Authenticated
    BY <1>11 DEF Authenticated
  <1>12. CASE Done
    BY <1>12 DEF Done, CachesAfterEnd, NoCache
  <1>13. CASE ExchangeFails
    BY <1>13 DEF ExchangeFails
  <1>14. CASE AuthError
    BY <1>14 DEF AuthError, Fail
  <1>15. CASE CheckCard
    BY <1>15 DEF CheckCard, Fail
  <1>16. CASE ReadPiece
    <2>1. PICK p \in todo : FromCache(p) \/ FromReader(p)
      BY <1>16 DEF ReadPiece
    <2>2. p \in Pieces
      BY DEF TypeOK
    <2>3. /\ \A q \in Pieces : buf'[q] \in {NoCard, dn}
          /\ pieces' \subseteq {authed}
          /\ pieces' # {}
      BY <1>16, <2>1, <2>2, PieceStep DEF ReadPiece
    <2>4. QED BY <1>16, <2>3 DEF ReadPiece
  <1>17. CASE ReadFails
    BY <1>17 DEF ReadFails
  <1>18. CASE ReadError
    BY <1>18 DEF ReadError, Fail
  <1>19. CASE UNCHANGED vars
    BY <1>19 DEF vars
  <1>20. QED
    BY <1>1, <1>2, <1>3, <1>4, <1>5, <1>6, <1>7, <1>8, <1>9, <1>10, <1>11,
       <1>12, <1>13, <1>14, <1>15, <1>16, <1>17, <1>18, <1>19 DEF Next, Step

-----------------------------------------------------------------------------
\* Command 04 and what follows never run under an incomplete channel's key.
THEOREM SessionCorrect == Spec => []SessionOnCompleteChannel
  <1>1. Init => ChannelInv
    BY DEF Init, ChannelInv, SessionOnCompleteChannel, InSession
  <1>2. ChannelInv => SessionOnCompleteChannel
    BY DEF ChannelInv
  <1>3. QED BY <1>1, <1>2, ChannelStep, TypeCorrect, PTL DEF Spec

\* No packet mixes the data of two cards or is sent for the wrong one.
THEOREM PiecesCorrect == Spec => []PiecesOfAuthenticatedCard
  <1>1. CardInv => PiecesOfAuthenticatedCard
    BY DEF CardInv, PiecesOfAuthenticatedCard
  <1>2. QED BY <1>1, CardInit, CardStep, TypeCorrect, PTL DEF Spec

-----------------------------------------------------------------------------
\* LateTaskRunsDown.

\* How many pieces are to be read, and one less.
LEMMA TodoFacts ==
    ASSUME TypeOK
    PROVE  /\ Cardinality(todo) \in 0..3
           /\ Cardinality(Pieces) = 3
           /\ \A p \in todo :
                Cardinality(todo \ {p}) = Cardinality(todo) - 1
  <1>1. IsFiniteSet({"0A", "0B"}) /\ Cardinality({"0A", "0B"}) = 2
    <2>1. IsFiniteSet({"0A"}) /\ Cardinality({"0A"}) = 1
      BY FS_Singleton
    <2>2. {"0A", "0B"} = {"0A"} \cup {"0B"}
      OBVIOUS
    <2>3. QED BY <2>1, <2>2, FS_AddElement
  <1>2. IsFiniteSet({"0A", "0B"} \cup {"09"})
        /\ Cardinality({"0A", "0B"} \cup {"09"}) = 3
    BY <1>1, FS_AddElement
  <1>3. Pieces = {"0A", "0B"} \cup {"09"}
    BY DEF Pieces
  <1>4. IsFiniteSet(Pieces) /\ Cardinality(Pieces) = 3
    BY <1>2, <1>3
  <1>5. todo \subseteq Pieces
    BY DEF TypeOK
  <1>6. IsFiniteSet(todo) /\ Cardinality(todo) <= 3
    BY <1>4, <1>5, FS_Subset
  <1>7. Cardinality(todo) \in Nat
    BY <1>6, FS_CardinalityType
  <1>8. \A p \in todo : Cardinality(todo \ {p}) = Cardinality(todo) - 1
    BY <1>6, FS_RemoveElement
  <1>9. QED BY <1>4, <1>6, <1>7, <1>8

\* Three pieces at most are to be read, before and after a step.
LEMMA TodoInRange == TypeOK => Cardinality(todo) \in 0..3
  BY TodoFacts

LEMMA TodoInRangeNext == TypeOK' => (Cardinality(todo) \in 0..3)'
  BY TodoInRange, PTL

\* The steps left are a natural number, bounded by the constants.
LEMMA StepsInRange == TypeOK => StepsLeft \in 0..TaskLimit
  <1> SUFFICES ASSUME TypeOK PROVE StepsLeft \in 0..TaskLimit
      OBVIOUS
  <1>1. /\ Cardinality(todo) \in 0..3 /\ singles \in 0..MaxSingles
        /\ MaxSingles \in Nat /\ TaskLimit = MaxSingles + 10
    BY TodoFacts, ReadTaskAssumption DEF TypeOK, TaskLimit
  <1>2. pc \in Locations
    BY DEF TypeOK
  <1>3. CASE pc \in {"build", "channel1", "channel2", "check", "auth"}
    BY <1>1, <1>3 DEF StepsLeft
  <1>4. CASE pc = "exchange"
    BY <1>1, <1>4 DEF StepsLeft
  <1>5. CASE pc = "read"
    BY <1>1, <1>5 DEF StepsLeft
  <1>6. CASE pc \in {"mul", "report", "authError", "readError", "idle"}
    BY <1>1, <1>6 DEF StepsLeft
  <1>7. QED BY <1>2, <1>3, <1>4, <1>5, <1>6 DEF Locations

LEMMA StepsInRangeNext == TypeOK' => (StepsLeft \in 0..TaskLimit)'
  BY StepsInRange, PTL

\* The number of steps left is bounded.
THEOREM StepsBounded == Spec => [](StepsLeft \in 0..TaskLimit)
  BY StepsInRange, TypeCorrect, PTL

\* What a step of the task does to its location once its time is up.
LEMMA LateMoves ==
    ASSUME TypeOK, late, Step
    PROVE  /\ late'
           /\ \/ pc = "build" /\ pc' \in {"channel1", "idle"}
              \/ pc = "channel1" /\ pc' \in {"channel2", "idle"}
              \/ pc = "channel2" /\ pc' \in {"auth", "idle"}
              \/ pc = "check" /\ pc' \in {"auth", "idle"}
              \/ pc = "auth" /\ pc' = "exchange" /\ singles' = 0
              \/ pc = "auth" /\ pc' = "authError"
              \/ /\ pc = "exchange" /\ pc' = "exchange"
                 /\ singles < MaxSingles /\ singles' = singles + 1
              \/ pc = "exchange" /\ pc' = "read" /\ todo' = Pieces
              \/ pc = "exchange" /\ pc' \in {"report", "authError", "idle"}
              \/ pc = "report" /\ pc' = "authError"
              \/ /\ pc = "read" /\ pc' \in {"read", "mul"}
                 /\ \E p \in todo : todo' = todo \ {p}
              \/ pc = "read" /\ pc' = "readError" /\ todo # {}
              \/ pc = "mul" /\ pc' \in {"readError", "idle"}
              \/ pc \in {"authError", "readError"} /\ pc' = "idle"
  <1>1. CASE Build \/ Channel1 \/ Channel2 \/ CheckCard
    BY <1>1 DEF Build, Channel1, Channel2, CheckCard, Fail
  <1>2. CASE Select
    BY <1>2 DEF Select
  <1>3. CASE Single \/ Authenticated \/ Done \/ ExchangeFails
    BY <1>3 DEF Single, Authenticated, Done, ExchangeFails
  <1>4. CASE ReadPiece
    <2>1. PICK p \in todo : todo' = todo \ {p}
      BY <1>4 DEF ReadPiece
    <2>2. pc = "read" /\ pc' \in {"read", "mul"} /\ late'
      BY <1>4 DEF ReadPiece
    <2>3. QED BY <2>1, <2>2
  <1>5. CASE ReadFails
    BY <1>5 DEF ReadFails
  <1>6. CASE AuthError \/ ReadError
    BY <1>6 DEF AuthError, ReadError, Fail
  <1>7. QED BY <1>1, <1>2, <1>3, <1>4, <1>5, <1>6 DEF Step

\* Every step of a late task uses up one of the steps left.
LEMMA LateStepRunsDown ==
    ASSUME TypeOK, TypeOK', late, Step
    PROVE  StepsLeft' < StepsLeft
  <1> USE ReadTaskAssumption DEF StepsLeft, TaskLimit
  <1>0. /\ singles \in 0..MaxSingles /\ singles' \in 0..MaxSingles
        /\ Cardinality(todo) \in 0..3 /\ Cardinality(todo') \in 0..3
    BY TodoInRange, TodoInRangeNext DEF TypeOK
  <1>1. CASE pc \in {"build", "channel1", "channel2", "check", "report", "mul",
                     "authError", "readError"}
    BY <1>0, <1>1, LateMoves
  <1>2. CASE pc = "auth"
    BY <1>0, <1>2, LateMoves
  <1>3. CASE pc = "exchange"
    <2>1. CASE pc' = "read" /\ todo' = Pieces
      BY <1>0, <1>3, <2>1, TodoFacts
    <2>2. CASE pc' = "exchange" /\ singles' = singles + 1
      BY <1>0, <1>3, <2>2
    <2>3. CASE pc' \in {"report", "authError", "idle"}
      BY <1>0, <1>3, <2>3
    <2>4. QED BY <1>3, <2>1, <2>2, <2>3, LateMoves
  <1>4. CASE pc = "read"
    <2>1. CASE pc' = "readError"
      BY <1>0, <1>4, <2>1
    <2>2. CASE pc' \in {"read", "mul"} /\ \E p \in todo : todo' = todo \ {p}
      <3>1. Cardinality(todo') = Cardinality(todo) - 1
        BY <2>2, TodoFacts
      <3>2. QED BY <1>0, <1>4, <2>2, <3>1
    <2>3. QED BY <1>4, <2>1, <2>2, LateMoves
  <1>5. QED BY <1>1, <1>2, <1>3, <1>4, LateMoves

\* A task whose time is up never starts anything over, for any cards and any
\* number of single commands.
THEOREM LateTaskHolds == Spec => LateTaskRunsDown
  <1>1. TypeOK /\ TypeOK' /\ [Next]_vars =>
          [late /\ pc # "idle" => /\ StepsLeft' <= StepsLeft
                                  /\ Step => StepsLeft' < StepsLeft]_vars
    <2> SUFFICES ASSUME TypeOK, TypeOK', Next, late, pc # "idle"
                 PROVE  /\ StepsLeft' <= StepsLeft
                        /\ Step => StepsLeft' < StepsLeft
        BY DEF vars
    <2>1. StepsLeft \in Int /\ StepsLeft' \in Int
      BY StepsInRange, StepsInRangeNext, ReadTaskAssumption DEF TaskLimit
    <2>2. CASE Step
      <3>1. StepsLeft' < StepsLeft
        BY <2>2, LateStepRunsDown
      <3>2. QED BY <2>1, <3>1
    <2>3. CASE ~Step
      <3>1. UNCHANGED <<pc, singles, todo>>
        BY <2>3 DEF Next, CardMoves, TimePasses, Prepare, Disconnect, Start
      <3>2. StepsLeft' = StepsLeft
        BY <3>1 DEF StepsLeft
      <3>3. QED BY <2>1, <2>3, <3>2
    <2>4. QED BY <2>2, <2>3
  <1>2. QED BY <1>1, TypeCorrect, PTL DEF Spec, LateTaskRunsDown

-----------------------------------------------------------------------------
\* StateOK.  DoIDTask has a branch for every error in either place where errors
\* are handled, and the multiple command is left when it has no piece left.

MoreToRead == pc = "read" => todo # {}

\* While pieces are read there is one to read.
THEOREM MoreToReadHolds == Spec => []MoreToRead
  <1>1. Init => MoreToRead
    BY DEF Init, MoreToRead
  <1>2. MoreToRead /\ [Next]_vars => MoreToRead'
    <2> SUFFICES ASSUME MoreToRead, [Next]_vars PROVE MoreToRead'
        OBVIOUS
    <2> USE DEF MoreToRead
    <2>1. CASE CardMoves \/ TimePasses \/ Prepare \/ Disconnect \/ Start
               \/ UNCHANGED vars
      BY <2>1 DEF CardMoves, TimePasses, Prepare, Disconnect, Start, vars
    <2>2. CASE Build \/ Channel1 \/ Channel2 \/ Select \/ Single
      BY <2>2 DEF Build, Channel1, Channel2, Select, Single, Fail
    <2>3. CASE Authenticated \/ Done \/ ExchangeFails \/ ReadPiece
      BY <2>3 DEF Authenticated, Pieces, Done, ExchangeFails, ReadPiece
    <2>4. CASE AuthError \/ CheckCard \/ ReadFails \/ ReadError
      BY <2>4 DEF AuthError, CheckCard, ReadFails, ReadError, Fail
    <2>5. QED BY <2>1, <2>2, <2>3, <2>4 DEF Next, Step
  <1>3. QED BY <1>1, <1>2, PTL DEF Spec

\* A task is never stuck: every error of the reader, the network and the server
\* is one that some branch handles, and its time runs.
THEOREM StateOKHolds == Spec /\ []StepRule => []StateOK
  <1>1. TypeOK /\ MoreToRead /\ StepRule => StateOK
    <2> SUFFICES ASSUME TypeOK, MoreToRead, pc # "idle" PROVE Ready
        BY DEF StateOK, TaskCanGoOn, StepRule
    <2>1. /\ pc \in Locations /\ err \in Errors
          /\ late \in BOOLEAN /\ resume \in BOOLEAN
      BY DEF TypeOK
    <2>2. CASE pc = "read"
      BY <2>1, <2>2 DEF MoreToRead, Ready
    <2>3. CASE pc \in {"authError", "readError"}
      BY <2>1, <2>3 DEF Ready, Errors
    <2>4. QED BY <2>1, <2>2, <2>3 DEF Ready, Locations
  <1>2. QED BY <1>1, TypeCorrect, MoreToReadHolds, PTL

-----------------------------------------------------------------------------
\* TaskEnds.  The clock runs until the task is late, and then each location
\* leads to a later one, a read to a read with fewer pieces.  The exchanges with
\* the server come to an end by induction over the single commands to come.

\* The others leave a task where it is, and late.
LEMMA OthersLeaveTask ==
    ASSUME [Next]_vars, ~Step, pc # "idle"
    PROVE  UNCHANGED <<pc, todo>> /\ (late => late')
  BY DEF Next, CardMoves, TimePasses, Prepare, Disconnect, Start, vars

\* A step of the task in an exchange is one more command or the last one.
LEMMA ExchangeStep ==
    ASSUME Step, pc = "exchange"
    PROVE  pc' # "exchange" \/ singles' = singles + 1
  BY DEF Step, Build, Channel1, Channel2, Select, Single, Authenticated, Done,
         ExchangeFails, AuthError, CheckCard, ReadPiece, ReadFails, ReadError

Exchanging == pc = "exchange"

\* The server may send fewer than n more single commands.
FewerSingles(n) == Exchanging /\ MaxSingles - singles < n

\* A step of the task in an exchange leaves fewer to come.
LEMMA FewerAfterStep ==
    ASSUME TypeOK, TypeOK', Step, NEW n \in Nat, FewerSingles(n + 1)
    PROVE  ~Exchanging' \/ FewerSingles(n)'
  <1>1. /\ singles \in Nat /\ singles' \in Nat /\ MaxSingles \in Nat
        /\ MaxSingles - singles < n + 1
        BY ReadTaskAssumption DEF TypeOK, FewerSingles
  <1>2. pc' # "exchange" \/ singles' = singles + 1
        BY ExchangeStep DEF FewerSingles, Exchanging
  <1>3. ASSUME singles' = singles + 1 PROVE MaxSingles - singles' < n
        BY <1>1, <1>3
  <1>4. QED BY <1>2, <1>3 DEF FewerSingles, Exchanging

\* However many single commands are to come: one more comes, so that there are
\* fewer, or the exchanges are over.
THEOREM SinglesMoveOn ==
    ASSUME NEW n \in Nat
    PROVE  FairSpec /\ []StepRule =>
             [](FewerSingles(n + 1) => <>(~Exchanging \/ FewerSingles(n)))
  <1>1. TypeOK /\ TypeOK' /\ [Next]_vars =>
          (FewerSingles(n + 1) =>
             FewerSingles(n + 1)' \/ ~Exchanging' \/ FewerSingles(n)')
    <2>1. ASSUME [Next]_vars, pc = "exchange", ~Step
          PROVE  UNCHANGED <<pc, singles>>
          BY <2>1 DEF Next, CardMoves, TimePasses, Prepare, Disconnect, Start,
                      vars
    <2>2. ASSUME TypeOK, TypeOK', Step, FewerSingles(n + 1)
          PROVE  ~Exchanging' \/ FewerSingles(n)'
          BY <2>2, FewerAfterStep
    <2>3. QED BY <2>1, <2>2 DEF FewerSingles, Exchanging
  <1>2. TypeOK /\ TypeOK' /\ <<Step>>_vars =>
          (FewerSingles(n + 1) => ~Exchanging' \/ FewerSingles(n)')
        BY FewerAfterStep
  <1>3. StateOK => (FewerSingles(n + 1) => ENABLED <<Step>>_vars)
        BY DEF StateOK, TaskCanGoOn, FewerSingles, Exchanging
  <1>4. QED BY <1>1, <1>2, <1>3, TypeCorrect, StateOKHolds, PTL
            DEF FairSpec, Spec

\* When fewer than n single commands are to come, the exchanges end.
ExchangesEnd(n) == [](FewerSingles(n) => <>~Exchanging)

\* Induction over the natural numbers, for ExchangesEnd.  It holds of every
\* formula; the provers have no rule for it when the formula is a temporal one.
Induction ==
    ExchangesEnd(0) /\ (\A n \in Nat : ExchangesEnd(n) => ExchangesEnd(n + 1))
      => \A n \in Nat : ExchangesEnd(n)

\* The server does not send single commands for ever.
ServerComesToAnEnd == pc = "exchange" ~> pc # "exchange"

\* The model's server sends MaxSingles commands at most, so it comes to an end.
THEOREM ServerEndsHolds ==
    FairSpec /\ []StepRule /\ Induction => ServerComesToAnEnd
  <1>1. FairSpec => ExchangesEnd(0)
    <2>1. TypeOK => ~FewerSingles(0)
          BY ReadTaskAssumption DEF TypeOK, FewerSingles
    <2>2. QED BY <2>1, TypeCorrect, PTL DEF FairSpec, ExchangesEnd
  <1>2. ASSUME NEW n \in Nat
        PROVE  FairSpec /\ []StepRule => (ExchangesEnd(n) => ExchangesEnd(n + 1))
    <2>1. FairSpec /\ []StepRule =>
            [](FewerSingles(n + 1) => <>(~Exchanging \/ FewerSingles(n)))
          BY SinglesMoveOn
    <2>2. QED BY <2>1, PTL DEF ExchangesEnd
  <1>3. FairSpec /\ []StepRule /\ Induction => \A n \in Nat : ExchangesEnd(n)
        BY <1>1, <1>2 DEF Induction
  <1>4. MaxSingles + 1 \in Nat
        BY ReadTaskAssumption
  <1>5. FairSpec /\ []StepRule /\ Induction => ExchangesEnd(MaxSingles + 1)
        BY <1>3, <1>4
  <1>6. TypeOK => (Exchanging => FewerSingles(MaxSingles + 1))
        BY ReadTaskAssumption DEF TypeOK, FewerSingles
  <1>7. (pc = "exchange" <=> Exchanging) /\ (pc # "exchange" <=> ~Exchanging)
        BY DEF Exchanging
  <1>8. QED BY <1>5, <1>6, <1>7, TypeCorrect, PTL
            DEF FairSpec, ExchangesEnd, ServerComesToAnEnd

\* A task ends, with an answer or an error, when the task and the clock run on.
THEOREM TaskEndsHolds ==
    FairSpec /\ []StepRule /\ Induction => TaskEnds
  <1> DEFINE Idle == pc = "idle"
             Builds == pc = "build"
             First == pc = "channel1"
             Second == pc = "channel2"
             Checks == pc = "check"
             Auth == pc = "auth"
             Exchanges == pc = "exchange"
             Reports == pc = "report"
             Reads == pc = "read"
             Mul == pc = "mul"
             Failed == pc \in {"authError", "readError"}
             R09 == "09" \in todo
             R0A == "0A" \in todo
             R0B == "0B" \in todo
  <1>1. TypeOK => \/ Idle \/ Builds \/ First \/ Second \/ Checks \/ Auth
                  \/ Exchanges \/ Reports \/ Reads \/ Mul \/ Failed
    BY DEF TypeOK, Locations
  <1>2. TypeOK /\ [Next]_vars /\ late /\ ~Idle =>
          /\ late'
          /\ Builds => Builds' \/ First' \/ Idle'
          /\ First => First' \/ Second' \/ Idle'
          /\ Second \/ Checks => Second' \/ Checks' \/ Auth' \/ Idle'
          /\ Auth => Auth' \/ Exchanges' \/ Failed'
          /\ Exchanges => Exchanges' \/ Reads' \/ Reports' \/ Failed' \/ Idle'
          /\ Reports => Reports' \/ Failed'
          /\ Reads => Reads' \/ Mul' \/ Failed'
          /\ Mul => Mul' \/ Failed' \/ Idle'
          /\ Failed => Failed' \/ Idle'
    BY LateMoves, OthersLeaveTask
  <1>3. TypeOK /\ [Next]_vars /\ late /\ Reads /\ Reads' =>
          (R09' => R09) /\ (R0A' => R0A) /\ (R0B' => R0B)
    BY LateMoves, OthersLeaveTask
  <1>4. TypeOK /\ <<Step>>_vars /\ late =>
          /\ Builds => ~Builds'
          /\ First => ~First'
          /\ Second \/ Checks => ~Second' /\ ~Checks'
          /\ Auth => ~Auth'
          /\ Reports => ~Reports'
          /\ Mul => ~Mul'
          /\ Failed => ~Failed'
    BY LateMoves
  <1>5. TypeOK /\ <<Step>>_vars /\ late /\ Reads =>
          \/ ~Reads'
          \/ R09 /\ ~R09'
          \/ R0A /\ ~R0A'
          \/ R0B /\ ~R0B'
    BY LateMoves DEF TypeOK, Pieces
  <1>6. TypeOK /\ <<TimePasses>>_vars => late'
    BY DEF TimePasses
  <1>7. StateOK => /\ ~Idle => ENABLED <<Step>>_vars
                   /\ ~Idle /\ ~late => ENABLED <<TimePasses>>_vars
    BY DEF StateOK, TaskCanGoOn
  <1>8. /\ pc # "idle" <=> ~Idle
        /\ pc = "idle" <=> Idle
        /\ pc # "exchange" <=> ~Exchanges
        /\ pc = "exchange" <=> Exchanges
    OBVIOUS
  <1> HIDE DEF Idle, Builds, First, Second, Checks, Auth, Exchanges, Reports,
               Reads, Mul, Failed, R09, R0A, R0B
  <1>9. QED BY <1>1, <1>2, <1>3, <1>4, <1>5, <1>6, <1>7, <1>8, TypeCorrect,
               StateOKHolds, ServerEndsHolds, PTL
            DEF FairSpec, Spec, ServerComesToAnEnd, TaskEnds
=============================================================================
