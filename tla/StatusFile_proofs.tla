-------------------------- MODULE StatusFile_proofs --------------------------
(***************************************************************************)
(* Theorems about StatusFile, for any set of processes and values.         *)
(***************************************************************************)
EXTENDS StatusFile, TLAPS

USE DEF Images, InUpdate

\* Whoever is in an update has an image, and nobody else is in one while it is
\* alone.
UpdateInv ==
    /\ \A p \in Procs : InUpdate(p) => image[p] \in Images
    /\ \A p, q \in Procs : alone[p] /\ InUpdate(q) => p = q

\* What an update that was alone has written is in the file and in the image
\* of every other update since.
KeepInv ==
    \A p \in Procs : last[p] # Nothing =>
        /\ file # Unreadable => file[p] = last[p]
        /\ \A q \in Procs \ {p} : InUpdate(q) => image[q][p] = last[p]

IInv == TypeOK /\ UpdateInv /\ KeepInv /\ ReadableUnlessFault

-----------------------------------------------------------------------------
\* Before the first update the file can be read and nobody is in one.
LEMMA InitInv == Init => IInv
BY StatusFileAssumption
DEF Init, IInv, TypeOK, UpdateInv, KeepInv, ReadableUnlessFault

\* Every action keeps the types, an image for everybody in an update, and that
\* whoever is alone is.
LEMMA UpdateStep ==
    ASSUME TypeOK, UpdateInv, [Next]_vars
    PROVE  TypeOK' /\ UpdateInv'
<1> USE DEF TypeOK, UpdateInv
<1>1. ASSUME NEW p \in Procs, NEW v \in Values, Read(p, v)
      PROVE  TypeOK' /\ UpdateInv'
  <2>1. file \in Images /\ [file EXCEPT ![p] = v] \in Images
    BY <1>1 DEF Read
  <2>2. TypeOK'
    BY <1>1, <2>1 DEF Read
  <2>3. \A q \in Procs : InUpdate(q)' => image'[q] \in Images
    BY <1>1, <2>1 DEF Read
  <2>4. \A q, r \in Procs : alone'[q] /\ InUpdate(r)' => q = r
    BY <1>1 DEF Read
  <2> QED
    BY <2>2, <2>3, <2>4
<1>2. ASSUME NEW p \in Procs, ReadFails(p) PROVE TypeOK' /\ UpdateInv'
  BY <1>2 DEF ReadFails, vars
<1>3. ASSUME NEW p \in Procs, Open(p) PROVE TypeOK' /\ UpdateInv'
  BY <1>3 DEF Open
<1>4. ASSUME NEW p \in Procs, OpenFails(p) PROVE TypeOK' /\ UpdateInv'
  BY <1>4 DEF OpenFails, Return
<1>5. ASSUME NEW p \in Procs, Close(p) PROVE TypeOK' /\ UpdateInv'
  <2>1. image[p] \in Images
    BY <1>5 DEF Close
  <2> QED
    BY <1>5, <2>1 DEF Close, Return
<1>6. ASSUME NEW p \in Procs, CloseFails(p) PROVE TypeOK' /\ UpdateInv'
  BY <1>6 DEF CloseFails, Return
<1>7. ASSUME NEW p \in Procs, Killed(p) PROVE TypeOK' /\ UpdateInv'
  BY <1>7 DEF Killed, Return
<1>8. CASE UNCHANGED vars
  BY <1>8 DEF vars
<1> QED
  BY <1>1, <1>2, <1>3, <1>4, <1>5, <1>6, <1>7, <1>8 DEF Next, Step

\* Reading copies the value, closing writes it, everything else loses at most
\* the whole file.
LEMMA KeepStep ==
    ASSUME TypeOK, UpdateInv, KeepInv, [Next]_vars
    PROVE  KeepInv'
<1> USE DEF TypeOK, KeepInv
<1>1. ASSUME NEW p \in Procs, NEW v \in Values, Read(p, v) PROVE KeepInv'
  <2>1. file \in Images
    BY <1>1 DEF Read
  <2>2. image'[p] = [file EXCEPT ![p] = v]
    BY <1>1 DEF Read
  <2>3. \A q \in Procs \ {p} : last[q] # Nothing => image'[p][q] = last[q]
    BY <1>1, <2>1, <2>2 DEF Read
  <2> QED
    BY <1>1, <2>3 DEF Read
<1>2. ASSUME NEW p \in Procs, ReadFails(p) PROVE KeepInv'
  BY <1>2 DEF ReadFails, vars
<1>3. ASSUME NEW p \in Procs, Open(p) PROVE KeepInv'
  BY <1>3 DEF Open
<1>4. ASSUME NEW p \in Procs, OpenFails(p) PROVE KeepInv'
  BY <1>4 DEF OpenFails, Return
<1>5. ASSUME NEW p \in Procs, Close(p) PROVE KeepInv'
  <2>1. file' = image[p] /\ InUpdate(p) /\ image[p] \in Images
    BY <1>5 DEF Close, UpdateInv
  <2>2. \A r \in Procs \ {p} :
          /\ last'[r] = last[r]
          /\ last[r] # Nothing => file'[r] = last[r]
    BY <1>5, <2>1 DEF Close
  <2>3. \A q \in Procs : InUpdate(q)' =>
          q # p /\ InUpdate(q) /\ image'[q] = image[q]
    BY <1>5 DEF Close, Return
  <2>4. \A r \in Procs \ {p}, q \in Procs :
          q # r /\ last'[r] # Nothing /\ InUpdate(q)'
            => image'[q][r] = last'[r]
    BY <2>2, <2>3
  <2>5. last'[p] # Nothing =>
          /\ file'[p] = last'[p]
          /\ \A q \in Procs : ~InUpdate(q)'
    <3>1. last'[p] = IF alone[p] THEN image[p][p] ELSE Nothing
      BY <1>5 DEF Close
    <3>2. alone[p] => \A q \in Procs : InUpdate(q) => q = p
      BY DEF UpdateInv
    <3>3. alone[p] => \A q \in Procs : ~InUpdate(q)'
      BY <2>3, <3>2
    <3>4. CASE alone[p]
      BY <2>1, <3>1, <3>3, <3>4
    <3>5. CASE ~alone[p]
      BY <3>1, <3>5
    <3> QED
      BY <3>4, <3>5
  <2> QED
    BY <2>2, <2>4, <2>5
<1>6. ASSUME NEW p \in Procs, CloseFails(p) PROVE KeepInv'
  BY <1>6 DEF CloseFails, Return
<1>7. ASSUME NEW p \in Procs, Killed(p) PROVE KeepInv'
  BY <1>7 DEF Killed, Return
<1>8. CASE UNCHANGED vars
  BY <1>8 DEF vars
<1> QED
  BY <1>1, <1>2, <1>3, <1>4, <1>5, <1>6, <1>7, <1>8 DEF Next, Step

\* Only Open empties the file.
LEMMA ReadableStep ==
    ASSUME TypeOK, UpdateInv, ReadableUnlessFault, [Next]_vars
    PROVE  ReadableUnlessFault'
<1> USE DEF TypeOK, ReadableUnlessFault
<1>1. ASSUME NEW p \in Procs, NEW v \in Values, Read(p, v)
      PROVE  ReadableUnlessFault'
  BY <1>1 DEF Read
<1>2. ASSUME NEW p \in Procs, ReadFails(p) PROVE ReadableUnlessFault'
  BY <1>2 DEF ReadFails, vars
<1>3. ASSUME NEW p \in Procs, Open(p) PROVE ReadableUnlessFault'
  BY <1>3 DEF Open
<1>4. ASSUME NEW p \in Procs, OpenFails(p) PROVE ReadableUnlessFault'
  BY <1>4 DEF OpenFails, Return
<1>5. ASSUME NEW p \in Procs, Close(p) PROVE ReadableUnlessFault'
  <2>1. file' \in Images
    BY <1>5 DEF Close, UpdateInv
  <2> QED
    BY <2>1, StatusFileAssumption
<1>6. ASSUME NEW p \in Procs, CloseFails(p) PROVE ReadableUnlessFault'
  BY <1>6 DEF CloseFails
<1>7. ASSUME NEW p \in Procs, Killed(p) PROVE ReadableUnlessFault'
  BY <1>7 DEF Killed, Return
<1>8. CASE UNCHANGED vars
  BY <1>8 DEF vars
<1> QED
  BY <1>1, <1>2, <1>3, <1>4, <1>5, <1>6, <1>7, <1>8 DEF Next, Step

-----------------------------------------------------------------------------
\* Types, images, what is kept, and when the file can be read.
THEOREM InvHolds == Spec => []IInv
<1>1. IInv /\ [Next]_vars => IInv'
  BY UpdateStep, KeepStep, ReadableStep DEF IInv
<1> QED
  BY <1>1, InitInv, PTL DEF Spec

\* Every variable has its type, for any set of processes.
THEOREM TypeCorrect == Spec => []TypeOK
BY InvHolds, PTL DEF IInv

\* The file is unreadable only while an update is between fopen and fclose, or
\* after one has ended there.
THEOREM ReadableHolds == Spec => []ReadableUnlessFault
BY InvHolds, PTL DEF IInv

\* A value written by an update that met no other one stays until its own
\* process writes again, whatever the others do.
THEOREM AloneIsKeptHolds == Spec => []AloneIsKept
<1>1. IInv => AloneIsKept
  BY DEF IInv, KeepInv, AloneIsKept
<1> QED
  BY <1>1, InvHolds, PTL

\* Nobody is ever stuck between reading the file and writing it back.
THEOREM StateOKHolds == Spec /\ []StepRule => []StateOK
<1>1. TypeOK /\ StepRule => StateOK
  BY DEF TypeOK, StateOK, StepRule, UpdateCanGoOn
<1> QED
  BY <1>1, TypeCorrect, PTL

-----------------------------------------------------------------------------
\* ReadableAgain.  An unreadable file means that some process is between fopen
\* and fclose, and that process, which the others cannot hold up, either fills
\* the file or ends with a fault; so the file is readable again, although it
\* may be another process that fills it.

\* Only fclose, a fault or a kill takes a process out of its write.
LEMMA OpenStep ==
    ASSUME IInv, [Next]_vars, NEW p \in Procs, pc[p] = "open"
    PROVE  /\ pc'[p] = "open" \/ file' # Unreadable \/ faulty'
           /\ Step(p) => file' # Unreadable \/ faulty'
<1> USE DEF IInv, TypeOK
<1>1. ASSUME NEW q \in Procs, Close(q) PROVE file' # Unreadable
  <2>1. file' \in Images
    BY <1>1 DEF Close, UpdateInv
  <2> QED
    BY <2>1, StatusFileAssumption
<1>2. ASSUME NEW q \in Procs, CloseFails(q) PROVE faulty'
  BY <1>2 DEF CloseFails
<1>3. ASSUME NEW q \in Procs, Killed(q) PROVE pc'[p] = "open" \/ faulty'
  BY <1>3 DEF Killed, Return
<1>4. ASSUME NEW q \in Procs, Open(q) \/ OpenFails(q)
      PROVE  pc'[p] = "open" /\ q # p
  BY <1>4 DEF Open, OpenFails, Return
<1>5. ASSUME NEW q \in Procs, ReadFails(q) \/ \E v \in Values : Read(q, v)
      PROVE  pc'[p] = "open"
  BY <1>5 DEF ReadFails, Read, vars
<1>6. Step(p) => file' # Unreadable \/ faulty'
  BY <1>1, <1>2, <1>4 DEF Step
<1>7. pc'[p] = "open" \/ file' # Unreadable \/ faulty'
  <2>1. CASE UNCHANGED vars
    BY <2>1 DEF vars
  <2> QED
    BY <1>1, <1>2, <1>3, <1>4, <1>5, <2>1 DEF Next, Step
<1> QED
  BY <1>6, <1>7

\* Every process that runs is done with its write.
LEMMA WriteEnds ==
    ASSUME NEW p \in Procs
    PROVE  Spec /\ Runs(p) /\ []StepRule =>
             (pc[p] = "open" ~> (file # Unreadable \/ faulty))
<1> DEFINE Writing == pc[p] = "open"
           Filled == file # Unreadable \/ faulty
<1>1. IInv /\ [Next]_vars => (Writing => Writing' \/ Filled')
  BY OpenStep
<1>2. IInv /\ <<Step(p)>>_vars => (Writing => Filled')
  BY OpenStep DEF Next
<1>3. StepRule => (Writing => ENABLED <<Step(p)>>_vars)
  BY DEF StepRule
<1>4. pc[p] = "open" <=> Writing
  OBVIOUS
<1>5. file # Unreadable \/ faulty <=> Filled
  OBVIOUS
<1> HIDE DEF Writing, Filled
<1> QED
  BY <1>1, <1>2, <1>3, <1>4, <1>5, InvHolds, PTL DEF Spec, Runs

\* What every process does from now on it does from any later moment on.
LEMMA FairAlways == FairSpec /\ []StepRule =>
    [](\A p \in Procs : pc[p] = "open" => <>(file # Unreadable \/ faulty))
<1>1. ASSUME NEW p \in Procs
      PROVE  FairSpec /\ []StepRule =>
               [](pc[p] = "open" => <>(file # Unreadable \/ faulty))
  <2>1. FairSpec => Spec /\ Runs(p)
    BY DEF FairSpec
  <2> QED
    BY <2>1, WriteEnds, PTL
<1>2. FairSpec /\ []StepRule =>
        \A p \in Procs : [](pc[p] = "open" => <>(file # Unreadable \/ faulty))
  BY <1>1
<1>3. (\A p \in Procs : [](pc[p] = "open" => <>(file # Unreadable \/ faulty)))
        => [](\A p \in Procs : pc[p] = "open" => <>(file # Unreadable \/ faulty))
  OBVIOUS
<1> QED
  BY <1>2, <1>3

\* An empty file is filled again, in spite of ever new updates, unless an
\* update has ended between fopen and fclose, when every update that has begun
\* runs on.
THEOREM ReadableAgainHolds == FairSpec /\ []StepRule => ReadableAgain
<1> DEFINE Filled == file # Unreadable \/ faulty
           Writes == \A p \in Procs : pc[p] = "open" => <>Filled
<1>1. IInv /\ file = Unreadable => Filled \/ \E p \in Procs : pc[p] = "open"
  BY DEF IInv, ReadableUnlessFault
<1>2. Writes => ((\E p \in Procs : pc[p] = "open") => <>Filled)
  BY DEF Writes
<1>3. FairSpec => Spec
  BY DEF FairSpec
<1>4. FairSpec /\ []StepRule => []Writes
  BY FairAlways
<1>5. ReadableAgain <=> (file = Unreadable ~> Filled)
  BY DEF ReadableAgain
<1> HIDE DEF Filled, Writes
<1> QED
  BY <1>1, <1>2, <1>3, <1>4, <1>5, InvHolds, PTL
=============================================================================
