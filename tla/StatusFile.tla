----------------------------- MODULE StatusFile -----------------------------
(***************************************************************************)
(* cjson_update_value in doorsys_box/src/cjsonpub/libjsonpub.c: a process  *)
(* changes the value of a key in a JSON file (etc/gpbox_stat.json) by      *)
(* reading the whole file, changing its image of it, and writing it back.  *)
(* There is no lock and no rename: fopen(..., "w") empties the file and    *)
(* fclose writes the image, which is smaller than the buffer of a stream.  *)
(*                                                                         *)
(* Several programs share the file, each with keys of its own (the         *)
(* business process has "readstatus"); a process stands for its key.       *)
(* What may follow the first JSON value in the file is not represented:    *)
(* cJSON_Parse does not look at it.                                        *)
(*                                                                         *)
(* Faults: a process may be killed at any point (stopbusi ends with kill   *)
(* -9) and starts anew; fopen may fail, and so may the write.              *)
(***************************************************************************)
EXTENDS Integers

CONSTANTS
    Procs,      \* the processes that share the file, and their keys
    Values,     \* the values of a key
    Unreadable, \* content of a file that is empty or cut short
    Nothing     \* no image, no value or none that is known

ASSUME StatusFileAssumption ==
    /\ Unreadable \notin [Procs -> Values]
    /\ Nothing \notin Values

VARIABLES
    file,       \* the content of the file
    pc,         \* where each process is; "idle": not in cjson_update_value
    image,      \* pJsonRoot: what each process in an update has read
    alone,      \* has no other process been in an update during this one?
    last,       \* the value of the last update, if that was alone
    faulty      \* has an update ended between fopen and fclose?

vars == <<file, pc, image, alone, last, faulty>>

Images == [Procs -> Values]

Init ==
    /\ file \in Images
    /\ pc = [p \in Procs |-> "idle"]
    /\ image = [p \in Procs |-> Nothing]
    /\ alone = [p \in Procs |-> FALSE]
    /\ last = [p \in Procs |-> Nothing]
    /\ faulty = FALSE

InUpdate(p) == pc[p] # "idle"

-----------------------------------------------------------------------------
\* cjson_update_value.

\* mutant: the names of the keys are not compared
ReadEveryKey(p, v) ==
    /\ pc[p] = "idle"
    /\ file # Unreadable
    /\ image' = [image EXCEPT ![p] = [q \in Procs |-> v]]
    /\ pc' = [pc EXCEPT ![p] = "read"]
    /\ alone' = [q \in Procs |-> q = p /\ \A r \in Procs : ~InUpdate(r)]
    /\ UNCHANGED <<file, last, faulty>>

\* A file that can be parsed is read and the value of p's key changed.
Read(p, v) ==
    /\ pc[p] = "idle"
    /\ file # Unreadable
    /\ image' = [image EXCEPT ![p] = [file EXCEPT ![p] = v]]
    /\ pc' = [pc EXCEPT ![p] = "read"]
    /\ alone' = [q \in Procs |-> q = p /\ \A r \in Procs : ~InUpdate(r)]
    /\ UNCHANGED <<file, last, faulty>>

\* mutant: the result of cJSON_Parse is not looked at
ReadFailsUnseen(p) ==
    /\ pc[p] = "idle"
    /\ file = Unreadable
    /\ image' = [image EXCEPT ![p] = Unreadable]
    /\ pc' = [pc EXCEPT ![p] = "read"]
    /\ alone' = [alone EXCEPT ![p] = FALSE]
    /\ UNCHANGED <<file, last, faulty>>

\* cJSON_Parse returns NULL: the update is dropped (return -1).
ReadFails(p) ==
    /\ pc[p] = "idle"
    /\ file = Unreadable
    /\ UNCHANGED vars

\* fopen(file_name, "w")
Open(p) ==
    /\ pc[p] = "read"
    /\ file' = Unreadable
    /\ pc' = [pc EXCEPT ![p] = "open"]
    /\ UNCHANGED <<image, alone, last, faulty>>

\* cjson_update_value returns and pJsonRoot is deleted.
Return(p) ==
    /\ pc' = [pc EXCEPT ![p] = "idle"]
    /\ image' = [image EXCEPT ![p] = Nothing]
    /\ alone' = [alone EXCEPT ![p] = FALSE]

\* The return value -1 of cjson_write_to_file is not looked at.
OpenFails(p) ==
    /\ pc[p] = "read"
    /\ Return(p)
    /\ UNCHANGED <<file, last, faulty>>

\* fclose
Close(p) ==
    /\ pc[p] = "open"
    /\ file' = image[p]
    /\ last' = [last EXCEPT ![p] = IF alone[p] THEN image[p][p] ELSE Nothing]
    /\ Return(p)
    /\ UNCHANGED faulty

\* The file system has no block for the image; nobody looks at the result.
CloseFails(p) ==
    /\ pc[p] = "open"
    /\ faulty' = TRUE
    /\ Return(p)
    /\ UNCHANGED <<file, last>>

Killed(p) ==
    /\ InUpdate(p)
    /\ faulty' = (faulty \/ pc[p] = "open")
    /\ Return(p)
    /\ UNCHANGED <<file, last>>

-----------------------------------------------------------------------------
\* An update that has begun goes on.
Step(p) == Open(p) \/ OpenFails(p) \/ Close(p) \/ CloseFails(p)

Next ==
    \E p \in Procs :
        \/ \E v \in Values : Read(p, v)
        \/ ReadFails(p)
        \/ Step(p)
        \/ Killed(p)

Spec == Init /\ [][Next]_vars

\* A process in an update is scheduled.  None has to begin one.
Runs(p) == WF_vars(Step(p))

FairSpec == Spec /\ \A p \in Procs : Runs(p)

-----------------------------------------------------------------------------
\* Properties.

TypeOK ==
    /\ file \in Images \cup {Unreadable}
    /\ pc \in [Procs -> {"idle", "read", "open"}]
    /\ image \in [Procs -> Images \cup {Nothing}]
    /\ alone \in [Procs -> BOOLEAN]
    /\ last \in [Procs -> Values \cup {Nothing}]
    /\ faulty \in BOOLEAN

\* However updates overlap, the file can be parsed whenever nobody is between
\* fopen and fclose, unless an update has ended there: a reader that meets an
\* empty file has met a write under way, and no update spreads the emptiness.
ReadableUnlessFault ==
    (\A p \in Procs : pc[p] # "open") /\ ~faulty => file # Unreadable

\* Updates of other keys that overlap each other, are dropped, fail or are cut
\* short never undo an update that met no other one: the value stays until
\* its own process writes again.
AloneIsKept ==
    \A p \in Procs :
        file # Unreadable /\ last[p] # Nothing => file[p] = last[p]

\* An empty file is filled again, in spite of ever new updates, unless an
\* update has ended between fopen and fclose.
ReadableAgain == file = Unreadable ~> (file # Unreadable \/ faulty)

\* An action of Step that can be taken is enabled.  By the meaning of ENABLED
\* this is so in every state; TLC evaluates it, and the proofs have no other way
\* to it.
StepRule ==
    \A p \in Procs : pc[p] \in {"read", "open"} => ENABLED <<Step(p)>>_vars

\* No update is ever stuck, whatever the others do to the file.
UpdateCanGoOn == \A p \in Procs : InUpdate(p) => ENABLED <<Step(p)>>_vars

\* The state is well typed and every update can go on.
StateOK == TypeOK /\ StepRule /\ UpdateCanGoOn
=============================================================================
