----------------------------- MODULE DurableStore -----------------------------
(***************************************************************************)
(* What a serializer promises the processor, whatever its files look like: *)
(* a run in memory, and on disk a checkpoint and the records appended      *)
(* since.  A checkpoint copies the run, publishes the copy and only then   *)
(* forgets the records; no record is appended in between.  When the        *)
(* process dies memory is lost, and what comes back is the checkpoint with *)
(* the records played over it.                                             *)
(***************************************************************************)
EXTENDS Maps

CONSTANTS
  Ids, Values, \* of jobs
  Checkpoints  \* what may be on disk in the beginning

VARIABLES
  memory,      \* the run
  base,        \* the checkpoint
  logged,      \* the last record of each job in the log
  copy, stage  \* the checkpoint under way: "none", "copied" or "published"

vars == <<memory, base, logged, copy, stage>>

Nothing == [id \in {} |-> 0]
Recovered == Overlay(logged, base)

Init ==
  /\ base \in Checkpoints
  /\ memory = base
  /\ logged = Nothing /\ copy = Nothing /\ stage = "none"

(* AddJob and UpdateJob.                                                   *)
Update ==
  /\ \E id \in Ids, v \in Values : memory' = Put(memory, id, v)
  /\ UNCHANGED <<base, logged, copy, stage>>

MutantAppendAnyTime(id) ==
  /\ logged' = Put(logged, id, memory[id])
  /\ UNCHANGED <<memory, base, copy, stage>>

(* JobUpdate answers nil.                                                  *)
Append(id) ==
  /\ stage = "none"
  /\ logged' = Put(logged, id, memory[id])
  /\ UNCHANGED <<memory, base, copy, stage>>

Snapshot ==
  /\ stage = "none"
  /\ copy' = memory
  /\ stage' = "copied"
  /\ UNCHANGED <<memory, base, logged>>

Publish ==
  /\ stage = "copied"
  /\ base' = copy
  /\ stage' = "published"
  /\ UNCHANGED <<memory, logged, copy>>

MutantRemoveEarly ==
  /\ stage \in {"copied", "published"}
  /\ logged' = Nothing
  /\ UNCHANGED <<memory, base, copy, stage>>

Remove ==
  /\ stage = "published"
  /\ logged' = Nothing
  /\ UNCHANGED <<memory, base, copy, stage>>

(* It ends, or fails on the way.                                           *)
EndCheckpoint ==
  /\ stage # "none"
  /\ stage' = "none"
  /\ copy' = Nothing
  /\ UNCHANGED <<memory, base, logged>>

(* The record that was being appended may have arrived, and the copy that  *)
(* was being published.                                                    *)
Crash ==
  /\ \/ logged' = logged
     \/ \E id \in DOMAIN memory : logged' = Put(logged, id, memory[id])
  /\ base' \in {base} \cup (IF stage = "copied" THEN {copy} ELSE {})
  /\ memory' = Overlay(logged', base')
  /\ copy' = Nothing /\ stage' = "none"

Next ==
  \/ Update
  \/ \E id \in DOMAIN memory : Append(id)
  \/ Snapshot \/ Publish \/ Remove \/ EndCheckpoint
  \/ Crash

Spec == Init /\ [][Next]_vars
=============================================================================
