---------------------------- MODULE JsonSerializer ----------------------------
(***************************************************************************)
(* JsonSerializer of json_serializer.go at the level of its files: the     *)
(* checkpoint (.json, written through .json.tmp), the active append log    *)
(* and the sealed segments.  Three goroutines act on them: the client (the *)
(* processor's coordinator, which changes the Run in memory and then calls *)
(* JobUpdate), the checkpoint loop, and whoever calls Close.  The process  *)
(* may die between any two steps and be started again.                     *)
(*                                                                         *)
(* A job's content is a version number: each UpdateJob makes a newer one.  *)
(* One step is one file operation.  A file operation that has returned     *)
(* survives the process; only the line of an append that has not been      *)
(* synced can be torn, and the checkpoint that is just being written.      *)
(***************************************************************************)
EXTENDS Integers, Sequences, FiniteSets, Maps

CONSTANTS
  Ids,                \* job ids
  InitialCheckpoints, \* contents of .json before the first start, or NoFile
  Faults,             \* subset of FaultKinds that may happen
  Uses,               \* subset of UseKinds: what the program does with the store
  MaxVersion,         \* bound: versions per job
  MaxStarts,          \* bound: calls of NewJsonSerializer
  MaxFailures,        \* bound: failures of a checkpoint
  NoFile, Torn        \* a file that is not there; one that does not parse

FaultKinds == {"crash",      \* the process is killed
               "power",      \* ... and the line being appended is lost or torn
               "checkpoint", \* a file operation of a checkpoint fails
               "append"}     \* writing an append line fails half-way
UseKinds == {"add",          \* AddJob on the run before it is processed
             "sync",         \* CheckpointSync between two completions
             "reload",       \* Deserialize before the first completion
             "late",         \* ... or between two of them
             "handler"}      \* Close is called while Exec still runs

Version == 1 .. MaxVersion
Content == UNION {[S -> Version] : S \in SUBSET Ids}
Record == [id : Ids, v : Version]
Line == Record \cup {Torn}

ASSUME StoreAssumption ==
  /\ IsFiniteSet(Ids)
  /\ InitialCheckpoints \subseteq Content \cup {NoFile}
  /\ Faults \subseteq FaultKinds
  /\ Uses \subseteq UseKinds
  /\ MaxVersion \in Nat \ {0}
  /\ MaxStarts \in Nat \ {0}
  /\ MaxFailures \in Nat
  /\ NoFile \notin Content \cup {Torn} /\ NoFile \notin Seq(Line)
  /\ Torn \notin Content \cup Record

VARIABLES
  json, tmp,   \* .json and .json.tmp: a Content, NoFile or Torn
  active,      \* .incremental.jsonl: a sequence of lines, or NoFile
  sealed,      \* .incremental.sealed.N.jsonl: N -> sequence of lines
  phase,       \* the process: "down", "load", "materialize", "up"
  run,         \* w.run.Jobs
  appendFile,  \* is w.appendFile open (not nil)?
  sealSeq,     \* w.sealSeq
  mu,          \* holder of appendMu: "free", "update" or a checkpoint's caller
  at,          \* next step of the checkpoint under way
  snap,        \* its copy of the Run
  loop,        \* the goroutine checkpointLoop
  backoff,     \* is ckBackoffUntil in the future?
  pending,     \* checkpointPending
  kick,        \* the kick channel (one place) holds a kick
  closer,      \* the goroutine that calls Close
  client,      \* the goroutine that completes jobs
  batch, k,    \* the records of a completion; how many of them are appended
  reader,      \* next step of loadCheckpointAndReplay
  found, list, \* the Run it builds, the segments it has listed
  starts,      \* bound: number of starts
  failures,    \* bound: number of failed checkpoints
  acked,       \* history: id -> version of the last JobUpdate answered nil
  refused      \* history: JobUpdate answered "closed" before any Close

files == <<json, tmp, active, sealed>>
store == <<phase, run, appendFile, sealSeq>>
checkpoint == <<mu, at, snap>>
looping == <<loop, backoff, pending, kick>>
clientVars == <<client, batch, k>>
loading == <<reader, found, list>>
history == <<starts, failures, acked, refused>>
vars == <<files, store, checkpoint, looping, closer, clientVars, loading, history>>

-----------------------------------------------------------------------------
(* Replay                                                                  *)

(* A torn line says nothing.                                               *)
Intact(log) == {i \in DOMAIN log : log[i] # Torn}
Recorded(log) == {log[i].id : i \in Intact(log)}
Records(log, id) == {i \in Intact(log) : log[i].id = id}

MutantRecord(log, id) ==
  CHOOSE i \in Records(log, id) : \A j \in Records(log, id) : i <= j

(* Of each job the last record of a log counts.                            *)
LastRecord(log, id) ==
  CHOOSE i \in Records(log, id) : \A j \in Records(log, id) : j <= i

Said(log) == [id \in Recorded(log) |-> log[LastRecord(log, id)].v]

(* A log played over a Run.                                                *)
Replay(content, log) == Overlay(Said(log), content)

Lines(log) == IF log = NoFile THEN <<>> ELSE log
Readable(log) == \A i \in DOMAIN log : log[i] # Torn

NoJobs == [id \in {} |-> 1]

Init ==
  /\ json \in InitialCheckpoints
  /\ tmp = NoFile /\ active = NoFile /\ sealed = [n \in {} |-> <<>>]
  /\ phase = "down" /\ run = NoJobs /\ appendFile = FALSE /\ sealSeq = 0
  /\ mu = "free" /\ at = "off" /\ snap = NoJobs
  /\ loop = "off" /\ backoff = FALSE /\ pending = FALSE /\ kick = FALSE
  /\ closer = "no" /\ client = "off"
  /\ reader = "off" /\ found = NoJobs /\ list = <<>>
  /\ batch = <<>> /\ k = 0
  /\ starts = 0 /\ failures = 0 /\ acked = NoJobs /\ refused = FALSE

(* The process ends: memory is gone, the files stay.  batch stays as       *)
(* history: the completion that was under way.                             *)
ProcessEnds ==
  /\ phase' = "down" /\ run' = NoJobs /\ appendFile' = FALSE /\ sealSeq' = 0
  /\ mu' = "free" /\ at' = "off" /\ snap' = NoJobs
  /\ loop' = "off" /\ backoff' = FALSE /\ pending' = FALSE /\ kick' = FALSE
  /\ closer' = "no" /\ client' = "off"
  /\ reader' = "off" /\ found' = NoJobs /\ list' = <<>>
  /\ UNCHANGED batch

Crash ==
  /\ "crash" \in Faults
  /\ phase # "down"
  /\ ProcessEnds
  /\ UNCHANGED <<files, k, history>>

(* The line of a JobUpdate that has not been synced.                       *)
Synced == IF mu = "update" THEN SubSeq(active, 1, Len(active) - 1) ELSE Lines(active)

PowerLoss ==
  /\ "power" \in Faults
  /\ mu = "update"
  /\ active' \in {Synced, Append(Synced, Torn)}
  /\ ProcessEnds
  /\ UNCHANGED <<json, tmp, sealed, k, history>>

-----------------------------------------------------------------------------
(* NewJsonSerializer: recoverCheckpointAtomic, then the load.  A .old file *)
(* is never written by this code.                                          *)
Start ==
  /\ phase = "down"
  /\ starts < MaxStarts
  /\ starts' = starts + 1
  /\ json' = IF json = NoFile THEN tmp ELSE json
  /\ tmp' = NoFile
  /\ phase' = "load" /\ reader' = "json"
  /\ UNCHANGED <<active, sealed, run, appendFile, sealSeq, checkpoint, looping, closer,
                 clientVars, found, list, failures, acked, refused>>

(* loadCheckpointAndReplay, for NewJsonSerializer and for Deserialize.     *)
Numbered(S) == CHOOSE s \in [1 .. Cardinality(S) -> S] :
                 \A i, j \in 1 .. Cardinality(S) : i < j => s[i] < s[j]

Reads(from, to) ==
  /\ reader = from /\ reader' = to
  /\ UNCHANGED <<files, appendFile, sealSeq, snap, looping, closer, batch, k, history>>

StaysInPhase == UNCHANGED <<phase, run, mu, at, client>>

ReadCheckpoint ==
  /\ Reads("json", "list")
  /\ json # Torn
  /\ found' = IF json = NoFile THEN NoJobs ELSE json
  /\ StaysInPhase /\ UNCHANGED list

ListSealedSegments ==
  /\ Reads("list", "sealed")
  /\ list' = Numbered(DOMAIN sealed)
  /\ StaysInPhase /\ UNCHANGED found

ReplaySealed ==
  /\ Reads("sealed", "sealed")
  /\ list # <<>>
  /\ Head(list) \in DOMAIN sealed
  /\ Readable(sealed[Head(list)])
  /\ found' = Replay(found, sealed[Head(list)])
  /\ list' = Tail(list)
  /\ StaysInPhase

MutantForgetActive == found
ReplayedActive == Replay(found, Lines(active))

(* The load is done: NewJsonSerializer goes on to write a clean checkpoint, *)
(* Deserialize replaces the live Run.                                      *)
ReplayActive ==
  /\ Reads("sealed", "off")
  /\ list = <<>>
  /\ Readable(Lines(active))
  /\ run' = ReplayedActive
  /\ found' = NoJobs
  /\ UNCHANGED list
  /\ \/ /\ phase = "load"
        /\ phase' = "materialize" /\ mu' = "open" /\ at' = "snapshot"
        /\ UNCHANGED client
     \/ /\ phase = "up" /\ client' = "update"
        /\ UNCHANGED <<phase, mu, at>>

Unreadable ==
  \/ reader = "json" /\ json = Torn
  \/ /\ reader = "sealed" /\ list # <<>>
     /\ Head(list) \in DOMAIN sealed => ~Readable(sealed[Head(list)])
  \/ reader = "sealed" /\ list = <<>> /\ ~Readable(Lines(active))

ReadFails ==
  /\ Unreadable
  /\ \/ phase = "load" /\ ProcessEnds
     \/ /\ phase = "up"
        /\ reader' = "off" /\ found' = NoJobs /\ list' = <<>> /\ client' = "update"
        /\ UNCHANGED <<store, checkpoint, looping, closer, batch>>
  /\ UNCHANGED <<files, k, history>>

-----------------------------------------------------------------------------
(* doCheckpointRotateWriteDelete, called by the loop, by Close and by the  *)
(* client's CheckpointSync; materializeCleanIncremental and openAppend are *)
(* the same steps without the rotation.  appendMu is held throughout.      *)

MutantKeepHandle == appendFile' = appendFile
CloseHandle == appendFile' = FALSE

LockAndClose(by) ==
  /\ mu = "free" /\ mu' = by
  /\ CloseHandle
  /\ at' = "rotate"
  /\ UNCHANGED <<files, phase, run, sealSeq, snap, backoff, pending, kick, batch, k,
                 loading, history>>

Goes(from, to) ==
  /\ at = from /\ at' = to
  /\ UNCHANGED <<phase, run, appendFile, mu, looping, closer, clientVars, loading, history>>

RotateLog ==
  /\ Goes("rotate", "snapshot")
  /\ IF active = NoFile THEN UNCHANGED <<active, sealed, sealSeq>>
     ELSE /\ sealed' = Put(sealed, sealSeq + 1, active)
          /\ active' = NoFile
          /\ sealSeq' = sealSeq + 1
  /\ UNCHANGED <<json, tmp, snap>>

SnapshotRun == Goes("snapshot", "create") /\ snap' = run /\ UNCHANGED <<files, sealSeq>>

MutantCreateInPlace ==
  /\ Goes("create", "write") /\ json' = Torn
  /\ UNCHANGED <<tmp, active, sealed, sealSeq, snap>>

CreateTmp ==
  /\ Goes("create", "write") /\ tmp' = Torn
  /\ UNCHANGED <<json, active, sealed, sealSeq, snap>>

WriteTmp ==
  /\ Goes("write", "publish") /\ tmp' = snap
  /\ UNCHANGED <<json, active, sealed, sealSeq, snap>>

MutantUnlinkFirst ==
  /\ IF json = NoFile THEN Goes("publish", "remove") /\ json' = tmp /\ tmp' = NoFile
     ELSE Goes("publish", "publish") /\ json' = NoFile /\ UNCHANGED tmp
  /\ UNCHANGED <<active, sealed, sealSeq, snap>>

Publish ==
  /\ Goes("publish", "remove") /\ json' = tmp /\ tmp' = NoFile
  /\ UNCHANGED <<active, sealed, sealSeq, snap>>

(* removeAllAppendArtifactsLocked removes one file after the other, in the *)
(* order of their names: the active log comes before the sealed segments.  *)
RemoveSegment ==
  /\ Goes("remove", "remove")
  /\ IF active # NoFile THEN active' = NoFile /\ UNCHANGED sealed
     ELSE \E n \in DOMAIN sealed :
            /\ \A m \in DOMAIN sealed : n <= m
            /\ sealed' = [m \in DOMAIN sealed \ {n} |-> sealed[m]]
            /\ UNCHANGED active
  /\ UNCHANGED <<json, tmp, sealSeq, snap>>

MutantNoActive == active = NoFile
NoSegments == active = NoFile /\ DOMAIN sealed = {}

RemoveEnds ==
  /\ Goes("remove", "reopen")
  /\ NoSegments
  /\ sealSeq' = 0
  /\ UNCHANGED <<files, snap>>

(* appendMu is released; how each caller goes on after its checkpoint.     *)
Unlock(loops, closes) ==
  /\ mu' = "free" /\ at' = "off" /\ snap' = NoJobs
  /\ loop' = IF mu = "loop" THEN loops ELSE IF mu = "open" THEN "select" ELSE loop
  /\ closer' = IF mu = "close" THEN closes ELSE closer
  /\ client' = IF mu \in {"sync", "open"} THEN "update" ELSE client
  /\ UNCHANGED <<backoff, pending, kick, loading>>

(* The append file is created again.  NewJsonSerializer then starts the    *)
(* checkpoint loop and returns.                                            *)
Reopen ==
  /\ at = "reopen"
  /\ active' = <<>> /\ appendFile' = TRUE
  /\ Unlock("ok", "final")
  /\ phase' = "up"
  /\ batch' = IF mu = "open" THEN <<>> ELSE batch
  /\ k' = IF mu = "open" THEN 0 ELSE k
  /\ UNCHANGED <<json, tmp, sealed, run, sealSeq, history>>

(* An operation of the checkpoint fails: the caller gets the error, the    *)
(* segments stay, and so does w.appendFile = nil.                          *)
CheckpointFails ==
  /\ "checkpoint" \in Faults
  /\ failures < MaxFailures /\ failures' = failures + 1
  /\ at # "off"
  /\ IF at = "write" THEN tmp' \in {NoFile, Torn, snap} ELSE UNCHANGED tmp
  /\ IF mu = "open" THEN ProcessEnds ELSE Unlock("err", "error") /\ UNCHANGED <<store, batch>>
  /\ UNCHANGED <<json, active, sealed, k, starts, acked, refused>>

-----------------------------------------------------------------------------
(* checkpointLoop and runCheckpoint.  The ticker (10 s) may fire at any    *)
(* time; as there is one, JobUpdate does not kick the loop.                *)
(* checkpointBusy is never found set: only this goroutine sets it.         *)

LoopOnly == UNCHANGED <<files, store, checkpoint, closer, clientVars, loading, history>>

LoopWakes ==
  /\ loop = "select"
  /\ kick' \in {kick, FALSE}
  /\ IF backoff THEN pending' = TRUE /\ UNCHANGED loop
     ELSE loop' = "begin" /\ UNCHANGED pending
  /\ UNCHANGED backoff /\ LoopOnly

LoopRotates ==
  /\ loop = "begin"
  /\ LockAndClose("loop")
  /\ loop' = "checkpoint"
  /\ UNCHANGED <<closer, client>>

MutantOnlySuccess == loop = "ok"
CheckpointReturned == loop \in {"ok", "err"}

(* The outcome is noted; a wake-up that came during a backoff is repeated. *)
LoopEnds ==
  /\ CheckpointReturned
  /\ backoff' = (loop = "err")
  /\ kick' = (kick \/ pending)
  /\ pending' = FALSE
  /\ loop' = "select"
  /\ LoopOnly

(* Time passes: 1, 2, 4, 8 or 16 seconds.                                  *)
BackoffElapses == backoff /\ backoff' = FALSE /\ UNCHANGED <<loop, pending, kick>> /\ LoopOnly

LoopStops ==
  /\ loop = "select"
  /\ closer = "stop"
  /\ loop' = "done"
  /\ UNCHANGED <<backoff, pending, kick>> /\ LoopOnly

-----------------------------------------------------------------------------
(* Close.  Called after Exec, it finds the client between two completions; *)
(* from a signal handler, anywhere.                                        *)
Closes(from, to) ==
  /\ closer = from /\ closer' = to
  /\ UNCHANGED <<files, phase, run, sealSeq, checkpoint, looping, clientVars, loading, history>>

Close ==
  /\ phase = "up"
  /\ client = "update" \/ "handler" \in Uses
  /\ Closes("no", "stop") /\ UNCHANGED appendFile

MutantCloseUnsynced == loop = "done" /\ Closes("stop", "final") /\ UNCHANGED appendFile

CloseRotates ==
  /\ closer = "stop"
  /\ loop = "done"
  /\ LockAndClose("close")
  /\ closer' = "sync"
  /\ UNCHANGED <<loop, client>>

CloseAppendFile == mu = "free" /\ Closes("final", "closed") /\ appendFile' = FALSE

(* The program ends in an orderly way.                                     *)
Exit ==
  /\ closer \in {"closed", "error"}
  /\ ProcessEnds
  /\ UNCHANGED <<files, k, history>>

-----------------------------------------------------------------------------
(* The client: AddJob and Deserialize before the run is processed, then    *)
(* completions as Processor.handleReturn makes them: the job and the jobs  *)
(* it kicks are changed in the Run, then appended one by one.              *)
Idle == client = "update" /\ (closer = "no" \/ "handler" \in Uses)

RunOnly == UNCHANGED <<files, phase, appendFile, sealSeq, checkpoint, looping, closer, k,
                       loading, history>>

AddJob(id) ==
  /\ "add" \in Uses
  /\ Idle
  /\ batch = <<>>
  /\ id \notin DOMAIN run
  /\ run' = Put(run, id, 1)
  /\ RunOnly /\ UNCHANGED <<client, batch>>

NextVersion(id) == IF id \in DOMAIN run THEN run[id] + 1 ELSE 1

UpdateJob(id, records) ==
  /\ NextVersion(id) <= MaxVersion
  /\ run' = Put(run, id, NextVersion(id))
  /\ batch' = Append(records, [id |-> id, v |-> NextVersion(id)])
  /\ RunOnly

CompleteJob(id) == Idle /\ id \in DOMAIN run /\ UpdateJob(id, <<>>) /\ client' = "kick"

(* A completion kicks at most one job here.                                *)
KickJob(id) ==
  /\ client = "kick"
  /\ id # batch[1].id
  /\ UpdateJob(id, batch)
  /\ client' = "persist"

Persists == client \in {"kick", "persist"} /\ mu = "free"

(* JobUpdate: Encode writes the line, Sync makes it durable.               *)
JobUpdateWrites ==
  /\ Persists /\ appendFile
  /\ mu' = "update"
  /\ active' = Append(active, batch[k + 1])
  /\ client' = "sync"
  /\ UNCHANGED <<json, tmp, sealed, store, at, snap, looping, closer, batch, k, loading, history>>

JobUpdateReturns ==
  /\ mu = "update"
  /\ mu' = "free"
  /\ acked' = Put(acked, batch[k + 1].id, batch[k + 1].v)
  /\ IF k + 1 = Len(batch) THEN k' = 0 /\ client' = "update"
                           ELSE k' = k + 1 /\ client' = "persist"
  /\ UNCHANGED <<files, store, at, snap, looping, closer, batch, loading,
                 starts, failures, refused>>

(* "json serializer closed": the processor ends the program (log.Fatalf).  *)
MutantNoLock == client \in {"kick", "persist"} /\ ~appendFile
RefusesUpdate == Persists /\ ~appendFile

JobUpdateRefused ==
  /\ RefusesUpdate
  /\ refused' = (refused \/ closer = "no")
  /\ ProcessEnds
  /\ UNCHANGED <<files, k, starts, failures, acked>>

(* The write fails, perhaps half-way, or Sync does, and again the program  *)
(* ends.                                                                   *)
JobUpdateFails ==
  /\ "append" \in Faults
  /\ Persists /\ appendFile
  /\ active' \in {active, Append(active, Torn), Append(active, batch[k + 1])}
  /\ ProcessEnds
  /\ UNCHANGED <<json, tmp, sealed, k, history>>

CheckpointSync ==
  /\ "sync" \in Uses
  /\ Idle
  /\ LockAndClose("sync")
  /\ client' = "checkpoint"
  /\ UNCHANGED <<loop, closer>>

Deserialize ==
  /\ "reload" \in Uses
  /\ batch = <<>> \/ "late" \in Uses
  /\ Idle
  /\ reader' = "json"
  /\ client' = "reload"
  /\ UNCHANGED <<files, store, checkpoint, looping, closer, batch, k, found, list, history>>

-----------------------------------------------------------------------------
Load == ReadCheckpoint \/ ListSealedSegments \/ ReplaySealed \/ ReplayActive \/ ReadFails
Checkpoint ==
  \/ RotateLog \/ SnapshotRun \/ CreateTmp \/ WriteTmp \/ Publish
  \/ RemoveSegment \/ RemoveEnds \/ Reopen
CheckpointLoop == LoopWakes \/ LoopRotates \/ LoopEnds \/ LoopStops
Closer == CloseRotates \/ CloseAppendFile
Client ==
  \/ \E id \in Ids : AddJob(id) \/ CompleteJob(id) \/ KickJob(id)
  \/ JobUpdateWrites \/ JobUpdateReturns \/ JobUpdateRefused \/ JobUpdateFails
  \/ CheckpointSync \/ Deserialize

Next ==
  \/ Start \/ Load
  \/ Checkpoint \/ CheckpointFails
  \/ CheckpointLoop \/ BackoffElapses
  \/ Close \/ Closer \/ Exit
  \/ Client
  \/ Crash \/ PowerLoss

Spec == Init /\ [][Next]_vars

(* Each goroutine goes on when it can, the ticker fires, time passes; Go's *)
(* mutexes starve nobody, and a select that is ready for stop again and    *)
(* again takes it.  Whether the client completes another job is its own    *)
(* affair, but a JobUpdate it has begun comes to its end.                  *)
Fairness ==
  /\ WF_vars(Start) /\ WF_vars(Load) /\ WF_vars(Checkpoint)
  /\ WF_vars(LoopWakes) /\ SF_vars(LoopRotates) /\ WF_vars(LoopEnds) /\ SF_vars(LoopStops)
  /\ WF_vars(BackoffElapses)
  /\ SF_vars(CloseRotates) /\ SF_vars(CloseAppendFile)
  /\ WF_vars(JobUpdateReturns)

FairSpec == Spec /\ Fairness

-----------------------------------------------------------------------------
TypeOK ==
  /\ json \in Content \cup {NoFile, Torn} /\ tmp \in Content \cup {NoFile, Torn}
  /\ active = NoFile \/ active \in Seq(Line)
  /\ DOMAIN sealed \subseteq Nat \ {0} /\ \A n \in DOMAIN sealed : sealed[n] \in Seq(Line)
  /\ phase \in {"down", "load", "materialize", "up"}
  /\ run \in Content /\ snap \in Content /\ found \in Content
  /\ appendFile \in BOOLEAN /\ appendFile => active # NoFile
  /\ sealSeq \in Nat
  /\ mu \in {"free", "update", "open", "loop", "close", "sync"}
  /\ at \in {"off", "rotate", "snapshot", "create", "write", "publish", "remove",
               "reopen"}
  /\ (at = "off") <=> (mu \in {"free", "update"})
  /\ loop \in {"off", "select", "begin", "checkpoint", "ok", "err", "done"}
  /\ (loop = "checkpoint") <=> (mu = "loop")
  /\ backoff \in BOOLEAN /\ pending \in BOOLEAN /\ kick \in BOOLEAN
  /\ closer \in {"no", "stop", "sync", "final", "closed", "error"}
  /\ client \in {"off", "update", "kick", "persist", "sync", "checkpoint", "reload"}
  /\ (client = "sync") <=> (mu = "update")
  /\ batch \in Seq(Record) /\ k \in Nat
  /\ client \in {"kick", "persist", "sync"} => k < Len(batch)
  /\ reader \in {"off", "json", "list", "sealed"} /\ list \in Seq(Nat)
  /\ acked \in Content
  /\ refused \in BOOLEAN

(* What the next NewJsonSerializer makes of the files, if a line that does *)
(* not parse did not stop it.                                              *)
Base ==
  LET file == IF json = NoFile THEN tmp ELSE json
  IN  IF file \in {NoFile, Torn} THEN NoJobs ELSE file

(* Segments are replayed in the order of their numbers.                    *)
Segments(id) == {n \in DOMAIN sealed : id \in Recorded(sealed[n])}
LastSegment(id) == CHOOSE n \in Segments(id) : \A m \in Segments(id) : m <= n

InSegments ==
  [id \in UNION {Recorded(sealed[n]) : n \in DOMAIN sealed} |-> Said(sealed[LastSegment(id)])[id]]

Appended(log) == Replay(InSegments, log)

Recovered == Overlay(Appended(Lines(active)), Base)

(* Once JobUpdate has answered nil the files hold that version of the job   *)
(* or a newer one, at every step of every checkpoint, start and failure     *)
(* (json_serializer.go:582, "sealed segments remain on disk and will be      *)
(* replayed on restart").                                                   *)
Durable ==
  \A id \in DOMAIN acked : id \in DOMAIN Recovered /\ Recovered[id] >= acked[id]

(* Between two completions a crash resurrects nothing: whatever the files   *)
(* say of a job is its present version, though old segments are replayed    *)
(* over new checkpoints (json_serializer.go:304-313, 604-611).              *)
NothingStale ==
  phase = "up" /\ client = "update" =>
    \A id \in DOMAIN Recovered : id \in DOMAIN run /\ Recovered[id] = run[id]

(* There is never more than one segment, sealed or active, so a rotation    *)
(* overwrites none although the numbers start at 1 again after every        *)
(* checkpoint and every start (json_serializer.go:589, 597-602, 638).            *)
OneSegment ==
  /\ Cardinality(DOMAIN sealed) <= 1
  /\ active # NoFile => DOMAIN sealed = {}

(* After Close the checkpoint holds the whole Run and the segments are      *)
(* empty (json_serializer.go:58-60, 699-702).                               *)
CloseMerges ==
  closer = "closed" => json = run /\ DOMAIN sealed = {} /\ active = <<>>

(* A checkpoint is whole or not there, the very first one excepted: nothing *)
(* has been acknowledged before it, and nobody has come to rely on it.  A   *)
(* torn line is the last line of the last segment (json_serializer.go:27,   *)
(* 656-685).                                                                *)
OnlyTheTailIsTorn ==
  /\ json = Torn => acked = NoJobs
  /\ Readable(SubSeq(Lines(active), 1, Len(Lines(active)) - 1))
  /\ \A n \in DOMAIN sealed :
        Readable(SubSeq(sealed[n], 1, Len(sealed[n]) - 1))

(* JobUpdate finds the append file missing only after Close or after a      *)
(* checkpoint that failed, never in the middle of one                       *)
(* (json_serializer.go:584-586).                                            *)
RefusedOnlyAfterFailure == refused => failures > 0

(* Deserialize, called before a job has completed, gives back the Run that   *)
(* NewJsonSerializer has loaded or fails, although it reads one file after  *)
(* the other without a lock while the loop renames and removes them         *)
(* (json_serializer.go:690).                                                *)
ReloadsTheSame == [][client = "reload" /\ phase' = "up" => run' = run]_vars

(* JobUpdate never finds the append file missing while nobody has called    *)
(* Close (json_serializer.go:584-585, "JobUpdate never observes a nil       *)
(* handle between rotate and recreate").                                    *)
NeverSpuriouslyClosed == ~refused

(* A job that was kicked is recovered with the completion that kicked it    *)
(* (run.go:12-14, "if you kill the processor and you have a serializaer,    *)
(* you can restart using it at any time").                                  *)
Has(record) == record.id \in DOMAIN Recovered /\ Recovered[record.id] >= record.v

ForkKept ==
  phase = "down" /\ Len(batch) = 2 => (Has(batch[1]) => Has(batch[2]))

(* ... and no kicked job is recovered without it: the restarted run would   *)
(* execute the parent again, and fork again over a job that exists.         *)
ForkOnce ==
  phase = "down" /\ Len(batch) = 2 => (Has(batch[2]) => Has(batch[1]))

(* What has been appended is merged into a checkpoint in the end, however   *)
(* many checkpoints fail first, unless the store is closed or the process   *)
(* gone (json_serializer.go:515-558).                                       *)
Unmerged == DOMAIN sealed # {} \/ active \notin {NoFile, <<>>}
Merges == (phase = "up" /\ Unmerged) ~>
            (~Unmerged \/ phase = "down" \/ closer \in {"closed", "error"})

(* Close returns (json_serializer.go:705-735).                              *)
CloseReturns == (closer = "stop") ~> (closer \in {"closed", "error", "no"})

-----------------------------------------------------------------------------
(* Refinement: the log is what all segments say together; a line counts    *)
(* once it is synced, a checkpoint once it can be recovered.  A process    *)
(* that is down has what its next start will read.                         *)
Stage ==
  CASE at \in {"off", "rotate", "snapshot"} -> "none"
    [] at \in {"create", "write"} -> "copied"
    [] at = "publish" -> IF json = NoFile THEN "published" ELSE "copied"
    [] at \in {"remove", "reopen"} -> "published"

Store == INSTANCE DurableStore WITH
  Values <- Version,
  Checkpoints <- {IF file = NoFile THEN NoJobs ELSE file : file \in InitialCheckpoints},
  memory <- IF phase \in {"materialize", "up"} THEN run ELSE Overlay(Appended(Synced), Base),
  base <- Base, logged <- Appended(Synced), copy <- snap, stage <- Stage

(* The files, renames and segments together are one log and one checkpoint: *)
(* a checkpoint takes effect at once and forgets only what it holds, and    *)
(* every start has the run that they say (json_serializer.go:196-204,       *)
(* 579-618).                                                                *)
ImplementsStore == Store!Spec
=============================================================================
