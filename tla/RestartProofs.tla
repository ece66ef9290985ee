----------------------------- MODULE RestartProofs -----------------------------
(***************************************************************************)
(* What a crash may cost, for every number of crashes and every moment at  *)
(* which they happen: what is lost, for every workflow, and what is done   *)
(* twice, for every workflow without a cycle.                              *)
(***************************************************************************)
EXTENDS Restart, ForkProofs

-----------------------------------------------------------------------------
(* Types: the files hold runs.                                             *)
RunsOnDisk == IsJobMap(base) /\ IsJobMap(logged) /\ IsJobMap(copy)

(* What is on disk of a job is its present state, unless the Return of the *)
(* job, or of the one that kicked it, is being handled; a job of which     *)
(* there is nothing on disk is as it was added.                            *)
AsAdded(id) == \E run \in InitialRuns : id \in DOMAIN run /\ run[id] = jobs[id]

Kept ==
  /\ Unsaved \subseteq DOMAIN jobs
  /\ DOMAIN base \cup DOMAIN logged \subseteq DOMAIN jobs
  /\ \A id \in DOMAIN jobs \ Unsaved :
       /\ id \in DOMAIN logged => logged[id] = jobs[id]
       /\ id \in DOMAIN base \ DOMAIN logged => base[id] = jobs[id]
       /\ id \notin DOMAIN base \cup DOMAIN logged => AsAdded(id)

(* The copy that a checkpoint is about to publish, or has published, holds *)
(* everything that the records to be removed say.                          *)
HoldsAll(f) ==
  /\ DOMAIN f \subseteq DOMAIN jobs
  /\ \A id \in DOMAIN jobs \ Unsaved : id \in DOMAIN f /\ f[id] = jobs[id]

CopyComplete ==
  /\ stage = "copied" => HoldsAll(copy)
  /\ stage = "published" => HoldsAll(base)

DiskAgrees == RunsOnDisk /\ Kept /\ CopyComplete

(* Of a Return that the coordinator panics over nothing is recorded: until  *)
(* the program is dead the files say nothing that was never so, no more.    *)
Within ==
  /\ DOMAIN base \cup DOMAIN logged \subseteq DOMAIN jobs
  /\ stage = "copied" => DOMAIN copy \subseteq DOMAIN jobs

(* While the program is dead none of its goroutines exists and no          *)
(* checkpoint is under way.                                                *)
Down == ~up => main = "call" /\ stage = "none"

OnDisk ==
  /\ Books /\ Untouched /\ PanicCloses /\ Down /\ RunsOnDisk /\ Within
  /\ exit = "running" => DiskAgrees

-----------------------------------------------------------------------------
LEMMA NothingType == IsJobMap(NoRun) /\ IsJobMap(Store!Nothing) /\ DOMAIN NoRun = {}
                     /\ DOMAIN Store!Nothing = {}
BY FS_EmptySet DEF IsJobMap, NoRun, Store!Nothing

LEMMA StoreMaps ==
  /\ \A f, x, v : Store!Put(f, x, v) = Put(f, x, v)
  /\ \A new, old : Store!Overlay(new, old) = Overlay(new, old)
BY DEF Store!Put, Put, Store!Overlay, Overlay

LEMMA OverlayType ==
  ASSUME NEW f, IsJobMap(f), NEW g, IsJobMap(g)
  PROVE  IsJobMap(Overlay(f, g))
<1>1. DOMAIN Overlay(f, g) = DOMAIN f \cup DOMAIN g
  BY DEF Overlay
<1>2. IsFiniteSet(DOMAIN f \cup DOMAIN g)
  BY FS_Union DEF IsJobMap
<1>3. Overlay(f, g) \in [DOMAIN f \cup DOMAIN g -> StateName]
  BY DEF Overlay, IsJobMap
<1> QED  BY <1>1, <1>2, <1>3 DEF IsJobMap

-----------------------------------------------------------------------------
(* The steps of the processor                                              *)

LEMMA KeptUndisturbed ==
  ASSUME DiskAgrees, UNCHANGED <<jobs, storeVars>>, Unsaved' = Unsaved
  PROVE  DiskAgrees'
<1>1. UNCHANGED <<base, logged, copy, stage>>
  BY DEF storeVars
<1>2. \A id : AsAdded(id)' <=> AsAdded(id)
  BY DEF AsAdded
<1>3. (HoldsAll(copy)' <=> HoldsAll(copy)) /\ (HoldsAll(base)' <=> HoldsAll(base))
  BY <1>1 DEF HoldsAll
<1> QED  BY <1>1, <1>2, <1>3 DEF DiskAgrees, RunsOnDisk, Kept, CopyComplete

(* A job that moves is not on disk yet, and what is there of the others    *)
(* does not change.                                                        *)
LEMMA KeptMoved ==
  ASSUME DiskAgrees, UNCHANGED storeVars,
         NEW x, NEW s, jobs' = Put(jobs, x, s), Unsaved' = Unsaved \cup {x}
  PROVE  DiskAgrees'
<1>1. UNCHANGED <<base, logged, copy, stage>>
  BY DEF storeVars
<1>2. /\ DOMAIN jobs' = DOMAIN jobs \cup {x}
      /\ \A id \in DOMAIN jobs' \ Unsaved' : id \in DOMAIN jobs \ Unsaved /\ jobs'[id] = jobs[id]
  BY DEF Put
<1>3. \A id \in DOMAIN jobs' \ Unsaved' : AsAdded(id) => AsAdded(id)'
  BY <1>2 DEF AsAdded
<1>4. Kept'
  BY <1>1, <1>2, <1>3 DEF DiskAgrees, Kept
<1>5. (HoldsAll(copy) => HoldsAll(copy)') /\ (HoldsAll(base) => HoldsAll(base)')
  BY <1>1, <1>2 DEF HoldsAll
<1> QED  BY <1>1, <1>4, <1>5 DEF DiskAgrees, RunsOnDisk, CopyComplete

(* A record that is appended is one of a job as it is.                     *)
LEMMA KeptAppended ==
  ASSUME DiskAgrees, IsJobMap(jobs), NEW x \in DOMAIN jobs, UNCHANGED jobs, Store!Append(x),
         Unsaved' \subseteq Unsaved, Unsaved \subseteq Unsaved' \cup {x}
  PROVE  DiskAgrees'
<1>1. /\ stage = "none" /\ stage' = "none" /\ base' = base /\ copy' = copy
      /\ logged' = Put(logged, x, jobs[x])
  BY StoreMaps DEF Store!Append
<1>2. /\ DOMAIN logged' = DOMAIN logged \cup {x} /\ logged'[x] = jobs[x]
      /\ \A id \in DOMAIN logged : id # x => logged'[id] = logged[id]
  BY <1>1 DEF Put
<1>3. \A id : AsAdded(id)' <=> AsAdded(id)
  BY DEF AsAdded
<1>4. ASSUME NEW id \in DOMAIN jobs \ Unsaved'
      PROVE  /\ id \in DOMAIN logged' => logged'[id] = jobs[id]
             /\ id \in DOMAIN base \ DOMAIN logged' => base[id] = jobs[id]
             /\ id \notin DOMAIN base \cup DOMAIN logged' => AsAdded(id)
  <2>1. CASE id = x
    BY <1>2, <2>1
  <2>2. CASE id # x
    <3>1. id \in DOMAIN jobs \ Unsaved
      BY <1>4, <2>2
    <3> QED  BY <1>2, <2>2, <3>1 DEF DiskAgrees, Kept
  <2> QED  BY <2>1, <2>2
<1>5. Kept'
  BY <1>1, <1>2, <1>3, <1>4 DEF DiskAgrees, Kept
<1>6. x \in Id /\ jobs[x] \in StateName
  BY DEF IsJobMap
<1>7. IsJobMap(logged')
  BY <1>1, <1>6, PutType DEF DiskAgrees, RunsOnDisk
<1> QED  BY <1>1, <1>5, <1>7 DEF DiskAgrees, RunsOnDisk, CopyComplete

LEMMA RunsAgree ==
  ASSUME OnDisk, Runs(Step), exit' = "running"
  PROVE  DiskAgrees'
<1> USE DEF coordVars, workerVars, others, statusVars
<1>1. Step /\ [Next]_vars /\ (Appends => Store!Append(AppendedId))
      /\ (~Appends => UNCHANGED storeVars)
  BY DEF Runs, Next
<1>2. exit = "running"
  BY <1>1, ExitStays
<1>3. Books /\ IsJobMap(jobs) /\ Untouched /\ DiskAgrees /\ Unsaved \subseteq DOMAIN jobs
  BY <1>2 DEF OnDisk, DiskAgrees, Kept, Books, TypeOK
<1>4. proc \in {"kicks", "persist"} =>
        k \in Nat /\ Len(cur.kicks) \in Nat /\ k <= Len(cur.kicks)
  BY <1>3, LenProperties DEF Books, TypeOK, Return
<1>5. ASSUME UNCHANGED <<jobs, proc, cur, k>> PROVE DiskAgrees'
  <2>1. ~Appends
    BY <1>4, <1>5 DEF Appends
  <2>2. Unsaved' = Unsaved
    BY <1>5 DEF Unsaved, Kicked, KickId
  <2> QED  BY <1>1, <1>3, <1>5, <2>1, <2>2, KeptUndisturbed
<1>6. ASSUME UNCHANGED jobs, proc \notin {"kicks", "persist"}, proc' \notin {"kicks", "persist"}
      PROVE  DiskAgrees'
  <2>1. ~Appends /\ Unsaved' = Unsaved
    BY <1>6 DEF Appends, Unsaved
  <2> QED  BY <1>1, <1>3, <1>6, <2>1, KeptUndisturbed
<1>7. ASSUME HandleReturn PROVE DiskAgrees'
  <2> DEFINE rtn == Head(returnChan)
  <2>1. /\ proc \in {"select", "drain"} /\ proc' = "kicks" /\ cur' = rtn /\ k' = 0
        /\ jobs' = Put(jobs, rtn.id, rtn.state)
    BY <1>7 DEF HandleReturn
  <2> HIDE DEF rtn
  <2>2. ~Appends /\ Unsaved' = Unsaved \cup {rtn.id}
    BY <2>1 DEF Appends, Unsaved, Kicked
  <2> QED  BY <1>1, <1>3, <2>1, <2>2, KeptMoved
<1>8. ASSUME KickJob PROVE DiskAgrees'
  <2>1. /\ proc = "kicks" /\ proc' = "kicks" /\ cur' = cur /\ k' = k + 1
        /\ jobs' = Put(jobs, KickId(k), cur.kicks[k + 1])
    BY <1>8 DEF KickJob
  <2>2. 0 .. k' - 1 = (0 .. k - 1) \cup {k}
    BY <1>4, <2>1
  <2>3. Kicked(0, k)' = Kicked(0, k) \cup {KickId(k)}
    BY <2>1, <2>2 DEF Kicked, KickId
  <2>4. ~Appends /\ Unsaved' = Unsaved \cup {KickId(k)}
    BY <2>1, <2>3 DEF Appends, Unsaved
  <2> QED  BY <1>1, <1>3, <2>1, <2>4, KeptMoved
<1>9. ASSUME PersistJob PROVE DiskAgrees'
  <2>1. /\ proc = "kicks" /\ proc' = "persist" /\ k = Len(cur.kicks) /\ cur' = cur /\ k' = 0
        /\ jobs' = jobs
    BY <1>9 DEF PersistJob
  <2>2. Appends /\ AppendedId = cur.id
    BY <2>1 DEF Appends, AppendedId
  <2>3. Unsaved = {cur.id} \cup Kicked(0, k) /\ Unsaved' = Kicked(0, k)
    BY <2>1 DEF Unsaved, Kicked, KickId
  <2>4. cur.id \in DOMAIN jobs
    BY <1>3, <2>3
  <2> QED  BY <1>1, <1>3, <2>1, <2>2, <2>3, <2>4, KeptAppended
<1>10. ASSUME PersistKick PROVE DiskAgrees'
  <2>1. /\ proc = "persist" /\ proc' = "persist" /\ k < Len(cur.kicks) /\ cur' = cur
        /\ k' = k + 1 /\ jobs' = jobs
    BY <1>10 DEF PersistKick
  <2>2. Appends /\ AppendedId = KickId(k)
    BY <2>1 DEF Appends, AppendedId
  <2>3. k .. Len(cur.kicks) - 1 = {k} \cup (k + 1 .. Len(cur.kicks) - 1)
    BY <1>4, <2>1
  <2>4. Unsaved = Kicked(k, Len(cur.kicks)) /\ Unsaved' = Kicked(k + 1, Len(cur.kicks))
    BY <2>1 DEF Unsaved, Kicked, KickId
  <2>5. Unsaved = {KickId(k)} \cup Unsaved'
    BY <2>3, <2>4 DEF Kicked
  <2>6. KickId(k) \in DOMAIN jobs
    BY <1>3, <2>5
  <2> QED  BY <1>1, <1>3, <2>1, <2>2, <2>5, <2>6, KeptAppended
<1>11. ASSUME HandleReturnEnds PROVE DiskAgrees'
  <2>1. /\ proc = "persist" /\ proc' = "drain" /\ k = Len(cur.kicks) /\ k' = 0 /\ jobs' = jobs
    BY <1>11 DEF HandleReturnEnds
  <2>2. k .. Len(cur.kicks) - 1 = {} /\ k' # k + 1
    BY <1>4, <2>1
  <2>3. ~Appends /\ Unsaved = {} /\ Unsaved' = {}
    BY <2>1, <2>2 DEF Appends, Unsaved, Kicked
  <2> QED  BY <1>1, <1>3, <2>1, <2>3, KeptUndisturbed
<1>12. ASSUME NEW id \in todo, EnqueueJob(id) PROVE DiskAgrees'
  BY <1>5, <1>12 DEF EnqueueJob
<1>13. ASSUME \/ InitialStatus \/ CoordinatorSeesCancel \/ DrainEnds
              \/ CloseJobChannels \/ CloseReturnChan
       PROVE  DiskAgrees'
  BY <1>6, <1>13 DEF InitialStatus, CoordinatorSeesCancel, DrainEnds,
                     CloseJobChannels, CloseReturnChan
<1>14. ASSUME ExecStart PROVE DiskAgrees'
  BY <1>3, <1>6, <1>14 DEF ExecStart, Untouched
<1>15. ASSUME Cancel \/ ExecAllTerminal \/ ExecReturn PROVE DiskAgrees'
  BY <1>5, <1>15 DEF Cancel, ExecAllTerminal, ExecReturn
<1>16. ASSUME NEW w \in Workers, Worker(w) PROVE DiskAgrees'
  BY <1>5, <1>16 DEF Worker, WorkerSeesCancel, WorkerReceive, WorkerSeesClosed, WorkerExecutes,
                     WorkerDrops, WorkerSends, WorkerSendsOnClosed, Die
<1> QED
  BY <1>1, <1>7, <1>8, <1>9, <1>10, <1>11, <1>12, <1>13, <1>14, <1>15, <1>16, DyingSteps
  DEF Step, Coordinator

LEMMA JobsGrow ==
  ASSUME Step
  PROVE  DOMAIN jobs \subseteq DOMAIN jobs'
<1> USE DEF coordVars, workerVars, others, statusVars
<1>1. ASSUME Coordinator PROVE DOMAIN jobs \subseteq DOMAIN jobs'
  <2>1. ASSUME HandleReturn \/ HandleUnregistered \/ KickJob \/ KickUnregistered
        PROVE  DOMAIN jobs \subseteq DOMAIN jobs'
    BY <2>1 DEF HandleReturn, HandleUnregistered, KickJob, KickUnregistered, Put
  <2> QED
    BY <1>1, <2>1 DEF Coordinator, EnqueueJob, EnqueueUnregistered, InitialStatus,
                      CoordinatorSeesCancel, PersistJob, PersistKick, PersistFails,
                      HandleReturnEnds, DrainEnds, CloseJobChannels, CloseReturnChan, Die
<1>2. ASSUME NEW w \in Workers, Worker(w) PROVE jobs' = jobs
  BY <1>2 DEF Worker, WorkerSeesCancel, WorkerReceive, WorkerSeesClosed, WorkerExecutes,
              WorkerDrops, WorkerSends, WorkerSendsOnClosed, Die
<1>3. ASSUME Cancel \/ ExecAllTerminal \/ ExecStart \/ ExecReturn \/ ProgramDies
      PROVE  jobs' = jobs
  BY <1>3 DEF Cancel, ExecAllTerminal, ExecStart, ExecReturn, ProgramDies, Die
<1> QED  BY <1>1, <1>2, <1>3 DEF Step

(* Nobody appends who panics.                                              *)
LEMMA AppendsAlive ==
  ASSUME Books, PanicCloses, Runs(Step), Appends
  PROVE  exit' = "running"
<1> USE DEF coordVars, workerVars, others, statusVars
<1>1. Step /\ exit = "running" /\ proc \in {"kicks", "persist"}
  BY DEF Runs, Alive, Appends, PanicCloses, Closing
<1>2. ASSUME Coordinator PROVE exit' = exit
  <2>1. proc = "persist" => k' = k + 1 /\ k \in Nat
    BY DEF Appends, Books, TypeOK
  <2>2. (proc = "kicks" => proc' = "persist") /\ (proc = "persist" => k' # k)
    BY <2>1 DEF Appends
  <2>3. ~PersistFails
    BY <1>1, <2>2 DEF PersistFails, Die
  <2>4. ~KickUnregistered
    BY <1>1, <2>2 DEF KickUnregistered, Panic
  <2> QED
    BY <1>1, <1>2, <2>3, <2>4
    DEF Coordinator, EnqueueJob, EnqueueUnregistered, InitialStatus, CoordinatorSeesCancel,
        HandleReturn, HandleUnregistered, KickJob, PersistJob, PersistKick,
        HandleReturnEnds, DrainEnds, CloseJobChannels, CloseReturnChan
<1>3. ASSUME NEW w \in Workers, Worker(w) PROVE exit' = exit
  BY <1>1, <1>3 DEF PanicCloses, Worker, WorkerSeesCancel, WorkerReceive, WorkerSeesClosed,
                    WorkerExecutes, WorkerDrops, WorkerSends, WorkerSendsOnClosed
<1>4. ASSUME Cancel \/ ExecAllTerminal \/ ExecStart \/ ExecReturn \/ ProgramDies
      PROVE  exit' = exit
  BY <1>1, <1>4 DEF Cancel, ExecAllTerminal, ExecStart, ExecReturn, ProgramDies
<1> QED  BY <1>1, <1>2, <1>3, <1>4 DEF Step

LEMMA RunsKeep ==
  ASSUME OnDisk, Runs(Step)
  PROVE  OnDisk'
<1>1. /\ Step /\ [Next]_vars /\ Books /\ Untouched /\ PanicCloses /\ RunsOnDisk /\ Within
      /\ ~Appends => UNCHANGED storeVars
  BY DEF OnDisk, Runs, Next
<1>2. Books' /\ Untouched' /\ PanicCloses'
  BY <1>1, BooksStep, UntouchedStep, PanicClosesStep
<1>3. Down'
  BY DEF Down, Runs
<1>4. exit' = "running" => DiskAgrees'
  BY RunsAgree
<1>5. RunsOnDisk' /\ Within'
  <2>1. CASE exit' = "running"
    BY <1>4, <2>1 DEF DiskAgrees, Kept, CopyComplete, HoldsAll, Within
  <2>2. CASE exit' # "running"
    <3>1. UNCHANGED <<base, logged, copy, stage>>
      BY <1>1, <2>2, AppendsAlive DEF storeVars
    <3> QED  BY <1>1, <3>1, JobsGrow DEF RunsOnDisk, Within
  <2> QED  BY <2>1, <2>2
<1> QED  BY <1>2, <1>3, <1>4, <1>5 DEF OnDisk

-----------------------------------------------------------------------------
(* A checkpoint                                                            *)

LEMMA CheckpointsKeep ==
  ASSUME OnDisk, \/ Checkpoints(Store!Snapshot) \/ Checkpoints(CheckpointGoesOn)
  PROVE  OnDisk'
<1>1. /\ UNCHANGED vars /\ up /\ up' = up /\ Books /\ Untouched /\ PanicCloses
      /\ RunsOnDisk /\ Within /\ IsJobMap(jobs)
  BY DEF OnDisk, Checkpoints, Books, TypeOK
<1>2. UNCHANGED <<jobs, proc, cur, k, main, exit>>
  BY <1>1 DEF vars
<1>3. Books' /\ Untouched' /\ PanicCloses' /\ Down'
  BY <1>1, BooksStep, UntouchedStep, PanicClosesStep DEF Down
<1>4. Unsaved' = Unsaved
  BY <1>2 DEF Unsaved, Kicked, KickId
<1>5. \A id : AsAdded(id)' <=> AsAdded(id)
  BY <1>2 DEF AsAdded
<1>6. ASSUME DiskAgrees, Store!Snapshot PROVE DiskAgrees'
  <2>1. copy' = jobs /\ stage' = "copied" /\ base' = base /\ logged' = logged
    BY <1>6 DEF Store!Snapshot
  <2>2. Kept'
    BY <1>1, <1>6, <1>2, <1>4, <1>5, <2>1 DEF DiskAgrees, Kept
  <2>3. HoldsAll(copy)'
    BY <1>2, <2>1 DEF HoldsAll
  <2> QED  BY <1>1, <1>6, <2>1, <2>2, <2>3 DEF DiskAgrees, RunsOnDisk, CopyComplete
<1>7. ASSUME DiskAgrees, Store!Publish PROVE DiskAgrees'
  <2>1. stage = "copied" /\ base' = copy /\ stage' = "published" /\ logged' = logged /\ copy' = copy
    BY <1>7 DEF Store!Publish
  <2>2. HoldsAll(copy)
    BY <1>1, <1>7, <2>1 DEF DiskAgrees, CopyComplete
  <2>3. Kept'
    BY <1>1, <1>7, <1>2, <1>4, <1>5, <2>1, <2>2 DEF DiskAgrees, Kept, HoldsAll
  <2>4. HoldsAll(base)'
    BY <1>2, <1>4, <2>1, <2>2 DEF HoldsAll
  <2> QED  BY <1>1, <1>7, <2>1, <2>3, <2>4 DEF DiskAgrees, RunsOnDisk, CopyComplete
<1>8. ASSUME DiskAgrees, Store!Remove PROVE DiskAgrees'
  <2>1. stage = "published" /\ base' = base /\ stage' = stage /\ copy' = copy
        /\ logged' = Store!Nothing
    BY <1>8 DEF Store!Remove
  <2>2. HoldsAll(base)
    BY <1>1, <1>8, <2>1 DEF DiskAgrees, CopyComplete
  <2>3. Kept'
    BY <1>1, <1>8, <1>2, <1>4, <2>1, <2>2, NothingType DEF DiskAgrees, Kept, HoldsAll
  <2>4. HoldsAll(base)'
    BY <1>2, <1>4, <2>1, <2>2 DEF HoldsAll
  <2> QED  BY <1>1, <1>8, <2>1, <2>3, <2>4, NothingType DEF DiskAgrees, RunsOnDisk, CopyComplete
<1>9. ASSUME DiskAgrees, Store!EndCheckpoint PROVE DiskAgrees'
  <2>1. stage' = "none" /\ base' = base /\ logged' = logged /\ copy' = Store!Nothing
    BY <1>9 DEF Store!EndCheckpoint
  <2>2. Kept'
    BY <1>1, <1>9, <1>2, <1>4, <1>5, <2>1 DEF DiskAgrees, Kept
  <2> QED  BY <1>1, <1>9, <2>1, <2>2, NothingType DEF DiskAgrees, RunsOnDisk, CopyComplete
<1>10. RunsOnDisk' /\ Within'
  <2>1. IsJobMap(Store!Nothing) /\ DOMAIN Store!Nothing = {}
    BY NothingType
  <2>2. Store!Snapshot \/ Store!Publish \/ Store!Remove \/ Store!EndCheckpoint
    BY DEF Checkpoints, CheckpointGoesOn
  <2> QED
    BY <1>1, <1>2, <2>1, <2>2
    DEF Store!Snapshot, Store!Publish, Store!Remove, Store!EndCheckpoint, RunsOnDisk, Within
<1>11. exit' = "running" => DiskAgrees'
  BY <1>2, <1>6, <1>7, <1>8, <1>9 DEF OnDisk, Checkpoints, CheckpointGoesOn
<1> QED  BY <1>3, <1>10, <1>11 DEF OnDisk

-----------------------------------------------------------------------------
(* A crash, and the restart                                                *)

LEMMA CrashKeeps ==
  ASSUME OnDisk, Crash
  PROVE  OnDisk'
<1>1. /\ Books /\ RunsOnDisk /\ IsJobMap(jobs)
      /\ proc' = "off" /\ main' = "call" /\ stage' = "none" /\ closed' = {} /\ exit' = "running"
  BY DEF OnDisk, Books, TypeOK, Crash, Store!Crash
<1>2. IsJobMap(base') /\ IsJobMap(logged') /\ IsJobMap(copy')
  <2>1. base' \in {base, copy} /\ copy' = Store!Nothing
    BY DEF Crash, Store!Crash
  <2>2. logged' = logged \/ \E id \in DOMAIN jobs : logged' = Put(logged, id, jobs[id])
    BY StoreMaps DEF Crash, Store!Crash
  <2>3. \A id \in DOMAIN jobs : id \in Id /\ jobs[id] \in StateName
    BY <1>1 DEF IsJobMap
  <2>4. IsJobMap(logged')
    BY <1>1, <2>2, <2>3, PutType DEF RunsOnDisk
  <2> QED  BY <1>1, <2>1, <2>4, NothingType DEF RunsOnDisk
<1>3. jobs' = Overlay(logged', base')
  BY StoreMaps DEF Crash, Store!Crash
<1>4. IsJobMap(Overlay(logged', base'))
  BY <1>2, OverlayType
<1>5. IsJobMap(jobs')
  BY <1>3, <1>4
<1>6. Books'
  <2>1. IsJobMap(NoRun)
    BY NothingType
  <2>2. StatusCounts(NewStateStorage) \in Counts \X Counts \X Counts
    BY EmptyStorage, CountsType
  <2>3. <<>> \in Seq(Return)
    BY EmptySeq
  <2>4. \A w \in Workers : wpc'[w] = "off"
    BY DEF Crash
  <2>5. wpc' \in [Workers -> WorkerStates] /\ DOMAIN wjob' = Workers /\ DOMAIN wret' = Workers
    BY DEF Crash, WorkerStates
  <2>6. /\ IsJobMap(saved') /\ IsStorage(storage') /\ Conserving(storage')
        /\ returnChan' \in Seq(Return) /\ shown' \in Counts \X Counts \X Counts
    BY <2>1, <2>2, <2>3, EmptyStorage DEF Crash
  <2>7. /\ closed' \subseteq {"jobs", "return"} /\ proc' \in ProcStates
        /\ proc' \notin {"kicks", "persist"} /\ todo' \subseteq DOMAIN jobs'
        /\ needsUpdate' \in BOOLEAN /\ ctxDone' \in BOOLEAN
        /\ main' \in {"call", "wait", "nil", "ctxErr"} /\ exit' \in {"running", "panic"}
    BY DEF Crash, ProcStates
  <2> QED
    BY <1>5, <2>4, <2>5, <2>6, <2>7 DEF Books, TypeOK, WorkConserving
<1>7. Untouched'
  BY DEF Crash, Untouched
<1>8. Unsaved' = {}
  BY <1>1 DEF Unsaved
<1>9. Kept'
  BY <1>3, <1>8 DEF Kept, Overlay
<1>10. PanicCloses' /\ Within'
  BY <1>1, <1>9 DEF PanicCloses, Within, Kept
<1> QED
  BY <1>1, <1>2, <1>6, <1>7, <1>9, <1>10 DEF OnDisk, DiskAgrees, RunsOnDisk, CopyComplete, Down

LEMMA StartKeeps ==
  ASSUME OnDisk, Start
  PROVE  OnDisk'
<1>1. /\ Books /\ Untouched /\ IsJobMap(jobs) /\ proc = "off" /\ stage = "none" /\ IsJobMap(copy)
      /\ proc' = "off" /\ stage' = "none" /\ copy' = copy /\ base' = jobs /\ logged' = NoRun
      /\ up'
  BY DEF OnDisk, Down, Untouched, RunsOnDisk, Books, TypeOK, Start, storeVars
<1>2. jobs' = jobs \/ (DOMAIN jobs = {} /\ jobs' \in InitialRuns)
  BY DEF Start
<1>3. IsJobMap(jobs') /\ DOMAIN jobs \subseteq DOMAIN jobs'
  BY <1>1, <1>2, InputAssumption DEF IsJobMap
<1>4. Books'
  <2>1. /\ UNCHANGED <<saved, storage, returnChan, closed, wpc, wjob, wret, proc, todo, cur, k>>
        /\ UNCHANGED <<needsUpdate, shown, ctxDone, main, exit>>
    BY DEF Start, workerVars
  <2> QED  BY <1>1, <1>3, <2>1 DEF Books, TypeOK, WorkConserving
<1>5. Untouched'
  BY <1>1 DEF Untouched, Start, workerVars
<1>6. Unsaved' = {}
  BY <1>1 DEF Unsaved
<1>7. DOMAIN jobs = {} => \A id \in DOMAIN jobs' : jobs' \in InitialRuns
  BY <1>2
<1>8. Kept'
  BY <1>1, <1>2, <1>6, NothingType DEF Kept, AsAdded
<1>9. PanicCloses' /\ Within'
  BY <1>1, <1>8 DEF OnDisk, PanicCloses, Closing, Start, Within, Kept
<1> QED
  BY <1>1, <1>4, <1>5, <1>8, <1>9, NothingType
  DEF OnDisk, DiskAgrees, RunsOnDisk, CopyComplete, Down

-----------------------------------------------------------------------------
LEMMA OnDiskInit == RestartInit => OnDisk
<1> SUFFICES ASSUME RestartInit PROVE OnDisk
  OBVIOUS
<1>1. Books /\ Untouched /\ PanicCloses /\ Down
  BY BooksInit, UntouchedInit, PanicClosesInit DEF RestartInit, Down
<1>2. IsJobMap(jobs) /\ jobs \in InitialRuns /\ Unsaved = {}
  BY <1>1 DEF Books, TypeOK, RestartInit, Init, Unsaved
<1>3. base \in {NoRun, jobs} /\ logged = NoRun /\ copy = NoRun /\ stage = "none"
  BY DEF RestartInit
<1>4. Kept
  BY <1>2, <1>3, NothingType DEF Kept, AsAdded
<1> QED
  BY <1>1, <1>2, <1>3, <1>4, NothingType DEF OnDisk, DiskAgrees, RunsOnDisk, CopyComplete, Within, Kept

LEMMA OnDiskStep == OnDisk /\ [RestartNext]_restartVars => OnDisk'
<1> SUFFICES ASSUME OnDisk, [RestartNext]_restartVars PROVE OnDisk'
  OBVIOUS
<1>1. CASE UNCHANGED restartVars
  <2>1. UNCHANGED vars /\ UNCHANGED storeVars /\ up' = up
    BY <1>1 DEF restartVars
  <2>2. UNCHANGED <<jobs, proc, cur, k, main, exit, base, logged, copy, stage>>
    BY <2>1 DEF vars, storeVars
  <2>3. Unsaved' = Unsaved
    BY <2>2 DEF Unsaved, Kicked, KickId
  <2>4. exit' = "running" => DiskAgrees'
    BY <2>1, <2>2, <2>3, KeptUndisturbed DEF OnDisk
  <2>5. Books' /\ Untouched' /\ PanicCloses'
    BY <2>1, BooksStep, UntouchedStep, PanicClosesStep DEF OnDisk
  <2> QED  BY <2>1, <2>2, <2>4, <2>5 DEF OnDisk, Down, RunsOnDisk, Within
<1> QED
  BY <1>1, RunsKeep, CheckpointsKeep, CrashKeeps, StartKeeps DEF RestartNext

(* Whenever the program is killed between two completions, what comes back  *)
(* of every job is its state, or nothing if the job has not completed one   *)
(* yet: for every workflow, every run, any number of crashes at any moment, *)
(* and checkpoints at any moment.                                           *)
THEOREM OnlyNewJobsAreEverLost == RestartSpec => []OnlyNewJobsAreLost
<1>1. OnDisk => OnlyNewJobsAreLost
  <2> SUFFICES ASSUME OnDisk, exit = "running", proc \notin {"kicks", "persist"}
               PROVE  /\ DOMAIN Store!Recovered \subseteq DOMAIN jobs
                      /\ \A id \in DOMAIN jobs :
                            IF id \in DOMAIN Store!Recovered THEN Store!Recovered[id] = jobs[id]
                            ELSE AsAdded(id)
    BY DEF OnlyNewJobsAreLost, AsAdded
  <2>1. Kept /\ Unsaved = {}
    BY DEF OnDisk, DiskAgrees, Unsaved
  <2>2. Store!Recovered = Overlay(logged, base)
    BY StoreMaps DEF Store!Recovered
  <2> QED  BY <2>1, <2>2 DEF Kept, Overlay
<1> QED  BY <1>1, OnDiskInit, OnDiskStep, PTL DEF RestartSpec

-----------------------------------------------------------------------------
(* RootsNeverRepeat.  In a workflow without a cycle the states can be      *)
(* ranked so that every result of State.Exec leads upwards.                *)
Forward(rank) ==
  /\ rank \in [StateName -> Int]
  /\ \A s \in Working : \A r \in ExecResults[s] : rank[s] < rank[r.state]

(* Root ids have length one: AddJob gives every job a name, so that no kick *)
(* has the id of a root.                                                   *)
RootIds == {id \in Id : Len(id) <= 1}
JobsAreNamed == \A run \in InitialRuns : <<>> \notin DOMAIN run

RootsKept ==
  /\ <<>> \notin DOMAIN jobs
  /\ proc = "kicks" =>
       /\ cur.id # <<>>
       /\ cur.id \in RootIds => cur.id \in DOMAIN jobs /\ jobs[cur.id] = cur.state

(* A job whose completion has been answered is beyond the state it          *)
(* completed, and so is everything that may come back of it after a crash.  *)
Past(rank, f, done) == done[1] \in DOMAIN f /\ rank[done[2]] < rank[f[done[1]]]

Beyond(rank, done) ==
  /\ Past(rank, jobs, done)
  /\ Past(rank, Overlay(logged, base), done)
  /\ stage = "copied" => Past(rank, copy, done)
  /\ stage = "published" => Past(rank, base, done)

NoneFallsBack(rank) ==
  /\ acked \subseteq Id \X Working
  /\ \A done \in acked : done[1] \in RootIds => Beyond(rank, done)

Forwards(rank) ==
  /\ OnDisk /\ EnqueuedFirst /\ ResultsGenuine /\ RootsKept
  /\ Tracked(RootIds) /\ Alone(RootIds) /\ NoneFallsBack(rank)

-----------------------------------------------------------------------------
LEMMA KickIsNoRoot ==
  ASSUME Books, proc = "kicks", cur.id # <<>>, NEW i \in Nat
  PROVE  KickId(i) \notin RootIds /\ KickId(i) # <<>> /\ KickId(i) # cur.id
<1>1. cur.id \in Seq(Nat)
  BY DEF Books, TypeOK, Return, Id
<1>2. Len(cur.id) \in Nat /\ Len(cur.id) # 0
  BY <1>1, LenProperties, EmptySeq
<1>3. KickId(i) \in Seq(Nat) /\ Len(KickId(i)) = Len(cur.id) + 1
  BY <1>1, AppendProperties DEF KickId
<1>4. ~(Len(KickId(i)) <= 1) /\ Len(KickId(i)) # 0 /\ Len(KickId(i)) # Len(cur.id)
  BY <1>2, <1>3
<1>5. Len(<<>>) = 0
  BY EmptySeq
<1> QED  BY <1>4, <1>5 DEF RootIds

LEMMA NoRootIsKicked ==
  ASSUME Books, RootsKept
  PROVE  FreshKicks(RootIds)
<1> SUFFICES ASSUME proc = "kicks", NEW i \in k .. Len(cur.kicks) - 1, KickId(i) \in RootIds
             PROVE  FALSE
  BY DEF FreshKicks
<1>1. k \in Nat /\ cur.kicks \in Seq(StateName)
  BY DEF Books, TypeOK, Return
<1>2. i \in Nat
  BY <1>1, LenProperties
<1> QED  BY <1>2, KickIsNoRoot DEF RootsKept

(* A Return that is received of a root is one of the state it is in.        *)
LEMMA RootAdvances ==
  ASSUME NEW rank, Forward(rank), Forwards(rank), returnChan # <<>>, Head(returnChan).id \in RootIds
  PROVE  LET rtn == Head(returnChan) IN
         /\ rtn.id \in DOMAIN jobs /\ jobs[rtn.id] = rtn.prior
         /\ rank[rtn.prior] \in Int /\ rank[rtn.state] \in Int
         /\ rank[rtn.prior] < rank[rtn.state]
<1> DEFINE rtn == Head(returnChan)
<1>1. Books /\ rtn.prior \in Working /\ rtn.state \in StateName
  BY HeadReturn DEF Forwards, OnDisk, Books, TypeOK
<1>2. rtn.id \in DOMAIN jobs /\ jobs[rtn.id] = rtn.prior /\ Genuine(rtn)
  BY <1>1, ReturnTracked, HeadGenuine DEF Forwards
<1> HIDE DEF rtn
<1>3. PICK r \in ExecResults[rtn.prior] : r.state = rtn.state
  BY <1>2 DEF Genuine
<1>4. rtn.prior \in StateName /\ rtn.state \in StateName
  BY <1>1 DEF Working, StateName
<1>5. rank[rtn.prior] < rank[rtn.state]
  BY <1>1, <1>3 DEF Forward
<1> QED  BY <1>2, <1>4, <1>5 DEF Forward, rtn

LEMMA RootsKeptStep ==
  ASSUME NEW rank, Forward(rank), Forwards(rank), [Next]_vars
  PROVE  RootsKept'
<1> USE DEF coordVars, workerVars, others, statusVars
<1>1. Books /\ Untouched /\ RootsKept
  BY DEF Forwards, OnDisk
<1>2. ASSUME UNCHANGED jobs, proc' = "kicks" => UNCHANGED <<proc, cur>> PROVE RootsKept'
  BY <1>1, <1>2 DEF RootsKept
<1>3. ASSUME HandleReturn \/ HandleUnregistered PROVE RootsKept'
  <2> DEFINE rtn == Head(returnChan)
  <2>1. /\ proc' = "kicks" => cur' = rtn
        /\ jobs' = Put(jobs, rtn.id, rtn.state) /\ returnChan # <<>>
    BY <1>3 DEF HandleReturn, HandleUnregistered, Panic
  <2>2. rtn.id # <<>>
    <3>1. <<>> \in RootIds
      BY EmptySeq DEF RootIds, Id
    <3>2. rtn.id = <<>> => rtn.id \in DOMAIN jobs
      BY <2>1, <3>1, RootAdvances
    <3> QED  BY <1>1, <3>2 DEF RootsKept
  <2> HIDE DEF rtn
  <2> QED  BY <1>1, <2>1, <2>2 DEF RootsKept, Put
<1>4. ASSUME KickJob \/ KickUnregistered PROVE RootsKept'
  <2>1. /\ proc = "kicks" /\ cur' = cur
        /\ jobs' = Put(jobs, KickId(k), cur.kicks[k + 1])
    BY <1>4 DEF KickJob, KickUnregistered
  <2>2. k \in Nat
    BY <1>1, <2>1 DEF Books, TypeOK
  <2>3. KickId(k) # <<>> /\ KickId(k) # cur.id
    BY <1>1, <2>1, <2>2, KickIsNoRoot DEF RootsKept
  <2> QED  BY <1>1, <2>1, <2>3 DEF RootsKept, Put
<1>5. ASSUME NEW id \in todo, EnqueueJob(id) PROVE RootsKept'
  BY <1>2, <1>5 DEF EnqueueJob
<1>6. ASSUME \/ InitialStatus \/ CoordinatorSeesCancel \/ DrainEnds
             \/ PersistJob \/ PersistKick \/ PersistFails \/ HandleReturnEnds
             \/ CloseJobChannels \/ CloseReturnChan
             \/ (\E id \in todo : EnqueueUnregistered(id))
      PROVE  RootsKept'
  BY <1>2, <1>6 DEF InitialStatus, CoordinatorSeesCancel, DrainEnds, PersistJob,
                    PersistKick, PersistFails, HandleReturnEnds, CloseJobChannels,
                    CloseReturnChan, EnqueueUnregistered, Panic, Die
<1>7. ASSUME \/ Cancel \/ ExecAllTerminal \/ ExecStart \/ ExecReturn \/ ProgramDies
             \/ UNCHANGED vars
      PROVE  RootsKept'
  BY <1>2, <1>7 DEF Cancel, ExecAllTerminal, ExecStart, ExecReturn, ProgramDies, Die, vars
<1>8. ASSUME NEW w \in Workers, Worker(w) PROVE RootsKept'
  BY <1>2, <1>8 DEF Worker, WorkerSeesCancel, WorkerReceive, WorkerSeesClosed, WorkerExecutes,
                    WorkerDrops, WorkerSends, WorkerSendsOnClosed, Die
<1> QED
  BY <1>3, <1>4, <1>5, <1>6, <1>7, <1>8 DEF Next, Step, Finished, Coordinator

-----------------------------------------------------------------------------
(* A step that leaves the run and the files alone, or moves jobs upwards.   *)
LEMMA BeyondUndisturbed ==
  ASSUME NEW rank, NEW done, Beyond(rank, done), UNCHANGED storeVars, Past(rank, jobs', done)
  PROVE  Beyond(rank, done)'
<1>1. UNCHANGED <<base, logged, copy, stage>>
  BY DEF storeVars
<1>2. Overlay(logged, base)' = Overlay(logged, base)
  BY <1>1 DEF Overlay
<1>3. \A f : Past(rank, f, done)' <=> Past(rank, f', done)
  BY DEF Past
<1> QED  BY <1>1, <1>2, <1>3 DEF Beyond, Past

(* The record that is appended is of a job as it is.                        *)
LEMMA BeyondAppended ==
  ASSUME NEW rank, NEW done, NEW x, Past(rank, jobs, done), UNCHANGED jobs, Store!Append(x),
         done[1] = x \/ Beyond(rank, done)
  PROVE  Beyond(rank, done)'
<1>1. /\ stage' = "none" /\ base' = base /\ logged' = Put(logged, x, jobs[x])
  BY StoreMaps DEF Store!Append
<1>2. Past(rank, Overlay(logged', base'), done)
  BY <1>1 DEF Beyond, Past, Overlay, Put
<1>3. Past(rank, Overlay(logged, base), done)' <=> Past(rank, Overlay(logged', base'), done)
  BY DEF Past, Overlay
<1> QED  BY <1>1, <1>2, <1>3 DEF Beyond, Past

LEMMA RunsAdvance ==
  ASSUME NEW rank, Forward(rank), Forwards(rank), Runs(Step)
  PROVE  NoneFallsBack(rank)'
<1> USE DEF coordVars, workerVars, others, statusVars
<1>1. /\ Step /\ Books /\ Untouched /\ RootsKept /\ NoneFallsBack(rank)
      /\ Appends => Store!Append(AppendedId)
      /\ ~Appends => UNCHANGED storeVars
      /\ ~(Appends /\ proc = "kicks") => acked' = acked
      /\ Appends /\ proc = "kicks" => acked' = acked \cup {<<cur.id, cur.prior>>}
  BY DEF Runs, Forwards, OnDisk
<1>2. ASSUME acked' = acked,
             \A done \in acked : done[1] \in RootIds => Beyond(rank, done)'
      PROVE  NoneFallsBack(rank)'
  BY <1>1, <1>2 DEF NoneFallsBack
<1>3. ASSUME UNCHANGED jobs, ~(Appends /\ proc = "kicks") PROVE NoneFallsBack(rank)'
  <2>1. ASSUME NEW done \in acked, done[1] \in RootIds PROVE Beyond(rank, done)'
    <3>1. Beyond(rank, done) /\ Past(rank, jobs, done) /\ Past(rank, jobs', done)
      BY <1>1, <1>3, <2>1 DEF NoneFallsBack, Beyond
    <3>2. CASE Appends
      BY <1>1, <1>3, <3>1, <3>2, BeyondAppended
    <3>3. CASE ~Appends
      BY <1>1, <3>1, <3>3, BeyondUndisturbed
    <3> QED  BY <3>2, <3>3
  <2> QED  BY <1>1, <1>2, <1>3, <2>1
<1>4. ASSUME HandleReturn \/ HandleUnregistered PROVE NoneFallsBack(rank)'
  <2> DEFINE rtn == Head(returnChan)
  <2>1. /\ proc \in {"select", "drain"} /\ jobs' = Put(jobs, rtn.id, rtn.state)
        /\ returnChan # <<>>
    BY <1>4 DEF HandleReturn, HandleUnregistered
  <2>2. rtn.id \in RootIds =>
          /\ jobs[rtn.id] = rtn.prior /\ rank[rtn.prior] \in Int /\ rank[rtn.state] \in Int
          /\ rank[rtn.prior] < rank[rtn.state]
    BY <2>1, RootAdvances
  <2> HIDE DEF rtn
  <2>3. ~Appends
    BY <2>1 DEF Appends
  <2>4. ASSUME NEW done \in acked, done[1] \in RootIds PROVE Beyond(rank, done)'
    <3>1. Beyond(rank, done) /\ Past(rank, jobs, done) /\ done \in Id \X Working
      BY <1>1, <2>4 DEF NoneFallsBack, Beyond
    <3>2. rank[done[2]] \in Int
      <4>1. done[2] \in StateName
        BY <3>1 DEF Working, StateName
      <4> QED  BY <4>1 DEF Forward
    <3>3. Past(rank, jobs', done)
      <4>1. CASE done[1] = rtn.id
        BY <2>1, <2>2, <2>4, <3>1, <3>2, <4>1 DEF Past, Put
      <4>2. CASE done[1] # rtn.id
        BY <2>1, <3>1, <4>2 DEF Past, Put
      <4> QED  BY <4>1, <4>2
    <3> QED  BY <1>1, <2>3, <3>1, <3>3, BeyondUndisturbed
  <2> QED  BY <1>1, <1>2, <2>3, <2>4
<1>5. ASSUME KickJob \/ KickUnregistered PROVE NoneFallsBack(rank)'
  <2>1. /\ proc = "kicks" /\ proc' # "persist" /\ jobs' = Put(jobs, KickId(k), cur.kicks[k + 1])
    BY <1>5 DEF KickJob, KickUnregistered, Panic
  <2>2. k \in Nat
    BY <1>1, <2>1 DEF Books, TypeOK
  <2>3. KickId(k) \notin RootIds
    BY <1>1, <2>1, <2>2, KickIsNoRoot DEF RootsKept
  <2>4. ~Appends
    BY <2>1 DEF Appends
  <2>5. ASSUME NEW done \in acked, done[1] \in RootIds PROVE Beyond(rank, done)'
    <3>1. Beyond(rank, done) /\ Past(rank, jobs, done) /\ done[1] # KickId(k)
      BY <1>1, <2>3, <2>5 DEF NoneFallsBack, Beyond
    <3>2. Past(rank, jobs', done)
      BY <2>1, <3>1 DEF Past, Put
    <3> QED  BY <1>1, <2>4, <3>1, <3>2, BeyondUndisturbed
  <2> QED  BY <1>1, <1>2, <2>4, <2>5
<1>6. ASSUME PersistJob PROVE NoneFallsBack(rank)'
  <2> DEFINE new == <<cur.id, cur.prior>>
  <2>1. proc = "kicks" /\ proc' = "persist" /\ jobs' = jobs
    BY <1>6 DEF PersistJob
  <2>2. Appends /\ AppendedId = cur.id /\ new[1] = cur.id /\ new[2] = cur.prior
    BY <2>1 DEF Appends, AppendedId
  <2>3. cur.id \in Id /\ cur.prior \in Working
    BY <1>1, <2>1 DEF Books, TypeOK, Return
  <2>4. new[1] \in RootIds => Past(rank, jobs, new)
    <3>1. PICK r \in ExecResults[cur.prior] : r.state = cur.state
      BY <2>1 DEF Forwards, ResultsGenuine, Genuine
    <3>2. rank[cur.prior] < rank[cur.state]
      BY <2>3, <3>1 DEF Forward
    <3> QED  BY <1>1, <2>1, <3>2 DEF RootsKept, Past
  <2>5. acked' = acked \cup {new} /\ new \in Id \X Working
    BY <1>1, <2>1, <2>2, <2>3
  <2> HIDE DEF new
  <2>6. ASSUME NEW done \in acked', done[1] \in RootIds PROVE Beyond(rank, done)'
    <3>1. CASE done = new
      BY <1>1, <2>1, <2>2, <2>4, <2>6, <3>1, BeyondAppended
    <3>2. CASE done \in acked
      <4>1. Beyond(rank, done) /\ Past(rank, jobs, done)
        BY <1>1, <2>6, <3>2 DEF NoneFallsBack, Beyond
      <4> QED  BY <1>1, <2>1, <2>2, <4>1, BeyondAppended
    <3> QED  BY <2>5, <3>1, <3>2
  <2> QED  BY <1>1, <2>5, <2>6 DEF NoneFallsBack
<1>7. ASSUME PersistKick \/ HandleReturnEnds PROVE NoneFallsBack(rank)'
  BY <1>3, <1>7 DEF PersistKick, HandleReturnEnds
<1>8. ASSUME UNCHANGED jobs, proc' # "persist" PROVE NoneFallsBack(rank)'
  BY <1>3, <1>8 DEF Appends
<1>9. ASSUME NEW id \in todo, EnqueueJob(id) \/ EnqueueUnregistered(id)
      PROVE  NoneFallsBack(rank)'
  BY <1>8, <1>9 DEF EnqueueJob, EnqueueUnregistered, Panic
<1>10. ASSUME \/ InitialStatus \/ CoordinatorSeesCancel \/ DrainEnds
              \/ CloseJobChannels \/ CloseReturnChan \/ ExecStart
       PROVE  NoneFallsBack(rank)'
  BY <1>8, <1>10 DEF InitialStatus, CoordinatorSeesCancel, DrainEnds,
                     CloseJobChannels, CloseReturnChan, ExecStart
<1>11. ASSUME UNCHANGED <<jobs, proc>> PROVE NoneFallsBack(rank)'
  BY <1>3, <1>11 DEF Appends
<1>12. ASSUME Cancel \/ ExecAllTerminal \/ ExecReturn PROVE NoneFallsBack(rank)'
  BY <1>11, <1>12 DEF Cancel, ExecAllTerminal, ExecReturn
<1>14. ASSUME PersistFails \/ ProgramDies PROVE NoneFallsBack(rank)'
  <2>1. UNCHANGED <<jobs, proc, k>>
    BY <1>14 DEF PersistFails, ProgramDies, Die
  <2>2. proc = "persist" => k \in Nat
    BY <1>1 DEF Books, TypeOK
  <2> QED  BY <1>3, <2>1, <2>2 DEF Appends
<1>13. ASSUME NEW w \in Workers, Worker(w) PROVE NoneFallsBack(rank)'
  BY <1>11, <1>13 DEF Worker, WorkerSeesCancel, WorkerReceive, WorkerSeesClosed, WorkerExecutes,
                      WorkerDrops, WorkerSends, WorkerSendsOnClosed, Die
<1> QED
  BY <1>1, <1>4, <1>5, <1>6, <1>7, <1>9, <1>10, <1>12, <1>13, <1>14 DEF Step, Coordinator

LEMMA RunsForwards ==
  ASSUME NEW rank, Forward(rank), Forwards(rank), Runs(Step)
  PROVE  Forwards(rank)'
<1>1. [Next]_vars
  BY DEF Runs, Next
<1>2. Books /\ Untouched /\ FreshKicks(RootIds)
  BY NoRootIsKicked DEF Forwards, OnDisk
<1>3. OnDisk' /\ RootsKept' /\ NoneFallsBack(rank)'
  BY <1>1, RunsKeep, RootsKeptStep, RunsAdvance DEF Forwards
<1>4. EnqueuedFirst' /\ ResultsGenuine'
  BY <1>1, <1>2, EnqueuedFirstStep, GenuineStep DEF Forwards
<1>5. Tracked(RootIds)' /\ Alone(RootIds)'
  BY <1>1, <1>2, AloneStep DEF Forwards, OnDisk
<1> QED  BY <1>3, <1>4, <1>5 DEF Forwards

-----------------------------------------------------------------------------
LEMMA CheckpointsForwards ==
  ASSUME NEW rank, Forward(rank), Forwards(rank),
         \/ Checkpoints(Store!Snapshot) \/ Checkpoints(CheckpointGoesOn)
  PROVE  Forwards(rank)'
<1>1. UNCHANGED vars /\ acked' = acked
  BY DEF Checkpoints
<1>2. Books /\ Untouched /\ FreshKicks(RootIds) /\ [Next]_vars
  BY <1>1, NoRootIsKicked DEF Forwards, OnDisk
<1>3. OnDisk' /\ RootsKept'
  BY <1>2, CheckpointsKeep, RootsKeptStep DEF Forwards
<1>4. EnqueuedFirst' /\ ResultsGenuine'
  BY <1>2, EnqueuedFirstStep, GenuineStep DEF Forwards
<1>5. Tracked(RootIds)' /\ Alone(RootIds)'
  BY <1>2, AloneStep DEF Forwards
<1>6. jobs' = jobs
  BY <1>1 DEF vars
<1>7. ASSUME NEW done \in acked, done[1] \in RootIds PROVE Beyond(rank, done)'
  <2>1. Beyond(rank, done)
    BY <1>7 DEF Forwards, NoneFallsBack
  <2>2. DOMAIN Store!Nothing = {}
    BY NothingType
  <2>3. \/ Store!Snapshot \/ Store!Publish \/ Store!Remove \/ Store!EndCheckpoint
    BY DEF Checkpoints, CheckpointGoesOn
  <2>4. Past(rank, jobs', done)
    BY <1>6, <2>1 DEF Beyond
  <2>5. /\ Past(rank, Overlay(logged', base'), done)
        /\ stage' = "copied" => Past(rank, copy', done)
        /\ stage' = "published" => Past(rank, base', done)
    <3>1. CASE Store!Snapshot
      BY <1>6, <2>1, <3>1 DEF Store!Snapshot, Beyond
    <3>2. CASE Store!Publish
      BY <2>1, <3>2 DEF Store!Publish, Beyond, Past, Overlay
    <3>3. CASE Store!Remove
      BY <2>1, <2>2, <3>3 DEF Store!Remove, Beyond, Past, Overlay
    <3>4. CASE Store!EndCheckpoint
      BY <2>1, <3>4 DEF Store!EndCheckpoint, Beyond
    <3> QED  BY <2>3, <3>1, <3>2, <3>3, <3>4
  <2> QED  BY <2>4, <2>5 DEF Beyond, Past, Overlay
<1>8. NoneFallsBack(rank)'
  BY <1>1, <1>7 DEF Forwards, NoneFallsBack
<1> QED  BY <1>3, <1>4, <1>5, <1>8 DEF Forwards

(* While none of the goroutines exists no job is on its way.                *)
LEMMA NothingRuns ==
  ASSUME \A w \in Workers : wpc'[w] = "off", storage' = NewStateStorage, returnChan' = <<>>,
         proc' = "off", todo' = {}
  PROVE  EnqueuedFirst' /\ ResultsGenuine' /\ Tracked(RootIds)' /\ Alone(RootIds)'
<1>1. DOMAIN <<>> = {}
  OBVIOUS
<1>2. \A w \in Workers : ~InHand(w)' /\ wpc'[w] # "send"
  BY DEF InHand
<1>3. EnqueuedFirst' /\ ResultsGenuine'
  BY <1>1, <1>2 DEF EnqueuedFirst, ResultsGenuine
<1>4. ASSUME NEW s \in Working
      PROVE  OnItsWay(s)' = {} /\ Busy(s)' = {} /\ StoredOnce(storage, s, RootIds)'
  <2>1. storage'.waitq[s] = <<>> /\ storage'.chan[s] = <<>>
    BY DEF NewStateStorage, Working
  <2>2. Ids(storage'.waitq[s]) = {} /\ Ids(storage'.chan[s]) = {} /\ From(returnChan', s) = {}
    BY <1>1, <2>1 DEF Ids, From
  <2>3. Busy(s)' = {}
    BY <1>2 DEF Busy, Workers
  <2>4. StoredIds(storage, s)' = {} /\ ReturnedIds(returnChan, s)' = {} /\ HeldIds(s)' = {}
    BY <2>2, <2>3 DEF StoredIds, ReturnedIds, From, HeldIds
  <2>5. StoredOnce(storage, s, RootIds)'
    BY <1>1, <2>1, <2>2 DEF StoredOnce, Distinct
  <2> QED  BY <2>3, <2>4, <2>5 DEF OnItsWay
<1>5. Distinct(returnChan, RootIds)'
  BY <1>1 DEF Distinct
<1> QED  BY <1>3, <1>4, <1>5 DEF Alone, AloneIn, Tracked, OnItsWay, HeldOnce

LEMMA CrashForwards ==
  ASSUME NEW rank, Forward(rank), Forwards(rank), Crash
  PROVE  Forwards(rank)'
<1>1. /\ \A w \in Workers : wpc'[w] = "off"
      /\ storage' = NewStateStorage /\ returnChan' = <<>> /\ proc' = "off" /\ todo' = {}
      /\ acked' = acked /\ stage' = "none" /\ jobs' = Overlay(logged', base')
  BY StoreMaps DEF Crash, Store!Crash
<1>2. /\ logged' = logged \/ \E id \in DOMAIN jobs : logged' = Put(logged, id, jobs[id])
      /\ base' = base \/ (stage = "copied" /\ base' = copy)
  BY StoreMaps DEF Crash, Store!Crash
<1>3. OnDisk' /\ EnqueuedFirst' /\ ResultsGenuine' /\ Tracked(RootIds)' /\ Alone(RootIds)'
  BY <1>1, CrashKeeps, NothingRuns DEF Forwards
<1>4. DOMAIN jobs' \subseteq DOMAIN jobs
  <2>1. /\ DOMAIN base \cup DOMAIN logged \subseteq DOMAIN jobs
        /\ stage = "copied" => DOMAIN copy \subseteq DOMAIN jobs
    BY DEF Forwards, OnDisk, Within
  <2>2. DOMAIN logged' \subseteq DOMAIN jobs /\ DOMAIN base' \subseteq DOMAIN jobs
    BY <1>2, <2>1 DEF Put
  <2> QED  BY <1>1, <2>2 DEF Overlay
<1>5. RootsKept'
  BY <1>1, <1>4 DEF Forwards, RootsKept
<1>6. ASSUME NEW done \in acked, done[1] \in RootIds PROVE Beyond(rank, done)'
  <2>1. /\ Past(rank, jobs, done) /\ Past(rank, Overlay(logged, base), done)
        /\ stage = "copied" => Past(rank, copy, done)
    BY <1>6 DEF Forwards, NoneFallsBack, Beyond
  <2>2. Past(rank, Overlay(logged', base), done)
    BY <1>2, <2>1 DEF Past, Overlay, Put
  <2>3. Past(rank, Overlay(logged', base'), done)
    BY <1>2, <2>1, <2>2 DEF Past, Overlay
  <2> QED  BY <1>1, <2>3 DEF Beyond, Past, Overlay
<1>7. NoneFallsBack(rank)'
  BY <1>1, <1>6 DEF Forwards, NoneFallsBack
<1> QED  BY <1>3, <1>5, <1>7 DEF Forwards

LEMMA StartForwards ==
  ASSUME NEW rank, Forward(rank), JobsAreNamed, Forwards(rank), Start
  PROVE  Forwards(rank)'
<1>1. /\ UNCHANGED <<storage, returnChan, wpc, proc, todo, acked>>
      /\ base' = jobs /\ logged' = NoRun /\ stage' = stage /\ stage = "none" /\ main = "call"
  BY DEF Start, workerVars, Forwards, OnDisk, Down
<1>2. jobs' = jobs \/ (DOMAIN jobs = {} /\ jobs' \in InitialRuns)
  BY DEF Start
<1>3. todo' = {}
  <2>1. proc = "off"
    BY <1>1 DEF Forwards, OnDisk, Untouched
  <2> QED  BY <1>1, <2>1 DEF Forwards, EnqueuedFirst, Closing
<1>4. OnDisk' /\ EnqueuedFirst' /\ ResultsGenuine' /\ Tracked(RootIds)' /\ Alone(RootIds)'
  BY <1>1, <1>3, StartKeeps, NothingRuns DEF Forwards, OnDisk, Untouched
<1>5. RootsKept'
  BY <1>1, <1>2 DEF Forwards, RootsKept, JobsAreNamed, OnDisk, Untouched
<1>6. ASSUME NEW done \in acked, done[1] \in RootIds PROVE Beyond(rank, done)'
  <2>1. Past(rank, jobs, done)
    BY <1>6 DEF Forwards, NoneFallsBack, Beyond
  <2>2. jobs' = jobs /\ DOMAIN NoRun = {}
    BY <1>2, <2>1, NothingType DEF Past
  <2>3. Past(rank, Overlay(NoRun, jobs), done)
    BY <2>1, <2>2 DEF Past, Overlay
  <2> QED  BY <1>1, <2>1, <2>2, <2>3 DEF Beyond, Past, Overlay
<1>7. NoneFallsBack(rank)'
  BY <1>1, <1>6 DEF Forwards, NoneFallsBack
<1> QED  BY <1>4, <1>5, <1>7 DEF Forwards

-----------------------------------------------------------------------------
LEMMA ForwardsInit ==
  ASSUME NEW rank, Forward(rank), JobsAreNamed, RestartInit
  PROVE  Forwards(rank)
<1>1. Init /\ acked = {} /\ proc = "off"
  BY DEF RestartInit, Init
<1>2. OnDisk /\ EnqueuedFirst /\ ResultsGenuine /\ Tracked(RootIds) /\ Alone(RootIds)
  BY <1>1, OnDiskInit, EnqueuedFirstInit, GenuineInit, AloneInit
<1> QED  BY <1>1, <1>2 DEF Forwards, RootsKept, JobsAreNamed, NoneFallsBack, Init

LEMMA ForwardsStep ==
  ASSUME NEW rank, Forward(rank), JobsAreNamed, Forwards(rank), [RestartNext]_restartVars
  PROVE  Forwards(rank)'
<1>1. CASE UNCHANGED restartVars
  <2>1. UNCHANGED vars /\ UNCHANGED storeVars /\ acked' = acked
    BY <1>1 DEF restartVars
  <2>2. Books /\ Untouched /\ FreshKicks(RootIds) /\ [Next]_vars /\ [RestartNext]_restartVars
    BY <1>1, <2>1, NoRootIsKicked DEF Forwards, OnDisk
  <2>3. OnDisk' /\ RootsKept' /\ EnqueuedFirst' /\ ResultsGenuine'
    BY <2>2, OnDiskStep, RootsKeptStep, EnqueuedFirstStep, GenuineStep DEF Forwards
  <2>4. Tracked(RootIds)' /\ Alone(RootIds)'
    BY <2>2, AloneStep DEF Forwards
  <2>5. jobs' = jobs
    BY <2>1 DEF vars
  <2>6. ASSUME NEW done \in acked, done[1] \in RootIds PROVE Beyond(rank, done)'
    <3>1. Beyond(rank, done) /\ Past(rank, jobs, done)
      BY <2>6 DEF Forwards, NoneFallsBack, Beyond
    <3> QED  BY <2>1, <2>5, <3>1, BeyondUndisturbed
  <2>7. NoneFallsBack(rank)'
    BY <2>1, <2>6 DEF Forwards, NoneFallsBack
  <2> QED  BY <2>3, <2>4, <2>7 DEF Forwards
<1> QED
  BY <1>1, RunsForwards, CheckpointsForwards, CrashForwards, StartForwards DEF RestartNext

(* However often and whenever the program is killed, a job that was added   *)
(* to the run never executes a state again whose completion the store has   *)
(* answered: for every workflow without a cycle.  With one a job comes back *)
(* to a state it has completed although nobody dies.                        *)
THEOREM NoRootRepeats ==
  ASSUME NEW rank, Forward(rank), JobsAreNamed
  PROVE  RestartSpec => []RootsNeverRepeat
<1>1. Forwards(rank) => RootsNeverRepeat
  <2> SUFFICES ASSUME Forwards(rank), NEW w \in Workers, wpc[w] = "exec", Len(wjob[w].id) = 1,
                      <<wjob[w].id, wjob[w].state>> \in acked
               PROVE  FALSE
    BY DEF RootsNeverRepeat
  <2> DEFINE id == wjob[w].id
             s == StateOf(w)
             done == <<id, wjob[w].state>>
  <2>1. wjob[w] \in JobIn(s) /\ s \in Working
    BY WorkerFacts DEF Forwards, OnDisk, Books, TypeOK
  <2>2. id \in RootIds /\ wjob[w].state = s
    <3>1. id \in Id /\ wjob[w].state = s
      BY <2>1 DEF JobIn
    <3>2. Len(id) = 1
      OBVIOUS
    <3> HIDE DEF id, s
    <3> QED  BY <3>1, <3>2 DEF RootIds
  <2>3. id \in OnItsWay(s)
    <3>1. InHand(w) /\ Held(w) = wjob[w]
      BY DEF InHand, Held
    <3> QED  BY <2>1, <3>1, HeldParts DEF OnItsWay
  <2>4. jobs[id] = s
    BY <2>1, <2>2, <2>3 DEF Forwards, Tracked
  <2>5. Past(rank, jobs, done) /\ done[1] = id /\ done[2] = s
    <3>1. done[1] = id /\ done[2] = s
      BY <2>2
    <3> QED  BY <2>2, <3>1 DEF Forwards, NoneFallsBack, Beyond
  <2>6. rank[s] \in Int /\ rank[s] < rank[s]
    BY <2>1, <2>4, <2>5 DEF Past, Forward, Working, StateName
  <2> QED  BY <2>6
<1>2. RestartInit => Forwards(rank)
  BY ForwardsInit
<1>3. Forwards(rank) /\ [RestartNext]_restartVars => Forwards(rank)'
  BY ForwardsStep
<1> QED  BY <1>1, <1>2, <1>3, PTL DEF RestartSpec
=============================================================================
