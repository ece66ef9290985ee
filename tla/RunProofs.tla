------------------------------- MODULE RunProofs -------------------------------
(***************************************************************************)
(* What the processor says of a run, proved for every workflow, every      *)
(* Concurrency and any cancellation: the counts it shows, the records it   *)
(* saves, the jobs it holds, and when it calls the run finished.           *)
(***************************************************************************)
EXTENDS ProcessorProofs

-----------------------------------------------------------------------------
(* StatusFresh: handleReturn skips the status update after a Return that    *)
(* brings a job back into the state it came from, without kicks.  It may:   *)
(* the job gives up its place and takes the next one, or the longest        *)
(* waiting job takes the place and the returning one waits instead.         *)
LEMMA SameStateSameCounts ==
  ASSUME NEW ss, IsStorage(ss), Conserving(ss), NEW job \in Job, job.state \in Working
  PROVE  StatusCounts(ProcessJob(RunNextWaitingJob(ss, job.state), job)) = StatusCounts(ss)
<1> DEFINE s == job.state
           mid == RunNextWaitingJob(ss, s)
           new == ProcessJob(mid, job)
           n == Len(ss.waitq[s])
<1>1. /\ s \in States /\ s \notin Terminal /\ ss.waitq[s] \in Seq(JobIn(s)) /\ n \in Nat
      /\ ss.executing[s] \in Int /\ ss.waiting[s] \in Int /\ Concurrency[s] \in Nat
      /\ ss.executing \in Counts /\ ss.waiting \in Counts
  BY LenProperties, ConfigAssumption DEF Working, IsStorage, Counts
<1>2. ss.executing[s] <= Concurrency[s] /\ (n # 0 => ss.executing[s] = Concurrency[s])
  BY <1>1, EmptySeq DEF Conserving
<1>3. IsStorage(mid)
  BY RunNextWaitingJobEffect
<1>4. CASE n = 0
  <2>1. /\ mid.executing = [ss.executing EXCEPT ![s] = @ - 1]
        /\ mid.waiting = ss.waiting /\ mid.completed = ss.completed
    BY <1>4, FreedFields
  <2> HIDE DEF mid
  <2>2. mid.executing[s] < Concurrency[s]
    BY <1>1, <1>2, <2>1 DEF Counts
  <2>3. /\ new.executing = [mid.executing EXCEPT ![s] = @ + 1]
        /\ new.waiting = mid.waiting /\ new.completed = mid.completed
    BY <1>1, <1>3, <2>2, SentFields
  <2> HIDE DEF s, new
  <2>4. new.executing = ss.executing
    BY <1>1, <2>1, <2>3 DEF Counts
  <2> QED  BY <2>1, <2>3, <2>4 DEF StatusCounts, new, s, mid
<1>5. CASE n # 0
  <2>1. /\ mid.executing = ss.executing /\ mid.completed = ss.completed
        /\ mid.waiting = [ss.waiting EXCEPT ![s] = @ - 1]
    <3>1. s \in Working /\ Len(ss.waitq[s]) # 0
      BY <1>5
    <3> HIDE DEF s
    <3> QED  BY <3>1, PassedFields
  <2> HIDE DEF mid
  <2>2. ~(mid.executing[s] < Concurrency[s])
    BY <1>1, <1>2, <1>5, <2>1
  <2>3. /\ new.waiting = [mid.waiting EXCEPT ![s] = @ + 1]
        /\ new.executing = mid.executing /\ new.completed = mid.completed
    BY <1>1, <1>3, <2>2, QueuedFields
  <2> HIDE DEF s, new
  <2>4. new.waiting = ss.waiting
    BY <1>1, <2>1, <2>3 DEF Counts
  <2> QED  BY <2>1, <2>3, <2>4 DEF StatusCounts, new, s, mid
<1> QED  BY <1>4, <1>5

(* What the listener has seen is current unless an update is due: noted in  *)
(* needsUpdate, or about to be when the Return in hand has been handled.    *)
Fresh == shown = StatusCounts(storage)

FreshUnlessDue ==
  /\ proc = "select" => Fresh
  /\ proc = "drain" /\ ~needsUpdate => Fresh
  /\ proc \in {"kicks", "persist"} /\ ~needsUpdate /\ ~ChangesCounts(cur) => Fresh

LEMMA FreshInit == Init => FreshUnlessDue
BY DEF Init, FreshUnlessDue

LEMMA FreshStep == Books /\ FreshUnlessDue /\ [Next]_vars => FreshUnlessDue'
<1> SUFFICES ASSUME Books, FreshUnlessDue, [Next]_vars PROVE FreshUnlessDue'
  OBVIOUS
<1> USE DEF coordVars, workerVars, others, statusVars
<1>1. ASSUME UNCHANGED <<proc, needsUpdate, cur, shown>>,
             StatusCounts(storage)' = StatusCounts(storage)
      PROVE  FreshUnlessDue'
  BY <1>1 DEF FreshUnlessDue, Fresh, ChangesCounts
<1>2. ASSUME UNCHANGED <<proc, needsUpdate, cur, shown, storage>> PROVE FreshUnlessDue'
  BY <1>1, <1>2 DEF StatusCounts
<1>3. ASSUME proc' \in {"enqueue", "shutdown", "closing", "done"} PROVE FreshUnlessDue'
  BY <1>3 DEF FreshUnlessDue
<1>4. ASSUME Fresh' PROVE FreshUnlessDue'
  BY <1>4 DEF FreshUnlessDue
<1>5. ASSUME HandleReturn PROVE FreshUnlessDue'
  <2> DEFINE rtn == Head(returnChan)
             job == [id |-> rtn.id, state |-> rtn.state]
  <2>1. /\ rtn \in Return /\ rtn.prior \in Working /\ rtn.id \in Id /\ rtn.state \in States
    BY <1>5, HeadReturn DEF HandleReturn
  <2>2. /\ cur' = rtn /\ proc' = "kicks" /\ proc \in {"select", "drain"}
        /\ UNCHANGED <<needsUpdate, shown>>
        /\ storage' = ProcessJob(RunNextWaitingJob(storage, rtn.prior), job)
    BY <1>5 DEF HandleReturn
  <2> HIDE DEF rtn
  <2>3. ASSUME ~ChangesCounts(rtn), Fresh PROVE Fresh'
    <3>1. rtn.prior = rtn.state
      BY <2>3 DEF ChangesCounts
    <3>2. job \in Job /\ job.state = rtn.prior
      BY <2>1, <3>1 DEF Job, StateName
    <3>3. storage' = ProcessJob(RunNextWaitingJob(storage, job.state), job)
      BY <2>2, <3>2
    <3> HIDE DEF job
    <3>4. StatusCounts(storage') = StatusCounts(storage)
      BY <2>1, <3>2, <3>3, SameStateSameCounts DEF Books, TypeOK, WorkConserving
    <3> QED  BY <2>2, <2>3, <3>4 DEF Fresh, StatusCounts
  <2> QED  BY <2>2, <2>3 DEF FreshUnlessDue, ChangesCounts
<1>6. ASSUME KickJob PROVE FreshUnlessDue'
  <2>1. cur' = cur /\ proc = "kicks" /\ proc' = "kicks" /\ k < Len(cur.kicks)
    BY <1>6 DEF KickJob
  <2>2. k \in 0 .. Len(cur.kicks) /\ cur.kicks \in Seq(StateName)
    BY <2>1 DEF Books, TypeOK, Return
  <2>3. Len(cur.kicks) > 0
    BY <2>1, <2>2, LenProperties
  <2> QED  BY <2>1, <2>3 DEF FreshUnlessDue, ChangesCounts
<1>7. ASSUME PersistJob \/ PersistKick PROVE FreshUnlessDue'
  BY <1>7 DEF PersistJob, PersistKick, FreshUnlessDue, Fresh, ChangesCounts, StatusCounts
<1>8. ASSUME HandleReturnEnds PROVE FreshUnlessDue'
  BY <1>8 DEF HandleReturnEnds, FreshUnlessDue, Fresh, StatusCounts
<1>9. ASSUME DrainEnds PROVE FreshUnlessDue'
  BY <1>4, <1>9 DEF DrainEnds, FreshUnlessDue, Fresh, StatusCounts
<1>10. ASSUME InitialStatus \/ ExecAllTerminal PROVE FreshUnlessDue'
  BY <1>4, <1>10 DEF InitialStatus, ExecAllTerminal, Fresh, StatusCounts
<1>11. ASSUME NEW id, EnqueueJob(id) PROVE FreshUnlessDue'
  BY <1>3, <1>11 DEF EnqueueJob
<1>12. ASSUME CoordinatorSeesCancel \/ CloseJobChannels \/ CloseReturnChan \/ ExecStart
       PROVE  FreshUnlessDue'
  BY <1>3, <1>12 DEF CoordinatorSeesCancel, CloseJobChannels, CloseReturnChan, ExecStart
<1>13. ASSUME Cancel \/ ExecReturn \/ PersistFails \/ ProgramDies \/ UNCHANGED vars
       PROVE  FreshUnlessDue'
  BY <1>2, <1>13 DEF Cancel, ExecReturn, PersistFails, ProgramDies, Die, vars
<1>14. ASSUME NEW w \in Workers, WorkerReceive(w) PROVE FreshUnlessDue'
  <2>1. StatusCounts(storage)' = StatusCounts(storage)
    BY <1>14 DEF WorkerReceive, StatusCounts, Books, TypeOK, IsStorage, StorageFields
  <2> QED  BY <1>1, <1>14, <2>1 DEF WorkerReceive
<1>15. ASSUME NEW w \in Workers, Worker(w), ~WorkerReceive(w) PROVE FreshUnlessDue'
  BY <1>2, <1>15 DEF Worker, WorkerSeesCancel, WorkerSeesClosed, WorkerExecutes, WorkerDrops,
                     WorkerSends, WorkerSendsOnClosed, Die
<1>16. ASSUME Panic PROVE FreshUnlessDue'
  BY <1>3, <1>16 DEF Panic
<1> QED
  BY <1>5, <1>6, <1>7, <1>8, <1>9, <1>10, <1>11, <1>12, <1>13, <1>14, <1>15, <1>16
  DEF Next, Step, Finished, Coordinator, EnqueueUnregistered, HandleUnregistered,
      KickUnregistered

(* Whenever the coordinator goes to sleep the listener has seen the current *)
(* counts, for every workflow: the updates that handleReturn and process    *)
(* skip (processor.go:363-365, 395) would have shown nothing new.           *)
THEOREM ListenerIsCurrent == Spec => []StatusFresh
<1>1. FreshUnlessDue => StatusFresh
  BY DEF FreshUnlessDue, Fresh, StatusFresh
<1> QED
  BY <1>1, BooksInit, BooksStep, FreshInit, FreshStep, PTL DEF Spec

-----------------------------------------------------------------------------
(* Before Exec has looked at the run nothing has happened: the goroutines   *)
(* of the run do not exist yet.                                             *)
Untouched ==
  main = "call" => /\ proc = "off" /\ storage = NewStateStorage /\ returnChan = <<>>
                   /\ \A w \in Workers : wpc[w] = "off"

LEMMA UntouchedInit == Init => Untouched
BY DEF Init, Untouched

LEMMA UntouchedStep == Untouched /\ [Next]_vars => Untouched'
<1> SUFFICES ASSUME Untouched, [Next]_vars, main' = "call" PROVE Untouched'
  BY DEF Untouched
<1> USE DEF coordVars, workerVars, others, statusVars
<1>1. ASSUME main = "call", Coordinator PROVE FALSE
  BY <1>1 DEF Untouched, Coordinator, EnqueueJob, EnqueueUnregistered, InitialStatus,
              CoordinatorSeesCancel, HandleReturn, HandleUnregistered, KickJob,
              KickUnregistered, PersistJob, PersistKick, PersistFails, HandleReturnEnds,
              DrainEnds, CloseJobChannels, CloseReturnChan
<1>2. ASSUME main = "call", NEW w \in Workers, Worker(w) PROVE FALSE
  BY <1>2 DEF Untouched, Worker, WorkerSeesCancel, WorkerReceive, WorkerSeesClosed,
              WorkerExecutes, WorkerDrops, WorkerSends, WorkerSendsOnClosed
<1>3. ASSUME Cancel \/ UNCHANGED vars PROVE Untouched'
  BY <1>3 DEF Cancel, vars, Untouched
<1>4. ASSUME ExecAllTerminal \/ ExecStart \/ ExecReturn \/ ProgramDies PROVE FALSE
  BY <1>4 DEF Untouched, ExecAllTerminal, ExecStart, ExecReturn, ProgramDies, Die
<1>5. ASSUME Coordinator PROVE main' = main
  BY <1>5 DEF Coordinator, EnqueueJob, EnqueueUnregistered, InitialStatus,
              CoordinatorSeesCancel, HandleReturn, HandleUnregistered, KickJob,
              KickUnregistered, PersistJob, PersistKick, PersistFails, HandleReturnEnds,
              DrainEnds, CloseJobChannels, CloseReturnChan, Panic, Die
<1>6. ASSUME NEW w \in Workers, Worker(w) PROVE main' = main
  BY <1>6 DEF Worker, WorkerSeesCancel, WorkerReceive, WorkerSeesClosed,
              WorkerExecutes, WorkerDrops, WorkerSends, WorkerSendsOnClosed, Die
<1> QED
  BY <1>1, <1>2, <1>3, <1>4, <1>5, <1>6 DEF Next, Step, Finished

(* A goroutine that panics brings the program down: it never runs again.    *)
LEMMA ExitStays == [Next]_vars /\ exit' = "running" => exit = "running"
<1> SUFFICES ASSUME [Next]_vars, exit' = "running" PROVE exit = "running"
  OBVIOUS
<1> USE DEF coordVars, workerVars, others, statusVars
<1>1. ASSUME Coordinator PROVE exit = "running"
  BY <1>1 DEF Coordinator, EnqueueJob, EnqueueUnregistered, InitialStatus,
              CoordinatorSeesCancel, HandleReturn, HandleUnregistered, KickJob,
              KickUnregistered, PersistJob, PersistKick, PersistFails, HandleReturnEnds,
              DrainEnds, CloseJobChannels, CloseReturnChan, Panic, Die
<1>2. ASSUME NEW w \in Workers, Worker(w) PROVE exit = "running"
  BY <1>2 DEF Worker, WorkerSeesCancel, WorkerReceive, WorkerSeesClosed,
              WorkerExecutes, WorkerDrops, WorkerSends, WorkerSendsOnClosed, Die
<1>3. ASSUME \/ Cancel \/ ExecAllTerminal \/ ExecStart \/ ExecReturn \/ ProgramDies
             \/ UNCHANGED vars
      PROVE  exit = "running"
  BY <1>3 DEF Cancel, ExecAllTerminal, ExecStart, ExecReturn, ProgramDies, Die, vars
<1> QED  BY <1>1, <1>2, <1>3 DEF Next, Step, Finished

(* The steps that end that way.                                             *)
LEMMA DyingSteps ==
  /\ \A id \in todo : EnqueueUnregistered(id) => exit' # "running"
  /\ HandleUnregistered => exit' # "running"
  /\ KickUnregistered => exit' # "running"
  /\ PersistFails => exit' # "running"
  /\ ProgramDies => exit' # "running"
  /\ \A w \in Workers : WorkerSendsOnClosed(w) => exit' # "running"
BY DEF EnqueueUnregistered, HandleUnregistered, KickUnregistered, PersistFails, ProgramDies,
       WorkerSendsOnClosed, Panic, Die

-----------------------------------------------------------------------------
(* SavedIsCurrent: between two Returns the records played over the run      *)
(* Exec was called with give Run.Jobs.  While a Return is handled, the      *)
(* records miss exactly the jobs named by Unsaved.                          *)
Kicked(lo, hi) == {KickId(i) : i \in lo .. hi - 1}

Unsaved ==
  IF proc = "kicks" THEN {cur.id} \cup Kicked(0, k)
  ELSE IF proc = "persist" THEN Kicked(k, Len(cur.kicks))
  ELSE {}

Recorded(run) ==
  /\ DOMAIN jobs = DOMAIN saved \cup DOMAIN run \cup Unsaved
  /\ \A id \in DOMAIN jobs \ Unsaved : jobs[id] = Overlay(saved, run)[id]

(* What is still to be saved is what Run.Jobs holds.                        *)
HandAgrees ==
  /\ proc = "kicks" => /\ jobs[cur.id] = cur.state
                       /\ \A i \in 0 .. k - 1 : jobs[KickId(i)] = cur.kicks[i + 1]
  /\ proc = "persist" => \A i \in k .. Len(cur.kicks) - 1 : jobs[KickId(i)] = cur.kicks[i + 1]

(* Of a Return that the coordinator panics over nothing is saved.           *)
Replayed == exit = "running" => HandAgrees /\ \E run \in InitialRuns : Recorded(run)

(* No two kicks of a Return, and no kick and its parent, share an id.       *)
LEMMA KickIdsDiffer ==
  ASSUME Books, proc \in {"kicks", "persist"}, NEW i \in Nat
  PROVE  KickId(i) # cur.id /\ \A j \in Nat : KickId(i) = KickId(j) => i = j
<1>1. cur.id \in Seq(Nat) /\ Len(cur.id) \in Nat
  BY LenProperties DEF Books, TypeOK, Return, Id
<1>2. \A j \in Nat : /\ Len(Append(cur.id, j)) = Len(cur.id) + 1
                     /\ Append(cur.id, j)[Len(cur.id) + 1] = j
  BY <1>1, AppendProperties
<1>3. \A j \in Nat : Append(cur.id, i) = Append(cur.id, j) => i = j
  BY <1>2
<1>4. Append(cur.id, i) # cur.id
  BY <1>1, <1>2
<1> QED  BY <1>3, <1>4 DEF KickId

LEMMA ReplayedInit == Init => Replayed
BY DEF Init, Replayed, HandAgrees, Recorded, Unsaved, Overlay

LEMMA ReplayedStep == Books /\ Untouched /\ Replayed /\ [Next]_vars => Replayed'
<1> SUFFICES ASSUME Books, Untouched, Replayed, [Next]_vars, exit = "running",
                    exit' = "running"
             PROVE  Replayed'
  BY ExitStays DEF Replayed
<1> USE DEF coordVars, workerVars, others, statusVars
<1>0. PICK run \in InitialRuns : Recorded(run)
  BY DEF Replayed
<1>1. ASSUME UNCHANGED <<jobs, saved, proc, cur, k>> PROVE Replayed'
  <2>1. \A i \in Nat : KickId(i)' = KickId(i)
    BY <1>1 DEF KickId
  <2>2. Unsaved' = Unsaved
    BY <1>1 DEF Unsaved, Kicked, KickId
  <2>3. HandAgrees'
    BY <1>1 DEF Replayed, HandAgrees, KickId
  <2>4. Recorded(run)'
    BY <1>0, <1>1, <2>2 DEF Recorded
  <2> QED  BY <2>3, <2>4 DEF Replayed
<1>2. ASSUME UNCHANGED <<jobs, saved>>,
             proc \notin {"kicks", "persist"}, proc' \notin {"kicks", "persist"}
      PROVE  Replayed'
  BY <1>0, <1>2 DEF Replayed, HandAgrees, Recorded, Unsaved
<1>3. ASSUME HandleReturn PROVE Replayed'
  <2> DEFINE rtn == Head(returnChan)
  <2>1. /\ proc \notin {"kicks", "persist"} /\ proc' = "kicks"
        /\ cur' = rtn /\ k' = 0 /\ saved' = saved
        /\ jobs' = Put(jobs, rtn.id, rtn.state)
    BY <1>3 DEF HandleReturn
  <2> HIDE DEF rtn
  <2>2. Unsaved = {} /\ Unsaved' = {rtn.id}
    BY <2>1 DEF Unsaved, Kicked
  <2>3. HandAgrees'
    BY <2>1 DEF HandAgrees, Put
  <2>4. Recorded(run)'
    BY <1>0, <2>1, <2>2 DEF Recorded, Put
  <2> QED  BY <2>3, <2>4 DEF Replayed
<1>4. ASSUME KickJob PROVE Replayed'
  <2>1. /\ proc = "kicks" /\ proc' = "kicks" /\ cur' = cur /\ k' = k + 1 /\ saved' = saved
        /\ jobs' = Put(jobs, KickId(k), cur.kicks[k + 1])
    BY <1>4 DEF KickJob
  <2>2. k \in Nat /\ \A i \in Nat : KickId(i)' = KickId(i)
    BY <2>1, LenProperties DEF Books, TypeOK, KickId
  <2>3. \A i \in 0 .. k - 1 : KickId(i) # KickId(k)
    BY <2>1, <2>2, KickIdsDiffer
  <2>4. KickId(k) # cur.id
    BY <2>1, <2>2, KickIdsDiffer
  <2>5. Kicked(0, k)' = Kicked(0, k) \cup {KickId(k)}
    <3>1. 0 .. k' - 1 = (0 .. k - 1) \cup {k}
      BY <2>1, <2>2
    <3> QED  BY <2>2, <3>1 DEF Kicked
  <2>6. Unsaved' = Unsaved \cup {KickId(k)}
    BY <2>1, <2>5 DEF Unsaved
  <2>7. HandAgrees'
    <3>1. cur.id \in DOMAIN jobs /\ \A i \in 0 .. k - 1 : KickId(i) \in DOMAIN jobs
      BY <1>0, <2>1 DEF Recorded, Unsaved, Kicked
    <3>2. jobs'[cur.id] = cur.state
      BY <2>1, <2>4, <3>1 DEF Replayed, HandAgrees, Put
    <3>3. \A i \in 0 .. k - 1 : jobs'[KickId(i)] = cur.kicks[i + 1]
      BY <2>1, <2>3, <3>1 DEF Replayed, HandAgrees, Put
    <3>4. jobs'[KickId(k)] = cur.kicks[k + 1]
      BY <2>1 DEF Put
    <3>5. \A i \in 0 .. k' - 1 : i \in 0 .. k - 1 \/ i = k
      BY <2>1, <2>2
    <3> QED  BY <2>1, <2>2, <3>2, <3>3, <3>4, <3>5 DEF HandAgrees
  <2>8. Recorded(run)'
    BY <1>0, <2>1, <2>6 DEF Recorded, Put
  <2> QED  BY <2>7, <2>8 DEF Replayed
<1>5. ASSUME PersistJob PROVE Replayed'
  <2>1. /\ proc = "kicks" /\ proc' = "persist" /\ k = Len(cur.kicks) /\ cur' = cur /\ k' = 0
        /\ jobs' = jobs /\ saved' = Put(saved, cur.id, cur.state)
    BY <1>5 DEF PersistJob
  <2>2. \A i \in Nat : KickId(i)' = KickId(i)
    BY <2>1 DEF KickId
  <2>3. Kicked(k, Len(cur.kicks))' = Kicked(0, k)
    BY <2>1 DEF Kicked, KickId
  <2>4. Unsaved = {cur.id} \cup Kicked(0, k) /\ Unsaved' = Kicked(0, k)
    BY <2>1, <2>3 DEF Unsaved
  <2>5. HandAgrees'
    BY <2>1, <2>2 DEF Replayed, HandAgrees, KickId
  <2>6. Recorded(run)'
    <3>1. DOMAIN jobs' = DOMAIN saved' \cup DOMAIN run \cup Unsaved'
      BY <1>0, <2>1, <2>4 DEF Recorded, Put
    <3>2. ASSUME NEW id \in DOMAIN jobs \ Unsaved'
          PROVE  jobs[id] = Overlay(saved', run)[id]
      <4>1. CASE id = cur.id
        BY <2>1, <4>1 DEF Replayed, HandAgrees, Overlay, Put
      <4>2. CASE id # cur.id
        BY <1>0, <2>1, <2>4, <3>1, <3>2, <4>2 DEF Recorded, Overlay, Put
      <4> QED  BY <4>1, <4>2
    <3> QED  BY <2>1, <3>1, <3>2 DEF Recorded
  <2> QED  BY <2>5, <2>6 DEF Replayed
<1>6. ASSUME PersistKick PROVE Replayed'
  <2>1. /\ proc = "persist" /\ proc' = "persist" /\ k < Len(cur.kicks) /\ cur' = cur
        /\ k' = k + 1 /\ jobs' = jobs /\ saved' = Put(saved, KickId(k), cur.kicks[k + 1])
    BY <1>6 DEF PersistKick
  <2>2. k \in Nat /\ Len(cur.kicks) \in Nat /\ \A i \in Nat : KickId(i)' = KickId(i)
    BY <2>1, LenProperties DEF Books, TypeOK, KickId, Return
  <2>3. \A i \in k + 1 .. Len(cur.kicks) - 1 : KickId(i) # KickId(k)
    BY <2>1, <2>2, KickIdsDiffer
  <2>4. k .. Len(cur.kicks) - 1 = {k} \cup (k + 1 .. Len(cur.kicks) - 1)
    BY <2>1, <2>2
  <2>5. Kicked(k, Len(cur.kicks))' = Kicked(k + 1, Len(cur.kicks))
    BY <2>1 DEF Kicked, KickId
  <2>6. /\ Unsaved = {KickId(k)} \cup Unsaved' /\ KickId(k) \notin Unsaved'
    BY <2>1, <2>3, <2>4, <2>5 DEF Unsaved, Kicked
  <2>7. HandAgrees'
    BY <2>1, <2>2, <2>4 DEF Replayed, HandAgrees
  <2>8. jobs[KickId(k)] = cur.kicks[k + 1]
    BY <2>1, <2>4 DEF Replayed, HandAgrees
  <2>9. Recorded(run)'
    <3>1. DOMAIN jobs' = DOMAIN saved' \cup DOMAIN run \cup Unsaved'
      BY <1>0, <2>1, <2>6 DEF Recorded, Put
    <3>2. ASSUME NEW id \in DOMAIN jobs \ Unsaved'
          PROVE  jobs[id] = Overlay(saved', run)[id]
      <4>1. CASE id = KickId(k)
        BY <2>1, <2>8, <4>1 DEF Overlay, Put
      <4>2. CASE id # KickId(k)
        BY <1>0, <2>1, <2>6, <3>1, <3>2, <4>2 DEF Recorded, Overlay, Put
      <4> QED  BY <4>1, <4>2
    <3> QED  BY <2>1, <3>1, <3>2 DEF Recorded
  <2> QED  BY <2>7, <2>9 DEF Replayed
<1>7. ASSUME HandleReturnEnds PROVE Replayed'
  <2>1. /\ proc = "persist" /\ proc' = "drain" /\ k = Len(cur.kicks) /\ jobs' = jobs
        /\ saved' = saved
    BY <1>7 DEF HandleReturnEnds
  <2>2. k .. Len(cur.kicks) - 1 = {}
    BY <2>1 DEF Books, TypeOK
  <2>3. Unsaved = {} /\ Unsaved' = {}
    BY <2>1, <2>2 DEF Unsaved, Kicked
  <2> QED  BY <1>0, <2>1, <2>3 DEF Replayed, HandAgrees, Recorded
<1>8. ASSUME NEW id, EnqueueJob(id) PROVE Replayed'
  BY <1>1, <1>8 DEF EnqueueJob
<1>9. ASSUME \/ InitialStatus \/ CoordinatorSeesCancel \/ DrainEnds
             \/ CloseJobChannels \/ CloseReturnChan
      PROVE  Replayed'
  BY <1>2, <1>9 DEF InitialStatus, CoordinatorSeesCancel, DrainEnds,
                    CloseJobChannels, CloseReturnChan
<1>10. ASSUME ExecStart PROVE Replayed'
  BY <1>2, <1>10 DEF ExecStart, Untouched
<1>11. ASSUME Cancel \/ ExecAllTerminal \/ ExecReturn \/ UNCHANGED vars PROVE Replayed'
  BY <1>1, <1>11 DEF Cancel, ExecAllTerminal, ExecReturn, vars
<1>12. ASSUME NEW w \in Workers, Worker(w) PROVE Replayed'
  BY <1>1, <1>12 DEF Worker, WorkerSeesCancel, WorkerReceive, WorkerSeesClosed, WorkerExecutes,
                     WorkerDrops, WorkerSends, WorkerSendsOnClosed, Die
<1> QED
  BY <1>3, <1>4, <1>5, <1>6, <1>7, <1>8, <1>9, <1>10, <1>11, <1>12, DyingSteps
  DEF Next, Step, Finished, Coordinator

(* Whatever user code returns, and however ids collide, the records handed  *)
(* to the serializer give exactly Run.Jobs whenever the coordinator is not  *)
(* in the middle of a Return (processor.go:391, 403-420).                   *)
THEOREM RecordsAreCurrent == Spec => []SavedIsCurrent
<1>1. Books /\ Replayed => SavedIsCurrent
  <2> SUFFICES ASSUME Books, Replayed, proc \notin {"kicks", "persist"}, exit = "running"
               PROVE  \E run \in InitialRuns : jobs = Overlay(saved, run)
    BY DEF SavedIsCurrent
  <2>1. PICK run \in InitialRuns : Recorded(run)
    BY DEF Replayed
  <2>2. Unsaved = {}
    BY DEF Unsaved
  <2>3. DOMAIN jobs = DOMAIN Overlay(saved, run)
    BY <2>1, <2>2 DEF Recorded, Overlay
  <2>4. jobs = [id \in DOMAIN jobs |-> jobs[id]]
    BY DEF Books, TypeOK, IsJobMap
  <2>5. \A id \in DOMAIN jobs : jobs[id] = Overlay(saved, run)[id]
    BY <2>1, <2>2 DEF Recorded
  <2>6. jobs = Overlay(saved, run)
    BY <2>3, <2>4, <2>5 DEF Overlay
  <2> QED  BY <2>6
<1> QED
  BY <1>1, BooksInit, BooksStep, UntouchedInit, UntouchedStep, ReplayedInit, ReplayedStep,
     PTL DEF Spec

-----------------------------------------------------------------------------
(* NoJobForgotten: the ids of the jobs on their way through a state, by the *)
(* places where they can be.                                                *)
Ids(q) == {q[i].id : i \in DOMAIN q}
StoredIds(ss, s) == Ids(ss.waitq[s]) \cup Ids(ss.chan[s])
HeldIds(s) == {Held(w).id : w \in Busy(s)}
ReturnedIds(ret, s) == {ret[i].id : i \in From(ret, s)}
OnItsWay(s) == StoredIds(storage, s) \cup HeldIds(s) \cup ReturnedIds(returnChan, s)

LEMMA IdsAppend ==
  ASSUME NEW S, NEW q \in Seq(S), NEW e \in S
  PROVE  Ids(Append(q, e)) = Ids(q) \cup {e.id}
<1> DEFINE new == Append(q, e)
           n == Len(q)
<1>1. /\ n \in Nat /\ DOMAIN q = 1 .. n
      /\ new \in Seq(S) /\ Len(new) = n + 1 /\ new[n + 1] = e
      /\ \A i \in 1 .. n : new[i] = q[i]
  BY LenProperties, AppendProperties
<1>2. DOMAIN new = 1 .. n + 1
  BY <1>1, LenProperties
<1>3. 1 .. n + 1 = (1 .. n) \cup {n + 1}
  BY <1>1
<1> HIDE DEF new, n
<1>4. Ids(new) = Ids(q) \cup {e.id}
  BY <1>1, <1>2, <1>3 DEF Ids
<1> QED  BY <1>4 DEF new

LEMMA InFrontFields ==
  ASSUME NEW S, NEW q \in Seq(S), NEW e \in S
  PROVE  /\ DOMAIN (<<e>> \o q) = 1 .. Len(q) + 1 /\ (<<e>> \o q)[1] = e
         /\ \A i \in 1 .. Len(q) : (<<e>> \o q)[i + 1] = q[i]
<1> DEFINE new == <<e>> \o q
           n == Len(q)
<1>1. <<e>> \in Seq(S) /\ Len(<<e>>) = 1 /\ <<e>>[1] = e
  OBVIOUS
<1>2. n \in Nat
  BY LenProperties
<1>3. /\ new \in Seq(S) /\ Len(new) = Len(<<e>>) + Len(q)
      /\ \A i \in 1 .. Len(<<e>>) + Len(q) :
            new[i] = IF i <= Len(<<e>>) THEN <<e>>[i] ELSE q[i - Len(<<e>>)]
  BY <1>1, ConcatProperties
<1> HIDE DEF new, n
<1>4. Len(new) = n + 1
  BY <1>1, <1>2, <1>3 DEF n
<1>5. new[1] = e
  BY <1>1, <1>2, <1>3 DEF n
<1>6. ASSUME NEW i \in 1 .. n PROVE new[i + 1] = q[i]
  <2>1. i + 1 \in 1 .. Len(<<e>>) + Len(q) /\ ~(i + 1 <= Len(<<e>>)) /\ i + 1 - Len(<<e>>) = i
    BY <1>1, <1>2 DEF n
  <2> QED  BY <1>3, <2>1
<1>7. DOMAIN new = 1 .. n + 1
  BY <1>3, <1>4, LenProperties
<1> QED  BY <1>5, <1>6, <1>7 DEF new, n

LEMMA IdsInFront ==
  ASSUME NEW S, NEW q \in Seq(S), NEW e \in S
  PROVE  Ids(<<e>> \o q) = Ids(q) \cup {e.id}
<1> DEFINE new == <<e>> \o q
           n == Len(q)
<1>1. n \in Nat /\ DOMAIN q = 1 .. n
  BY LenProperties
<1>2. DOMAIN new = 1 .. n + 1 /\ new[1] = e /\ \A i \in 1 .. n : new[i + 1] = q[i]
  BY InFrontFields
<1> HIDE DEF new, n
<1>3. \A j \in 1 .. n + 1 : j = 1 \/ (j - 1 \in 1 .. n /\ (j - 1) + 1 = j)
  BY <1>1
<1>4. 1 \in 1 .. n + 1 /\ \A i \in 1 .. n : i + 1 \in 1 .. n + 1
  BY <1>1
<1>5. Ids(new) \subseteq Ids(q) \cup {e.id}
  <2>1. ASSUME NEW j \in 1 .. n + 1 PROVE new[j].id \in Ids(q) \cup {e.id}
    <3>1. CASE j = 1
      BY <1>2, <3>1
    <3>2. CASE j - 1 \in 1 .. n /\ (j - 1) + 1 = j
      <4>1. new[j] = q[j - 1]
        BY <1>2, <3>2
      <4> QED  BY <1>1, <3>2, <4>1 DEF Ids
    <3> QED  BY <1>3, <3>1, <3>2
  <2> QED  BY <1>2, <2>1 DEF Ids
<1>6. Ids(q) \cup {e.id} \subseteq Ids(new)
  BY <1>1, <1>2, <1>4 DEF Ids
<1> QED  BY <1>5, <1>6 DEF new

LEMMA IdsHead ==
  ASSUME NEW S, NEW q \in Seq(S), q # <<>>
  PROVE  Ids(q) = Ids(Tail(q)) \cup {Head(q).id}
<1> DEFINE new == Tail(q)
           n == Len(q)
<1>1. /\ n \in Nat \ {0} /\ DOMAIN q = 1 .. n
      /\ new \in Seq(S) /\ Len(new) = n - 1
      /\ \A i \in 1 .. Len(new) : new[i] = q[i + 1]
  BY LenProperties, EmptySeq, HeadTailProperties
<1>2. DOMAIN new = 1 .. n - 1 /\ Head(q) = q[1]
  BY <1>1, LenProperties DEF Head
<1> HIDE DEF new, n
<1>3. \A j \in 1 .. n : j = 1 \/ (j - 1 \in 1 .. n - 1 /\ (j - 1) + 1 = j)
  BY <1>1
<1>4. 1 \in 1 .. n /\ \A i \in 1 .. n - 1 : i + 1 \in 1 .. n
  BY <1>1
<1>5. Ids(q) \subseteq Ids(new) \cup {Head(q).id}
  <2>1. ASSUME NEW j \in 1 .. n PROVE q[j].id \in Ids(new) \cup {Head(q).id}
    <3>1. CASE j = 1
      BY <1>2, <3>1
    <3>2. CASE j - 1 \in 1 .. n - 1 /\ (j - 1) + 1 = j
      <4>1. q[j] = new[j - 1]
        BY <1>1, <3>2
      <4> QED  BY <1>2, <3>2, <4>1 DEF Ids
    <3> QED  BY <1>3, <3>1, <3>2
  <2> QED  BY <1>1, <2>1 DEF Ids
<1>6. Ids(new) \cup {Head(q).id} \subseteq Ids(q)
  BY <1>1, <1>2, <1>4 DEF Ids
<1> QED  BY <1>5, <1>6 DEF new

LEMMA WithoutLastFields ==
  ASSUME NEW S, NEW q \in Seq(S), Len(q) # 0
  PROVE  /\ DOMAIN SubSeq(q, 1, Len(q) - 1) = 1 .. Len(q) - 1
         /\ \A i \in 1 .. Len(q) - 1 : SubSeq(q, 1, Len(q) - 1)[i] = q[i]
<1> DEFINE new == SubSeq(q, 1, Len(q) - 1)
           n == Len(q)
<1>1. n \in Nat \ {0}
  BY LenProperties
<1>2. \A i \in 1 .. n - 1 : q[i] \in S
  BY <1>1, ElementOfSeq
<1>3. n - 1 \in Int /\ 1 \in Int /\ n - 1 - 1 + 1 = n - 1 /\ (~(1 <= n - 1) => n - 1 = 0)
  <2> HIDE DEF n
  <2> QED  BY <1>1
<1>4. /\ new \in Seq(S)
      /\ Len(new) = IF 1 <= n - 1 THEN n - 1 - 1 + 1 ELSE 0
      /\ \A i \in 1 .. n - 1 - 1 + 1 : new[i] = q[1 + i - 1]
  BY <1>2, <1>3, SubSeqProperties
<1> HIDE DEF new, n
<1>5. \A i \in 1 .. n - 1 : 1 + i - 1 = i
  BY <1>1
<1>6. Len(new) = n - 1 /\ \A i \in 1 .. n - 1 : new[i] = q[i]
  BY <1>3, <1>4, <1>5
<1>7. DOMAIN new = 1 .. n - 1
  BY <1>4, <1>6, LenProperties
<1> QED  BY <1>6, <1>7 DEF new, n

LEMMA IdsLast ==
  ASSUME NEW S, NEW q \in Seq(S), Len(q) # 0
  PROVE  Ids(q) = Ids(SubSeq(q, 1, Len(q) - 1)) \cup {q[Len(q)].id}
<1> DEFINE new == SubSeq(q, 1, Len(q) - 1)
           n == Len(q)
<1>1. n \in Nat \ {0} /\ DOMAIN q = 1 .. n
  BY LenProperties
<1>2. DOMAIN new = 1 .. n - 1 /\ \A i \in 1 .. n - 1 : new[i] = q[i]
  BY WithoutLastFields
<1> HIDE DEF new, n
<1>3. 1 .. n = (1 .. n - 1) \cup {n}
  BY <1>1
<1>4. Ids(q) = Ids(new) \cup {q[n].id}
  BY <1>1, <1>2, <1>3 DEF Ids
<1> QED  BY <1>4 DEF new, n

(* processJob adds its job to those of its state, unless it is terminal,   *)
(* and runNextWaitingJob only moves one within its state.                  *)
LEMMA ProcessJobIds ==
  ASSUME NEW ss, IsStorage(ss), NEW job \in Job, job.state \in States, NEW s \in Working
  PROVE  StoredIds(ProcessJob(ss, job), s) =
           StoredIds(ss, s) \cup IF s = job.state THEN {job.id} ELSE {}
<1> DEFINE st == job.state
           new == ProcessJob(ss, job)
<1>1. s \in States /\ s \notin Terminal
  BY DEF Working
<1>2. st \in States /\ job \in JobIn(st)
  BY DEF Job, JobIn
<1>3. CASE st \in Terminal
  <2>1. new.waitq = ss.waitq /\ new.chan = ss.chan
    BY <1>3, CompletedFields
  <2> QED  BY <1>1, <1>3, <2>1 DEF StoredIds
<1>4. CASE st \notin Terminal /\ ss.executing[st] < Concurrency[st]
  <2>1. new.waitq = ss.waitq /\ new.chan = [ss.chan EXCEPT ![st] = Append(@, job)]
    BY <1>4, SentFields
  <2>2. ss.chan[st] \in Seq(JobIn(st))
    BY <1>2 DEF IsStorage
  <2>3. Ids(Append(ss.chan[st], job)) = Ids(ss.chan[st]) \cup {job.id}
    BY <1>2, <2>2, IdsAppend
  <2> HIDE DEF st, new
  <2>4. new.chan[s] = IF s = st THEN Append(ss.chan[st], job) ELSE ss.chan[s]
    BY <1>1, <2>1 DEF IsStorage
  <2>5. StoredIds(new, s) = StoredIds(ss, s) \cup IF s = st THEN {job.id} ELSE {}
    BY <2>1, <2>3, <2>4 DEF StoredIds
  <2> QED  BY <2>5 DEF st, new
<1>5. CASE st \notin Terminal /\ ~(ss.executing[st] < Concurrency[st])
  <2>1. new.chan = ss.chan /\ new.waitq = [ss.waitq EXCEPT ![st] = <<job>> \o @]
    BY <1>5, QueuedFields
  <2>2. ss.waitq[st] \in Seq(JobIn(st))
    BY <1>2 DEF IsStorage
  <2>3. Ids(<<job>> \o ss.waitq[st]) = Ids(ss.waitq[st]) \cup {job.id}
    BY <1>2, <2>2, IdsInFront
  <2> HIDE DEF st, new
  <2>4. new.waitq[s] = IF s = st THEN <<job>> \o ss.waitq[st] ELSE ss.waitq[s]
    BY <1>1, <2>1 DEF IsStorage
  <2>5. StoredIds(new, s) = StoredIds(ss, s) \cup IF s = st THEN {job.id} ELSE {}
    BY <2>1, <2>3, <2>4 DEF StoredIds
  <2> QED  BY <2>5 DEF st, new
<1> QED  BY <1>3, <1>4, <1>5

LEMMA RunNextWaitingJobIds ==
  ASSUME NEW ss, IsStorage(ss), NEW t \in Working, NEW s \in Working
  PROVE  StoredIds(RunNextWaitingJob(ss, t), s) = StoredIds(ss, s)
<1> DEFINE new == RunNextWaitingJob(ss, t)
           q == ss.waitq[t]
           n == Len(q)
<1>1. /\ s \in States /\ t \in States
      /\ q \in Seq(JobIn(t)) /\ ss.chan[t] \in Seq(JobIn(t))
  BY DEF Working, IsStorage
<1>2. CASE n = 0
  <2>1. new.waitq = ss.waitq /\ new.chan = ss.chan
    BY <1>2, FreedFields
  <2> QED  BY <2>1 DEF StoredIds
<1>3. CASE n # 0
  <2>1. /\ q[n] \in JobIn(t)
        /\ new.waitq = [ss.waitq EXCEPT ![t] = SubSeq(@, 1, n - 1)]
        /\ new.chan = [ss.chan EXCEPT ![t] = Append(@, q[n])]
    BY <1>3, PassedFields
  <2>2. Ids(Append(ss.chan[t], q[n])) = Ids(ss.chan[t]) \cup {q[n].id}
    BY <1>1, <2>1, IdsAppend
  <2>3. Ids(q) = Ids(SubSeq(q, 1, n - 1)) \cup {q[n].id}
    BY <1>1, <1>3, IdsLast
  <2> HIDE DEF new
  <2>4. /\ new.waitq[s] = IF s = t THEN SubSeq(q, 1, n - 1) ELSE ss.waitq[s]
        /\ new.chan[s] = IF s = t THEN Append(ss.chan[t], q[n]) ELSE ss.chan[s]
    BY <1>1, <2>1 DEF IsStorage
  <2>5. CASE s = t
    <3>1. StoredIds(new, s) = Ids(SubSeq(q, 1, n - 1)) \cup Ids(Append(ss.chan[t], q[n]))
      BY <2>4, <2>5 DEF StoredIds
    <3>2. StoredIds(ss, s) = Ids(q) \cup Ids(ss.chan[t])
      BY <2>5 DEF StoredIds
    <3> QED  BY <2>2, <2>3, <3>1, <3>2 DEF new
  <2>6. CASE s # t
    BY <2>4, <2>6 DEF StoredIds, new
  <2> QED  BY <2>5, <2>6
<1> QED  BY <1>2, <1>3

LEMMA ReturnedIdsAppend ==
  ASSUME NEW ret \in Seq(Return), NEW r \in Return, NEW s
  PROVE  ReturnedIds(Append(ret, r), s) =
           ReturnedIds(ret, s) \cup IF r.prior = s THEN {r.id} ELSE {}
<1> DEFINE new == Append(ret, r)
           n == Len(ret)
<1>1. /\ n \in Nat /\ DOMAIN ret = 1 .. n
      /\ new \in Seq(Return) /\ Len(new) = n + 1 /\ new[n + 1] = r
      /\ \A i \in 1 .. n : new[i] = ret[i]
  BY LenProperties, AppendProperties
<1>2. DOMAIN new = (1 .. n) \cup {n + 1}
  BY <1>1, LenProperties
<1> HIDE DEF new, n
<1>3. From(new, s) = From(ret, s) \cup IF r.prior = s THEN {n + 1} ELSE {}
  BY <1>1, <1>2 DEF From
<1>4. \A i \in From(ret, s) : i \in 1 .. n
  BY <1>1 DEF From
<1>5. ReturnedIds(new, s) = ReturnedIds(ret, s) \cup IF r.prior = s THEN {r.id} ELSE {}
  BY <1>1, <1>3, <1>4 DEF ReturnedIds
<1> QED  BY <1>5 DEF new

LEMMA ReturnedIdsHead ==
  ASSUME NEW ret \in Seq(Return), ret # <<>>, NEW s
  PROVE  ReturnedIds(ret, s) =
           ReturnedIds(Tail(ret), s) \cup IF Head(ret).prior = s THEN {Head(ret).id} ELSE {}
<1> DEFINE new == Tail(ret)
           n == Len(ret)
<1>1. /\ n \in Nat \ {0} /\ DOMAIN ret = 1 .. n
      /\ new \in Seq(Return) /\ Len(new) = n - 1
      /\ \A i \in 1 .. Len(new) : new[i] = ret[i + 1]
  BY LenProperties, EmptySeq, HeadTailProperties
<1>2. DOMAIN new = 1 .. n - 1 /\ Head(ret) = ret[1]
  BY <1>1, LenProperties DEF Head
<1> HIDE DEF new, n
<1>3. \A j \in 1 .. n : j = 1 \/ (j - 1 \in 1 .. n - 1 /\ (j - 1) + 1 = j)
  BY <1>1
<1>4. 1 \in 1 .. n /\ \A i \in 1 .. n - 1 : i + 1 \in 1 .. n
  BY <1>1
<1>5. ASSUME NEW j \in From(ret, s)
      PROVE  ret[j].id \in ReturnedIds(new, s)
                             \cup IF Head(ret).prior = s THEN {Head(ret).id} ELSE {}
  <2>1. j \in 1 .. n /\ ret[j].prior = s
    BY <1>1 DEF From
  <2>2. CASE j = 1
    BY <1>2, <2>1, <2>2
  <2>3. CASE j - 1 \in 1 .. n - 1 /\ (j - 1) + 1 = j
    <3>1. ret[j] = new[j - 1]
      BY <1>1, <2>3
    <3>2. j - 1 \in From(new, s)
      BY <1>2, <2>1, <2>3, <3>1 DEF From
    <3> QED  BY <3>1, <3>2 DEF ReturnedIds
  <2> QED  BY <1>3, <2>1, <2>2, <2>3
<1>6. ASSUME NEW i \in From(new, s) PROVE new[i].id \in ReturnedIds(ret, s)
  <2>1. i \in 1 .. n - 1 /\ new[i] = ret[i + 1] /\ i + 1 \in 1 .. n /\ new[i].prior = s
    BY <1>1, <1>2, <1>4 DEF From
  <2>2. i + 1 \in From(ret, s)
    BY <1>1, <2>1 DEF From
  <2> QED  BY <2>1, <2>2 DEF ReturnedIds
<1>7. Head(ret).prior = s => Head(ret).id \in ReturnedIds(ret, s)
  BY <1>1, <1>2, <1>4 DEF ReturnedIds, From
<1>8. ReturnedIds(ret, s) =
        ReturnedIds(new, s) \cup IF Head(ret).prior = s THEN {Head(ret).id} ELSE {}
  BY <1>5, <1>6, <1>7 DEF ReturnedIds
<1> QED  BY <1>8 DEF new

(* A worker hands its job on or keeps it: nothing leaves the way through a  *)
(* state.                                                                   *)
LEMMA HeldStep ==
  ASSUME Books, NEW w \in Workers, NEW to \in WorkerStates, wpc' = [wpc EXCEPT ![w] = to],
         \A x \in Workers \ {w} : wjob'[x] = wjob[x] /\ wret'[x] = wret[x],
         NEW s \in Working
  PROVE  /\ HeldIds(s) \subseteq HeldIds(s)' \cup IF w \in Busy(s) THEN {Held(w).id} ELSE {}
         /\ s = StateOf(w) /\ InHand(w)' => Held(w)'.id \in HeldIds(s)'
<1>1. \A x \in WorkersOf(s) : x \in Workers
  BY DEF Workers
<1>2. wpc'[w] = to /\ \A x \in Workers \ {w} : wpc'[x] = wpc[x]
  BY DEF Books, TypeOK
<1>3. \A x \in Workers \ {w} : Held(x)' = Held(x) /\ (InHand(x)' <=> InHand(x))
  BY <1>2 DEF Held, InHand
<1>4. \A x \in Busy(s) \ {w} : x \in Busy(s)' /\ Held(x)' = Held(x)
  BY <1>1, <1>3 DEF Busy
<1>5. HeldIds(s) \subseteq HeldIds(s)' \cup IF w \in Busy(s) THEN {Held(w).id} ELSE {}
  BY <1>4 DEF HeldIds
<1>6. s = StateOf(w) => w \in WorkersOf(s)
  BY WorkerFacts
<1>7. s = StateOf(w) /\ InHand(w)' => w \in Busy(s)'
  BY <1>6 DEF Busy
<1> QED  BY <1>5, <1>7 DEF HeldIds

LEMMA WorkerKeepsJobs ==
  ASSUME Books, NEW w \in Workers, Worker(w), NEW s \in Working
  PROVE  OnItsWay(s) \subseteq OnItsWay(s)'
<1> USE DEF coordVars, workerVars, others, statusVars
<1> DEFINE st == StateOf(w)
<1>1. /\ st \in Working /\ st \in States /\ IsStorage(storage) /\ s \in States
      /\ wpc \in [Workers -> WorkerStates] /\ DOMAIN wjob = Workers /\ DOMAIN wret = Workers
  BY WorkerFacts DEF Books, TypeOK, Working
<1>2. \A x \in WorkersOf(s) : StateOf(x) = s
  BY DEF WorkersOf, StateOf
<1>3. w \in Busy(s) => s = st /\ InHand(w)
  BY <1>2 DEF Busy
<1>4. ASSUME WorkerReceive(w) PROVE OnItsWay(s) \subseteq OnItsWay(s)'
  <2> DEFINE ch == storage.chan[st]
  <2>1. ch \in Seq(JobIn(st)) /\ ch # <<>>
    BY <1>1, <1>4 DEF IsStorage, WorkerReceive
  <2>2. Ids(ch) = Ids(Tail(ch)) \cup {Head(ch).id}
    BY <2>1, IdsHead
  <2>3. /\ wpc[w] = "idle" /\ wpc' = [wpc EXCEPT ![w] = "exec"]
        /\ wjob' = [wjob EXCEPT ![w] = Head(ch)] /\ UNCHANGED <<wret, returnChan>>
        /\ storage' = [storage EXCEPT !.chan[st] = Tail(@)]
    BY <1>4 DEF WorkerReceive
  <2>4. storage'.chan = [storage.chan EXCEPT ![st] = Tail(ch)] /\ storage'.waitq = storage.waitq
    <3>1. DOMAIN storage = StorageFields
      BY <1>1 DEF IsStorage
    <3> QED  BY <2>3, <3>1 DEF StorageFields
  <2> HIDE DEF ch, st
  <2>5. storage'.chan[s] = IF s = st THEN Tail(ch) ELSE storage.chan[s]
    BY <1>1, <2>4 DEF IsStorage
  <2>6. Held(w)' = Head(ch) /\ InHand(w)' /\ ~InHand(w)
    BY <1>1, <2>3 DEF Held, InHand
  <2>7. "exec" \in WorkerStates /\ \A x \in Workers \ {w} : wjob'[x] = wjob[x] /\ wret'[x] = wret[x]
    BY <1>1, <2>3 DEF WorkerStates
  <2>8. HeldIds(s) \subseteq HeldIds(s)' /\ (s = st => Head(ch).id \in HeldIds(s)')
    BY <1>3, <2>3, <2>6, <2>7, HeldStep DEF st
  <2>9. StoredIds(storage, s) \subseteq StoredIds(storage', s) \cup HeldIds(s)'
    BY <2>2, <2>4, <2>5, <2>8 DEF StoredIds, ch
  <2> QED  BY <2>3, <2>8, <2>9 DEF OnItsWay, StoredIds, ReturnedIds, From
<1>5. ASSUME UNCHANGED <<storage, returnChan>>, HeldIds(s) \subseteq HeldIds(s)'
      PROVE  OnItsWay(s) \subseteq OnItsWay(s)'
  BY <1>5 DEF OnItsWay, StoredIds, ReturnedIds, From
<1>6. ASSUME NEW r \in ExecResults[st], WorkerExecutes(w, r)
      PROVE  OnItsWay(s) \subseteq OnItsWay(s)'
  <2>1. /\ wpc[w] = "exec" /\ wpc' = [wpc EXCEPT ![w] = "send"]
        /\ wret' = [wret EXCEPT ![w] = [id |-> wjob[w].id, prior |-> wjob[w].state,
                                        state |-> r.state, kicks |-> r.kicks]]
        /\ wjob' = [wjob EXCEPT ![w] = NoJob] /\ UNCHANGED <<storage, returnChan>>
    BY <1>6 DEF WorkerExecutes
  <2>2. Held(w)'.id = Held(w).id /\ InHand(w)'
    BY <1>1, <2>1 DEF Held, InHand
  <2>3. "send" \in WorkerStates /\ \A x \in Workers \ {w} : wjob'[x] = wjob[x] /\ wret'[x] = wret[x]
    BY <1>1, <2>1 DEF WorkerStates
  <2>4. HeldIds(s) \subseteq HeldIds(s)'
    BY <1>3, <2>1, <2>2, <2>3, HeldStep
  <2> QED  BY <1>5, <2>1, <2>4
<1>7. ASSUME WorkerSends(w) PROVE OnItsWay(s) \subseteq OnItsWay(s)'
  <2>1. /\ wpc[w] = "send" /\ wpc' = [wpc EXCEPT ![w] = "idle"]
        /\ wret' = [wret EXCEPT ![w] = NoJob] /\ UNCHANGED <<storage, wjob>>
        /\ returnChan' = Append(returnChan, wret[w])
    BY <1>7 DEF WorkerSends
  <2>2. wret[w] \in Return /\ wret[w].prior = st /\ returnChan \in Seq(Return)
    BY <2>1 DEF Books, TypeOK
  <2>3. ReturnedIds(returnChan', s) =
          ReturnedIds(returnChan, s) \cup IF st = s THEN {wret[w].id} ELSE {}
    BY <2>1, <2>2, ReturnedIdsAppend
  <2>4. Held(w).id = wret[w].id
    BY <2>1 DEF Held
  <2>5. "idle" \in WorkerStates /\ \A x \in Workers \ {w} : wjob'[x] = wjob[x] /\ wret'[x] = wret[x]
    BY <1>1, <2>1 DEF WorkerStates
  <2>6. HeldIds(s) \subseteq HeldIds(s)' \cup IF w \in Busy(s) THEN {Held(w).id} ELSE {}
    BY <2>1, <2>5, HeldStep
  <2> HIDE DEF st
  <2> QED  BY <1>3, <2>1, <2>3, <2>4, <2>6 DEF OnItsWay, StoredIds, ReturnedIds, From
<1>8. ASSUME WorkerDrops(w) PROVE OnItsWay(s) \subseteq OnItsWay(s)'
  <2>1. /\ wpc[w] = "exec" /\ wpc' = [wpc EXCEPT ![w] = "dropped"]
        /\ UNCHANGED <<storage, returnChan, wjob, wret>>
    BY <1>8 DEF WorkerDrops
  <2>2. Held(w)'.id = Held(w).id /\ InHand(w)' /\ "dropped" \in WorkerStates
    BY <1>1, <2>1 DEF Held, InHand, WorkerStates
  <2>3. HeldIds(s) \subseteq HeldIds(s)'
    BY <1>3, <2>1, <2>2, HeldStep
  <2> QED  BY <1>5, <2>1, <2>3
<1>9. ASSUME WorkerSeesCancel(w) \/ WorkerSeesClosed(w) PROVE OnItsWay(s) \subseteq OnItsWay(s)'
  <2>1. /\ wpc[w] = "idle" /\ wpc' = [wpc EXCEPT ![w] = "done"]
        /\ UNCHANGED <<storage, returnChan, wjob, wret>>
    BY <1>9 DEF WorkerSeesCancel, WorkerSeesClosed
  <2>2. ~InHand(w) /\ "done" \in WorkerStates
    BY <2>1 DEF InHand, WorkerStates
  <2>3. HeldIds(s) \subseteq HeldIds(s)'
    BY <1>3, <2>1, <2>2, HeldStep
  <2> QED  BY <1>5, <2>1, <2>3
<1>10. ASSUME WorkerSendsOnClosed(w) PROVE OnItsWay(s) \subseteq OnItsWay(s)'
  BY <1>5, <1>10 DEF WorkerSendsOnClosed, Die, HeldIds, Busy, InHand, Held
<1> QED  BY <1>4, <1>6, <1>7, <1>8, <1>9, <1>10 DEF Worker

(* handleReturn takes the returned job out of the state it was in; the      *)
(* other steps of the coordinator take nothing away, and every job it       *)
(* stores in Run.Jobs it also sends on its way.                             *)
LEMMA CoordinatorKeepsJobs ==
  ASSUME Books, Coordinator, NEW s \in Working
  PROVE  /\ ~HandleReturn /\ ~HandleUnregistered => OnItsWay(s) \subseteq OnItsWay(s)'
         /\ HandleUnregistered => OnItsWay(s) \subseteq OnItsWay(s)' \cup {Head(returnChan).id}
         /\ HandleReturn =>
              /\ OnItsWay(s) \subseteq OnItsWay(s)' \cup {Head(returnChan).id}
              /\ s = Head(returnChan).state => Head(returnChan).id \in OnItsWay(s)'
         /\ \A id \in todo : EnqueueJob(id) /\ s = jobs[id] => id \in OnItsWay(s)'
         /\ KickJob /\ s = cur.kicks[k + 1] => KickId(k) \in OnItsWay(s)'
<1> USE DEF coordVars, workerVars, others, statusVars
<1>1. HeldIds(s)' = HeldIds(s)
  <2>1. UNCHANGED <<wpc, wjob, wret>>
    BY DEF Coordinator, EnqueueJob, EnqueueUnregistered, InitialStatus, CoordinatorSeesCancel,
           HandleReturn, HandleUnregistered, KickJob, KickUnregistered, PersistJob, PersistKick,
           PersistFails, HandleReturnEnds, DrainEnds, CloseJobChannels, CloseReturnChan, Panic, Die
  <2> QED  BY <2>1 DEF HeldIds, Busy, InHand, Held
<1>2. IsStorage(storage) /\ Conserving(storage)
  BY DEF Books, TypeOK, WorkConserving
<1>3. ASSUME UNCHANGED <<storage, returnChan>> PROVE OnItsWay(s) \subseteq OnItsWay(s)'
  BY <1>1, <1>3 DEF OnItsWay, StoredIds, ReturnedIds, From
<1>4. ASSUME NEW job \in Job, job.state \in States, storage' = ProcessJob(storage, job),
             returnChan' = returnChan
      PROVE  OnItsWay(s) \subseteq OnItsWay(s)' /\ (s = job.state => job.id \in OnItsWay(s)')
  <2>1. StoredIds(storage', s) = StoredIds(storage, s) \cup IF s = job.state THEN {job.id} ELSE {}
    BY <1>2, <1>4, ProcessJobIds
  <2>2. ReturnedIds(returnChan, s)' = ReturnedIds(returnChan, s)
    BY <1>4 DEF ReturnedIds, From
  <2>3. OnItsWay(s)' = StoredIds(storage', s) \cup HeldIds(s)' \cup ReturnedIds(returnChan, s)'
    BY DEF OnItsWay, StoredIds
  <2> QED  BY <1>1, <2>1, <2>2, <2>3 DEF OnItsWay
<1>5. ASSUME NEW id \in todo, EnqueueJob(id)
      PROVE  OnItsWay(s) \subseteq OnItsWay(s)' /\ (s = jobs[id] => id \in OnItsWay(s)')
  <2> DEFINE job == [id |-> id, state |-> jobs[id]]
  <2>1. job \in Job /\ job.state \in States
    BY <1>5 DEF EnqueueJob, Books, TypeOK, IsJobMap, Job, StateName
  <2>2. storage' = ProcessJob(storage, job) /\ returnChan' = returnChan
    BY <1>5 DEF EnqueueJob
  <2>3. job.id = id /\ job.state = jobs[id]
    OBVIOUS
  <2> HIDE DEF job
  <2> QED  BY <1>4, <2>1, <2>2, <2>3
<1>6. ASSUME KickJob
      PROVE  OnItsWay(s) \subseteq OnItsWay(s)' /\ (s = cur.kicks[k + 1] => KickId(k) \in OnItsWay(s)')
  <2> DEFINE job == [id |-> KickId(k), state |-> cur.kicks[k + 1]]
  <2>1. job \in Job /\ job.state \in States
    BY <1>6, KickType DEF KickJob, Job, StateName
  <2>2. storage' = ProcessJob(storage, job) /\ returnChan' = returnChan
    BY <1>6 DEF KickJob
  <2>3. job.id = KickId(k) /\ job.state = cur.kicks[k + 1]
    OBVIOUS
  <2> HIDE DEF job
  <2> QED  BY <1>4, <2>1, <2>2, <2>3
<1>7. ASSUME HandleReturn
      PROVE  /\ OnItsWay(s) \subseteq OnItsWay(s)' \cup {Head(returnChan).id}
             /\ s = Head(returnChan).state => Head(returnChan).id \in OnItsWay(s)'
  <2> DEFINE rtn == Head(returnChan)
             job == [id |-> rtn.id, state |-> rtn.state]
             mid == RunNextWaitingJob(storage, rtn.prior)
  <2>1. /\ rtn \in Return /\ rtn.prior \in Working /\ rtn.id \in Id /\ rtn.state \in States
        /\ returnChan \in Seq(Return) /\ returnChan # <<>>
    BY <1>7, HeadReturn DEF HandleReturn, Books, TypeOK
  <2>2. job \in Job /\ job.state \in States /\ job.id = rtn.id /\ job.state = rtn.state
    BY <2>1 DEF Job, StateName
  <2>3. storage' = ProcessJob(mid, job) /\ returnChan' = Tail(returnChan)
    BY <1>7 DEF HandleReturn
  <2>4. IsStorage(mid)
    BY <1>2, <2>1, RunNextWaitingJobEffect
  <2>5. StoredIds(mid, s) = StoredIds(storage, s)
    BY <1>2, <2>1, RunNextWaitingJobIds
  <2> HIDE DEF mid, job
  <2>6. StoredIds(storage', s) = StoredIds(mid, s) \cup IF s = job.state THEN {job.id} ELSE {}
    BY <2>2, <2>3, <2>4, ProcessJobIds
  <2>7. ReturnedIds(returnChan, s) =
          ReturnedIds(returnChan', s) \cup IF rtn.prior = s THEN {rtn.id} ELSE {}
    BY <2>1, <2>3, ReturnedIdsHead
  <2> HIDE DEF rtn
  <2>8. OnItsWay(s)' = StoredIds(storage', s) \cup HeldIds(s)' \cup ReturnedIds(returnChan', s)
    BY DEF OnItsWay, StoredIds, ReturnedIds, From
  <2>9. OnItsWay(s) \subseteq OnItsWay(s)' \cup {rtn.id}
    BY <1>1, <2>5, <2>6, <2>7, <2>8 DEF OnItsWay
  <2>10. s = rtn.state => rtn.id \in OnItsWay(s)'
    BY <2>2, <2>6, <2>8
  <2> QED  BY <2>9, <2>10 DEF rtn
<1>8. ASSUME HandleUnregistered
      PROVE  OnItsWay(s) \subseteq OnItsWay(s)' \cup {Head(returnChan).id}
  <2> DEFINE rtn == Head(returnChan)
  <2>1. rtn.prior \in Working /\ returnChan \in Seq(Return) /\ returnChan # <<>>
    BY <1>8, HeadReturn DEF HandleUnregistered, Books, TypeOK
  <2>2. storage' = RunNextWaitingJob(storage, rtn.prior) /\ returnChan' = Tail(returnChan)
    BY <1>8 DEF HandleUnregistered
  <2>3. StoredIds(storage', s) = StoredIds(storage, s)
    BY <1>2, <2>1, <2>2, RunNextWaitingJobIds
  <2>4. ReturnedIds(returnChan, s) =
          ReturnedIds(returnChan', s) \cup IF rtn.prior = s THEN {rtn.id} ELSE {}
    BY <2>1, <2>2, ReturnedIdsHead
  <2> HIDE DEF rtn
  <2>5. OnItsWay(s)' = StoredIds(storage', s) \cup HeldIds(s)' \cup ReturnedIds(returnChan', s)
    BY DEF OnItsWay, StoredIds, ReturnedIds, From
  <2> QED  BY <1>1, <2>3, <2>4, <2>5 DEF OnItsWay, rtn
<1>9. ~HandleReturn /\ ~HandleUnregistered => OnItsWay(s) \subseteq OnItsWay(s)'
  BY <1>3, <1>5, <1>6
  DEF Coordinator, EnqueueUnregistered, InitialStatus, CoordinatorSeesCancel,
      KickUnregistered, PersistJob, PersistKick, PersistFails,
      HandleReturnEnds, DrainEnds, CloseJobChannels, CloseReturnChan, Die
<1> QED  BY <1>5, <1>6, <1>7, <1>8, <1>9

NotForgotten ==
  main # "call" =>
    \A id \in DOMAIN jobs \ todo : \A s \in Working : jobs[id] = s => id \in OnItsWay(s)

(* Only the coordinator's first loop leaves ids to be enqueued, for good if *)
(* it panics there.                                                         *)
Closing == proc \in {"shutdown", "closing", "done"}
EnqueuedFirst ==
  todo # {} => proc = "enqueue" \/ (Closing /\ exit # "running")

LEMMA EnqueuedFirstInit == Init => EnqueuedFirst
BY DEF Init, EnqueuedFirst, Closing

LEMMA EnqueuedFirstStep == EnqueuedFirst /\ [Next]_vars => EnqueuedFirst'
<1> SUFFICES ASSUME EnqueuedFirst, [Next]_vars PROVE EnqueuedFirst'
  OBVIOUS
<1> USE DEF coordVars, workerVars, others, statusVars, Closing
<1>0. exit # "running" => exit' # "running"
  BY ExitStays
<1>1. ASSUME NEW id \in todo, EnqueueJob(id) PROVE EnqueuedFirst'
  BY <1>1 DEF EnqueueJob, EnqueuedFirst
<1>2. ASSUME Coordinator, ~ \E id \in todo : EnqueueJob(id) PROVE EnqueuedFirst'
  BY <1>0, <1>2 DEF EnqueuedFirst, Coordinator, EnqueueUnregistered, InitialStatus,
              CoordinatorSeesCancel, HandleReturn, HandleUnregistered, KickJob,
              KickUnregistered, PersistJob, PersistKick, PersistFails, HandleReturnEnds,
              DrainEnds, CloseJobChannels, CloseReturnChan, Panic, Die
<1>3. ASSUME \/ Cancel \/ ExecAllTerminal \/ ExecReturn \/ ProgramDies \/ UNCHANGED vars
      PROVE  EnqueuedFirst'
  <2>1. UNCHANGED <<todo, proc>>
    BY <1>3 DEF Cancel, ExecAllTerminal, ExecReturn, ProgramDies, Die, vars
  <2> QED  BY <1>0, <2>1 DEF EnqueuedFirst
<1>5. ASSUME ExecStart PROVE EnqueuedFirst'
  BY <1>5 DEF ExecStart, EnqueuedFirst
<1>4. ASSUME NEW w \in Workers, Worker(w) PROVE EnqueuedFirst'
  BY <1>0, <1>4 DEF EnqueuedFirst, Worker, WorkerSeesCancel, WorkerReceive, WorkerSeesClosed,
              WorkerExecutes, WorkerDrops, WorkerSends, WorkerSendsOnClosed, Die
<1> QED  BY <1>1, <1>2, <1>3, <1>4, <1>5 DEF Next, Step, Finished

(* While a goroutine panics the coordinator is shutting the run down, or    *)
(* has done so: it is the one that panics, or it has closed returnChan.     *)
PanicCloses ==
  /\ "return" \in closed => proc = "done"
  /\ exit = "panicking" => Closing

LEMMA PanicClosesInit == Init => PanicCloses
BY DEF Init, PanicCloses

LEMMA PanicClosesStep == Untouched /\ PanicCloses /\ [Next]_vars => PanicCloses'
<1> SUFFICES ASSUME Untouched, PanicCloses, [Next]_vars PROVE PanicCloses'
  OBVIOUS
<1> USE DEF coordVars, workerVars, others, statusVars, Closing, PanicCloses
<1>1. ASSUME NEW id \in todo, EnqueueJob(id) PROVE PanicCloses'
  BY <1>1 DEF EnqueueJob
<1>2. ASSUME Coordinator, ~ \E id \in todo : EnqueueJob(id) PROVE PanicCloses'
  BY <1>2 DEF Coordinator, EnqueueUnregistered, InitialStatus, CoordinatorSeesCancel,
              HandleReturn, HandleUnregistered, KickJob, KickUnregistered, PersistJob,
              PersistKick, PersistFails, HandleReturnEnds, DrainEnds, CloseJobChannels,
              CloseReturnChan, Panic, Die
<1>3. ASSUME \/ Cancel \/ ExecAllTerminal \/ ExecStart \/ ExecReturn \/ ProgramDies
             \/ UNCHANGED vars
      PROVE  PanicCloses'
  BY <1>3 DEF Untouched, Cancel, ExecAllTerminal, ExecStart, ExecReturn, ProgramDies, Die, vars
<1>4. ASSUME NEW w \in Workers, Worker(w) PROVE PanicCloses'
  BY <1>4 DEF Worker, WorkerSeesCancel, WorkerReceive, WorkerSeesClosed,
              WorkerExecutes, WorkerDrops, WorkerSends, WorkerSendsOnClosed, Die
<1> QED  BY <1>1, <1>2, <1>3, <1>4 DEF Next, Step, Finished

LEMMA NotForgottenInit == Init => NotForgotten
BY DEF Init, NotForgotten

LEMMA NotForgottenStep ==
  Books /\ Untouched /\ EnqueuedFirst /\ NotForgotten /\ [Next]_vars => NotForgotten'
<1> SUFFICES ASSUME Books, Untouched, EnqueuedFirst, NotForgotten, [Next]_vars
             PROVE  NotForgotten'
  OBVIOUS
<1> USE DEF coordVars, workerVars, others, statusVars
<1>1. ASSUME UNCHANGED <<jobs, todo>>, main' # "call" => main # "call",
             \A s \in Working : OnItsWay(s) \subseteq OnItsWay(s)'
      PROVE  NotForgotten'
  BY <1>1 DEF NotForgotten
<1>2. ASSUME NEW w \in Workers, Worker(w) PROVE NotForgotten'
  <2>1. UNCHANGED <<jobs, todo, main>>
    BY <1>2 DEF Worker, WorkerSeesCancel, WorkerReceive, WorkerSeesClosed, WorkerExecutes,
                WorkerDrops, WorkerSends, WorkerSendsOnClosed, Die
  <2> QED  BY <1>1, <1>2, <2>1, WorkerKeepsJobs
<1>3. ASSUME UNCHANGED <<storage, wpc, wjob, wret, returnChan, jobs, todo>>,
             main' # "call" => main # "call"
      PROVE  NotForgotten'
  BY <1>1, <1>3 DEF OnItsWay, StoredIds, HeldIds, ReturnedIds, From, Busy, InHand, Held
<1>4. ASSUME Cancel \/ ExecReturn \/ ProgramDies \/ UNCHANGED vars PROVE NotForgotten'
  <2>1. ProgramDies => main' = main
    BY DEF ProgramDies, Die
  <2> QED  BY <1>3, <1>4, <2>1 DEF Cancel, ExecReturn, ProgramDies, Die, vars
<1>5. ASSUME ExecAllTerminal PROVE NotForgotten'
  BY <1>5 DEF ExecAllTerminal, AllJobsAreTerminal, NotForgotten, Working
<1>6. ASSUME ExecStart PROVE NotForgotten'
  BY <1>6 DEF ExecStart, NotForgotten
<1>7. ASSUME Coordinator PROVE main' = main /\ main # "call"
  BY <1>7 DEF Untouched, Coordinator, EnqueueJob, EnqueueUnregistered, InitialStatus,
              CoordinatorSeesCancel, HandleReturn, HandleUnregistered, KickJob,
              KickUnregistered, PersistJob, PersistKick, PersistFails, HandleReturnEnds,
              DrainEnds, CloseJobChannels, CloseReturnChan, Panic, Die
<1>8. ASSUME NEW id \in todo, EnqueueJob(id) PROVE NotForgotten'
  <2>1. Coordinator /\ ~HandleReturn /\ ~HandleUnregistered
    BY <1>8 DEF Coordinator, EnqueueJob, HandleReturn, HandleUnregistered
  <2>2. \A s \in Working : /\ OnItsWay(s) \subseteq OnItsWay(s)'
                           /\ s = jobs[id] => id \in OnItsWay(s)'
    BY <1>8, <2>1, CoordinatorKeepsJobs
  <2>3. jobs' = jobs /\ todo' = todo \ {id}
    BY <1>8 DEF EnqueueJob
  <2> QED  BY <1>7, <2>1, <2>2, <2>3 DEF NotForgotten
<1>9. ASSUME HandleReturn PROVE NotForgotten'
  <2> DEFINE rtn == Head(returnChan)
  <2>1. Coordinator
    BY <1>9 DEF Coordinator
  <2>2. \A s \in Working : /\ OnItsWay(s) \subseteq OnItsWay(s)' \cup {rtn.id}
                           /\ s = rtn.state => rtn.id \in OnItsWay(s)'
    BY <1>9, <2>1, CoordinatorKeepsJobs
  <2>3. jobs' = Put(jobs, rtn.id, rtn.state) /\ todo' = todo /\ todo = {}
    BY <1>9 DEF HandleReturn, EnqueuedFirst, Closing
  <2> HIDE DEF rtn
  <2>4. ASSUME NEW id \in DOMAIN jobs', NEW s \in Working, jobs'[id] = s
        PROVE  id \in OnItsWay(s)'
    <3>1. CASE id = rtn.id
      BY <2>2, <2>3, <2>4, <3>1 DEF Put
    <3>2. CASE id # rtn.id
      <4>1. id \in DOMAIN jobs /\ jobs'[id] = jobs[id]
        BY <2>3, <3>2 DEF Put
      <4>2. id \in OnItsWay(s)
        BY <1>7, <2>1, <2>3, <2>4, <4>1 DEF NotForgotten
      <4> QED  BY <2>2, <2>4, <3>2, <4>1, <4>2
    <3> QED  BY <3>1, <3>2
  <2> QED  BY <2>4 DEF NotForgotten
<1>10. ASSUME KickJob PROVE NotForgotten'
  <2> DEFINE new == KickId(k)
             s0 == cur.kicks[k + 1]
  <2>1. Coordinator /\ ~HandleReturn /\ ~HandleUnregistered
    BY <1>10 DEF Coordinator, KickJob, HandleReturn, HandleUnregistered
  <2>2. \A s \in Working : /\ OnItsWay(s) \subseteq OnItsWay(s)'
                           /\ s = s0 => new \in OnItsWay(s)'
    BY <1>10, <2>1, CoordinatorKeepsJobs
  <2>3. jobs' = Put(jobs, new, s0) /\ todo' = todo
    BY <1>10 DEF KickJob
  <2> HIDE DEF new, s0
  <2>4. ASSUME NEW id \in DOMAIN jobs' \ todo', NEW s \in Working, jobs'[id] = s
        PROVE  id \in OnItsWay(s)'
    <3>1. CASE id = new
      BY <2>2, <2>3, <2>4, <3>1 DEF Put
    <3>2. CASE id # new
      <4>1. id \in DOMAIN jobs \ todo /\ jobs'[id] = jobs[id]
        BY <2>3, <3>2 DEF Put
      <4>2. id \in OnItsWay(s)
        BY <1>7, <2>1, <2>4, <4>1 DEF NotForgotten
      <4> QED  BY <2>2, <2>4, <4>1, <4>2
    <3> QED  BY <3>1, <3>2
  <2> QED  BY <2>4 DEF NotForgotten
<1>11. ASSUME NEW new, NEW s0, s0 \notin States, jobs' = Put(jobs, new, s0), todo' = todo,
              main' = main, main # "call",
              \A s \in Working : OnItsWay(s) \subseteq OnItsWay(s)' \cup {new}
       PROVE  NotForgotten'
  <2>1. ASSUME NEW id \in DOMAIN jobs' \ todo', NEW s \in Working, jobs'[id] = s
        PROVE  id \in OnItsWay(s)'
    <3>1. s \in States /\ id # new
      BY <1>11, <2>1 DEF Working, Put
    <3>2. id \in DOMAIN jobs \ todo /\ jobs'[id] = jobs[id]
      BY <1>11, <2>1, <3>1 DEF Put
    <3>3. id \in OnItsWay(s)
      BY <1>11, <2>1, <3>2 DEF NotForgotten
    <3> QED  BY <1>11, <3>1, <3>3
  <2> QED  BY <2>1 DEF NotForgotten
<1>12. ASSUME HandleUnregistered PROVE NotForgotten'
  <2>1. Coordinator
    BY <1>12 DEF Coordinator
  <2>2. \A s \in Working : OnItsWay(s) \subseteq OnItsWay(s)' \cup {Head(returnChan).id}
    BY <1>12, <2>1, CoordinatorKeepsJobs
  <2>3. /\ jobs' = Put(jobs, Head(returnChan).id, Head(returnChan).state)
        /\ Head(returnChan).state \notin States /\ todo' = todo
    BY <1>12 DEF HandleUnregistered
  <2> QED  BY <1>7, <1>11, <2>1, <2>2, <2>3
<1>13. ASSUME KickUnregistered PROVE NotForgotten'
  <2>1. Coordinator /\ ~HandleReturn /\ ~HandleUnregistered
    BY <1>13 DEF Coordinator, KickUnregistered, HandleReturn, HandleUnregistered
  <2>2. \A s \in Working : OnItsWay(s) \subseteq OnItsWay(s)'
    BY <2>1, CoordinatorKeepsJobs
  <2>3. /\ jobs' = Put(jobs, KickId(k), cur.kicks[k + 1])
        /\ cur.kicks[k + 1] \notin States /\ todo' = todo
    BY <1>13 DEF KickUnregistered
  <2>4. \A s \in Working : OnItsWay(s) \subseteq OnItsWay(s)' \cup {KickId(k)}
    BY <2>2
  <2> QED  BY <1>7, <1>11, <2>1, <2>3, <2>4
<1>14. ASSUME Coordinator, ~HandleReturn, ~KickJob, ~ \E id \in todo : EnqueueJob(id),
              ~HandleUnregistered, ~KickUnregistered
       PROVE  NotForgotten'
  BY <1>3, <1>7, <1>14
  DEF Coordinator, EnqueueUnregistered, InitialStatus, CoordinatorSeesCancel,
      PersistJob, PersistKick, PersistFails,
      HandleReturnEnds, DrainEnds, CloseJobChannels, CloseReturnChan, Die
<1> QED
  BY <1>2, <1>4, <1>5, <1>6, <1>8, <1>9, <1>10, <1>12, <1>13, <1>14 DEF Next, Step, Finished

(* What is on its way through a state has a copy there.                     *)
LEMMA CopiesInPlace ==
  /\ \A s \in States : /\ QueueCopies("waiting", storage.waitq[s]) \subseteq Copies
                        /\ QueueCopies("channel", storage.chan[s]) \subseteq Copies
  /\ WorkerCopies \subseteq Copies /\ ReturnCopies \subseteq Copies
<1>1. \A s \in States : /\ QueueCopies("waiting", storage.waitq[s]) \subseteq WaitingCopies
                        /\ QueueCopies("channel", storage.chan[s]) \subseteq ChannelCopies
  BY DEF WaitingCopies, ChannelCopies
<1> QED  BY <1>1 DEF Copies

LEMMA CopyOnItsWay ==
  ASSUME Books, NEW s \in Working, NEW id \in OnItsWay(s)
  PROVE  \E c \in Copies : c.id = id /\ c.state = s
<1>1. s \in States /\ storage.waitq[s] \in Seq(JobIn(s)) /\ storage.chan[s] \in Seq(JobIn(s))
  BY DEF Working, Books, TypeOK, IsStorage
<1>2. \A at, i, job : CopyOf(at, i, job).id = job.id /\ CopyOf(at, i, job).state = job.state
  BY DEF CopyOf
<1>3. ASSUME NEW at, NEW q \in Seq(JobIn(s)), id \in Ids(q)
      PROVE  \E c \in QueueCopies(at, q) : c.id = id /\ c.state = s
  <2>1. PICK i \in DOMAIN q : q[i].id = id
    BY <1>3 DEF Ids
  <2>2. i \in 1 .. Len(q)
    BY LenProperties
  <2>3. q[i] \in JobIn(s)
    BY <2>2, ElementOfSeq
  <2>4. q[i].state = s
    BY <2>3 DEF JobIn
  <2>5. CopyOf(at, i, q[i]) \in QueueCopies(at, q)
    BY DEF QueueCopies
  <2> QED  BY <1>2, <2>1, <2>4, <2>5
<1>4. CASE id \in Ids(storage.waitq[s])
  BY <1>1, <1>3, <1>4, CopiesInPlace
<1>5. CASE id \in Ids(storage.chan[s])
  BY <1>1, <1>3, <1>5, CopiesInPlace
<1>6. CASE id \in HeldIds(s)
  <2>1. PICK w \in Busy(s) : Held(w).id = id
    BY <1>6 DEF HeldIds
  <2>2. w \in Workers /\ StateOf(w) = s /\ InHand(w)
    BY <2>1 DEF Busy, WorkersOf, Workers, StateOf
  <2>3. Held(w).state = s
    BY <2>2 DEF Held, InHand, Books, TypeOK, JobIn
  <2>4. CopyOf("worker", w, Held(w)) \in Copies
    BY <2>2, CopiesInPlace DEF WorkerCopies
  <2> QED  BY <1>2, <2>1, <2>3, <2>4
<1>7. CASE id \in ReturnedIds(returnChan, s)
  <2>1. PICK i \in DOMAIN returnChan : returnChan[i].id = id /\ returnChan[i].prior = s
    BY <1>7 DEF ReturnedIds, From
  <2> DEFINE job == [id |-> returnChan[i].id, state |-> returnChan[i].prior]
  <2>2. CopyOf("returned", i, job) \in Copies
    BY <2>1, CopiesInPlace DEF ReturnCopies
  <2>3. job.id = id /\ job.state = s
    BY <2>1
  <2> HIDE DEF job
  <2> QED  BY <1>2, <2>2, <2>3
<1> QED  BY <1>4, <1>5, <1>6, <1>7 DEF OnItsWay, StoredIds

(* No job is lost, however the run ends and whatever forks overwrite: a job *)
(* with work to do is in the waiting list or the channel of its state, in a *)
(* worker's hands or on its way back (processor.go:374-389, 449-466).       *)
THEOREM NoJobIsForgotten == Spec => []NoJobForgotten
<1>1. Books /\ NotForgotten => NoJobForgotten
  <2> SUFFICES ASSUME Books, NotForgotten, main # "call",
                      NEW id \in DOMAIN jobs \ todo, jobs[id] \in Working
               PROVE  \E c \in Copies : c.id = id /\ c.state = jobs[id]
    BY DEF NoJobForgotten
  <2>1. id \in OnItsWay(jobs[id])
    BY DEF NotForgotten
  <2> QED  BY <2>1, CopyOnItsWay
<1> QED
  BY <1>1, BooksInit, BooksStep, UntouchedInit, UntouchedStep, EnqueuedFirstInit,
     EnqueuedFirstStep, NotForgottenInit, NotForgottenStep, PTL DEF Spec

-----------------------------------------------------------------------------
(* CompletionSound: what process has seen when it decides that the run is   *)
(* complete stays true until Exec returns, although the workers still run.  *)
Quiet ==
  /\ \A id \in DOMAIN jobs : jobs[id] \in Terminal
  /\ \A s \in Working : storage.executing[s] = 0

Ended == main \in {"nil", "ctxErr"}

Completion ==
  /\ exit = "running" =>
       /\ Closing /\ ~ctxDone => Quiet
       /\ main = "nil" => Quiet
       /\ Ended => /\ proc \in {"off", "done"}
                   /\ \A w \in Workers : wpc[w] \in {"off", "done", "dropped"}
  /\ \A s \in Terminal : storage.waitq[s] = <<>>

(* A terminal job is never put into a waiting list.                         *)
LEMMA TerminalNeverWaits ==
  ASSUME NEW ss, IsStorage(ss), \A s \in Terminal : ss.waitq[s] = <<>>
  PROVE  /\ \A job \in Job : job.state \in States =>
              \A s \in Terminal : ProcessJob(ss, job).waitq[s] = <<>>
         /\ \A t \in Working : \A s \in Terminal : RunNextWaitingJob(ss, t).waitq[s] = <<>>
<1>1. Terminal \subseteq States /\ ss.waitq \in [States -> Seq(Job)]
  BY ConfigAssumption DEF IsStorage
<1>2. ASSUME NEW job \in Job, job.state \in States, NEW s \in Terminal
      PROVE  ProcessJob(ss, job).waitq[s] = <<>>
  <2>1. CASE job.state \in Terminal
    BY <2>1, CompletedFields
  <2>2. CASE job.state \notin Terminal /\ ss.executing[job.state] < Concurrency[job.state]
    <3>1. ProcessJob(ss, job).waitq = ss.waitq
      BY <2>2, SentFields
    <3> QED  BY <3>1
  <2>3. CASE job.state \notin Terminal /\ ~(ss.executing[job.state] < Concurrency[job.state])
    <3>1. ProcessJob(ss, job).waitq = [ss.waitq EXCEPT ![job.state] = <<job>> \o @]
      BY <2>3, QueuedFields
    <3> QED  BY <1>1, <1>2, <2>3, <3>1
  <2> QED  BY <2>1, <2>2, <2>3
<1>3. ASSUME NEW t \in Working, NEW s \in Terminal
      PROVE  RunNextWaitingJob(ss, t).waitq[s] = <<>>
  <2>1. CASE Len(ss.waitq[t]) = 0
    <3>1. RunNextWaitingJob(ss, t).waitq = ss.waitq
      BY <2>1, FreedFields
    <3> QED  BY <3>1
  <2>2. CASE Len(ss.waitq[t]) # 0
    <3>1. RunNextWaitingJob(ss, t).waitq =
            [ss.waitq EXCEPT ![t] = SubSeq(@, 1, Len(ss.waitq[t]) - 1)]
      BY <2>2, PassedFields
    <3> QED  BY <1>1, <3>1 DEF Working
  <2> QED  BY <2>1, <2>2
<1> QED  BY <1>2, <1>3

LEMMA CompletionInit == Init => Completion
BY ConfigAssumption DEF Init, Completion, Closing, Ended, NewStateStorage

(* Nothing executing means nothing anywhere.                                *)
LEMMA QuietIsEmpty ==
  ASSUME InFlight, Quiet, NEW s \in Working
  PROVE  storage.waitq[s] = <<>> /\ storage.chan[s] = <<>>
         /\ Busy(s) = {} /\ From(returnChan, s) = {}
<1>1. /\ s \in States /\ storage.chan[s] \in Seq(Job) /\ Len(storage.chan[s]) \in Nat
      /\ Concurrency[s] >= 1 /\ Concurrency[s] \in Nat
  BY LenProperties, ConfigAssumption DEF Working, InFlight, Books, TypeOK, IsStorage
<1>2. storage.executing[s] = 0
  BY DEF Quiet
<1>3. storage.waitq[s] = <<>>
  BY <1>1, <1>2 DEF InFlight, Books, WorkConserving, Conserving
<1>4. /\ Cardinality(Busy(s)) \in Nat /\ Cardinality(From(returnChan, s)) \in Nat
      /\ 0 - Len(storage.chan[s]) = Cardinality(Busy(s)) + Cardinality(From(returnChan, s))
  BY <1>2, OutType DEF InFlight, Accounted, Out, Outstanding
<1>5. Len(storage.chan[s]) = 0 /\ Cardinality(Busy(s)) = 0 /\ Cardinality(From(returnChan, s)) = 0
  BY <1>1, <1>4
<1>6. storage.chan[s] = <<>>
  BY <1>1, <1>5, EmptySeq
<1>7. IsFiniteSet(Busy(s)) /\ IsFiniteSet(From(returnChan, s))
  <2>1. returnChan \in Seq(Return)
    BY DEF InFlight, Books, TypeOK
  <2>2. DOMAIN returnChan = 1 .. Len(returnChan) /\ Len(returnChan) \in Nat
    BY <2>1, LenProperties
  <2>3. IsFiniteSet(From(returnChan, s))
    <3>1. IsFiniteSet(1 .. Len(returnChan))
      BY <2>2, FS_Interval
    <3> QED  BY <2>2, <3>1, FS_Subset DEF From
  <2> QED  BY <2>3, BusyFinite
<1> QED  BY <1>3, <1>5, <1>6, <1>7, FS_EmptySet

LEMMA QuietFromCounts ==
  ASSUME InFlight, RunComplete
  PROVE  Quiet
<1>1. ASSUME NEW s \in Working PROVE storage.executing[s] = 0
  <2>1. s \in States /\ storage.executing[s] \in Int /\ Len(storage.chan[s]) \in Nat
    BY StorageNumbers DEF InFlight, Books, TypeOK
  <2>2. storage.executing[s] - Len(storage.chan[s]) = Out(s) /\ Out(s) \in Nat
    BY OutType DEF InFlight, Accounted, Outstanding
  <2>3. ~(storage.executing[s] > 0)
    BY <2>1 DEF RunComplete, HasExecutingJobs
  <2> QED  BY <2>1, <2>2, <2>3
<1> QED  BY <1>1 DEF RunComplete, AllJobsAreTerminal, Quiet

LEMMA CompletionStep ==
  InFlight /\ Untouched /\ Completion /\ [Next]_vars => Completion'
<1> SUFFICES ASSUME InFlight, Untouched, Completion, [Next]_vars PROVE Completion'
  OBVIOUS
<1> USE DEF coordVars, workerVars, others, statusVars
<1>1. IsStorage(storage) /\ Conserving(storage) /\ Books
  BY DEF InFlight, Books, TypeOK, WorkConserving
<1>0. exit' = "running" => exit = "running"
  BY ExitStays
<1>2. ASSUME NEW w \in Workers, Worker(w) PROVE Completion'
  <2>1. UNCHANGED <<jobs, proc, ctxDone, main>>
    BY <1>2 DEF Worker, WorkerSeesCancel, WorkerReceive, WorkerSeesClosed, WorkerExecutes,
                WorkerDrops, WorkerSends, WorkerSendsOnClosed, Die
  <2>2. storage'.executing = storage.executing /\ storage'.waitq = storage.waitq
    <3>1. DOMAIN storage = StorageFields
      BY <1>1 DEF IsStorage
    <3> QED  BY <1>2, <3>1 DEF Worker, WorkerSeesCancel, WorkerReceive, WorkerSeesClosed,
                WorkerExecutes, WorkerDrops, WorkerSends, WorkerSendsOnClosed, Die, StorageFields
  <2>3. ASSUME Ended, exit' = "running" PROVE FALSE
    BY <1>0, <1>2, <2>3, DyingSteps DEF Completion, Worker, WorkerSeesCancel, WorkerReceive, WorkerSeesClosed,
                      WorkerExecutes, WorkerDrops, WorkerSends
  <2> QED  BY <1>0, <2>1, <2>2, <2>3 DEF Completion, Quiet, Closing, Ended
<1>3. ASSUME Cancel \/ ProgramDies \/ UNCHANGED vars PROVE Completion'
  BY <1>0, <1>3 DEF Cancel, ProgramDies, Die, vars, Completion, Quiet, Closing, Ended
<1>4. ASSUME ExecAllTerminal PROVE Completion'
  <2>1. /\ main = "call" /\ AllJobsAreTerminal /\ main' = "nil"
        /\ UNCHANGED <<jobs, proc, wpc, ctxDone>>
    BY <1>4 DEF ExecAllTerminal
  <2>2. /\ proc = "off" /\ storage = NewStateStorage /\ \A w \in Workers : wpc[w] = "off"
    BY <2>1 DEF Untouched
  <2>3. storage'.executing = storage.executing /\ storage'.waitq = storage.waitq
    BY <1>1, <1>4 DEF ExecAllTerminal, IsStorage, StorageFields
  <2>4. \A s \in Working : storage.executing[s] = 0
    BY <2>2 DEF NewStateStorage, Working
  <2> QED
    BY <2>1, <2>2, <2>3, <2>4 DEF AllJobsAreTerminal, Completion, Quiet, Closing, Ended
<1>5. ASSUME ExecStart PROVE Completion'
  BY <1>5 DEF ExecStart, Completion, Closing, Ended
<1>6. ASSUME ExecReturn PROVE Completion'
  <2>1. exit = "running" => \A w \in Workers : wpc[w] \in {"done", "dropped"}
    BY <1>6 DEF ExecReturn, SignedOff
  <2> QED  BY <1>6, <2>1 DEF ExecReturn, Completion, Quiet, Closing, Ended
<1>7. ASSUME Coordinator PROVE Completion'
  <2>1. UNCHANGED <<main, wpc, ctxDone>>
    BY <1>7 DEF Coordinator, EnqueueJob, EnqueueUnregistered, InitialStatus,
                CoordinatorSeesCancel, HandleReturn, HandleUnregistered, KickJob,
                KickUnregistered, PersistJob, PersistKick, PersistFails, HandleReturnEnds,
                DrainEnds, CloseJobChannels, CloseReturnChan, Panic, Die
  <2>2. proc \notin {"off", "done"}
    BY <1>7 DEF Coordinator, EnqueueJob, EnqueueUnregistered, InitialStatus,
                CoordinatorSeesCancel, HandleReturn, HandleUnregistered, KickJob,
                KickUnregistered, PersistJob, PersistKick, PersistFails, HandleReturnEnds,
                DrainEnds, CloseJobChannels, CloseReturnChan
  <2>3. exit' = "running" => ~Ended /\ ~Ended'
    BY <1>0, <2>1, <2>2 DEF Completion, Ended
  <2>4. ASSUME ~Closing' \/ exit' # "running", \A s \in Terminal : storage'.waitq[s] = <<>>
        PROVE  Completion'
    BY <2>1, <2>3, <2>4 DEF Completion, Ended
  <2>5. ASSUME NEW id \in todo, EnqueueJob(id) PROVE Completion'
    <3> DEFINE job == [id |-> id, state |-> jobs[id]]
    <3>1. job \in Job /\ job.state \in States
      BY <1>1, <2>5 DEF EnqueueJob, Books, TypeOK, IsJobMap, Job, StateName
    <3>2. storage' = ProcessJob(storage, job) /\ proc = "enqueue" /\ proc' = proc
      BY <2>5 DEF EnqueueJob
    <3> HIDE DEF job
    <3> QED  BY <1>1, <2>4, <3>1, <3>2, TerminalNeverWaits DEF Completion, Closing
  <2>6. ASSUME KickJob PROVE Completion'
    <3> DEFINE job == [id |-> KickId(k), state |-> cur.kicks[k + 1]]
    <3>1. job \in Job /\ job.state \in States
      BY <1>1, <2>6, KickType DEF KickJob, Job, StateName
    <3>2. storage' = ProcessJob(storage, job) /\ proc = "kicks" /\ proc' = proc
      BY <2>6 DEF KickJob
    <3> HIDE DEF job
    <3> QED  BY <1>1, <2>4, <3>1, <3>2, TerminalNeverWaits DEF Completion, Closing
  <2>7. ASSUME HandleReturn PROVE Completion'
    <3> DEFINE rtn == Head(returnChan)
               job == [id |-> rtn.id, state |-> rtn.state]
               mid == RunNextWaitingJob(storage, rtn.prior)
    <3>1. /\ rtn \in Return /\ rtn.prior \in Working /\ rtn.id \in Id /\ rtn.state \in States
      BY <1>1, <2>7, HeadReturn DEF HandleReturn
    <3>2. job \in Job /\ job.state \in States
      BY <3>1 DEF Job, StateName
    <3>3. storage' = ProcessJob(mid, job) /\ proc' = "kicks"
      BY <2>7 DEF HandleReturn
    <3>4. IsStorage(mid) /\ \A s \in Terminal : mid.waitq[s] = <<>>
      BY <1>1, <3>1, RunNextWaitingJobEffect, TerminalNeverWaits DEF Completion
    <3> HIDE DEF job, mid
    <3> QED  BY <2>4, <3>2, <3>3, <3>4, TerminalNeverWaits DEF Closing
  <2>8. ASSUME InitialStatus \/ PersistJob \/ PersistKick \/ HandleReturnEnds PROVE Completion'
    BY <2>4, <2>8 DEF InitialStatus, PersistJob, PersistKick, HandleReturnEnds, Completion, Closing
  <2>9. ASSUME DrainEnds PROVE Completion'
    <3>1. Quiet' <=> Quiet
      BY <2>9 DEF DrainEnds, Quiet
    <3> QED
      BY <1>0, <2>1, <2>3, <2>9, <3>1, QuietFromCounts DEF DrainEnds, Completion, Closing, Ended
  <2>10. ASSUME CoordinatorSeesCancel PROVE Completion'
    BY <1>0, <2>1, <2>3, <2>10 DEF CoordinatorSeesCancel, Completion, Ended
  <2>11. ASSUME CloseJobChannels \/ CloseReturnChan PROVE Completion'
    BY <1>0, <2>1, <2>3, <2>11 DEF CloseJobChannels, CloseReturnChan, Completion, Quiet,
                                   Closing, Ended
  <2>12. ASSUME \/ KickUnregistered \/ PersistFails
                \/ \E id \in todo : EnqueueUnregistered(id)
         PROVE  Completion'
    <3>1. exit' # "running"
      BY <2>12, DyingSteps
    <3>2. storage' = storage
      BY <2>12 DEF KickUnregistered, PersistFails, EnqueueUnregistered, Die
    <3> QED  BY <2>4, <3>1, <3>2 DEF Completion
  <2>13. ASSUME HandleUnregistered PROVE Completion'
    <3>1. Head(returnChan).prior \in Working
      BY <1>1, <2>13, HeadReturn DEF HandleUnregistered
    <3>2. storage' = RunNextWaitingJob(storage, Head(returnChan).prior)
      BY <2>13 DEF HandleUnregistered
    <3>3. \A s \in Terminal : storage'.waitq[s] = <<>>
      BY <1>1, <3>1, <3>2, TerminalNeverWaits DEF Completion
    <3> QED  BY <2>4, <2>13, <3>3, DyingSteps
  <2> QED
    BY <1>7, <2>5, <2>6, <2>7, <2>8, <2>9, <2>10, <2>11, <2>12, <2>13 DEF Coordinator
<1> QED
  BY <1>2, <1>3, <1>4, <1>5, <1>6, <1>7 DEF Next, Step, Finished

(* Exec answers nil only when every job of the run is terminal and nothing  *)
(* of it is left in a list, a channel or a goroutine: for every workflow,   *)
(* with any late cancellation (processor.go:300-308, 367-369).              *)
THEOREM NilMeansComplete == Spec => []CompletionSound
<1>1. InFlight /\ Completion => CompletionSound
  <2> SUFFICES ASSUME InFlight, Completion, main = "nil", exit = "running"
               PROVE  (\A id \in DOMAIN jobs : jobs[id] \in Terminal) /\ Copies = {}
    BY DEF CompletionSound
  <2>1. Quiet
    BY DEF Completion
  <2>2. \A s \in States : storage.waitq[s] = <<>> /\ storage.chan[s] = <<>>
    BY <2>1, QuietIsEmpty DEF Working, Completion, InFlight, Books, TypeOK, IsStorage
  <2>3. DOMAIN <<>> = {}
    OBVIOUS
  <2>4. WaitingCopies = {} /\ ChannelCopies = {}
    BY <2>2, <2>3 DEF WaitingCopies, ChannelCopies, QueueCopies
  <2>5. WorkerCopies = {}
    <3>1. ASSUME NEW w \in Workers, InHand(w) PROVE FALSE
      <4>1. StateOf(w) \in Working /\ w \in Busy(StateOf(w))
        BY <3>1, WorkerFacts DEF Busy
      <4> QED  BY <2>1, <4>1, QuietIsEmpty
    <3> QED  BY <3>1 DEF WorkerCopies
  <2>6. ReturnCopies = {}
    <3>1. ASSUME NEW i \in DOMAIN returnChan PROVE FALSE
      <4>1. returnChan \in Seq(Return) /\ i \in 1 .. Len(returnChan)
        BY LenProperties DEF InFlight, Books, TypeOK
      <4>2. returnChan[i] \in Return
        BY <4>1, ElementOfSeq
      <4>3. returnChan[i].prior \in Working /\ i \in From(returnChan, returnChan[i].prior)
        BY <4>2 DEF Return, From
      <4> QED  BY <2>1, <4>3, QuietIsEmpty
    <3> QED  BY <3>1 DEF ReturnCopies
  <2> QED  BY <2>1, <2>4, <2>5, <2>6 DEF Quiet, Copies
<1> QED
  BY <1>1, InFlightInit, InFlightStep, UntouchedInit, UntouchedStep, CompletionInit,
     CompletionStep, PTL DEF Spec

-----------------------------------------------------------------------------
(* DiesOnlyCancelled: the program can die in two ways, by a state that no    *)
(* State of the processor carries, and by a worker that sends on the closed  *)
(* return channel.  Where every job and every result names registered states *)
(* only the second is left, and it takes a cancelled context.                *)
AllRegistered ==
  /\ \A s \in Working : \A r \in ExecResults[s] : r.state \in States /\ r.kicks \in Seq(States)
  /\ \A run \in InitialRuns : \A id \in DOMAIN run : run[id] \in States

Named(r) == r.state \in States /\ r.kicks \in Seq(States)

Registered ==
  /\ \A id \in DOMAIN jobs : jobs[id] \in States
  /\ \A i \in DOMAIN returnChan : Named(returnChan[i])
  /\ \A w \in Workers : wpc[w] = "send" => Named(wret[w])
  /\ proc \in {"kicks", "persist"} => Named(cur)
  /\ "return" \in closed => proc = "done"

(* Then the coordinator never panics.                                       *)
LEMMA NeverUnregistered ==
  ASSUME Books, Registered
  PROVE  ~HandleUnregistered /\ ~KickUnregistered /\ \A id \in todo : ~EnqueueUnregistered(id)
<1>1. ASSUME NEW id \in todo, EnqueueUnregistered(id) PROVE FALSE
  BY <1>1 DEF EnqueueUnregistered, Registered, Books, TypeOK
<1>2. ASSUME HandleUnregistered PROVE FALSE
  <2>1. returnChan \in Seq(Return) /\ returnChan # <<>>
    BY <1>2 DEF HandleUnregistered, Books, TypeOK
  <2>2. Head(returnChan) = returnChan[1] /\ 1 \in DOMAIN returnChan
    BY <2>1, LenProperties, EmptySeq DEF Head
  <2> QED  BY <1>2, <2>2 DEF HandleUnregistered, Registered, Named
<1>3. ASSUME KickUnregistered PROVE FALSE
  <2>1. /\ k + 1 \in 0 .. Len(cur.kicks) /\ proc = "kicks" /\ cur.kicks[k + 1] \notin States
    BY <1>3, KickType DEF KickUnregistered
  <2>2. cur.kicks \in Seq(States)
    BY <2>1 DEF Registered, Named
  <2>3. k \in 0 .. Len(cur.kicks)
    BY <2>1 DEF Books, TypeOK
  <2>4. k + 1 \in 1 .. Len(cur.kicks)
    BY <2>1, <2>2, <2>3, LenProperties
  <2> QED  BY <2>1, <2>2, <2>4, ElementOfSeq
<1> QED  BY <1>1, <1>2, <1>3

LEMMA RegisteredInit == AllRegistered /\ Init => Registered
<1>1. DOMAIN <<>> = {}
  OBVIOUS
<1> QED  BY <1>1 DEF AllRegistered, Init, Registered

LEMMA RegisteredStep ==
  ASSUME AllRegistered
  PROVE  Books /\ Untouched /\ Registered /\ [Next]_vars => Registered'
<1> SUFFICES ASSUME Books, Untouched, Registered, [Next]_vars PROVE Registered'
  OBVIOUS
<1> USE DEF coordVars, workerVars, others, statusVars
<1>1. ASSUME UNCHANGED <<jobs, returnChan, wpc, wret, cur, closed>>,
             proc' \in {"kicks", "persist"} => proc \in {"kicks", "persist"},
             proc = "done" => proc' = "done"
      PROVE  Registered'
  BY <1>1 DEF Registered, Named
<1>2. ASSUME NEW id \in todo, EnqueueJob(id) PROVE Registered'
  BY <1>1, <1>2 DEF EnqueueJob
<1>3. ASSUME \/ InitialStatus \/ CoordinatorSeesCancel \/ DrainEnds
             \/ PersistJob \/ PersistKick \/ HandleReturnEnds
      PROVE  Registered'
  <2>1. /\ UNCHANGED <<jobs, returnChan, wpc, wret, closed>> /\ proc # "done"
        /\ proc' \in {"kicks", "persist"} => proc \in {"kicks", "persist"} /\ cur' = cur
    BY <1>3 DEF InitialStatus, CoordinatorSeesCancel, DrainEnds, PersistJob, PersistKick,
                HandleReturnEnds
  <2> QED  BY <2>1 DEF Registered, Named
<1>4. ASSUME HandleReturn PROVE Registered'
  <2>1. returnChan \in Seq(Return) /\ returnChan # <<>>
    BY <1>4 DEF HandleReturn, Books, TypeOK
  <2>2. /\ Len(returnChan) \in Nat \ {0} /\ DOMAIN returnChan = 1 .. Len(returnChan)
        /\ Tail(returnChan) \in Seq(Return) /\ Len(Tail(returnChan)) = Len(returnChan) - 1
        /\ \A i \in 1 .. Len(Tail(returnChan)) : Tail(returnChan)[i] = returnChan[i + 1]
    BY <2>1, LenProperties, EmptySeq, HeadTailProperties
  <2>3. Head(returnChan) = returnChan[1] /\ 1 \in DOMAIN returnChan
    BY <2>1, <2>2 DEF Head
  <2>4. Named(Head(returnChan))
    BY <2>3 DEF Registered
  <2>5. DOMAIN Tail(returnChan) = 1 .. Len(returnChan) - 1
    BY <2>2, LenProperties
  <2>6. \A i \in DOMAIN Tail(returnChan) : Named(Tail(returnChan)[i])
    <3>1. ASSUME NEW i \in DOMAIN Tail(returnChan) PROVE Named(Tail(returnChan)[i])
      <4>1. i + 1 \in DOMAIN returnChan /\ Tail(returnChan)[i] = returnChan[i + 1]
        BY <2>2, <2>5
      <4> QED  BY <4>1 DEF Registered
    <3> QED  BY <3>1
  <2> DEFINE rtn == Head(returnChan)
             rest == Tail(returnChan)
  <2>7. /\ jobs' = Put(jobs, rtn.id, rtn.state) /\ cur' = rtn /\ returnChan' = rest
        /\ UNCHANGED <<wpc, wret, closed>> /\ proc # "done"
    BY <1>4 DEF HandleReturn
  <2> HIDE DEF rtn, rest
  <2>8. \A id \in DOMAIN jobs' : jobs'[id] \in States
    BY <2>4, <2>7 DEF Registered, Named, Put, rtn
  <2> QED  BY <2>4, <2>6, <2>7, <2>8 DEF Registered, Named, rtn, rest
<1>5. ASSUME KickJob PROVE Registered'
  <2>1. /\ cur.kicks[k + 1] \in States /\ jobs' = Put(jobs, KickId(k), cur.kicks[k + 1])
        /\ proc = "kicks" /\ proc' = proc
        /\ UNCHANGED <<returnChan, wpc, wret, cur, closed>>
    BY <1>5 DEF KickJob
  <2>2. \A id \in DOMAIN jobs' : jobs'[id] \in States
    BY <2>1 DEF Registered, Put
  <2> QED  BY <2>1, <2>2 DEF Registered, Named
<1>6. ASSUME CloseJobChannels \/ CloseReturnChan PROVE Registered'
  BY <1>6 DEF CloseJobChannels, CloseReturnChan, Registered
<1>7. ASSUME \/ Cancel \/ ExecAllTerminal \/ ExecReturn \/ PersistFails \/ ProgramDies
             \/ UNCHANGED vars
      PROVE  Registered'
  BY <1>1, <1>7 DEF Cancel, ExecAllTerminal, ExecReturn, PersistFails, ProgramDies, Die, vars
<1>8. ASSUME ExecStart PROVE Registered'
  <2>1. \A w \in Workers : wpc'[w] = "idle"
    BY <1>8 DEF ExecStart
  <2> QED  BY <1>8, <2>1 DEF ExecStart, Untouched, Registered
<1>9. ASSUME NEW w \in Workers, Worker(w) PROVE Registered'
  <2>0. wpc \in [Workers -> WorkerStates] /\ DOMAIN wret = Workers
    BY DEF Books, TypeOK
  <2>1. ASSUME NEW to \in {"exec", "done", "dropped"}, wpc' = [wpc EXCEPT ![w] = to],
               UNCHANGED <<jobs, returnChan, wret, cur, proc, closed>>
        PROVE  Registered'
    BY <2>0, <2>1 DEF Registered, Named
  <2>2. ASSUME NEW r \in ExecResults[StateOf(w)], WorkerExecutes(w, r) PROVE Registered'
    <3>1. r.state \in States /\ r.kicks \in Seq(States)
      BY <2>2, WorkerFacts DEF AllRegistered
    <3>2. /\ wpc' = [wpc EXCEPT ![w] = "send"]
          /\ wret' = [wret EXCEPT ![w] = [id |-> wjob[w].id, prior |-> wjob[w].state,
                                          state |-> r.state, kicks |-> r.kicks]]
          /\ UNCHANGED <<jobs, returnChan, cur, proc, closed>>
      BY <2>2 DEF WorkerExecutes
    <3>3. Named(wret'[w])
      BY <2>0, <3>1, <3>2 DEF Named
    <3>4. \A x \in Workers : x # w => wret'[x] = wret[x] /\ wpc'[x] = wpc[x]
      BY <2>0, <3>2
    <3> QED  BY <3>2, <3>3, <3>4 DEF Registered, Named
  <2>3. ASSUME WorkerSends(w) PROVE Registered'
    <3>1. /\ wpc[w] = "send" /\ wpc' = [wpc EXCEPT ![w] = "idle"]
          /\ wret' = [wret EXCEPT ![w] = NoJob] /\ returnChan' = Append(returnChan, wret[w])
          /\ UNCHANGED <<jobs, cur, proc, closed>>
      BY <2>3 DEF WorkerSends
    <3>2. returnChan \in Seq(Return) /\ wret[w] \in Return /\ Named(wret[w])
      BY <3>1 DEF Books, TypeOK, Registered
    <3>3. /\ Len(returnChan) \in Nat /\ DOMAIN returnChan = 1 .. Len(returnChan)
          /\ returnChan' \in Seq(Return) /\ Len(returnChan') = Len(returnChan) + 1
          /\ returnChan'[Len(returnChan) + 1] = wret[w]
          /\ \A i \in 1 .. Len(returnChan) : returnChan'[i] = returnChan[i]
      BY <3>1, <3>2, LenProperties, AppendProperties
    <3>4. DOMAIN returnChan' = (1 .. Len(returnChan)) \cup {Len(returnChan) + 1}
      BY <3>3, LenProperties
    <3>5. \A i \in DOMAIN returnChan' : Named(returnChan'[i])
      BY <3>2, <3>3, <3>4 DEF Registered
    <3>6. \A x \in Workers : wpc'[x] = "send" => x # w /\ wret'[x] = wret[x] /\ wpc'[x] = wpc[x]
      BY <2>0, <3>1
    <3> QED  BY <3>1, <3>5, <3>6 DEF Registered, Named
  <2>4. ASSUME WorkerSeesCancel(w) \/ WorkerReceive(w) \/ WorkerSeesClosed(w) \/ WorkerDrops(w)
        PROVE  Registered'
    BY <2>1, <2>4 DEF WorkerSeesCancel, WorkerReceive, WorkerSeesClosed, WorkerDrops
  <2>5. ASSUME WorkerSendsOnClosed(w) PROVE Registered'
    BY <1>1, <2>5 DEF WorkerSendsOnClosed, Die
  <2> QED  BY <1>9, <2>2, <2>3, <2>4, <2>5 DEF Worker
<1> QED
  BY <1>2, <1>3, <1>4, <1>5, <1>6, <1>7, <1>8, <1>9, NeverUnregistered
  DEF Next, Step, Finished, Coordinator

LEMMA DiesOnlyCancelledStep ==
  InFlight /\ Untouched /\ Completion /\ Registered /\ DiesOnlyCancelled /\ [Next]_vars
    => DiesOnlyCancelled'
<1> SUFFICES ASSUME InFlight, Untouched, Completion, Registered, DiesOnlyCancelled, [Next]_vars,
                    ~ctxDone', exit' \in {"panicking", "panic"}
             PROVE  FALSE
  BY DEF DiesOnlyCancelled
<1> USE DEF coordVars, workerVars, others, statusVars
<1>1. ASSUME exit' = exit \/ exit = "panicking", ctxDone => ctxDone' PROVE FALSE
  BY <1>1 DEF DiesOnlyCancelled
<1>2. ASSUME NEW w \in Workers, Alive, WorkerSendsOnClosed(w) PROVE FALSE
  <2>1. wpc[w] = "send" /\ proc = "done" /\ ~ctxDone /\ exit = "running"
    BY <1>1, <1>2 DEF WorkerSendsOnClosed, Die, Registered, Alive
  <2>2. Quiet
    BY <2>1 DEF Completion, Closing
  <2>3. StateOf(w) \in Working /\ w \in Busy(StateOf(w))
    BY <2>1, WorkerFacts DEF Busy, InHand
  <2> QED  BY <2>2, <2>3, QuietIsEmpty
<1>3. ASSUME Coordinator PROVE FALSE
  <2>1. ~PersistFails
    BY DEF PersistFails, Die
  <2>2. ~HandleUnregistered /\ ~KickUnregistered /\ \A id \in todo : ~EnqueueUnregistered(id)
    BY NeverUnregistered DEF InFlight
  <2> QED
    BY <1>1, <1>3, <2>1, <2>2
    DEF Coordinator, EnqueueJob, InitialStatus, CoordinatorSeesCancel, HandleReturn, KickJob,
        PersistJob, PersistKick, HandleReturnEnds, DrainEnds, CloseJobChannels, CloseReturnChan
<1>4. ASSUME NEW w \in Workers, Alive, Worker(w) PROVE FALSE
  BY <1>1, <1>2, <1>4 DEF Worker, WorkerSeesCancel, WorkerReceive, WorkerSeesClosed,
                          WorkerExecutes, WorkerDrops, WorkerSends
<1>5. ASSUME \/ Cancel \/ ExecAllTerminal \/ ExecStart \/ ExecReturn \/ ProgramDies
             \/ UNCHANGED vars
      PROVE  FALSE
  BY <1>1, <1>5 DEF Cancel, ExecAllTerminal, ExecStart, ExecReturn, ProgramDies, Die, vars
<1> QED  BY <1>3, <1>4, <1>5 DEF Next, Step, Finished

(* In a workflow that names registered states only, the program dies only   *)
(* if the context was cancelled: without a cancellation the return channel  *)
(* is closed when no worker holds a job any more (processor.go:367,         *)
(* 422-429, 453-466), however forks overwrite each other's children.        *)
THEOREM OnlyCancelledRunsDie ==
  ASSUME AllRegistered
  PROVE  Spec => []DiesOnlyCancelled
<1>1. Init => DiesOnlyCancelled
  BY DEF Init, DiesOnlyCancelled
<1>2. InFlight => Books
  BY DEF InFlight
<1>3. Init => Registered
  BY RegisteredInit
<1>4. Books /\ Untouched /\ Registered /\ [Next]_vars => Registered'
  BY RegisteredStep
<1> QED
  BY <1>1, <1>2, <1>3, <1>4, InFlightInit, InFlightStep, UntouchedInit, UntouchedStep,
     CompletionInit, CompletionStep, DiesOnlyCancelledStep, PTL DEF Spec
=============================================================================
