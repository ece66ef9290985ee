------------------------------- MODULE Restart -------------------------------
(***************************************************************************)
(* A program that uses the library as the examples do: it opens its store, *)
(* resumes the run it finds there or, finding none, adds its jobs, and     *)
(* calls Exec.  The store, as DurableStore has it, takes checkpoints of    *)
(* the run that Processor works on and a record of every completion.  The  *)
(* program may be killed at any moment, and is then started again.         *)
(*                                                                         *)
(* The store does not fail here, and nobody cancels.                       *)
(***************************************************************************)
EXTENDS Processor

CONSTANT MaxCrashes \* bound: how often the program is killed

ASSUME RestartAssumption == MaxCrashes \in Nat /\ ~Cancellable /\ ~Fallible

VARIABLES
  base, logged, copy, stage, \* those of DurableStore, whose memory is Run.Jobs
  up,      \* is the program running?
  crashes, \* bound: number of crashes
  acked    \* history: <<id, prior>> of the completions the store has answered

storeVars == <<base, logged, copy, stage>>
restartVars == <<vars, storeVars, up, crashes, acked>>

NoRun == [id \in {} |-> Unregistered]
Store == INSTANCE DurableStore WITH
  Ids <- Id, Values <- StateName, Checkpoints <- InitialRuns \cup {NoRun}, memory <- jobs

(* The jobs have just been added, or a clean checkpoint holds them.        *)
RestartInit ==
  /\ Init
  /\ base \in {NoRun, jobs} /\ logged = NoRun /\ copy = NoRun /\ stage = "none"
  /\ up = TRUE /\ crashes = 0 /\ acked = {}

(* JobUpdate is the only call of the store by Exec, and waits for a        *)
(* checkpoint that is under way.                                           *)
Appending == (proc = "kicks" /\ k = Len(cur.kicks)) \/ (proc = "persist" /\ k < Len(cur.kicks))
Appends == (proc = "kicks" /\ proc' = "persist") \/ (proc = "persist" /\ k' = k + 1)
AppendedId == IF proc = "kicks" THEN cur.id ELSE KickId(k)

Runs(action) ==
  /\ up /\ Alive
  /\ action
  /\ IF Appends THEN Store!Append(AppendedId) ELSE UNCHANGED storeVars
  /\ acked' = acked \cup (IF Appends /\ proc = "kicks" THEN {<<cur.id, cur.prior>>} ELSE {})
  /\ UNCHANGED <<up, crashes>>

(* The ticker of the checkpoint loop fires at any time.                    *)
Checkpoints(action) ==
  /\ up
  /\ action
  /\ UNCHANGED <<vars, up, crashes, acked>>

CheckpointGoesOn ==
  Store!Publish \/ Store!Remove \/ (logged = NoRun /\ stage = "published" /\ Store!EndCheckpoint)

(* Of everything in memory only what the files say comes back.  The record *)
(* that was being appended may be among it.                                *)
Crash ==
  /\ up /\ up' = FALSE
  /\ crashes < MaxCrashes /\ crashes' = crashes + 1
  /\ Store!Crash
  /\ logged' # logged => Appending /\ stage = "none" /\ logged' = Put(logged, AppendedId, jobs[AppendedId])
  /\ saved' = NoRun /\ storage' = NewStateStorage /\ returnChan' = <<>> /\ closed' = {}
  /\ wpc' = [w \in Workers |-> "off"] /\ wjob' = [w \in Workers |-> NoJob] /\ wret' = wjob'
  /\ proc' = "off" /\ todo' = {} /\ cur' = NoJob /\ k' = 0
  /\ needsUpdate' = FALSE /\ shown' = StatusCounts(NewStateStorage)
  /\ ctxDone' = FALSE /\ main' = "call" /\ exit' = "running"
  /\ UNCHANGED acked

(* NewJsonSerializer writes what it recovers to a clean checkpoint.  Only  *)
(* an empty run is given its jobs.                                         *)
Start ==
  /\ ~up /\ up' = TRUE
  /\ base' = jobs /\ logged' = NoRun
  /\ jobs' \in IF DOMAIN jobs = {} THEN InitialRuns ELSE {jobs}
  /\ UNCHANGED <<saved, storage, returnChan, closed, workerVars, proc, todo, cur, k,
                 needsUpdate, shown, ctxDone, main, exit, copy, stage, crashes, acked>>

RestartNext ==
  \/ Runs(Step)
  \/ Checkpoints(Store!Snapshot) \/ Checkpoints(CheckpointGoesOn)
  \/ Crash \/ Start
  \/ Finished /\ UNCHANGED restartVars

(* As in Processor; the mutex of the store starves nobody, and whoever     *)
(* kills the program starts it again.                                      *)
RestartFairness ==
  /\ WF_restartVars(Runs(ExecAllTerminal \/ ExecStart \/ ExecReturn))
  /\ SF_restartVars(Runs(Coordinator))
  /\ \A w \in Workers : /\ WF_restartVars(Runs(Worker(w)))
                         /\ SF_restartVars(Runs(WorkerSends(w)))
  /\ WF_restartVars(Checkpoints(CheckpointGoesOn))
  /\ WF_restartVars(Start)

RestartSpec == RestartInit /\ [][RestartNext]_restartVars /\ RestartFairness

-----------------------------------------------------------------------------
(* A crash between two completions loses nothing but jobs that have not    *)
(* completed a state yet: every other job comes back as it is               *)
(* (processor.go:391-393, "aborting now to not lose work").                 *)
OnlyNewJobsAreLost ==
  up /\ exit = "running" /\ proc \notin {"kicks", "persist"} =>
    /\ DOMAIN Store!Recovered \subseteq DOMAIN jobs
    /\ \A id \in DOMAIN jobs :
          IF id \in DOMAIN Store!Recovered THEN Store!Recovered[id] = jobs[id]
          ELSE \E run \in InitialRuns : id \in DOMAIN run /\ run[id] = jobs[id]

(* However often the program is killed, a job that was added to the run     *)
(* never executes a state again whose completion the store has answered:    *)
(* it is sent on before it is persisted, never behind it                    *)
(* (processor.go:378, 391).  Its forks may: their ids are used again.       *)
RootsNeverRepeat ==
  \A w \in Workers :
    wpc[w] = "exec" /\ Len(wjob[w].id) = 1 => <<wjob[w].id, wjob[w].state>> \notin acked

(* A program that is killed only so often comes to the end of its run       *)
(* (README.md:17, "Very easy to stop and restart at whim"), though a fork   *)
(* may be lost or done twice on the way.                                    *)
CompletesAfterCrashes == <>[](up /\ main = "nil")
=============================================================================
