------------------------------ MODULE Processor ------------------------------
(***************************************************************************)
(* Processor.Exec of processor.go: one coordinator goroutine ("process"),  *)
(* Concurrency worker goroutines for every non-terminal state, a buffered  *)
(* job channel per state, one buffered return channel, and a context that  *)
(* may be cancelled at any time.  The coordinator alone touches the status *)
(* counts and the waiting lists; coordinator and workers share only the    *)
(* channels and the context.                                               *)
(*                                                                         *)
(* A job is its id and its state: the job context C and StateErrors are    *)
(* carried along unread by this code.  What user code returns from         *)
(* State.Exec is any member of ExecResults.                                *)
(***************************************************************************)
EXTENDS Integers, Sequences, FiniteSets, Maps

CONSTANTS
  States,          \* the registered TriggerStates
  Terminal,        \* those declared Terminal
  Concurrency,     \* State.Concurrency
  Unregistered,    \* a state name that no State of the processor carries
  ExecResults,     \* per working state, what its Exec may return
  InitialRuns,     \* the r.Jobs maps Exec may be called with
  ReturnCapacity,  \* buffer of returnChan (256 in the code)
  Cancellable,     \* may the caller cancel the context?
  Fallible,        \* may Serializer.JobUpdate answer an error?
  NoJob            \* content of an empty hand

Working == States \ Terminal
StateName == States \cup {Unregistered}

(* An id is the path of kick indices below a root job: the code's          *)
(* "parent->idx" strings are injective in the same way.                    *)
Id == Seq(Nat)
Job == [id : Id, state : StateName]
JobIn(s) == [id : Id, state : {s}]
Result == [state : StateName, kicks : Seq(StateName)]
Return == [id : Id, prior : Working, state : StateName, kicks : Seq(StateName)]

(* What NewProcessor's validate() enforces, and the shape of the inputs.   *)
ASSUME ConfigAssumption ==
  /\ IsFiniteSet(States)
  /\ Terminal \subseteq States
  /\ Unregistered \notin States
  /\ Concurrency \in [States -> Nat]
  /\ \A s \in Working : Concurrency[s] >= 1
  /\ ReturnCapacity \in Nat \ {0}
  /\ Cancellable \in BOOLEAN
  /\ Fallible \in BOOLEAN

ASSUME InputAssumption ==
  /\ ExecResults \in [Working -> SUBSET Result]
  /\ \A run \in InitialRuns :
        /\ DOMAIN run \subseteq Id /\ IsFiniteSet(DOMAIN run)
        /\ run \in [DOMAIN run -> StateName]

WorkersOf(s) == {s} \X (0 .. Concurrency[s] - 1)
Workers == UNION {WorkersOf(s) : s \in Working}
StateOf(w) == w[1]

VARIABLES
  jobs,        \* Run.Jobs: id -> state
  saved,       \* the last record handed to Serializer.JobUpdate: id -> state
  storage,     \* stateStorage: counts, waiting lists, job channels
  returnChan,  \* buffered Returns
  closed,      \* which channels shutdown() has closed
  wpc,         \* where each worker goroutine is
  wjob,        \* the job a worker executes
  wret,        \* the Return a worker is about to send
  proc,        \* where the coordinator is
  todo,        \* ids not yet enqueued by the coordinator's first loop
  cur,         \* the Return being handled
  k,           \* kick requests of cur already done in the current loop
  needsUpdate, \* needsStatusUpdate
  shown,       \* the counts of the last StatusUpdate
  ctxDone,     \* has the context been cancelled?
  main,        \* the goroutine that called Exec
  exit         \* "running", "panicking" (a goroutine runs its deferred calls),
               \* or how the whole program died: "panic" or "fatal"

vars == <<jobs, saved, storage, returnChan, closed, wpc, wjob, wret, proc,
          todo, cur, k, needsUpdate, shown, ctxDone, main, exit>>
workerVars == <<wpc, wjob, wret>>
statusVars == <<needsUpdate, shown>>
others == <<workerVars, ctxDone, main, exit>> \* the coordinator leaves them alone
coordVars == <<jobs, saved, proc, todo, cur, k, needsUpdate, shown, closed>>

-----------------------------------------------------------------------------
(* stateStorage                                                            *)

NewStateStorage ==
  [executing |-> [s \in States |-> 0],
   waiting   |-> [s \in States |-> 0],
   completed |-> [s \in States |-> 0],
   waitq     |-> [s \in States |-> <<>>],
   chan      |-> [s \in States |-> <<>>]]

(* An operator named Mutant... is a wrong version of the one it precedes:   *)
(* the model with it in place breaks a property (README, Mutants).          *)
MutantRunJobUncounted(ss, job) ==
  [ss EXCEPT !.chan[job.state] = Append(@, job)]

(* The send is written without a capacity guard: that the buffer has room, *)
(* so that the coordinator never blocks here, is CoordinatorNeverBlocks.   *)
RunJob(ss, job) ==
  [ss EXCEPT !.executing[job.state] = @ + 1,
             !.chan[job.state] = Append(@, job)]

MutantQueueJobLast(ss, job) ==
  [ss EXCEPT !.waiting[job.state] = @ + 1,
             !.waitq[job.state] = Append(@, job)]

MutantQueueForgets(ss, job) ==
  [ss EXCEPT !.waiting[job.state] = @ + 1, !.waitq[job.state] = <<job>>]

QueueJob(ss, job) ==
  [ss EXCEPT !.waiting[job.state] = @ + 1,
             !.waitq[job.state] = <<job>> \o @]

MutantRunTerminal(ss, job) == RunJob(ss, job)
CompleteJob(ss, job) == [ss EXCEPT !.completed[job.state] = @ + 1]

MutantCanRunOneMore(ss, s) == ss.executing[s] <= Concurrency[s]

CanRunJobForState(ss, s) == ss.executing[s] < Concurrency[s]

ProcessJob(ss, job) ==
  IF job.state \in Terminal THEN CompleteJob(ss, job)
  ELSE IF CanRunJobForState(ss, job.state) THEN RunJob(ss, job)
  ELSE QueueJob(ss, job)

MutantOnlyFree(ss, s) == [ss EXCEPT !.executing[s] = @ - 1]

RunNextWaitingJob(ss, s) ==
  LET freed == [ss EXCEPT !.executing[s] = @ - 1]
      n     == Len(ss.waitq[s])
      job   == ss.waitq[s][n]
  IN  IF n = 0 THEN freed
      ELSE RunJob([freed EXCEPT !.waitq[s] = SubSeq(@, 1, n - 1),
                                !.waiting[job.state] = @ - 1], job)

MutantSomeJobIsTerminal == \E id \in DOMAIN jobs : jobs[id] \in Terminal
AllJobsAreTerminal == \A id \in DOMAIN jobs : jobs[id] \in Terminal
HasExecutingJobs == \E s \in States : storage.executing[s] > 0

StatusCounts(ss) == <<ss.executing, ss.waiting, ss.completed>>

-----------------------------------------------------------------------------
Init ==
  /\ jobs \in InitialRuns
  /\ saved = [id \in {} |-> Unregistered]
  /\ storage = NewStateStorage
  /\ returnChan = <<>>
  /\ closed = {}
  /\ wpc = [w \in Workers |-> "off"]
  /\ wjob = [w \in Workers |-> NoJob]
  /\ wret = [w \in Workers |-> NoJob]
  /\ proc = "off"
  /\ todo = {}
  /\ cur = NoJob
  /\ k = 0
  /\ needsUpdate = FALSE
  /\ shown = StatusCounts(NewStateStorage)
  /\ ctxDone = FALSE
  /\ main = "call"
  /\ exit = "running"

(* The caller, or a deadline of its context, cancels.                      *)
Cancel ==
  /\ Cancellable
  /\ main \in {"call", "wait"}
  /\ ~ctxDone
  /\ ctxDone' = TRUE
  /\ UNCHANGED <<coordVars, workerVars, storage, returnChan, main, exit>>

-----------------------------------------------------------------------------
(* The goroutine that calls Exec                                           *)

ExecAllTerminal ==
  /\ main = "call"
  /\ AllJobsAreTerminal
  /\ storage' = [storage EXCEPT !.completed =
        [s \in States |-> @[s] + Cardinality({id \in DOMAIN jobs : jobs[id] = s})]]
  /\ shown' = StatusCounts(storage')
  /\ main' = "nil"
  /\ UNCHANGED <<jobs, saved, returnChan, closed, workerVars, proc, todo, cur, k,
                 needsUpdate, ctxDone, exit>>

ExecStart ==
  /\ main = "call"
  /\ ~AllJobsAreTerminal
  /\ main' = "wait"
  /\ wpc' = [w \in Workers |-> "idle"]
  /\ proc' = "enqueue"
  /\ todo' = DOMAIN jobs
  /\ UNCHANGED <<jobs, saved, storage, returnChan, closed, wjob, wret, cur, k,
                 statusVars, ctxDone, exit>>

(* wg.Wait() returns; Exec answers ctx.Err().  A goroutine that panics has *)
(* called wg.Done too: Exec may return while the program dies of it.       *)
SignedOff(w) == wpc[w] \in {"done", "dropped"} \/ (exit = "panicking" /\ wpc[w] = "send")

ExecReturn ==
  /\ main = "wait"
  /\ proc = "done"
  /\ \A w \in Workers : SignedOff(w)
  /\ main' = IF ctxDone THEN "ctxErr" ELSE "nil"
  /\ UNCHANGED <<coordVars, workerVars, storage, returnChan, ctxDone, exit>>

-----------------------------------------------------------------------------
(* The coordinator                                                         *)

Die(how) ==
  /\ exit' = how
  /\ UNCHANGED <<coordVars, workerVars, storage, returnChan, ctxDone, main>>

(* Looking up the status of an unregistered state dereferences a nil       *)
(* *StatusCount: the coordinator panics.  Its deferred shutdown and        *)
(* wg.Done still run, beside everybody else, before the program dies.      *)
Panic ==
  /\ exit' = "panicking"
  /\ proc' = "shutdown"

EnqueueJob(id) ==
  /\ proc = "enqueue"
  /\ jobs[id] \in States
  /\ storage' = ProcessJob(storage, [id |-> id, state |-> jobs[id]])
  /\ todo' = todo \ {id}
  /\ UNCHANGED <<others, jobs, saved, returnChan, closed, proc, cur, k, statusVars>>

EnqueueUnregistered(id) ==
  /\ proc = "enqueue"
  /\ jobs[id] \notin States
  /\ Panic
  /\ UNCHANGED <<workerVars, jobs, saved, storage, returnChan, closed, todo, cur, k,
                 statusVars, ctxDone, main>>

InitialStatus ==
  /\ proc = "enqueue"
  /\ todo = {}
  /\ shown' = StatusCounts(storage)
  /\ proc' = "select"
  /\ UNCHANGED <<others, jobs, saved, storage, returnChan, closed, todo, cur, k, needsUpdate>>

CoordinatorSeesCancel ==
  /\ proc = "select"
  /\ ctxDone
  /\ proc' = "shutdown"
  /\ UNCHANGED <<others, jobs, saved, storage, returnChan, closed, todo, cur, k, statusVars>>

(* handleReturn up to its loop over the kick requests.  "select" receives  *)
(* the first Return, "drain" the ones already buffered.                    *)
HandleReturn ==
  /\ proc \in {"select", "drain"}
  /\ returnChan # <<>>
  /\ LET rtn == Head(returnChan) IN
       /\ rtn.state \in States
       /\ cur' = rtn
       /\ jobs' = Put(jobs, rtn.id, rtn.state)
       /\ storage' = ProcessJob(RunNextWaitingJob(storage, rtn.prior),
                                [id |-> rtn.id, state |-> rtn.state])
  /\ returnChan' = Tail(returnChan)
  /\ k' = 0
  /\ proc' = "kicks"
  /\ UNCHANGED <<others, saved, closed, todo, statusVars>>

(* ... which gets no further than UpdateJob if nobody registered the state. *)
HandleUnregistered ==
  /\ proc \in {"select", "drain"}
  /\ returnChan # <<>>
  /\ LET rtn == Head(returnChan) IN
       /\ rtn.state \notin States
       /\ jobs' = Put(jobs, rtn.id, rtn.state)
       /\ storage' = RunNextWaitingJob(storage, rtn.prior)
  /\ returnChan' = Tail(returnChan)
  /\ Panic
  /\ UNCHANGED <<workerVars, saved, closed, todo, cur, k, statusVars, ctxDone, main>>

MutantParentId(idx) == cur.id
MutantSameKickId(idx) == Append(cur.id, 0)

KickId(idx) == Append(cur.id, idx)

(* One iteration of the kick loop of handleReturn.                         *)
KickJob ==
  /\ proc = "kicks"
  /\ k < Len(cur.kicks)
  /\ cur.kicks[k + 1] \in States
  /\ jobs' = Put(jobs, KickId(k), cur.kicks[k + 1])
  /\ storage' = ProcessJob(storage, [id |-> KickId(k), state |-> cur.kicks[k + 1]])
  /\ k' = k + 1
  /\ UNCHANGED <<others, saved, returnChan, closed, proc, todo, cur, statusVars>>

KickUnregistered ==
  /\ proc = "kicks"
  /\ k < Len(cur.kicks)
  /\ cur.kicks[k + 1] \notin States
  /\ jobs' = Put(jobs, KickId(k), cur.kicks[k + 1])
  /\ Panic
  /\ UNCHANGED <<workerVars, saved, storage, returnChan, closed, todo, cur, k,
                 statusVars, ctxDone, main>>

(* persistAfterCompletion: one JobUpdate for the job ...                   *)
PersistJob ==
  /\ proc = "kicks"
  /\ k = Len(cur.kicks)
  /\ saved' = Put(saved, cur.id, cur.state)
  /\ k' = 0
  /\ proc' = "persist"
  /\ UNCHANGED <<others, jobs, storage, returnChan, closed, todo, cur, statusVars>>

MutantPersistNextId ==
  /\ proc = "persist"
  /\ k < Len(cur.kicks)
  /\ saved' = Put(saved, KickId(k + 1), cur.kicks[k + 1])
  /\ k' = k + 1
  /\ UNCHANGED <<others, jobs, storage, returnChan, closed, proc, todo, cur, statusVars>>

(* ... then one for each job it kicked.                                    *)
PersistKick ==
  /\ proc = "persist"
  /\ k < Len(cur.kicks)
  /\ saved' = Put(saved, KickId(k), cur.kicks[k + 1])
  /\ k' = k + 1
  /\ UNCHANGED <<others, jobs, storage, returnChan, closed, proc, todo, cur, statusVars>>

(* Either JobUpdate may fail: log.Fatalf, which runs no deferred call.     *)
PersistFails ==
  /\ Fallible
  /\ \/ proc = "kicks" /\ k = Len(cur.kicks)
     \/ proc = "persist" /\ k < Len(cur.kicks)
  /\ Die("fatal")

MutantOnlyKicks(rtn) == Len(rtn.kicks) > 0
ChangesCounts(rtn) == rtn.prior # rtn.state \/ Len(rtn.kicks) > 0

HandleReturnEnds ==
  /\ proc = "persist"
  /\ k = Len(cur.kicks)
  /\ needsUpdate' = (needsUpdate \/ ChangesCounts(cur))
  /\ cur' = NoJob
  /\ k' = 0
  /\ proc' = "drain"
  /\ UNCHANGED <<others, jobs, saved, storage, returnChan, closed, todo, shown>>

(* The non-blocking receive finds returnChan empty: publish the counts if  *)
(* they changed, then decide whether the run is complete.                  *)
MutantIgnoreExecuting == AllJobsAreTerminal
RunComplete == AllJobsAreTerminal /\ ~HasExecutingJobs

MutantDrainSpins ==
  /\ proc = "drain"
  /\ returnChan = <<>>
  /\ shown' = IF needsUpdate THEN StatusCounts(storage) ELSE shown
  /\ needsUpdate' = FALSE
  /\ proc' = IF RunComplete THEN "shutdown" ELSE "drain"
  /\ UNCHANGED <<others, jobs, saved, storage, returnChan, closed, todo, cur, k>>

DrainEnds ==
  /\ proc = "drain"
  /\ returnChan = <<>>
  /\ shown' = IF needsUpdate THEN StatusCounts(storage) ELSE shown
  /\ needsUpdate' = FALSE
  /\ proc' = IF RunComplete THEN "shutdown" ELSE "select"
  /\ UNCHANGED <<others, jobs, saved, storage, returnChan, closed, todo, cur, k>>

(* shutdown(), deferred by process: the job channels, then returnChan.     *)
CloseJobChannels ==
  /\ proc = "shutdown"
  /\ closed' = closed \cup {"jobs"}
  /\ proc' = "closing"
  /\ UNCHANGED <<others, jobs, saved, storage, returnChan, todo, cur, k, statusVars>>

CloseReturnChan ==
  /\ proc = "closing"
  /\ closed' = closed \cup {"return"}
  /\ proc' = "done"
  /\ UNCHANGED <<others, jobs, saved, storage, returnChan, todo, cur, k, statusVars>>

Coordinator ==
  \/ \E id \in todo : EnqueueJob(id) \/ EnqueueUnregistered(id)
  \/ InitialStatus
  \/ CoordinatorSeesCancel
  \/ HandleReturn \/ HandleUnregistered
  \/ KickJob \/ KickUnregistered
  \/ PersistJob \/ PersistKick \/ PersistFails \/ HandleReturnEnds
  \/ DrainEnds
  \/ CloseJobChannels \/ CloseReturnChan

-----------------------------------------------------------------------------
(* A worker (StateExec.Run)                                                *)

WorkerSeesCancel(w) ==
  /\ wpc[w] = "idle"
  /\ ctxDone
  /\ wpc' = [wpc EXCEPT ![w] = "done"]
  /\ UNCHANGED <<coordVars, storage, returnChan, wjob, wret, ctxDone, main, exit>>

(* A closed channel still delivers what it buffers.                        *)
WorkerReceive(w) ==
  LET s == StateOf(w) IN
  /\ wpc[w] = "idle"
  /\ storage.chan[s] # <<>>
  /\ wpc' = [wpc EXCEPT ![w] = "exec"]
  /\ wjob' = [wjob EXCEPT ![w] = Head(storage.chan[s])]
  /\ storage' = [storage EXCEPT !.chan[s] = Tail(@)]
  /\ UNCHANGED <<coordVars, returnChan, wret, ctxDone, main, exit>>

WorkerSeesClosed(w) ==
  /\ wpc[w] = "idle"
  /\ storage.chan[StateOf(w)] = <<>>
  /\ "jobs" \in closed
  /\ wpc' = [wpc EXCEPT ![w] = "done"]
  /\ UNCHANGED <<coordVars, storage, returnChan, wjob, wret, ctxDone, main, exit>>

(* executeOne returns and the worker looks at the context once more.       *)
WorkerExecutes(w, r) ==
  /\ wpc[w] = "exec"
  /\ ~ctxDone
  /\ wpc' = [wpc EXCEPT ![w] = "send"]
  /\ wret' = [wret EXCEPT ![w] =
       [id |-> wjob[w].id, prior |-> wjob[w].state, state |-> r.state, kicks |-> r.kicks]]
  /\ wjob' = [wjob EXCEPT ![w] = NoJob]
  /\ UNCHANGED <<coordVars, storage, returnChan, ctxDone, main, exit>>

(* ... or finds it cancelled and ends without sending the result.          *)
WorkerDrops(w) ==
  /\ wpc[w] = "exec"
  /\ ctxDone
  /\ wpc' = [wpc EXCEPT ![w] = "dropped"]
  /\ UNCHANGED <<coordVars, storage, returnChan, wjob, wret, ctxDone, main, exit>>

WorkerSends(w) ==
  /\ wpc[w] = "send"
  /\ "return" \notin closed
  /\ Len(returnChan) < ReturnCapacity
  /\ returnChan' = Append(returnChan, wret[w])
  /\ wpc' = [wpc EXCEPT ![w] = "idle"]
  /\ wret' = [wret EXCEPT ![w] = NoJob]
  /\ UNCHANGED <<coordVars, storage, wjob, ctxDone, main, exit>>

(* Sending on a closed channel panics; only wg.Done is deferred here.      *)
WorkerSendsOnClosed(w) ==
  /\ wpc[w] = "send"
  /\ "return" \in closed
  /\ Die("panicking")

Worker(w) ==
  \/ WorkerSeesCancel(w)
  \/ WorkerReceive(w)
  \/ WorkerSeesClosed(w)
  \/ \E r \in ExecResults[StateOf(w)] : WorkerExecutes(w, r)
  \/ WorkerDrops(w)
  \/ WorkerSends(w)
  \/ WorkerSendsOnClosed(w)

-----------------------------------------------------------------------------
Returned == main \in {"nil", "ctxErr"}

Alive == exit \in {"running", "panicking"}

(* The deferred calls of a goroutine that panics are done.                 *)
ProgramDies ==
  /\ exit = "panicking"
  /\ proc = "done"
  /\ Die("panic")

(* Exec has returned or the program is dead: nothing is left to do.        *)
Finished ==
  /\ Returned \/ ~Alive
  /\ UNCHANGED vars

Step ==
  \/ Cancel
  \/ ExecAllTerminal \/ ExecStart \/ ExecReturn
  \/ Coordinator
  \/ \E w \in Workers : Worker(w)
  \/ ProgramDies

Next == (Alive /\ Step) \/ Finished

Spec == Init /\ [][Next]_vars

(* Every goroutine that can go on goes on: the scheduler runs it, and      *)
(* State.Exec returns.  A worker blocked on a full returnChan waits in the *)
(* channel's queue of senders, which Go serves in order: strong fairness.  *)
(* Nobody has to cancel.                                                   *)
Fairness ==
  /\ WF_vars(Alive /\ (ExecAllTerminal \/ ExecStart \/ ExecReturn))
  /\ WF_vars(Alive /\ Coordinator)
  /\ \A w \in Workers : /\ WF_vars(Alive /\ Worker(w))
                         /\ SF_vars(Alive /\ WorkerSends(w))
  /\ WF_vars(Alive /\ ProgramDies)

FairSpec == Spec /\ Fairness

-----------------------------------------------------------------------------
(* Where the copies of a job are while it is on its way through a state.   *)

InHand(w) == wpc[w] \in {"exec", "send", "dropped"}
Busy(s) == {w \in WorkersOf(s) : InHand(w)}
ReturnedFrom(s) == {i \in DOMAIN returnChan : returnChan[i].prior = s}

Held(w) ==
  IF wpc[w] = "send" THEN [id |-> wret[w].id, state |-> wret[w].prior] ELSE wjob[w]

CopyOf(at, i, job) == [at |-> at, pos |-> i, id |-> job.id, state |-> job.state]
QueueCopies(at, q) == {CopyOf(at, i, q[i]) : i \in DOMAIN q}

WaitingCopies == UNION {QueueCopies("waiting", storage.waitq[s]) : s \in States}
ChannelCopies == UNION {QueueCopies("channel", storage.chan[s]) : s \in States}
WorkerCopies == {CopyOf("worker", w, Held(w)) : w \in {x \in Workers : InHand(x)}}
ReturnCopies ==
  {CopyOf("returned", i, [id |-> returnChan[i].id, state |-> returnChan[i].prior])
     : i \in DOMAIN returnChan}

Copies == WaitingCopies \cup ChannelCopies \cup WorkerCopies \cup ReturnCopies

-----------------------------------------------------------------------------
(* Types of every variable; the hands of a worker and of the coordinator   *)
(* are empty exactly when their program counter says so.                   *)
ProcStates == {"off", "enqueue", "select", "drain", "kicks", "persist",
               "shutdown", "closing", "done"}
WorkerStates == {"off", "idle", "exec", "send", "dropped", "done"}
Counts == [States -> Int]

StorageFields == {"executing", "waiting", "completed", "waitq", "chan"}

IsStorage(ss) ==
  /\ DOMAIN ss = StorageFields
  /\ ss.executing \in Counts /\ ss.waiting \in Counts /\ ss.completed \in Counts
  /\ ss.waitq \in [States -> Seq(Job)] /\ ss.chan \in [States -> Seq(Job)]
  /\ \A s \in States : ss.waitq[s] \in Seq(JobIn(s)) /\ ss.chan[s] \in Seq(JobIn(s))
  /\ \A s \in Terminal : ss.chan[s] = <<>>

IsJobMap(f) ==
  /\ DOMAIN f \subseteq Id /\ IsFiniteSet(DOMAIN f)
  /\ f \in [DOMAIN f -> StateName]

TypeOK ==
  /\ IsJobMap(jobs) /\ IsJobMap(saved)
  /\ IsStorage(storage)
  /\ returnChan \in Seq(Return)
  /\ closed \subseteq {"jobs", "return"}
  /\ wpc \in [Workers -> WorkerStates]
  /\ DOMAIN wjob = Workers /\ DOMAIN wret = Workers
  /\ \A w \in Workers :
        /\ wpc[w] \in {"exec", "dropped"} => wjob[w] \in JobIn(StateOf(w))
        /\ wpc[w] = "send" => wret[w] \in Return /\ wret[w].prior = StateOf(w)
  /\ proc \in ProcStates
  /\ todo \subseteq DOMAIN jobs
  /\ proc \in {"kicks", "persist"} => cur \in Return /\ k \in 0 .. Len(cur.kicks)
  /\ needsUpdate \in BOOLEAN
  /\ shown \in Counts \X Counts \X Counts
  /\ ctxDone \in BOOLEAN
  /\ main \in {"call", "wait", "nil", "ctxErr"}
  /\ exit \in {"running", "panicking", "panic", "fatal"}

(* Executing of a state counts exactly the jobs on their way through it: in *)
(* its channel, in a worker's hands, or returned and not yet handled.  The  *)
(* coordinator keeps this count alone while three kinds of goroutine move   *)
(* the jobs (processor.go:167-170, 213-228, 453-462).                       *)
ExecutingAccounted ==
  \A s \in Working :
    storage.executing[s] = Len(storage.chan[s]) + Cardinality(Busy(s))
                             + Cardinality(ReturnedFrom(s))

(* runJob sends to a channel with room for Concurrency jobs while it is     *)
(* the only goroutine that also drains returnChan: were the buffer ever     *)
(* full, coordinator and workers would wait on each other.  It never is     *)
(* (processor.go:117-121, 169).                                             *)
CoordinatorNeverBlocks ==
  \A s \in States : Len(storage.chan[s]) <= Concurrency[s]

(* No state executes more jobs than its Concurrency, jobs wait for it only  *)
(* while all that capacity is taken, and Waiting counts them                *)
(* (processor.go:172-198, 213-228).                                         *)
Conserving(ss) ==
  \A s \in Working :
    /\ ss.waiting[s] = Len(ss.waitq[s])
    /\ ss.executing[s] <= Concurrency[s]
    /\ ss.waitq[s] # <<>> => ss.executing[s] = Concurrency[s]

WorkConserving == Conserving(storage)

(* No job is lost between the lists, channels and goroutines: a job that    *)
(* still has work to do has a copy on its way through its state, however    *)
(* the run ends (processor.go:374-389, 449-466).                            *)
NoJobForgotten ==
  main # "call" =>
    \A id \in DOMAIN jobs \ todo :
      jobs[id] \in Working => \E c \in Copies : c.id = id /\ c.state = jobs[id]

(* ... and never two: no job is executed twice at once (job.go:22, "Id is a *)
(* unique identifier for the job").  A worker's copy has been received, so  *)
(* two workers, or a worker and a list, would hold the same job.            *)
UniqueInFlight ==
  \A c, d \in Copies : c.id = d.id => c = d

(* Exec answers nil only when the run is finished: every job is terminal,   *)
(* nothing of it is left in a list, a channel or a goroutine, and the       *)
(* counts last shown to the listener are those of Run.Jobs                  *)
(* (processor.go:300-308, 367-369).                                         *)
JobsIn(s) == {id \in DOMAIN jobs : jobs[id] = s}

CompletionSound ==
  main = "nil" /\ exit = "running" =>
    /\ \A id \in DOMAIN jobs : jobs[id] \in Terminal
    /\ Copies = {}

FinalStatusExact ==
  main = "nil" /\ exit = "running" =>
    shown = <<[s \in States |-> 0], [s \in States |-> 0],
              [s \in States |-> Cardinality(JobsIn(s))]>>

(* Whenever the coordinator goes to sleep the listener has seen the current *)
(* counts, although updates that "change nothing" are skipped               *)
(* (processor.go:363-365, 395).                                             *)
StatusFresh == proc = "select" => shown = StatusCounts(storage)

(* A job in a terminal state stays there (processor.go:54-55, "no further     *)
(* state transitions should occur after reaching this state").              *)
TerminalIsFinal ==
  [][\A id \in DOMAIN jobs : jobs[id] \in Terminal => jobs'[id] = jobs[id]]_vars

(* Between two Returns, the records handed to the serializer, played over   *)
(* the run Exec was called with, give exactly Run.Jobs                      *)
(* (processor.go:391, 403-420).                                             *)
SavedIsCurrent ==
  proc \notin {"kicks", "persist"} /\ exit = "running" =>
    \E run \in InitialRuns : jobs = Overlay(saved, run)

(* The program does not die (README.md:17, "very easy to stop and restart   *)
(* at whim").                                                               *)
NoPanic == exit # "panic"

(* While nobody cancels, the return channel is never closed under a worker: *)
(* not even when a second fork has overwritten a child that executes, and   *)
(* all jobs of the run are terminal (processor.go:367, 422-429).            *)
DiesOnlyCancelled == exit \in {"panicking", "panic"} => ctxDone

(* A run whose workflow has no cycle completes unless it is cancelled.      *)
Completes == <>(main = "nil" \/ ctxDone)

(* A cancelled Exec returns (or the program is dead).                       *)
CancelReturns == ctxDone ~> (Returned \/ ~Alive)

(* With more jobs than capacity, no job waits for ever: each is executed    *)
(* again and again (processor.go:174-178, "to ensure fairness").            *)
Executing(id) == \E w \in Workers : wpc[w] = "exec" /\ wjob[w].id = id
NoStarvation ==
  \A id \in UNION {DOMAIN run : run \in InitialRuns} : []<>Executing(id)

-----------------------------------------------------------------------------
(* Refinement: the run as Workflow sees it already holds the kicks that    *)
(* handleReturn has not reached yet but will, before it panics at one.     *)
Pool ==
  LET coming == {i \in k .. Len(cur.kicks) - 1 : \A h \in k + 1 .. i : cur.kicks[h] \in States}
  IN  IF proc = "kicks"
      THEN Overlay([id \in {KickId(i) : i \in coming} |-> cur.kicks[id[Len(id)] + 1]], jobs)
      ELSE jobs

Outcome ==
  CASE main = "nil" /\ exit = "running" -> "finished"
    [] Returned /\ ~(main = "nil" /\ exit = "running") -> "stopped"
    [] OTHER -> "running"

Promise == INSTANCE Workflow WITH pool <- Pool, outcome <- Outcome

(* The goroutines together move the run only as Workflow allows: a job      *)
(* changes by one result of the Exec of the state it is in, taken over      *)
(* whole or as far as the first state that nobody registered, which the     *)
(* run then keeps unmoved; a fork appears at once and overwrites nothing    *)
(* (processor.go:374-396, 442-466).                                         *)
ImplementsWorkflow == Promise!Spec
=============================================================================
