# Verification of jorb

jorb is a Go library that pushes a *run* (a set of jobs) through a workflow of
states: each state has a function `Exec` that moves a job to its next state and
may *kick* new jobs; a processor executes the states concurrently, tells a
listener how far the run is, and records every completion in a serializer, so
that a killed program can be started again. This directory holds TLA+ modules
of that code, the configurations with which TLC checks them, and theorems that
TLAPS checks.

`PROJECT.json` maps every definition to the source lines it stands for; paths
below are relative to the repository.

## 1. The system

| Component | Source | State it keeps | Operations |
|---|---|---|---|
| Processor: coordinator | `processor.go` `Exec`, `process`, `handleReturn`, `persistAfterCompletion`, `shutdown` | `Run.Jobs`, `needsStatusUpdate`, which channels are closed | enqueue the run; receive a Return, free a slot, place the job, place its kicks, persist, publish counts, decide completion; close the channels |
| Processor: stateStorage | `processor.go` 78-250 | per state: Executing, Waiting, Completed, the waiting list, the job channel | `runJob`, `queueJob`, `completeJob`, `processJob`, `runNextWaitingJob`, `canRunJobForState`, `allJobsAreTerminal`, `hasExecutingJobs`, `validate` |
| Processor: workers | `processor.go` `StateExec.Run`, `executeOne` | the job in hand, the Return to send | receive, execute, send, notice cancellation |
| executeOne's wrapping | `processor.go` 468-565 | the context and the deadline of one `Exec` | rate-limit wait, timeout, classification of the error, feedback to the limiter |
| Run, Job | `run.go`, `job.go` | `Jobs`: id to job | `AddJob`, `UpdateJob`, `Clone`, `Init` |
| JsonSerializer | `json_serializer.go` | append log, sealed segments, `.json`, `.json.tmp`; `appendFile`, `sealSeq`; backoff, pending, kick, stop | `NewJsonSerializer`, `JobUpdate`, checkpoint (loop and `CheckpointSync`), `Deserialize`, `Close` |
| AIMD rate limiter | `ratelimit.go` | current, min, max, times of the last backoff and increase, the `rate.Limiter` underneath | construction with normalization, `Wait`, `Backoff`, `OnSuccess`, `Current` |
| StatusListener | `status.go` | - | `StatusUpdate` |
| NilSerializer, examples, example types | `serializer.go`, `examples/`, `internal/`, `example_types.go` | - | - |

How they interact:

- The goroutine that calls `Exec` starts one coordinator and `Concurrency`
  workers for every state that is not terminal, and waits for all of them.
- Coordinator to workers: one buffered channel per state, capacity
  `Concurrency`. Workers to coordinator: one buffered channel of Returns (256).
  All of them share the context. Only the coordinator touches the counts, the
  waiting lists and, while a run is executed, `Run.Jobs`.
- Coordinator to store: `JobUpdate`, synchronously, once for the completed job
  and once for each job it kicked, after both have been changed in memory and
  sent on their way. If it fails the program ends (`log.Fatalf`).
- Workers of a state to its rate limiter: `Wait` before, `Backoff` or `OnSuccess`
  after every `Exec`, several workers at once.
- A program that was killed opens the store again, deserializes the run, adds
  jobs only if the run is empty, and calls `Exec` on it.
- The store's checkpoint goroutine shares with `JobUpdate` and `Close` the mutex
  `appendMu` and with the processor the `Run` itself, which it copies under
  the run's mutex.

What is hard, and what makes each part correct:

- **Processor.** The count Executing is kept by one goroutine about jobs that
  three kinds of goroutine move; it decides who may run, whether a channel send
  can block, and when the run is complete. Correct means: it is exact; no state
  exceeds its concurrency, none is idle while jobs wait; no job is lost or
  executed twice at once; the coordinator never blocks on a job channel; `nil`
  is returned only of a finished run; cancelling brings everyone back;
  waiting jobs are not starved; the counts shown and the records saved are right
  although both are batched or split.
- **JsonSerializer.** A checkpoint is nine file operations, a completion several
  appends, and a crash can fall between any two. Correct means: what
  `JobUpdate` has acknowledged is recovered; nothing older than it wins over it;
  a start can always read what is there; segments are never overwritten; a
  failing checkpoint costs nothing and is made up for; `Close` merges.
- **Rate limiter.** Several workers report the same overload, others bring
  successes of requests sent before it. Correct means: one decrease per debounce
  interval, which those successes do not undo; always min <= current <= max,
  whatever the configuration; an overload is followed by a rate that the service
  takes, and that by a recovery.
- **executeOne.** A timeout, a cancellation and an error of the job itself must
  be told apart.
- **Restart.** What the processor does with a job (send it on, change the run,
  append a record) and what the store does with the run (copy, publish, forget)
  are cut off together at any point. Correct means: only what has not been
  acknowledged is done again, and the run comes to its end.

The list of hazards, each at its line with the properties that cover it, is
`hazards` in `PROJECT.json`.

## 2. The modules

| Module | Models |
|---|---|
| `Processor` | coordinator, workers, stateStorage and the context, as one state machine |
| `Workflow` | the contract of `Exec` about a run, without goroutines; `Processor` is shown to implement it |
| `Maps` | assignment to a Go map; one map played over another |
| `MCProcessor` | the workflows TLC runs `Processor` with |
| `StorageProofs` | lemmas on the methods of stateStorage |
| `ProcessorProofs` | theorems about `Processor`: types, capacity, the count Executing |
| `RunProofs` | theorems about `Processor`: counts shown, records saved, no job lost, completion |
| `ForkProofs` | theorems about workflows that fork once; `Processor` implements `Workflow` |
| `AimdRateLimiter` | the limiter's rate, windows and settings; its methods are actions for others to take |
| `ExecuteOne` | `AimdRateLimiter` with the workers of one state, their deadlines, the context and a service of limited capacity |
| `MCExecuteOne`, `ExecuteOneProofs` | its configurations; theorems about it |
| `DurableStore` | what a serializer promises: a run in memory, a checkpoint, a log |
| `JsonSerializer` | the files, the checkpoint loop, the client, `Close`, crashes and starts; shown to implement `DurableStore` |
| `MCJsonSerializer` | its initial directories |
| `JsonSerializerProofs` | theorems about it; it implements `DurableStore` |
| `Restart` | `Processor` over `DurableStore` in a program that is killed and started again |
| `MCRestart` | its workflow |
| `RestartProofs` | what a crash may cost: what is lost and what is done twice |

Two refinements, both checked and proved, and two compositions tie them together:
`Processor` implements `Workflow`, `JsonSerializer` implements `DurableStore`; `Restart` puts `Processor` on
top of `DurableStore`, so that what it shows does not depend on the files, and
`ExecuteOne` puts workers around `AimdRateLimiter`.

### Processor

A job is its id and its state. An id is the sequence of kick indices below a
root, which is what the strings `parent->idx` say. The job's own context and its
error log are carried along unread by this code and are left out. What a state's
`Exec` may answer is the constant `ExecResults`, a set of (state, kicks); the
error returns and the timeout of `executeOne` are just further results, since a
job that fails also goes to the state it is told to.

One action is one step between two points at which other goroutines can be seen
to act: a channel operation, a look at the context, one job or kick placed, one
`JobUpdate`. So `handleReturn` is `HandleReturn` (free the slot, start the next
waiting job, update and place the job), `KickJob` once for each kick,
`PersistJob` and `PersistKick`, and `HandleReturnEnds`; the loop that drains
`returnChan` is `proc = "drain"`, and `DrainEnds` is its `default` case with the
status update and the completion test. `runJob`'s send is written without a
capacity guard, as a fact to be shown (`CoordinatorNeverBlocks`) and not as an
assumption. `WorkerExecutes` ends with the worker's second look at the context;
`WorkerSends` is a separate step, because the channel can be closed in between.

A state that nobody registered (`Unregistered`) makes `processJob` dereference
nil. What runs before that line is in the action: `HandleUnregistered` has freed
the slot, started the next waiting job and put the state into `Run.Jobs`,
`KickUnregistered` has put the kick there, `EnqueueUnregistered` nothing. Then the
coordinator panics (`Panic`): its deferred `shutdown` closes the channels, one
after the other as after any run, while workers execute, send and return and
`Exec` itself may still come back; then the program is dead (`ProgramDies`).
`exit` goes from `"running"` through `"panicking"` to `"panic"`. A worker that sends on
the closed `returnChan` panics the same way. With `Fallible` any `JobUpdate` may
answer an error instead (`PersistFails`): `log.Fatalf` runs no deferred call, and
`exit` is `"fatal"` at once. Properties of a run that goes on say `exit = "running"`.

`ExecResults` and `InitialRuns` may contain anything of their types. One `Exec`
per processor is modelled; a second one would find the channels closed.

### Workflow and the refinement

`Workflow` has two variables: the pool of jobs and the outcome of `Exec`. A job
advances by one *whole* result of its state: it changes state and its children
appear in the same step, under ids that did not exist; `Finish` needs all jobs
terminal; after the outcome nothing moves. A result that names an unregistered
state is taken over only as far as that state, the state included (`Taken`), and
after that no job of the run advances, whatever the goroutines still do: this is
what `Run.Jobs`, and any checkpoint taken of it, holds while the program dies.
`Processor!Pool` maps the concrete
run to it by adding, while `handleReturn` is inside its kick loop, the kicks it
has not reached but will; `Outcome` reads `main` (what `Exec` answers beside a panic is
`"stopped"`). So the contract is about the run as the program leaves it, not about
what a checkpoint copies in the middle of a completion: that is `Restart`'s question
(`OnlyNewJobsAreLost`). Property `ImplementsWorkflow` is
`Promise!Spec`. The workflows with which it is checked do not fork one job
twice: those that do break the "new ids" clause (run
`id_collision`).

### JsonSerializer

A job's content is a version number, 1 higher with every `UpdateJob`, so "older"
and "newer" can be told apart. Each file is a value: `json` and `tmp` a map from
id to version, `NoFile` or `Torn`; `active` a sequence of lines or `NoFile`;
`sealed` a map from segment number to such a sequence. One action is one file
operation, the variable `at` is the program counter of
`doCheckpointRotateWriteDelete`, and `mu` says who holds `appendMu`: the loop,
`Close`, the client's `CheckpointSync`, a `JobUpdate`, or `NewJsonSerializer`,
whose `materializeCleanIncremental` is the same steps without the rotation.

The client is the processor as `handleReturn` makes it: `CompleteJob` and
`KickJob` change the run in memory, then one `JobUpdate` for each record. A
`JobUpdate` is two steps, the line written and the line synced; a refused or
failed one ends the process. `Uses` says what else the program does: add jobs
first, call `CheckpointSync` between completions or `Deserialize` before the first
one, as the examples do, or later, call `Close` while `Exec` still runs.

`Crash` ends the process between any two steps, memory lost, files kept.
`PowerLoss` also loses or tears the line that is not synced. `CheckpointFails`
makes any operation of a checkpoint fail, with what it leaves of `.tmp`;
`JobUpdateFails` lets an append fail before, in the middle of, or after the
line. Assumed of the file system: an operation that has returned stays done in
the order in which it was made (the code does not sync directories), and
rename is atomic.

The refinement of `DurableStore`: `logged` is the last record of each job in sealed
and active segments together (`Appended`), `base` the checkpoint a start would
take, `memory` the run or, of a process that is down, what it would recover,
and the stage of the checkpoint is read off `at`. A `JobUpdate` is an `Append`
when its line is synced, a start is a stutter, and both kinds of crash, the
torn line included, are `Crash`. That a checkpoint forgets the records only
after it is published, that none is added meanwhile, and that replay in the
order of the segments gives the last one, are what the property
`ImplementsStore` says of the files.

Left out: `.json.old` (never written by this code); `checkpointBusy` (only one
goroutine ever calls `runCheckpoint`, so it is never found set); the
`ticker == nil` branch of `JobUpdate` (the interval is always 10 s); the length
of a backoff (time passes by `BackoffElapses`); a second `Close`, which panics;
the mode 0600 that `MkdirAll` gives a new directory.

### AimdRateLimiter and ExecuteOne

A rate is a whole number of 1/`Unit` events per second and the smallest rate of
this scale is the code's `minRate`; halving rounds down to the scale, where the
code has floating point. A time stamp is kept as the ticks since, capped at the
window it is compared with: `lastBackoff.IsZero()` and "long ago" are the same to
every comparison. Every method holds the limiter's mutex, so each is one step.
`peak` is a history variable.

`ExecuteOne` has one action for each point of `executeOne` at which others are
seen: `WaitReturns` (whose error nobody reads), `DeadlineFires`, `ExecReturns`
(with `classifyResult` and the feedback to the limiter, which run before
anything else can), and the look at the context when it is back in `Run`.
The service refuses what was sent at a rate above its capacity, and the answer
is known only later: this is how stale reports and stale successes come
about. `Exec` may answer anything an honest one may: nil, errors, overload, the
context's error, overload that wraps it; with `JobDeadlines`, also a
`DeadlineExceeded` of its own making. The token bucket of
`golang.org/x/time/rate` is outside: `Wait` returns some time.

### Restart

The processor's actions are those of `Processor`, one by one; a step that is a
call of `JobUpdate` is also an `Append` of the store, and waits while a
checkpoint is under way, as it does for `appendMu`. `Crash` ends the process
at any point of both, also with the record arrived and not acknowledged.
`Start` is what the examples do: jobs are added only to an empty run. `acked` is
a history variable, the completions the store has answered.

## 3. What the runs check

Passing runs, with the number of distinct states:

| Run | Question | States | Properties |
|---|---|---|---|
| `core` | forking and retrying workflow with unregistered states in runs, results and forks; up to two root jobs, concurrency 2 and 1, return buffer of 1, cancelled at any moment; any record may fail to be saved | 495,827 | `TypeOK` `ExecutingAccounted` `CoordinatorNeverBlocks` `WorkConserving` `NoJobForgotten` `UniqueInFlight` `CompletionSound` `FinalStatusExact` `StatusFresh` `SavedIsCurrent` `TerminalIsFinal` `ImplementsWorkflow` |
| `liveness` | acyclic workflow that forks twice over its own live children, with and without cancellation | 14,250 | `DiesOnlyCancelled` `Completes` `CancelReturns` |
| `fairness` | four jobs polling for ever in a state of concurrency 2 | 8,186 | `NoStarvation` |
| `store` | fresh and used directory, two starts, every fault, `AddJob` and `CheckpointSync` | 149,582 | `TypeOK` `Durable` `NothingStale` `OneSegment` `CloseMerges` `OnlyTheTailIsTorn` `ImplementsStore` |
| `merging` | a failing checkpoint, `Close` called while completions go on, `Deserialize` beside the checkpoint loop at the start | 13,236 | `RefusedOnlyAfterFailure` `ReloadsTheSame` `Merges` `CloseReturns` |
| `throttle` | two workers under an adaptive, a plain or no limiter, three configurations, with and without a timeout, the context cancelled or expired at any moment | 103,355 | `TypeOK` `WithinBounds` `BurstCutsOnce` `RampBounded` `TimedOutTruthfully` `Settles` `Recovers` |
| `restart` | two root jobs, one of which forks, a store that checkpoints at any time, two crashes | 100,560 | `OnlyNewJobsAreLost` `RootsNeverRepeat` `CompletesAfterCrashes` |

Runs that end in a counterexample, one for each of the disagreements between the
code and its documentation that matter most (`findings` in `PROJECT.json` quotes
both):

| Run | What happens |
|---|---|
| `cancel_panic` | the coordinator closes `returnChan` between a worker's look at the context and its send: the program panics on cancellation |
| `id_collision` | a second fork of a job reuses the first one's ids: two copies of one job in flight |
| `failed_checkpoint` | a failed checkpoint leaves no append file: the next completion ends the program |
| `fork_lost` | killed between two appends of one completion: the kicked job is gone for ever |
| `fork_twice` | killed after a checkpoint is published and before its segment is removed: the parent is taken back while its kicked job stays |

The same modules show further disagreements, for which no run is kept:

- with the workflow of `core`, `NoPanic` fails without cancellation: an unregistered
  state is a nil dereference (`processor.go:231`), not the `log.Fatal` of
  `README.md:183`, and the completion that named it is in `Run.Jobs` but not saved:
  only a checkpoint that happens to be taken before the program is dead has it;
- with the workflow of `id_collision`, `TerminalIsFinal` fails: the second fork puts a
  child that has ended back to work (`processor.go:387`);
- with a fresh directory and fault `crash`, `Load` fails for good (`ReadFails`): killed
  in its very first checkpoint the store promotes the empty or torn `.tmp`, and no later
  start can read it (`json_serializer.go:260-264`);
- with fault `power` too: one torn line at the end of a log makes
  every start fail (`json_serializer.go:396`), although `Durable` shows that the
  intact lines hold all that was acknowledged;
- with use `handler`, `CloseMerges` fails: a `JobUpdate` fits between the final
  checkpoint of `Close` and the closing of the append file (`json_serializer.go:727`);
- with uses `reload` and `late`, `Durable` fails: `Deserialize` beside the
  checkpoint loop can install, and then save, a stale run (`json_serializer.go:690`).
  Before the first completion it cannot (`ReloadsTheSame`), though it may find that
  a segment it has listed is gone, and return an error;
- with `JobDeadlines = TRUE`, `TimedOutTruthfully` fails: a `DeadlineExceeded` that a job
  returns from a context of its own, in a state with a `Timeout`, sends it to the
  `FailState` with "timed out after" (`processor.go:523`), where `README.md:96` says
  "only ... when its own deadline elapses";
- a job added by `AddJob` is not written anywhere until the next checkpoint
  (`run.go:88`). After a crash the examples add jobs only to an empty run, so those
  that were added and had completed no state are gone as soon as another one has:
  this is the exception in `OnlyNewJobsAreLost`.

Read in the code, and not stated as properties: the error of `Wait` is dropped
(`processor.go:499`), so a job whose wait was cut short by the context is executed
all the same; a `RateLimitError` that wraps a deadline is taken for the timeout and
never reaches `Backoff`; `Backoff` resets `lastIncrease`, so two increases can fall
into one `IncreaseInterval` around it, against `README.md:68` (hence the "1 +" in
`RampBounded`); `validate` accepts a `Timeout` on a terminal state, against
`README.md:94`, and two states of one `TriggerState`; `Run.Init` drops the copy that
`UpdateLastEvent` returns (`run.go:55`) and changes nothing.

### Bounds, and why they are enough

`core` has three registered states, one of concurrency 1 and one of 2, two root
jobs and one fork of each: jobs wait (three want `part`), both workers of `split` are
busy, the return buffer is full with a worker blocked on it, Returns are drained
several at a time, a job returns to its own state, kicks are placed while others
wait, a kick is born terminal, and all of it is cut off by cancellation at every
point. `ReturnCapacity = 1` instead of 256 makes a full buffer an everyday case.
The state space is finite without a bound on steps: jobs retry in a cycle. One
of the runs of `core` starts with all jobs terminal. `liveness` needs a job with
two forks and a state of concurrency 1 they queue for. `fairness` needs more jobs than twice the concurrency to leave a
queue of two: with the wrong end of the list served, the two at the other
end starve.

`store` has two jobs, two versions each, two starts and one failing checkpoint:
enough for a completion with a kick, an append before and one after a
checkpoint, a failed rotation followed by another, and a recovery followed by
new work. `merging` has one start and no crash, since it asks what happens in
one life of the process. `fork_twice` needs a third version (a record of the parent older than
the fork). `MaxVersion`, `MaxStarts` and `MaxFailures` are the only bounds of
the module; `CHECK_DEADLOCK FALSE` is set for its runs because a process that is
down, or closed, with its starts used up is where the system stops.

`throttle` has two workers, so one can report an overload while the other still
waits, executes, or brings a success of before; half events per second, so
halving rounds; a merge window of 3 ticks and an increase interval of 2, neither a
multiple of the other. Its configurations start above the capacity with room for
several cuts, name their bounds in the wrong order with values that
`normalizeAIMDRates` must mend, and switch merging off. Nothing in it is
cut off: the state space is finite as it is.

`restart` needs a root that forks and one that does not, both queueing for a state
of concurrency 1: a child can be lost, executed twice, or overwritten while it
executes. `MaxCrashes = 2` lets the second crash hit a run that was itself
recovered, with a checkpoint of the first life and records of the second.
Checkpoints do not fail in it: `store` shows what a failed one leaves.

### Fairness

`Processor`: weak fairness of the calling goroutine, of the coordinator and of
each worker: the Go scheduler runs what can run, and `Exec` functions return. A
worker blocked on the full return channel waits in Go's FIFO queue of senders:
strong fairness of its send. A panic kills the program once the deferred calls are
done. Cancellation is never forced.

`JsonSerializer`: weak fairness of the steps a goroutine is in the middle of, of
the ticker and of time; strong fairness where a goroutine waits for `appendMu`
(Go's mutex hands over to a starved waiter) and for the loop's `select`, which
chooses at random among ready cases. The client need not complete any job, but
a `JobUpdate` that has begun returns. File operations fail finitely often
(`MaxFailures`).

`ExecuteOne`: weak fairness of each worker and of the clock: with a positive rate
(`WithinBounds`) the bucket has a token for everyone in the end, and `Exec` returns.
Strong fairness of an overload being reported and of a success, each by some
worker: not every refused request ends in its deadline instead, and not every one
that the service could take fails. Neither is a promise of the code; without them no
limiter could learn anything. The context need never end.

`Restart`: as `Processor`, with strong fairness of the coordinator, who waits for
the mutex of the store behind checkpoints; weak fairness of a checkpoint
that has begun and of starting the program again. Crashes are finitely many.

### Mutants

Every property of a passing run comes with a wrong version of one definition,
`Mutant...` beside the right one: a send not counted, a slot freed and not
handed on, a kick not enqueued, the completion test without the executing jobs,
a rotation that keeps the file handle, a checkpoint written in place, a segment
removed before the checkpoint is published, a loop that dies after an error, a
merge window that every report opens again, a deadline taken for the timeout
although the run was cancelled, an append that does not wait for a checkpoint. With it in place TLC finds that property violated:
the property can see the mistake.

## 4. What is proved

Every theorem is about the specification TLC runs, for all values of the
constants that satisfy the assumptions of its module. Those are what the code
guarantees: `ConfigAssumption` is what `validate` enforces (finitely many
states, terminal ones among them, concurrency at least 1 in the others),
`InputAssumption` gives runs and results their types, `LimiterAssumption` and
`ExecuteAssumption` leave any set of configurations, any windows (0 stands for a
negative `Duration`, which the code accepts and which never holds anything back), any
number of workers; `StoreAssumption` leaves any ids and faults. Where a theorem
needs more it says so, in its `ASSUME`:

| Assumption | Means | Why it is there |
|---|---|---|
| `AllRegistered` (`RunProofs`) | runs, results and forks name registered states | any other name is a nil dereference, with no cancellation at all (section 3) |
| `ForksOnce` (`ForkProofs`) | a state whose result kicks leads to states that never kick again; a run that is resumed shows each child with its parent beyond its fork | a second fork reuses the ids of the first: run `id_collision`. The workflow of `core` satisfies it, and TLC checks there what is proved under it |
| `Forward(rank)` (`RestartProofs`) | the states can be ranked so that every result leads upwards: the workflow has no cycle | in a cycle a job executes a state again that it has completed, with no crash at all. `restart` satisfies it |
| `JobsAreNamed` (`RestartProofs`) | no job has the empty id | `AddJob` names every job; a kick of a job without a name would have the id of a root |
| `"handler" \notin Uses` | `Close` is called when `Exec` is over | otherwise `CloseMerges` fails (section 3). `store` satisfies it |
| `"reload" \in Uses => "late" \notin Uses` | `Deserialize` is not called on a run that is being processed | otherwise `Durable` fails (section 3). So it is in `store` and in the examples |
| `"reload" \in Uses => "add" \notin Uses /\ "late" \notin Uses` | ... nor after `AddJob` | a job that was added is in no file before the next checkpoint, and `Deserialize` takes it back |

### Processor

| Theorem | Says |
|---|---|
| `ProcessorProofs!TypeCorrect` | `Spec => []TypeOK` |
| `ProcessorProofs!CapacityRespected` | `Spec => []WorkConserving`: within concurrency, waiting only when full, Waiting exact |
| `ProcessorProofs!AccountingExact` | `Spec => []ExecutingAccounted` |
| `ProcessorProofs!ChannelsHaveRoom` | `Spec => []CoordinatorNeverBlocks`: coordinator and workers cannot deadlock on a full job channel |
| `RunProofs!ListenerIsCurrent` | `Spec => []StatusFresh` |
| `RunProofs!RecordsAreCurrent` | `Spec => []SavedIsCurrent` |
| `RunProofs!NoJobIsForgotten` | `Spec => []NoJobForgotten` |
| `RunProofs!NilMeansComplete` | `Spec => []CompletionSound` |
| `RunProofs!OnlyCancelledRunsDie` | `Spec => []DiesOnlyCancelled`, if `AllRegistered` |
| `ForkProofs!NoJobRunsTwice` | `Spec => []UniqueInFlight`, if `ForksOnce` |
| `ForkProofs!TerminalStays` | `Spec => TerminalIsFinal`, if `ForksOnce` |
| `ForkProofs!FinalCountsAreExact` | `Spec => []FinalStatusExact`, if `ForksOnce` |
| `ForkProofs!ProcessorImplementsWorkflow` | `Spec => ImplementsWorkflow`, if `ForksOnce` |

Those without an "if" hold for reforking jobs, unregistered states, any
cancellation and a serializer that may fail.

*Counting.* `StorageProofs` says what each method of stateStorage does to the
fields: types, and the number *Outstanding* of jobs that Executing counts beyond
those still in the channel. `Books == TypeOK /\ WorkConserving` is inductive on
its own: `RunNextWaitingJob` frees one slot and fills it again exactly when a
job waits, so the state is full before and after, or nobody waits.
`ExecutingAccounted` is not inductive: it needs `Books`, because a worker's
receive only conserves the sum if the job in the channel is of the worker's
state, and `NotStarted` (no worker is alive before `Exec` has started), without
which `ExecStart`, which resets every worker, would forget jobs in hand. The
inductive invariant is `InFlight == Books /\ NotStarted /\ Accounted`,
`Accounted` being the equation for Outstanding. Each step lemma
(`CoordinatorInFlight`, `WorkerInFlight`, `MainInFlight`) has one case for each
action; the cardinalities of the set of busy workers and of the set of buffered
Returns are followed by `BusyStep`, `FromAppend` and `FromTail`.
`CoordinatorNeverBlocks` follows: what is in a channel is part of Executing,
which never exceeds Concurrency, the capacity of the channel.

*What is told.* A status update is skipped when a job returns to the state it
came from without kicks. `SameStateSameCounts` shows why this is right: the job
frees a slot and takes it back, or hands it to a waiting job and waits in its
place. Hence `FreshUnlessDue`: the counts are those shown or an update is due.
`SavedIsCurrent` is not inductive: between the append of a job and that of its
last kick, and between its kicks, records and run differ by exactly `Unsaved`,
which `Replayed` states for each point of `handleReturn`.

*Nothing lost, nothing left.* `NotForgotten` follows a job by its id through
lists, channels, hands and Returns of its state; `EnqueuedFirst` says that only
the first loop of `process` leaves jobs outside them, or a panic in it. `CompletionSound` needs that what
`process` saw when it decided stays true while `shutdown` and the workers go on:
`Completion` carries `Quiet` (all terminal, nothing executing) to the end, and
`AccountingExact` turns nothing executing into nothing in flight. With
`Registered` this also shows that a channel is closed under a worker only after a
cancellation, however forks have overwritten each other's children.

*Once.* `OneOfEach` is the invariant of workflows that fork once: no list,
channel or hand holds an id twice and no two of them the same (`Alone`), what is
on its way is enqueued and in the state it is held in (`Tracked`), a Return is
a result of the state it comes from (`ResultsGenuine`), a job with children is
in a state that never forks again (`Tree`), and therefore the kicks still to be
placed do not exist (`FreshKicks`). None of its parts is inductive without the
others: a fork is new because its parent has not forked, which the tree says only
if the parent is the job that the Return is of, which takes `Alone` and `Tracked`.
`FinalCountsAreExact` adds that Completed counts the terminal jobs (`Tallied`).

*The refinement.* `PromiseInit` maps the initial states; `PromiseStep` every
step, one lemma for each kind. `HandleReturn` is `Workflow`'s whole advance: `Pool` already
shows the kicks that are not placed, so `KickJob` is a stutter, which is true
because `FreshKicks` lets no kick hit a job that is there. `HandleUnregistered` is an
advance too, of which `Taken` keeps the job alone; `KickUnregistered` is a stutter like
`KickJob`, since `Pool` has had that kick, and none behind it, from the start
(`LastKickIsSilent`). That a later Return cannot advance a run that holds such a state
takes `Known`: while the program runs, everything enqueued is registered; and
`PanicCloses`: while a goroutine panics, the coordinator is past its loop.
`ExecReturn` is `Finish` by `Completion`, or `Stop`, also while the program dies.

### ExecuteOne and the limiter

| Theorem (`ExecuteOneProofs`) | Says |
|---|---|
| `ExecuteTypesCorrect` | `Spec => []TypeOK` |
| `RateWithinBounds` | `Spec => []WithinBounds` |
| `OneCutPerBurst` | `Spec => []BurstCutsOnce` |
| `RampIsBounded` | `Spec => []RampBounded` |
| `TimeoutsAreTrue` | `Spec => []TimedOutTruthfully`, if `~JobDeadlines` |

`LimiterInv == RatesOK /\ WithinBounds /\ BurstCutsOnce`. `WithinBounds` is inductive
with the types once `NormalizeAIMDRates` is known to
give `1 <= min <= initial <= max`. `BurstCutsOnce` needs in addition that
`peak` only moves when a window opens. `RampBounded` has a quotient of times in it
and is not inductive: the rate does not say how many increases gave it. `Ramp`
names that number, `n`: the rate is at most n steps above the floor, and the n - 1
increases after the first took n - 1 full intervals and the time since the
last of them (`Raised`). `n - 1` is then at most the quotient
(facts about division that the prover is led to).
`TimeoutInv` is `TimedOutTruthfully` with its types: a deadline that has fired
stays so until the result is sent, and `TimedOutFired` shows that while the
context is live nothing but such a deadline makes `Exec` answer
`DeadlineExceeded`. `JobDeadlines` is excluded because it is false then (section 3).

### JsonSerializer

| Theorem (`JsonSerializerProofs`) | Says |
|---|---|
| `StoreTypesCorrect` | `Spec => []TypeOK` |
| `OneSegmentOnly` | `Spec => []OneSegment` |
| `RefusalMeansFailure` | `Spec => []RefusedOnlyAfterFailure` |
| `OnlyTailsAreTorn` | `Spec => []OnlyTheTailIsTorn` |
| `CloseLeavesOneCheckpoint` | `Spec => []CloseMerges`, if no `handler` |
| `AcknowledgedIsDurable` | `Spec => []Durable`, if no `late` reload |
| `ReloadGivesTheRun` | `Spec => ReloadsTheSame`, if no `late` and no `add` |
| `NothingIsStale` | `Spec => []NothingStale`, if a reload comes before any change of the run |
| `StoreIsDurable` | `Spec => ImplementsStore`, under the same condition |

They hold for any number of jobs, versions, starts and failures, and for any set
of `Faults`: crashes, torn lines and failing operations at every step.

*Control.* `Control == TypeOK /\ Modes /\ InHand /\ OneLog /\ Failed` says who can be
doing what beside whom, and is what everything else rests on. `TypeOK` is not
inductive without it: that two goroutines are never inside `appendMu` together follows from
`Modes`, that a `JobUpdate`'s line is the last one of the log from `InHand`. `OneLog`
is `OneSegment` with the moment added at which there is none at all; `Failed` says when the
append file may be found closed. `TornTail` and `Published` (what `json` and
`.tmp` hold in each phase of a checkpoint, relative to the copy) give
`OnlyTheTailIsTorn` and, with `Closing`, `CloseMerges`.

*What the disk says.* `Disk` is what a start would recover, a single log played
over the checkpoint it would take. The lemma `DiskStep` is the heart of the module: whatever
a step does to files, it leaves log and checkpoint as they are, adds the synced record,
publishes the copy, or drops the log. `Durable` is not inductive: dropping the log loses
nothing only because the copy was complete. `Safe` says that everything which is to
become the run or a checkpoint - disk, run, copy, what a `Deserialize`
has read - covers what has been acknowledged. `NothingStale` needs the same the other way
round: `Fresh` says that disk and copy hold of a job what the run holds, unless its
record is `Unwritten`. This is why an old segment replayed over a newer checkpoint does no
harm between completions. A `Deserialize` sees the directory change between its reads: `Unmoved`
says that until the first completion everything it can find is the run.

*The refinement.* It takes the invariants above and `Temporary`, what `.tmp` can
hold before there is a checkpoint, since a start would take it. The `choose` inside
the mapping disappears with `OneLog`: the segments together are one log. Then `SameNext`
has one step for each action, and `PowerLoss` and `Crash` are the abstract `Crash`
because a record that is not synced is not yet `Logged`.

### Restart

| Theorem (`RestartProofs`) | Says |
|---|---|
| `OnlyNewJobsAreEverLost` | `RestartSpec => []OnlyNewJobsAreLost` |
| `NoRootRepeats` | `RestartSpec => []RootsNeverRepeat`, if `Forward(rank)` and `JobsAreNamed` |

Both for any number of crashes and checkpoints at any moment, and for reforking
workflows and unregistered states too.

*What is lost.* The inductive invariant is `OnDisk`: `Books`, `Untouched`,
`PanicCloses`, `Down`, files that name only jobs of the run, and, until somebody
panics, `DiskAgrees`. `DiskAgrees` says of every job whose record is not under way
that its last record, or else the checkpoint, or else the initial run, is its
present state, and (`CopyComplete`) that a copy about to be published holds
everything the records to be dropped say: a checkpoint may begin anywhere, also
within a completion, but nothing is appended until it ends. `Unsaved` is that of
`RunProofs`.

*What is done twice.* `Forwards` is `OnDisk` with what follows a job of the run
as added (a root) through the program: `Tracked` and `Alone` of `ForkProofs`,
for the ids of roots only. No kick has one of those (`NoRootIsKicked`), so
`ForksOnce` is not needed and a workflow may fork as it likes. To this
`NoneFallsBack` adds that whatever may become the run again - memory, the log
over the checkpoint, a copy about to be published, a checkpoint whose old
records are about to be removed - has a root beyond every state whose completion
was answered. It is this, not the present state alone, that a crash preserves.
Everything on disk may lag behind memory, but never behind an answer. A worker
executes a root in the state the root is in (`Tracked`), hence beyond every
state that was answered.

### Only model-checked

- `Completes`, `CancelReturns`, `NoStarvation`, `Merges`, `CloseReturns`, `Settles`, `Recovers`
  and `CompletesAfterCrashes`: liveness under fairness, out of the prover's reach.
- The five runs that end in a counterexample are about instances by their nature.

## 5. Not modelled

- That a panicking worker calls `wg.Done` is folded into `SignedOff`: while the
  program dies, a worker about to send counts as one that has. When `Exec`
  returns beside a panic is all it decides.
- What the program that called `Exec` does between its return and the death of the
  process.
- The token bucket of `golang.org/x/time/rate` and the rounding of floating-point
  rates: external, and below what the properties distinguish.
- The context of a job, error texts and the cloning of the `StateErrors` map, time
  stamps (`LastUpdate`), JSON encoding, logging, the names and order of the counts
  shown.
- Example programs and example types beyond how they resume a run (`Restart`):
  they use the library and add no logic. `gencharts` draws pictures of the limiter
  under a clock of its own.
- The store without its ticker: `CheckpointInterval` is the constant 10 s
  (`json_serializer.go:184`), so that branch is never taken. In it a failed
  checkpoint would never be tried again.
- `Exec` called twice on one processor; configurations `validate` refuses. Two states
  of one `TriggerState`, which it accepts, are not modelled: `States` is a set.

## 6. Plan

Done: `Processor` and `Workflow`, `JsonSerializer` and `DurableStore`,
`AimdRateLimiter` and `ExecuteOne`, `Restart`; their checks; the theorems of section
4, which state every safety property and both refinements of the passing runs.

To come:

1. What the liveness properties rest on and can be proved: a rank that every
   completion lowers in an acyclic workflow, the place in the waiting list that
   every freed slot lowers.
