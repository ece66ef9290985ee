--------------------------- MODULE ProcessorProofs ---------------------------
(***************************************************************************)
(* Theorems about Processor, for every workflow, every Concurrency and     *)
(* every size of the return channel.                                       *)
(***************************************************************************)
EXTENDS StorageProofs, FunctionTheorems

-----------------------------------------------------------------------------
(* The inductive invariant of the first part: the types and the books of   *)
(* the coordinator.  processJob keeps the types only of books that are     *)
(* right, so the two are proved together.                                  *)
Books == TypeOK /\ WorkConserving

LEMMA EmptyStorage == IsStorage(NewStateStorage) /\ Conserving(NewStateStorage)
<1>1. <<>> \in Seq(Job) /\ \A s \in States : <<>> \in Seq(JobIn(s))
  BY EmptySeq
<1>2. \A s \in Working : s \in States /\ Concurrency[s] \in Nat
  BY ConfigAssumption DEF Working
<1>3. Len(<<>>) = 0
  BY EmptySeq
<1>4. IsStorage(NewStateStorage)
  BY <1>1, ConfigAssumption DEF NewStateStorage, IsStorage, StorageFields, Counts
<1>5. Conserving(NewStateStorage)
  BY <1>2, <1>3 DEF NewStateStorage, Conserving
<1> QED  BY <1>4, <1>5

LEMMA PutType ==
  ASSUME NEW f, IsJobMap(f), NEW id \in Id, NEW s \in StateName
  PROVE  IsJobMap(Put(f, id, s)) /\ DOMAIN f \subseteq DOMAIN Put(f, id, s)
<1>1. DOMAIN Put(f, id, s) = DOMAIN f \cup {id}
  BY DEF Put
<1>2. IsFiniteSet(DOMAIN f \cup {id})
  BY FS_AddElement DEF IsJobMap
<1>3. Put(f, id, s) \in [DOMAIN f \cup {id} -> StateName]
  BY DEF Put, IsJobMap
<1> QED  BY <1>1, <1>2, <1>3 DEF IsJobMap

LEMMA CountsType ==
  ASSUME NEW ss, IsStorage(ss)
  PROVE  StatusCounts(ss) \in Counts \X Counts \X Counts
BY DEF StatusCounts, IsStorage

LEMMA WorkerFacts ==
  ASSUME NEW w \in Workers
  PROVE  StateOf(w) \in Working /\ StateOf(w) \in States /\ w \in WorkersOf(StateOf(w))
BY DEF Workers, WorkersOf, StateOf, Working

LEMMA BooksInit == Init => Books
<1> SUFFICES ASSUME Init PROVE Books
  OBVIOUS
<1>1. IsJobMap(jobs)
  BY InputAssumption DEF Init, IsJobMap
<1>2. IsJobMap(saved)
  BY FS_EmptySet DEF Init, IsJobMap
<1>3. IsStorage(storage) /\ Conserving(storage)
  BY EmptyStorage DEF Init
<1>4. shown \in Counts \X Counts \X Counts
  BY EmptyStorage, CountsType DEF Init
<1>5. returnChan \in Seq(Return)
  BY EmptySeq DEF Init
<1>6. wpc \in [Workers -> WorkerStates]
  BY DEF Init, WorkerStates
<1>6a. DOMAIN wjob = Workers /\ DOMAIN wret = Workers
  BY DEF Init
<1>7. \A w \in Workers : wpc[w] = "off"
  BY DEF Init
<1>8. /\ proc \in ProcStates /\ proc = "off" /\ closed \subseteq {"jobs", "return"}
      /\ todo \subseteq DOMAIN jobs /\ needsUpdate \in BOOLEAN /\ ctxDone \in BOOLEAN
      /\ main \in {"call", "wait", "nil", "ctxErr"} /\ exit \in {"running", "panicking", "panic", "fatal"}
  BY DEF Init, ProcStates
<1> QED
  BY <1>1, <1>2, <1>3, <1>4, <1>5, <1>6, <1>6a, <1>7, <1>8 DEF Books, TypeOK, WorkConserving

(* A result that comes back names a job, its next state and its kicks.     *)
LEMMA HeadReturn ==
  ASSUME Books, returnChan # <<>>
  PROVE  /\ Head(returnChan) \in Return /\ Tail(returnChan) \in Seq(Return)
         /\ Head(returnChan).prior \in Working /\ Head(returnChan).id \in Id
         /\ Head(returnChan).kicks \in Seq(StateName)
         /\ Head(returnChan).state \in StateName
<1>1. Head(returnChan) \in Return /\ Tail(returnChan) \in Seq(Return)
  BY HeadTailProperties DEF Books, TypeOK
<1> QED  BY <1>1 DEF Return

LEMMA KickType ==
  ASSUME Books, proc \in {"kicks", "persist"}, k < Len(cur.kicks)
  PROVE  /\ k + 1 \in 0 .. Len(cur.kicks) /\ cur.kicks[k + 1] \in StateName
         /\ KickId(k) \in Id
<1>1. cur \in Return /\ k \in 0 .. Len(cur.kicks)
  BY DEF Books, TypeOK
<1>2. cur.kicks \in Seq(StateName) /\ cur.id \in Seq(Nat)
  BY <1>1 DEF Return, Id
<1>3. Len(cur.kicks) \in Nat
  BY <1>2, LenProperties
<1>4. k \in Nat /\ k + 1 \in 1 .. Len(cur.kicks)
  BY <1>1, <1>3
<1>5. cur.kicks[k + 1] \in StateName
  BY <1>2, <1>4, ElementOfSeq
<1>6. KickId(k) \in Id
  BY <1>2, <1>4, AppendProperties DEF KickId, Id
<1> QED  BY <1>4, <1>5, <1>6

LEMMA CoordinatorBooks == Books /\ Coordinator => Books'
<1> SUFFICES ASSUME Books, Coordinator PROVE Books'
  OBVIOUS
<1> USE DEF coordVars, workerVars, others, statusVars
<1>1. ASSUME NEW id \in todo, EnqueueJob(id) PROVE Books'
  <2> DEFINE job == [id |-> id, state |-> jobs[id]]
  <2>1. id \in Id /\ jobs[id] \in States /\ id \in DOMAIN jobs
    BY <1>1 DEF EnqueueJob, Books, TypeOK, IsJobMap
  <2>2. job \in Job /\ job.state \in States
    BY <2>1 DEF Job, StateName
  <2>3. storage' = ProcessJob(storage, job)
    BY <1>1 DEF EnqueueJob
  <2> HIDE DEF job
  <2>4. IsStorage(storage') /\ Conserving(storage')
    BY <2>2, <2>3, ProcessJobEffect DEF Books, TypeOK, WorkConserving
  <2> QED
    BY <1>1, <2>4 DEF EnqueueJob, Books, TypeOK, WorkConserving
<1>2. ASSUME HandleReturn PROVE Books'
  <2> DEFINE rtn == Head(returnChan)
             job == [id |-> rtn.id, state |-> rtn.state]
             mid == RunNextWaitingJob(storage, rtn.prior)
  <2>1. /\ rtn \in Return /\ Tail(returnChan) \in Seq(Return)
        /\ rtn.prior \in Working /\ rtn.id \in Id /\ rtn.state \in States
        /\ rtn.kicks \in Seq(StateName)
    BY <1>2, HeadReturn DEF HandleReturn
  <2>2. job \in Job /\ job.state \in States
    BY <2>1 DEF Job, StateName
  <2>3. IsStorage(mid) /\ Conserving(mid)
    BY <2>1, RunNextWaitingJobEffect DEF Books, TypeOK, WorkConserving
  <2>4. storage' = ProcessJob(mid, job) /\ jobs' = Put(jobs, rtn.id, rtn.state) /\ cur' = rtn
    BY <1>2 DEF HandleReturn
  <2> HIDE DEF job, mid
  <2>5. IsStorage(storage') /\ Conserving(storage')
    BY <2>2, <2>3, <2>4, ProcessJobEffect
  <2>6. IsJobMap(jobs') /\ DOMAIN jobs \subseteq DOMAIN jobs'
    BY <2>1, <2>4, PutType DEF Books, TypeOK, StateName
  <2>7. k' \in 0 .. Len(cur'.kicks)
    BY <1>2, <2>1, <2>4, LenProperties DEF HandleReturn
  <2> HIDE DEF rtn
  <2> QED
    BY <1>2, <2>1, <2>4, <2>5, <2>6, <2>7
    DEF HandleReturn, Books, TypeOK, WorkConserving, ProcStates
<1>3. ASSUME KickJob PROVE Books'
  <2> DEFINE job == [id |-> KickId(k), state |-> cur.kicks[k + 1]]
  <2>1. /\ k + 1 \in 0 .. Len(cur.kicks) /\ KickId(k) \in Id
        /\ cur.kicks[k + 1] \in States
    BY <1>3, KickType DEF KickJob
  <2>2. job \in Job /\ job.state \in States
    BY <2>1 DEF Job, StateName
  <2>3. storage' = ProcessJob(storage, job) /\ jobs' = Put(jobs, KickId(k), cur.kicks[k + 1])
    BY <1>3 DEF KickJob
  <2> HIDE DEF job
  <2>4. IsStorage(storage') /\ Conserving(storage')
    BY <2>2, <2>3, ProcessJobEffect DEF Books, TypeOK, WorkConserving
  <2>5. IsJobMap(jobs') /\ DOMAIN jobs \subseteq DOMAIN jobs'
    BY <2>1, <2>3, PutType DEF Books, TypeOK, StateName
  <2> QED
    BY <1>3, <2>1, <2>4, <2>5 DEF KickJob, Books, TypeOK, WorkConserving, ProcStates
<1>4. ASSUME PersistKick PROVE Books'
  <2>1. /\ k + 1 \in 0 .. Len(cur.kicks) /\ KickId(k) \in Id
        /\ cur.kicks[k + 1] \in StateName
    BY <1>4, KickType DEF PersistKick
  <2>2. IsJobMap(saved')
    BY <1>4, <2>1, PutType DEF PersistKick, Books, TypeOK
  <2> QED
    BY <1>4, <2>1, <2>2 DEF PersistKick, Books, TypeOK, WorkConserving
<1>5. ASSUME PersistJob PROVE Books'
  <2>1. cur \in Return /\ cur.id \in Id /\ cur.state \in StateName
    BY <1>5 DEF PersistJob, Books, TypeOK, Return
  <2>2. IsJobMap(saved')
    BY <1>5, <2>1, PutType DEF PersistJob, Books, TypeOK
  <2>3. k' \in 0 .. Len(cur.kicks)
    BY <1>5, <2>1, LenProperties DEF PersistJob, Return
  <2> QED
    BY <1>5, <2>1, <2>2, <2>3 DEF PersistJob, Books, TypeOK, WorkConserving, ProcStates
<1>6. ASSUME InitialStatus PROVE Books'
  BY <1>6, CountsType DEF InitialStatus, Books, TypeOK, WorkConserving, ProcStates
<1>7. ASSUME DrainEnds PROVE Books'
  BY <1>7, CountsType DEF DrainEnds, Books, TypeOK, WorkConserving, ProcStates
<1>8. ASSUME HandleReturnEnds PROVE Books'
  BY <1>8 DEF HandleReturnEnds, ChangesCounts, Books, TypeOK, WorkConserving, ProcStates
<1>9. ASSUME CoordinatorSeesCancel \/ CloseJobChannels \/ CloseReturnChan PROVE Books'
  BY <1>9 DEF CoordinatorSeesCancel, CloseJobChannels, CloseReturnChan,
              Books, TypeOK, WorkConserving, ProcStates
<1>10. ASSUME PersistFails PROVE Books'
  BY <1>10 DEF PersistFails, Die, Books, TypeOK, WorkConserving
<1>11. ASSUME HandleUnregistered PROVE Books'
  <2> DEFINE rtn == Head(returnChan)
  <2>1. /\ Tail(returnChan) \in Seq(Return)
        /\ rtn.prior \in Working /\ rtn.id \in Id /\ rtn.state \in StateName
    BY <1>11, HeadReturn DEF HandleUnregistered
  <2>2. /\ storage' = RunNextWaitingJob(storage, rtn.prior)
        /\ jobs' = Put(jobs, rtn.id, rtn.state)
    BY <1>11 DEF HandleUnregistered
  <2> HIDE DEF rtn
  <2>3. IsStorage(storage') /\ Conserving(storage')
    BY <2>1, <2>2, RunNextWaitingJobEffect DEF Books, TypeOK, WorkConserving
  <2>4. IsJobMap(jobs') /\ DOMAIN jobs \subseteq DOMAIN jobs'
    BY <2>1, <2>2, PutType DEF Books, TypeOK
  <2> QED
    BY <1>11, <2>1, <2>3, <2>4
    DEF HandleUnregistered, Panic, Books, TypeOK, WorkConserving, ProcStates
<1>12. ASSUME KickUnregistered PROVE Books'
  <2>1. IsJobMap(jobs') /\ DOMAIN jobs \subseteq DOMAIN jobs'
    BY <1>12, KickType, PutType DEF KickUnregistered, Books, TypeOK
  <2> QED
    BY <1>12, <2>1 DEF KickUnregistered, Panic, Books, TypeOK, WorkConserving, ProcStates
<1>13. ASSUME NEW id \in todo, EnqueueUnregistered(id) PROVE Books'
  BY <1>13 DEF EnqueueUnregistered, Panic, Books, TypeOK, WorkConserving, ProcStates
<1> QED
  BY <1>1, <1>2, <1>3, <1>4, <1>5, <1>6, <1>7, <1>8, <1>9, <1>10, <1>11, <1>12, <1>13
  DEF Coordinator

LEMMA WorkerBooks ==
  ASSUME Books, NEW w \in Workers, Worker(w)
  PROVE  Books'
<1> USE DEF coordVars, workerVars, others, statusVars
<1> DEFINE s == StateOf(w)
<1>1. s \in Working /\ s \in States
  BY WorkerFacts
<1>2. ASSUME WorkerReceive(w) PROVE Books'
  <2> DEFINE ch == storage.chan[s]
  <2>1. ch \in Seq(JobIn(s)) /\ ch \in Seq(Job) /\ ch # <<>>
    BY <1>1, <1>2 DEF Books, TypeOK, IsStorage, WorkerReceive
  <2>2. Head(ch) \in JobIn(s) /\ Tail(ch) \in Seq(JobIn(s))
    BY <2>1, HeadTailProperties
  <2>3. Tail(ch) \in Seq(Job)
    BY <2>1, HeadTailProperties
  <2>4. storage' = [storage EXCEPT !.chan[s] = Tail(@)]
    BY <1>2 DEF WorkerReceive
  <2>5. /\ DOMAIN storage' = StorageFields
        /\ storage'.chan = [storage.chan EXCEPT ![s] = Tail(ch)]
        /\ storage'.executing = storage.executing /\ storage'.waiting = storage.waiting
        /\ storage'.completed = storage.completed /\ storage'.waitq = storage.waitq
    <3>1. DOMAIN storage = StorageFields
      BY DEF Books, TypeOK, IsStorage
    <3> QED  BY <2>4, <3>1 DEF StorageFields
  <2>6. wpc' = [wpc EXCEPT ![w] = "exec"] /\ wjob' = [wjob EXCEPT ![w] = Head(ch)]
    BY <1>2 DEF WorkerReceive
  <2> HIDE DEF s, ch
  <2>7. storage'.chan \in [States -> Seq(Job)]
    BY <1>1, <2>3, <2>5 DEF Books, TypeOK, IsStorage
  <2>8. \A t \in States : storage'.chan[t] \in Seq(JobIn(t))
    BY <1>1, <2>2, <2>5 DEF Books, TypeOK, IsStorage
  <2>9. IsStorage(storage')
    BY <1>1, <2>5, <2>7, <2>8 DEF Books, TypeOK, IsStorage, Working
  <2>10. Conserving(storage')
    BY <2>5 DEF Books, WorkConserving, Conserving
  <2>11. wpc' \in [Workers -> WorkerStates]
    BY <2>6 DEF Books, TypeOK, WorkerStates
  <2>12. ASSUME NEW x \in Workers
         PROVE  /\ wpc'[x] \in {"exec", "dropped"} => wjob'[x] \in JobIn(StateOf(x))
                /\ wpc'[x] = "send" => wret'[x] \in Return /\ wret'[x].prior = StateOf(x)
    <3>0. wret' = wret
      BY <1>2 DEF WorkerReceive
    <3>1. CASE x = w
      BY <1>2, <2>2, <3>1, <2>6, <3>0 DEF Books, TypeOK, WorkerReceive, s
    <3>2. CASE x # w
      BY <3>0, <3>2, <2>6 DEF Books, TypeOK
    <3> QED  BY <3>1, <3>2
  <2>13. DOMAIN wjob' = Workers /\ DOMAIN wret' = Workers
    BY <1>2, <2>6 DEF WorkerReceive, Books, TypeOK
  <2> QED
    BY <1>2, <2>13, <2>9, <2>10, <2>11, <2>12 DEF WorkerReceive, Books, TypeOK, WorkConserving
<1>3. ASSUME NEW r \in ExecResults[s], WorkerExecutes(w, r) PROVE Books'
  <2> DEFINE rtn == [id |-> wjob[w].id, prior |-> wjob[w].state,
                     state |-> r.state, kicks |-> r.kicks]
  <2>1. r \in Result
    BY <1>1, InputAssumption
  <2>2. wjob[w] \in JobIn(s)
    BY <1>3 DEF WorkerExecutes, Books, TypeOK
  <2>3. rtn \in Return /\ rtn.prior = s
    BY <1>1, <2>1, <2>2 DEF Return, Result, JobIn
  <2>4. /\ wpc' = [wpc EXCEPT ![w] = "send"]
        /\ wret' = [wret EXCEPT ![w] = rtn] /\ wjob' = [wjob EXCEPT ![w] = NoJob]
    BY <1>3 DEF WorkerExecutes
  <2> HIDE DEF rtn, s
  <2>5. wpc' \in [Workers -> WorkerStates]
    BY <2>4 DEF Books, TypeOK, WorkerStates
  <2>6. ASSUME NEW x \in Workers
        PROVE  /\ wpc'[x] \in {"exec", "dropped"} => wjob'[x] \in JobIn(StateOf(x))
               /\ wpc'[x] = "send" => wret'[x] \in Return /\ wret'[x].prior = StateOf(x)
    BY <2>3, <2>4 DEF Books, TypeOK, s
  <2>7. DOMAIN wjob' = Workers /\ DOMAIN wret' = Workers
    BY <2>4 DEF Books, TypeOK
  <2> QED
    BY <1>3, <2>5, <2>6, <2>7 DEF WorkerExecutes, Books, TypeOK, WorkConserving
<1>4. ASSUME WorkerSends(w) PROVE Books'
  <2>1. wret[w] \in Return
    BY <1>4 DEF WorkerSends, Books, TypeOK
  <2>2. returnChan' \in Seq(Return)
    BY <1>4, <2>1, AppendProperties DEF WorkerSends, Books, TypeOK
  <2>3. /\ wpc' = [wpc EXCEPT ![w] = "idle"] /\ wret' = [wret EXCEPT ![w] = NoJob]
        /\ wjob' = wjob
    BY <1>4 DEF WorkerSends
  <2>4. wpc' \in [Workers -> WorkerStates]
    BY <2>3 DEF Books, TypeOK, WorkerStates
  <2>5. ASSUME NEW x \in Workers
        PROVE  /\ wpc'[x] \in {"exec", "dropped"} => wjob'[x] \in JobIn(StateOf(x))
               /\ wpc'[x] = "send" => wret'[x] \in Return /\ wret'[x].prior = StateOf(x)
    BY <2>3 DEF Books, TypeOK
  <2>6. DOMAIN wjob' = Workers /\ DOMAIN wret' = Workers
    BY <2>3 DEF Books, TypeOK
  <2> QED
    BY <1>4, <2>2, <2>4, <2>5, <2>6 DEF WorkerSends, Books, TypeOK, WorkConserving
<1>5. ASSUME WorkerDrops(w) PROVE Books'
  <2>1. wpc' = [wpc EXCEPT ![w] = "dropped"] /\ wpc[w] = "exec"
        /\ wjob' = wjob /\ wret' = wret
    BY <1>5 DEF WorkerDrops
  <2>2. wpc' \in [Workers -> WorkerStates]
    BY <2>1 DEF Books, TypeOK, WorkerStates
  <2>3. ASSUME NEW x \in Workers
        PROVE  /\ wpc'[x] \in {"exec", "dropped"} => wjob'[x] \in JobIn(StateOf(x))
               /\ wpc'[x] = "send" => wret'[x] \in Return /\ wret'[x].prior = StateOf(x)
    BY <2>1 DEF Books, TypeOK
  <2> QED
    BY <1>5, <2>2, <2>3 DEF WorkerDrops, Books, TypeOK, WorkConserving
<1>6. ASSUME WorkerSeesCancel(w) \/ WorkerSeesClosed(w) PROVE Books'
  <2>1. wpc' = [wpc EXCEPT ![w] = "done"] /\ wjob' = wjob /\ wret' = wret
    BY <1>6 DEF WorkerSeesCancel, WorkerSeesClosed
  <2>2. wpc' \in [Workers -> WorkerStates]
    BY <2>1 DEF Books, TypeOK, WorkerStates
  <2>3. ASSUME NEW x \in Workers
        PROVE  /\ wpc'[x] \in {"exec", "dropped"} => wjob'[x] \in JobIn(StateOf(x))
               /\ wpc'[x] = "send" => wret'[x] \in Return /\ wret'[x].prior = StateOf(x)
    BY <2>1 DEF Books, TypeOK
  <2> QED
    BY <1>6, <2>2, <2>3 DEF WorkerSeesCancel, WorkerSeesClosed, Books, TypeOK, WorkConserving
<1>7. ASSUME WorkerSendsOnClosed(w) PROVE Books'
  BY <1>7 DEF WorkerSendsOnClosed, Die, Books, TypeOK, WorkConserving
<1> QED
  BY <1>2, <1>3, <1>4, <1>5, <1>6, <1>7 DEF Worker

LEMMA MainBooks ==
  ASSUME Books, Cancel \/ ExecAllTerminal \/ ExecStart \/ ExecReturn \/ ProgramDies
  PROVE  Books'
<1> USE DEF coordVars, workerVars, others, statusVars
<1>1. ASSUME ExecAllTerminal PROVE Books'
  <2> DEFINE done == [s \in States |-> storage.completed[s]
                                         + Cardinality({id \in DOMAIN jobs : jobs[id] = s})]
  <2>1. \A s \in States : Cardinality({id \in DOMAIN jobs : jobs[id] = s}) \in Nat
    <3>1. ASSUME NEW s \in States
          PROVE  Cardinality({id \in DOMAIN jobs : jobs[id] = s}) \in Nat
      <4>1. IsFiniteSet({id \in DOMAIN jobs : jobs[id] = s})
        BY FS_Subset DEF Books, TypeOK, IsJobMap
      <4> QED  BY <4>1, FS_CardinalityType
    <3> QED  BY <3>1
  <2>2. done \in Counts
    <3>1. \A s \in States : storage.completed[s] \in Int
      BY DEF Counts, Books, TypeOK, IsStorage
    <3> QED  BY <2>1, <3>1 DEF Counts
  <2>3. storage' = [storage EXCEPT !.completed = done]
    BY <1>1 DEF ExecAllTerminal
  <2> HIDE DEF done
  <2>4. /\ DOMAIN storage' = StorageFields /\ storage'.completed = done
        /\ storage'.executing = storage.executing /\ storage'.waiting = storage.waiting
        /\ storage'.chan = storage.chan /\ storage'.waitq = storage.waitq
    <3>1. DOMAIN storage = StorageFields
      BY DEF Books, TypeOK, IsStorage
    <3> QED  BY <2>3, <3>1 DEF StorageFields
  <2>5. IsStorage(storage') /\ Conserving(storage')
    BY <2>2, <2>4 DEF Books, TypeOK, WorkConserving, IsStorage, Conserving
  <2>6. shown' \in Counts \X Counts \X Counts
    BY <1>1, <2>5, CountsType DEF ExecAllTerminal
  <2> QED
    BY <1>1, <2>5, <2>6 DEF ExecAllTerminal, Books, TypeOK, WorkConserving
<1>2. ASSUME ExecStart PROVE Books'
  BY <1>2 DEF ExecStart, Books, TypeOK, WorkConserving, WorkerStates, ProcStates
<1>3. ASSUME Cancel \/ ExecReturn \/ ProgramDies PROVE Books'
  BY <1>3 DEF Cancel, ExecReturn, ProgramDies, Die, Books, TypeOK, WorkConserving
<1> QED  BY <1>1, <1>2, <1>3

LEMMA BooksStep == Books /\ [Next]_vars => Books'
<1> SUFFICES ASSUME Books, [Next]_vars PROVE Books'
  OBVIOUS
<1>1. CASE UNCHANGED vars
  BY <1>1 DEF vars, Books, TypeOK, WorkConserving
<1>2. CASE Next
  BY <1>1, <1>2, CoordinatorBooks, WorkerBooks, MainBooks DEF Next, Step, Finished
<1> QED  BY <1>1, <1>2

(* Every variable keeps its type in every run of every workflow: no job is  *)
(* ever in the channel or the waiting list of another state, and a worker   *)
(* in the middle of an Exec holds a job of its own state.                   *)
THEOREM TypeCorrect == Spec => []TypeOK
<1>1. Books => TypeOK
  BY DEF Books
<1> QED  BY <1>1, BooksInit, BooksStep, PTL DEF Spec

(* No state ever executes more jobs than its Concurrency, and jobs wait for *)
(* it only while all of it is taken, with Waiting counting them: the        *)
(* processor is work conserving for every workflow.                         *)
THEOREM CapacityRespected == Spec => []WorkConserving
<1>1. Books => WorkConserving
  BY DEF Books
<1> QED  BY <1>1, BooksInit, BooksStep, PTL DEF Spec

-----------------------------------------------------------------------------
(* Counting the jobs of a state that are out with the workers.             *)
From(ret, s) == {i \in DOMAIN ret : ret[i].prior = s}

LEMMA FromAppend ==
  ASSUME NEW ret \in Seq(Return), NEW r \in Return, NEW s
  PROVE  /\ IsFiniteSet(From(ret, s))
         /\ Cardinality(From(ret, s)) \in Nat
         /\ Cardinality(From(Append(ret, r), s)) =
              Cardinality(From(ret, s)) + IF r.prior = s THEN 1 ELSE 0
<1> DEFINE n == Len(ret) + 1
           new == Append(ret, r)
<1>1. /\ Len(ret) \in Nat /\ DOMAIN ret = 1 .. Len(ret)
      /\ new \in Seq(Return) /\ Len(new) = n /\ new[n] = r
      /\ \A i \in 1 .. Len(ret) : new[i] = ret[i]
  BY LenProperties, AppendProperties
<1>2. DOMAIN new = 1 .. n
  BY <1>1, LenProperties
<1>3. IsFiniteSet(From(ret, s))
  <2>1. IsFiniteSet(1 .. Len(ret))
    BY <1>1, FS_Interval
  <2> QED  BY <1>1, <2>1, FS_Subset DEF From
<1>4. n \notin From(ret, s)
  BY <1>1 DEF From
<1>5. From(new, s) = IF r.prior = s THEN From(ret, s) \cup {n} ELSE From(ret, s)
  BY <1>1, <1>2 DEF From
<1>6. Cardinality(From(ret, s) \cup {n}) = Cardinality(From(ret, s)) + 1
  BY <1>3, <1>4, FS_AddElement
<1>7. Cardinality(From(ret, s)) \in Nat
  BY <1>3, FS_CardinalityType
<1> HIDE DEF n, new
<1>8. Cardinality(From(new, s)) = Cardinality(From(ret, s)) + IF r.prior = s THEN 1 ELSE 0
  BY <1>5, <1>6, <1>7
<1> QED  BY <1>3, <1>7, <1>8 DEF new

LEMMA FromTail ==
  ASSUME NEW ret \in Seq(Return), ret # <<>>, NEW s
  PROVE  Cardinality(From(Tail(ret), s)) =
           Cardinality(From(ret, s)) - IF Head(ret).prior = s THEN 1 ELSE 0
<1> DEFINE rest == From(ret, s) \ {1}
           new == Tail(ret)
           shift == [i \in rest |-> i - 1]
<1>1. /\ Len(ret) \in Nat \ {0} /\ DOMAIN ret = 1 .. Len(ret)
      /\ new \in Seq(Return) /\ Len(new) = Len(ret) - 1
      /\ \A i \in 1 .. Len(new) : new[i] = ret[i + 1]
  BY LenProperties, EmptySeq, HeadTailProperties
<1>2. DOMAIN new = 1 .. Len(ret) - 1
  BY <1>1, LenProperties
<1>3. Head(ret) = ret[1]
  BY <1>1 DEF Head
<1>4. IsFiniteSet(From(ret, s))
  <2>1. IsFiniteSet(1 .. Len(ret))
    BY <1>1, FS_Interval
  <2> QED  BY <1>1, <2>1, FS_Subset DEF From
<1>5. IsFiniteSet(rest) /\ Cardinality(rest) =
        Cardinality(From(ret, s)) - IF 1 \in From(ret, s) THEN 1 ELSE 0
  <2>1. Cardinality(From(ret, s)) \in Nat
    BY <1>4, FS_CardinalityType
  <2> QED  BY <1>4, <2>1, FS_RemoveElement
<1>6. 1 \in From(ret, s) <=> Head(ret).prior = s
  BY <1>1, <1>3 DEF From
<1>7. shift \in Bijection(rest, From(new, s))
  <2>1. ASSUME NEW i \in rest PROVE i - 1 \in From(new, s) /\ i \in Nat
    <3>1. i \in 2 .. Len(ret) /\ ret[i].prior = s
      BY <1>1 DEF From
    <3>2. i - 1 \in 1 .. Len(new) /\ new[i - 1] = ret[(i - 1) + 1] /\ (i - 1) + 1 = i
      BY <1>1, <3>1
    <3> QED  BY <1>1, <1>2, <3>1, <3>2 DEF From
  <2>2. ASSUME NEW j \in From(new, s) PROVE j + 1 \in rest /\ (j + 1) - 1 = j
    <3>1. j \in 1 .. Len(new) /\ new[j].prior = s
      BY <1>1, <1>2 DEF From
    <3>2. j + 1 \in 2 .. Len(ret) /\ ret[j + 1].prior = s
      BY <1>1, <3>1
    <3> QED  BY <1>1, <3>1, <3>2 DEF From
  <2>3. shift \in [rest -> From(new, s)]
    BY <2>1
  <2>4. \A a, b \in rest : shift[a] = shift[b] => a = b
    BY <2>1
  <2>5. \A j \in From(new, s) : \E i \in rest : shift[i] = j
    BY <2>2
  <2> HIDE DEF shift, rest, new
  <2> QED  BY <2>3, <2>4, <2>5, Fun_IsBij
<1>8. Cardinality(From(new, s)) = Cardinality(rest)
  <2> HIDE DEF shift, rest, new
  <2>1. ExistsBijection(rest, From(new, s))
    BY <1>7 DEF ExistsBijection
  <2> QED  BY <1>5, <2>1, FS_Bijection
<1> QED  BY <1>5, <1>6, <1>8

LEMMA BusyFinite ==
  ASSUME NEW s \in Working
  PROVE  IsFiniteSet(Busy(s)) /\ Cardinality(Busy(s)) \in Nat
<1>1. Concurrency[s] \in Nat
  BY ConfigAssumption DEF Working
<1>2. IsFiniteSet(0 .. Concurrency[s] - 1)
  BY <1>1, FS_Interval
<1>3. IsFiniteSet({s})
  BY FS_Singleton
<1>4. IsFiniteSet(WorkersOf(s))
  BY <1>2, <1>3, FS_Product DEF WorkersOf
<1>5. IsFiniteSet(Busy(s))
  BY <1>4, FS_Subset DEF Busy
<1> QED  BY <1>5, FS_CardinalityType

(* A worker that takes or gives up a job changes the count of its own      *)
(* state by one and no other.                                              *)
LEMMA BusyStep ==
  ASSUME Books, NEW w \in Workers, NEW to \in WorkerStates,
         wpc' = [wpc EXCEPT ![w] = to], NEW s \in Working
  PROVE  LET n == Cardinality(Busy(s))
             m == Cardinality(Busy(s)')
             takes == to \in {"exec", "send", "dropped"}
         IN  IF s # StateOf(w) \/ (takes <=> InHand(w)) THEN m = n
             ELSE IF takes THEN m = n + 1 ELSE m = n - 1
<1> DEFINE hand == {"exec", "send", "dropped"}
<1>1. IsFiniteSet(Busy(s)) /\ Cardinality(Busy(s)) \in Nat
  BY BusyFinite
<1>2. w \in WorkersOf(s) <=> s = StateOf(w)
  <2>1. w \in WorkersOf(StateOf(w))
    BY WorkerFacts
  <2>2. \A x \in WorkersOf(s) : StateOf(x) = s
    BY DEF WorkersOf, StateOf
  <2> QED  BY <2>1, <2>2
<1>3. \A x \in WorkersOf(s) : x \in Workers
  BY DEF Workers
<1>4. wpc'[w] = to /\ \A x \in WorkersOf(s) : x # w => wpc'[x] = wpc[x]
  BY <1>3 DEF Books, TypeOK
<1>5. CASE s # StateOf(w)
  <2>1. Busy(s)' = Busy(s)
    BY <1>2, <1>4, <1>5 DEF Busy, InHand
  <2> QED  BY <1>1, <1>5, <2>1
<1>6. CASE s = StateOf(w) /\ to \in hand
  <2>1. Busy(s)' = Busy(s) \cup {w}
    BY <1>2, <1>4, <1>6 DEF Busy, InHand
  <2>2. Cardinality(Busy(s) \cup {w}) =
          IF w \in Busy(s) THEN Cardinality(Busy(s)) ELSE Cardinality(Busy(s)) + 1
    BY <1>1, FS_AddElement
  <2>3. w \in Busy(s) <=> InHand(w)
    BY <1>2, <1>6 DEF Busy
  <2> QED  BY <1>1, <1>6, <2>1, <2>2, <2>3
<1>7. CASE s = StateOf(w) /\ to \notin hand
  <2>1. Busy(s)' = Busy(s) \ {w}
    BY <1>2, <1>4, <1>7 DEF Busy, InHand
  <2>2. Cardinality(Busy(s) \ {w}) =
          IF w \in Busy(s) THEN Cardinality(Busy(s)) - 1 ELSE Cardinality(Busy(s))
    BY <1>1, FS_RemoveElement
  <2>3. w \in Busy(s) <=> InHand(w)
    BY <1>2, <1>7 DEF Busy
  <2> QED  BY <1>1, <1>7, <2>1, <2>2, <2>3
<1> QED  BY <1>5, <1>6, <1>7

-----------------------------------------------------------------------------
(* The second part of the inductive invariant: what the books call         *)
(* executing is where the goroutines have it.                              *)
NotStarted == main = "call" => \A w \in Workers : wpc[w] = "off"
Out(s) == Cardinality(Busy(s)) + Cardinality(From(returnChan, s))
Accounted == \A s \in Working : Outstanding(storage, s) = Out(s)

InFlight == Books /\ NotStarted /\ Accounted

LEMMA OutType ==
  ASSUME Books, NEW s \in Working
  PROVE  /\ Cardinality(Busy(s)) \in Nat /\ Cardinality(From(returnChan, s)) \in Nat
         /\ Out(s) \in Nat
<1>1. IsFiniteSet(From(returnChan, s))
  <2>1. Len(returnChan) \in Nat /\ DOMAIN returnChan = 1 .. Len(returnChan)
    BY LenProperties DEF Books, TypeOK
  <2>2. IsFiniteSet(1 .. Len(returnChan))
    BY <2>1, FS_Interval
  <2> QED  BY <2>1, <2>2, FS_Subset DEF From
<1>2. Cardinality(From(returnChan, s)) \in Nat
  BY <1>1, FS_CardinalityType
<1> QED  BY <1>2, BusyFinite DEF Out

LEMMA StorageNumbers ==
  ASSUME NEW ss, IsStorage(ss), NEW s \in Working
  PROVE  /\ s \in States /\ ss.executing[s] \in Int /\ Len(ss.chan[s]) \in Nat
         /\ Outstanding(ss, s) \in Int
<1>1. s \in States /\ ss.executing[s] \in Int
  BY DEF Working, IsStorage, Counts
<1>2. Len(ss.chan[s]) \in Nat
  BY <1>1, LenProperties DEF IsStorage
<1> QED  BY <1>1, <1>2 DEF Outstanding

LEMMA InFlightMeaning ==
  InFlight => ExecutingAccounted /\ CoordinatorNeverBlocks
<1> SUFFICES ASSUME InFlight PROVE ExecutingAccounted /\ CoordinatorNeverBlocks
  OBVIOUS
<1>1. ASSUME NEW s \in Working
      PROVE  /\ storage.executing[s] = Len(storage.chan[s]) + Out(s)
             /\ storage.executing[s] <= Concurrency[s] /\ Concurrency[s] \in Nat
  <2>1. Outstanding(storage, s) = Out(s) /\ Out(s) \in Nat
    BY OutType DEF InFlight, Accounted
  <2>2. storage.executing[s] \in Int /\ Len(storage.chan[s]) \in Nat
    BY StorageNumbers DEF InFlight, Books, TypeOK
  <2>3. storage.executing[s] <= Concurrency[s]
    BY DEF InFlight, Books, WorkConserving, Conserving
  <2>4. Concurrency[s] \in Nat
    BY ConfigAssumption DEF Working
  <2> QED  BY <2>1, <2>2, <2>3, <2>4 DEF Outstanding
<1>2. ExecutingAccounted
  <2>1. ASSUME NEW s \in Working
        PROVE  storage.executing[s] = Len(storage.chan[s]) + Cardinality(Busy(s))
                                        + Cardinality(ReturnedFrom(s))
    <3>1. Cardinality(Busy(s)) \in Nat /\ Cardinality(From(returnChan, s)) \in Nat
      BY OutType DEF InFlight
    <3>2. Len(storage.chan[s]) \in Nat
      BY StorageNumbers DEF InFlight, Books, TypeOK
    <3>3. ReturnedFrom(s) = From(returnChan, s)
      BY DEF ReturnedFrom, From
    <3> QED  BY <1>1, <3>1, <3>2, <3>3 DEF Out
  <2> QED  BY <2>1 DEF ExecutingAccounted
<1>3. CoordinatorNeverBlocks
  <2>1. ASSUME NEW s \in States PROVE Len(storage.chan[s]) <= Concurrency[s]
    <3>1. CASE s \in Working
      <4>1. Out(s) \in Nat /\ Len(storage.chan[s]) \in Nat
        BY <3>1, OutType, StorageNumbers DEF InFlight, Books, TypeOK
      <4> QED  BY <1>1, <3>1, <4>1
    <3>2. CASE s \in Terminal
      <4>1. storage.chan[s] = <<>>
        BY <3>2 DEF InFlight, Books, TypeOK, IsStorage
      <4>2. Len(<<>>) = 0 /\ Concurrency[s] \in Nat
        BY ConfigAssumption, EmptySeq
      <4> QED  BY <4>1, <4>2
    <3> QED  BY <3>1, <3>2 DEF Working
  <2> QED  BY <2>1 DEF CoordinatorNeverBlocks
<1> QED  BY <1>2, <1>3

LEMMA InFlightInit == Init => InFlight
<1> SUFFICES ASSUME Init PROVE InFlight
  OBVIOUS
<1>1. Books
  BY BooksInit
<1>2. NotStarted
  BY DEF NotStarted, Init
<1>3. ASSUME NEW s \in Working PROVE Outstanding(storage, s) = Out(s)
  <2>1. Busy(s) = {}
    <3>1. \A w \in WorkersOf(s) : w \in Workers
      BY DEF Workers
    <3> QED  BY <3>1 DEF Init, Busy, InHand
  <2>2. From(returnChan, s) = {}
    BY EmptySeq, LenProperties DEF Init, From
  <2>3. storage.executing[s] = 0 /\ Len(storage.chan[s]) = 0
    BY EmptySeq DEF Init, NewStateStorage, Working
  <2> QED  BY <2>1, <2>2, <2>3, FS_EmptySet DEF Outstanding, Out
<1> QED  BY <1>1, <1>2, <1>3 DEF InFlight, Accounted

(* A step that changes neither the outstanding counts nor where the jobs   *)
(* are keeps them equal.                                                   *)
LEMMA OutUnchanged ==
  ASSUME Accounted, UNCHANGED <<wpc, returnChan>>,
         \A s \in Working : Outstanding(storage, s)' = Outstanding(storage, s)
  PROVE  Accounted'
<1>1. \A s \in Working : Out(s)' = Out(s)
  BY DEF Out, Busy, InHand, From
<1> QED  BY <1>1 DEF Accounted

LEMMA CoordinatorInFlight ==
  ASSUME InFlight, Coordinator
  PROVE  NotStarted' /\ Accounted'
<1> USE DEF coordVars, workerVars, others, statusVars
<1>1. UNCHANGED <<main, wpc>>
  BY DEF Coordinator, EnqueueJob, EnqueueUnregistered, InitialStatus, CoordinatorSeesCancel,
         HandleReturn, HandleUnregistered, KickJob, KickUnregistered, PersistJob, PersistKick,
         PersistFails, HandleReturnEnds, DrainEnds, CloseJobChannels, CloseReturnChan,
         Panic, Die
<1>2. NotStarted'
  BY <1>1 DEF InFlight, NotStarted
<1>3. ASSUME NEW id \in todo, EnqueueJob(id) PROVE Accounted'
  <2> DEFINE job == [id |-> id, state |-> jobs[id]]
  <2>1. job \in Job /\ job.state \in States
    BY <1>3 DEF EnqueueJob, InFlight, Books, TypeOK, IsJobMap, Job, StateName
  <2>2. storage' = ProcessJob(storage, job) /\ UNCHANGED <<wpc, returnChan>>
    BY <1>3 DEF EnqueueJob
  <2> HIDE DEF job
  <2>3. \A s \in Working : Outstanding(storage', s) = Outstanding(storage, s)
    BY <2>1, <2>2, ProcessJobEffect DEF InFlight, Books, TypeOK, WorkConserving
  <2>4. \A s \in Working : Outstanding(storage, s)' = Outstanding(storage, s)
    BY <2>3 DEF Outstanding
  <2> QED  BY <2>2, <2>4, OutUnchanged DEF InFlight
<1>4. ASSUME KickJob PROVE Accounted'
  <2> DEFINE job == [id |-> KickId(k), state |-> cur.kicks[k + 1]]
  <2>1. job \in Job /\ job.state \in States
    BY <1>4, KickType DEF KickJob, InFlight, Job, StateName
  <2>2. storage' = ProcessJob(storage, job) /\ UNCHANGED <<wpc, returnChan>>
    BY <1>4 DEF KickJob
  <2> HIDE DEF job
  <2>3. \A s \in Working : Outstanding(storage', s) = Outstanding(storage, s)
    BY <2>1, <2>2, ProcessJobEffect DEF InFlight, Books, TypeOK, WorkConserving
  <2>4. \A s \in Working : Outstanding(storage, s)' = Outstanding(storage, s)
    BY <2>3 DEF Outstanding
  <2> QED  BY <2>2, <2>4, OutUnchanged DEF InFlight
<1>5. ASSUME HandleReturn PROVE Accounted'
  <2> DEFINE rtn == Head(returnChan)
             job == [id |-> rtn.id, state |-> rtn.state]
             mid == RunNextWaitingJob(storage, rtn.prior)
  <2>1. /\ rtn.prior \in Working /\ rtn.id \in Id /\ rtn.state \in States
        /\ returnChan \in Seq(Return) /\ returnChan # <<>>
    BY <1>5, HeadReturn DEF HandleReturn, InFlight, Books, TypeOK
  <2>2. job \in Job /\ job.state \in States
    BY <2>1 DEF Job, StateName
  <2>3. /\ IsStorage(mid) /\ Conserving(mid)
        /\ Outstanding(mid, rtn.prior) = Outstanding(storage, rtn.prior) - 1
        /\ \A t \in Working \ {rtn.prior} : Outstanding(mid, t) = Outstanding(storage, t)
    BY <2>1, RunNextWaitingJobEffect DEF InFlight, Books, TypeOK, WorkConserving
  <2>4. storage' = ProcessJob(mid, job) /\ returnChan' = Tail(returnChan)
    BY <1>5 DEF HandleReturn
  <2> HIDE DEF job, mid
  <2>5. \A t \in Working : Outstanding(storage', t) = Outstanding(mid, t)
    BY <2>2, <2>3, <2>4, ProcessJobEffect
  <2>6. ASSUME NEW s \in Working PROVE Outstanding(storage, s)' = Out(s)'
    <3>1. Busy(s)' = Busy(s)
      BY <1>1 DEF Busy, InHand
    <3>2. Cardinality(From(returnChan', s)) =
            Cardinality(From(returnChan, s)) - IF rtn.prior = s THEN 1 ELSE 0
      BY <2>1, <2>4, FromTail
    <3>3. Outstanding(storage', s) = Outstanding(storage, s) - IF rtn.prior = s THEN 1 ELSE 0
      BY <2>3, <2>5, StorageNumbers DEF InFlight, Books, TypeOK
    <3>4. Outstanding(storage, s) = Cardinality(Busy(s)) + Cardinality(From(returnChan, s))
      BY DEF InFlight, Accounted, Out
    <3>5. Cardinality(Busy(s)) \in Nat /\ Cardinality(From(returnChan, s)) \in Nat
      BY OutType DEF InFlight
    <3>6. Outstanding(storage', s) = Cardinality(Busy(s)) + Cardinality(From(returnChan', s))
      BY <3>2, <3>3, <3>4, <3>5
    <3> QED  BY <3>1, <3>6 DEF Out, From, Outstanding
  <2> QED  BY <2>6 DEF Accounted
<1>6. ASSUME UNCHANGED <<storage, returnChan, wpc>> PROVE Accounted'
  <2>1. \A s \in Working : Outstanding(storage, s)' = Outstanding(storage, s)
    BY <1>6 DEF Outstanding
  <2> QED  BY <1>6, <2>1, OutUnchanged DEF InFlight
<1>7. ASSUME HandleUnregistered PROVE Accounted'
  <2> DEFINE rtn == Head(returnChan)
  <2>1. rtn.prior \in Working /\ returnChan \in Seq(Return) /\ returnChan # <<>>
    BY <1>7, HeadReturn DEF HandleUnregistered, InFlight, Books, TypeOK
  <2>2. storage' = RunNextWaitingJob(storage, rtn.prior) /\ returnChan' = Tail(returnChan)
    BY <1>7 DEF HandleUnregistered
  <2>3. /\ Outstanding(storage', rtn.prior) = Outstanding(storage, rtn.prior) - 1
        /\ \A t \in Working \ {rtn.prior} : Outstanding(storage', t) = Outstanding(storage, t)
    BY <2>1, <2>2, RunNextWaitingJobEffect DEF InFlight, Books, TypeOK, WorkConserving
  <2>4. ASSUME NEW s \in Working PROVE Outstanding(storage, s)' = Out(s)'
    <3>1. Busy(s)' = Busy(s)
      BY <1>1 DEF Busy, InHand
    <3>2. Cardinality(From(returnChan', s)) =
            Cardinality(From(returnChan, s)) - IF rtn.prior = s THEN 1 ELSE 0
      BY <2>1, <2>2, FromTail
    <3>3. Outstanding(storage', s) = Outstanding(storage, s) - IF rtn.prior = s THEN 1 ELSE 0
      BY <2>3, StorageNumbers DEF InFlight, Books, TypeOK
    <3>4. /\ Outstanding(storage, s) = Cardinality(Busy(s)) + Cardinality(From(returnChan, s))
          /\ Cardinality(Busy(s)) \in Nat /\ Cardinality(From(returnChan, s)) \in Nat
      BY OutType DEF InFlight, Accounted, Out
    <3>5. Outstanding(storage', s) = Cardinality(Busy(s)) + Cardinality(From(returnChan', s))
      BY <3>2, <3>3, <3>4
    <3> QED  BY <3>1, <3>5 DEF Out, From, Outstanding
  <2> QED  BY <2>4 DEF Accounted
<1> QED
  BY <1>1, <1>2, <1>3, <1>4, <1>5, <1>6, <1>7
  DEF Coordinator, EnqueueUnregistered, InitialStatus, CoordinatorSeesCancel,
      KickUnregistered, PersistJob, PersistKick, PersistFails,
      HandleReturnEnds, DrainEnds, CloseJobChannels, CloseReturnChan, Die

LEMMA WorkerInFlight ==
  ASSUME InFlight, NEW w \in Workers, Worker(w)
  PROVE  NotStarted' /\ Accounted'
<1> USE DEF coordVars, workerVars, others, statusVars
<1> DEFINE st == StateOf(w)
<1>1. Books /\ st \in Working /\ st \in States /\ IsStorage(storage)
  BY WorkerFacts DEF InFlight, Books, TypeOK
<1>2. ASSUME main = "call" PROVE WorkerSendsOnClosed(w) /\ FALSE
  BY <1>2 DEF Worker, WorkerSeesCancel, WorkerReceive, WorkerSeesClosed, WorkerExecutes,
              WorkerDrops, WorkerSends, WorkerSendsOnClosed, InFlight, NotStarted
<1>3. NotStarted'
  <2>1. main' = main
    BY DEF Worker, WorkerSeesCancel, WorkerReceive, WorkerSeesClosed, WorkerExecutes,
           WorkerDrops, WorkerSends, WorkerSendsOnClosed, Die
  <2> QED  BY <1>2, <2>1 DEF NotStarted
<1>4. \A s \in Working :
         /\ Outstanding(storage, s) = Cardinality(Busy(s)) + Cardinality(From(returnChan, s))
         /\ Cardinality(Busy(s)) \in Nat /\ Cardinality(From(returnChan, s)) \in Nat
  BY OutType DEF InFlight, Accounted, Out
<1>5. ASSUME WorkerReceive(w) PROVE Accounted'
  <2> DEFINE ch == storage.chan[st]
  <2>1. ch \in Seq(Job) /\ ch # <<>> /\ Len(ch) \in Nat
    BY <1>1, <1>5, LenProperties DEF IsStorage, WorkerReceive
  <2>2. Len(Tail(ch)) = Len(ch) - 1
    BY <2>1, HeadTailProperties
  <2>3. storage' = [storage EXCEPT !.chan[st] = Tail(@)]
    BY <1>5 DEF WorkerReceive
  <2>4. /\ storage'.chan = [storage.chan EXCEPT ![st] = Tail(ch)]
        /\ storage'.executing = storage.executing
    <3>1. DOMAIN storage = StorageFields
      BY <1>1 DEF IsStorage
    <3> QED  BY <2>3, <3>1 DEF StorageFields
  <2>5. wpc' = [wpc EXCEPT ![w] = "exec"] /\ wpc[w] = "idle" /\ returnChan' = returnChan
    BY <1>5 DEF WorkerReceive
  <2> HIDE DEF ch, st
  <2>6. ASSUME NEW s \in Working PROVE Outstanding(storage, s)' = Out(s)'
    <3>1. Cardinality(Busy(s)') = IF s = st THEN Cardinality(Busy(s)) + 1 ELSE Cardinality(Busy(s))
      <4>1. "exec" \in WorkerStates /\ ~InHand(w)
        BY <2>5 DEF WorkerStates, InHand
      <4> QED  BY <1>1, <2>5, <4>1, BusyStep DEF st
    <3>2. s \in States /\ Len(storage.chan[s]) \in Nat /\ storage.executing[s] \in Int
      BY <1>1, StorageNumbers
    <3>3. Outstanding(storage', s) =
            IF s = st THEN Outstanding(storage, s) + 1 ELSE Outstanding(storage, s)
      <4>1. CASE s = st
        <5>1. storage'.chan[s] = Tail(ch) /\ ch = storage.chan[s]
          BY <1>1, <2>4, <4>1 DEF IsStorage, ch
        <5>2. Len(storage'.chan[s]) = Len(storage.chan[s]) - 1
          BY <2>2, <5>1
        <5>3. \A a, b \in Int : a - (b - 1) = (a - b) + 1
          OBVIOUS
        <5> QED  BY <2>4, <3>2, <4>1, <5>2, <5>3 DEF Outstanding
      <4>2. CASE s # st
        <5>1. storage'.chan[s] = storage.chan[s]
          BY <1>1, <2>4, <3>2, <4>2 DEF IsStorage
        <5> QED  BY <2>4, <4>2, <5>1 DEF Outstanding
      <4> QED  BY <4>1, <4>2
    <3>4. Cardinality(Busy(s)) \in Nat /\ Cardinality(From(returnChan, s)) \in Nat
      BY <1>4
    <3>5. Outstanding(storage', s) = Cardinality(Busy(s)') + Cardinality(From(returnChan, s))
      BY <1>4, <3>1, <3>3, <3>4
    <3> QED  BY <2>5, <3>5 DEF Out, From, Outstanding
  <2> QED  BY <2>6 DEF Accounted
<1>6. ASSUME WorkerSends(w) PROVE Accounted'
  <2>1. wret[w] \in Return /\ wret[w].prior = st /\ returnChan \in Seq(Return)
    BY <1>1, <1>6 DEF WorkerSends, Books, TypeOK
  <2>2. /\ wpc' = [wpc EXCEPT ![w] = "idle"] /\ wpc[w] = "send"
        /\ returnChan' = Append(returnChan, wret[w]) /\ storage' = storage
    BY <1>6 DEF WorkerSends
  <2> HIDE DEF st
  <2>3. ASSUME NEW s \in Working PROVE Outstanding(storage, s)' = Out(s)'
    <3>1. Cardinality(Busy(s)') = IF s = st THEN Cardinality(Busy(s)) - 1 ELSE Cardinality(Busy(s))
      <4>1. "idle" \in WorkerStates /\ InHand(w)
        BY <2>2 DEF WorkerStates, InHand
      <4> QED  BY <1>1, <2>2, <4>1, BusyStep DEF st
    <3>2. Cardinality(From(returnChan', s)) =
            Cardinality(From(returnChan, s)) + IF s = st THEN 1 ELSE 0
      BY <2>1, <2>2, FromAppend
    <3>3. Outstanding(storage, s) = Cardinality(Busy(s)') + Cardinality(From(returnChan', s))
      BY <1>4, <3>1, <3>2
    <3> QED  BY <2>2, <3>3 DEF Out, From, Outstanding
  <2> QED  BY <2>3 DEF Accounted
<1>7. ASSUME NEW to \in WorkerStates, wpc' = [wpc EXCEPT ![w] = to],
             InHand(w) <=> to \in {"exec", "send", "dropped"},
             UNCHANGED <<storage, returnChan>>
      PROVE  Accounted'
  <2>1. ASSUME NEW s \in Working PROVE Outstanding(storage, s)' = Out(s)'
    <3>1. Cardinality(Busy(s)') = Cardinality(Busy(s))
      BY <1>1, <1>7, BusyStep
    <3> QED  BY <1>4, <1>7, <3>1 DEF Out, From, Outstanding
  <2> QED  BY <2>1 DEF Accounted
<1>8. ASSUME NEW r \in ExecResults[st], WorkerExecutes(w, r) PROVE Accounted'
  BY <1>7, <1>8 DEF WorkerExecutes, WorkerStates, InHand
<1>9. ASSUME WorkerDrops(w) PROVE Accounted'
  BY <1>7, <1>9 DEF WorkerDrops, WorkerStates, InHand
<1>10. ASSUME WorkerSeesCancel(w) \/ WorkerSeesClosed(w) PROVE Accounted'
  BY <1>7, <1>10 DEF WorkerSeesCancel, WorkerSeesClosed, WorkerStates, InHand
<1>11. ASSUME WorkerSendsOnClosed(w) PROVE Accounted'
  <2>1. UNCHANGED <<storage, wpc, returnChan>>
    BY <1>11 DEF WorkerSendsOnClosed, Die
  <2>2. \A s \in Working : Outstanding(storage, s)' = Outstanding(storage, s)
    BY <2>1 DEF Outstanding
  <2> QED  BY <2>1, <2>2, OutUnchanged DEF InFlight
<1> QED
  BY <1>3, <1>5, <1>6, <1>8, <1>9, <1>10, <1>11 DEF Worker

LEMMA MainInFlight ==
  ASSUME InFlight, Cancel \/ ExecAllTerminal \/ ExecStart \/ ExecReturn \/ ProgramDies
  PROVE  NotStarted' /\ Accounted'
<1> USE DEF coordVars, workerVars, others, statusVars
<1>1. ASSUME ExecStart PROVE NotStarted' /\ Accounted'
  <2>1. NotStarted'
    BY <1>1 DEF ExecStart, NotStarted
  <2>2. \A s \in Working : \A w \in WorkersOf(s) : w \in Workers
    BY DEF Workers
  <2>3. \A s \in Working : Busy(s) = {} /\ Busy(s)' = {}
    BY <1>1, <2>2 DEF ExecStart, InFlight, NotStarted, Busy, InHand
  <2>4. UNCHANGED <<storage, returnChan>>
    BY <1>1 DEF ExecStart
  <2>5. \A s \in Working : Out(s)' = Out(s) /\ Outstanding(storage, s)' = Outstanding(storage, s)
    BY <2>3, <2>4 DEF Out, From, Outstanding
  <2> QED  BY <2>1, <2>5 DEF InFlight, Accounted
<1>2. ASSUME ExecAllTerminal PROVE NotStarted' /\ Accounted'
  <2>1. NotStarted' /\ UNCHANGED <<wpc, returnChan>>
    BY <1>2 DEF ExecAllTerminal, NotStarted
  <2>2. storage'.executing = storage.executing /\ storage'.chan = storage.chan
    BY <1>2 DEF ExecAllTerminal, InFlight, Books, TypeOK, IsStorage, StorageFields
  <2>3. \A s \in Working : Outstanding(storage, s)' = Outstanding(storage, s)
    BY <2>2 DEF Outstanding
  <2> QED  BY <2>1, <2>3, OutUnchanged DEF InFlight
<1>3. ASSUME Cancel \/ ExecReturn \/ ProgramDies PROVE NotStarted' /\ Accounted'
  <2>1. UNCHANGED <<storage, wpc, returnChan>> /\ (main' = "call" => main = "call")
    BY <1>3 DEF Cancel, ExecReturn, ProgramDies, Die
  <2>2. \A s \in Working : Outstanding(storage, s)' = Outstanding(storage, s)
    BY <2>1 DEF Outstanding
  <2> QED  BY <2>1, <2>2, OutUnchanged DEF InFlight, NotStarted
<1> QED  BY <1>1, <1>2, <1>3

LEMMA InFlightStep == InFlight /\ [Next]_vars => InFlight'
<1> SUFFICES ASSUME InFlight, [Next]_vars PROVE InFlight'
  OBVIOUS
<1>1. Books'
  BY BooksStep DEF InFlight
<1>2. ASSUME UNCHANGED vars PROVE InFlight'
  BY <1>1, <1>2 DEF vars, InFlight, NotStarted, Accounted, Out, Busy, InHand, From, Outstanding
<1>3. CASE Next
  BY <1>1, <1>2, <1>3, CoordinatorInFlight, WorkerInFlight, MainInFlight
  DEF Next, Step, Finished, InFlight
<1> QED  BY <1>2, <1>3

LEMMA InFlightInvariant == Spec => []InFlight
BY InFlightInit, InFlightStep, PTL DEF Spec

(* Executing of every state is, in every state of every run, exactly the    *)
(* number of its jobs that are in its channel, in a worker's hands or       *)
(* returned: the coordinator's count cannot drift, whatever the             *)
(* interleaving.                                                            *)
THEOREM AccountingExact == Spec => []ExecutingAccounted
<1>1. InFlight => ExecutingAccounted
  BY InFlightMeaning
<1> QED  BY <1>1, InFlightInvariant, PTL

(* The coordinator's send to a job channel always finds room: Concurrency   *)
(* places are enough, so coordinator and workers never wait on each other.  *)
THEOREM ChannelsHaveRoom == Spec => []CoordinatorNeverBlocks
<1>1. InFlight => CoordinatorNeverBlocks
  BY InFlightMeaning
<1> QED  BY <1>1, InFlightInvariant, PTL
=============================================================================
