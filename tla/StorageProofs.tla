---------------------------- MODULE StorageProofs ----------------------------
(***************************************************************************)
(* Lemmas about the methods of stateStorage (processor.go:86-250): what    *)
(* each does to the counts, the waiting lists and the channels, and what   *)
(* it preserves, for every set of states and every Concurrency.            *)
(***************************************************************************)
EXTENDS Processor, SequenceTheorems, FiniteSetTheorems, TLAPS

-----------------------------------------------------------------------------
(* The coordinator's bookkeeping, one lemma per method of stateStorage     *)

(* runJob puts the job into the channel of its own state and counts it.    *)
LEMMA RunJobFields ==
  ASSUME NEW ss, DOMAIN ss = StorageFields, NEW job
  PROVE  LET new == RunJob(ss, job)  s == job.state IN
         /\ DOMAIN new = StorageFields
         /\ new.executing = [ss.executing EXCEPT ![s] = @ + 1]
         /\ new.chan = [ss.chan EXCEPT ![s] = Append(@, job)]
         /\ new.waiting = ss.waiting /\ new.completed = ss.completed
         /\ new.waitq = ss.waitq
BY DEF RunJob, StorageFields

LEMMA RunJobType ==
  ASSUME NEW ss, IsStorage(ss), NEW job \in Job, job.state \in Working
  PROVE  IsStorage(RunJob(ss, job))
<1> DEFINE s == job.state
           new == RunJob(ss, job)
<1>1. s \in States /\ s \notin Terminal /\ job \in JobIn(s)
  BY DEF Working, Job, JobIn
<1>2. Append(ss.chan[s], job) \in Seq(JobIn(s)) /\ Append(ss.chan[s], job) \in Seq(Job)
  BY <1>1, AppendProperties DEF IsStorage
<1>3. ss.executing[s] + 1 \in Int
  BY <1>1 DEF IsStorage, Counts
<1>4. /\ DOMAIN new = StorageFields
      /\ new.executing = [ss.executing EXCEPT ![s] = ss.executing[s] + 1]
      /\ new.chan = [ss.chan EXCEPT ![s] = Append(ss.chan[s], job)]
      /\ new.waiting = ss.waiting /\ new.completed = ss.completed /\ new.waitq = ss.waitq
  BY RunJobFields DEF IsStorage
<1> HIDE DEF s, new
<1>5. new.executing \in Counts /\ new.chan \in [States -> Seq(Job)]
  BY <1>1, <1>2, <1>3, <1>4 DEF IsStorage, Counts
<1>6. \A t \in States : new.chan[t] \in Seq(JobIn(t))
  BY <1>1, <1>2, <1>4 DEF IsStorage
<1>7. IsStorage(new)
  BY <1>1, <1>4, <1>5, <1>6 DEF IsStorage
<1> QED  BY <1>7 DEF new

(* queueJob puts the job in front of the waiting list of its state.        *)
LEMMA QueueJobFields ==
  ASSUME NEW ss, DOMAIN ss = StorageFields, NEW job
  PROVE  LET new == QueueJob(ss, job)  s == job.state IN
         /\ DOMAIN new = StorageFields
         /\ new.waiting = [ss.waiting EXCEPT ![s] = @ + 1]
         /\ new.waitq = [ss.waitq EXCEPT ![s] = <<job>> \o @]
         /\ new.executing = ss.executing /\ new.completed = ss.completed
         /\ new.chan = ss.chan
BY DEF QueueJob, StorageFields

LEMMA QueueJobType ==
  ASSUME NEW ss, IsStorage(ss), NEW job \in Job, job.state \in States
  PROVE  /\ IsStorage(QueueJob(ss, job))
         /\ LET q == QueueJob(ss, job).waitq[job.state] IN
              q # <<>> /\ Len(q) = Len(ss.waitq[job.state]) + 1
<1> DEFINE s == job.state
           new == QueueJob(ss, job)
           q == <<job>> \o ss.waitq[s]
<1>1. s \in States /\ job \in JobIn(s) /\ <<job>> \in Seq(JobIn(s)) /\ <<job>> \in Seq(Job)
  BY DEF Job, JobIn
<1>2. q \in Seq(JobIn(s)) /\ Len(q) = Len(ss.waitq[s]) + 1 /\ Len(ss.waitq[s]) \in Nat
  BY <1>1, ConcatProperties, LenProperties DEF IsStorage
<1>3. q \in Seq(Job)
  BY <1>1, ConcatProperties DEF IsStorage
<1>4. ss.waiting[s] + 1 \in Int
  BY <1>1 DEF IsStorage, Counts
<1>5. /\ DOMAIN new = StorageFields
      /\ new.waiting = [ss.waiting EXCEPT ![s] = ss.waiting[s] + 1]
      /\ new.waitq = [ss.waitq EXCEPT ![s] = q]
      /\ new.executing = ss.executing /\ new.completed = ss.completed /\ new.chan = ss.chan
  BY QueueJobFields DEF IsStorage
<1>6. q # <<>>
  BY <1>2, EmptySeq
<1> HIDE DEF s, new, q
<1>7. new.waiting \in Counts /\ new.waitq \in [States -> Seq(Job)]
  BY <1>1, <1>3, <1>4, <1>5 DEF IsStorage, Counts
<1>8. \A t \in States : new.waitq[t] \in Seq(JobIn(t))
  BY <1>1, <1>2, <1>5 DEF IsStorage
<1>9. new.waitq[s] = q
  BY <1>1, <1>5 DEF IsStorage
<1>10. IsStorage(new)
  BY <1>5, <1>7, <1>8 DEF IsStorage
<1> QED  BY <1>2, <1>6, <1>9, <1>10 DEF new, s

(* completeJob only counts.                                                *)
LEMMA CompleteJobFields ==
  ASSUME NEW ss, DOMAIN ss = StorageFields, NEW job
  PROVE  LET new == CompleteJob(ss, job)  s == job.state IN
         /\ DOMAIN new = StorageFields
         /\ new.completed = [ss.completed EXCEPT ![s] = @ + 1]
         /\ new.executing = ss.executing /\ new.waiting = ss.waiting
         /\ new.chan = ss.chan /\ new.waitq = ss.waitq
BY DEF CompleteJob, StorageFields

LEMMA CompleteJobType ==
  ASSUME NEW ss, IsStorage(ss), NEW job \in Job, job.state \in States
  PROVE  IsStorage(CompleteJob(ss, job))
<1> DEFINE new == CompleteJob(ss, job)
<1>1. ss.completed[job.state] + 1 \in Int
  BY DEF IsStorage, Counts
<1>2. /\ DOMAIN new = StorageFields
      /\ new.completed = [ss.completed EXCEPT ![job.state] = ss.completed[job.state] + 1]
      /\ new.executing = ss.executing /\ new.waiting = ss.waiting
      /\ new.chan = ss.chan /\ new.waitq = ss.waitq
  BY CompleteJobFields DEF IsStorage
<1> HIDE DEF new
<1>3. new.completed \in Counts
  BY <1>1, <1>2 DEF IsStorage, Counts
<1>4. IsStorage(new)
  BY <1>2, <1>3 DEF IsStorage
<1> QED  BY <1>4 DEF new

-----------------------------------------------------------------------------
(* What processJob and runNextWaitingJob preserve.  Outstanding is what    *)
(* the coordinator believes to be with the workers or on its way back.     *)
Outstanding(ss, s) == ss.executing[s] - Len(ss.chan[s])

(* runJob counts exactly the job it sends, so nothing more is outstanding. *)
LEMMA RunJobOutstanding ==
  ASSUME NEW ss, IsStorage(ss), NEW job \in Job, job.state \in Working
  PROVE  \A s \in Working : Outstanding(RunJob(ss, job), s) = Outstanding(ss, s)
<1> DEFINE st == job.state
           new == RunJob(ss, job)
<1>1. st \in States /\ job \in Job
  BY DEF Working
<1>2. Len(Append(ss.chan[st], job)) = Len(ss.chan[st]) + 1
  BY <1>1, AppendProperties DEF IsStorage
<1>3. /\ new.executing = [ss.executing EXCEPT ![st] = ss.executing[st] + 1]
      /\ new.chan = [ss.chan EXCEPT ![st] = Append(ss.chan[st], job)]
  BY RunJobFields DEF IsStorage
<1> HIDE DEF st, new
<1>4. ASSUME NEW s \in Working
      PROVE  Outstanding(new, s) = Outstanding(ss, s)
  <2>1. s \in States /\ ss.executing[s] \in Int /\ Len(ss.chan[s]) \in Nat
    BY LenProperties DEF Working, IsStorage, Counts
  <2>2. CASE s = st
    <3>1. new.executing[s] = ss.executing[s] + 1
      BY <1>3, <2>1, <2>2 DEF IsStorage, Counts
    <3>2. new.chan[s] = Append(ss.chan[st], job)
      BY <1>3, <2>1, <2>2 DEF IsStorage
    <3>3. Len(new.chan[s]) = Len(ss.chan[s]) + 1
      BY <1>2, <2>2, <3>2
    <3>4. Outstanding(new, s) = (ss.executing[s] + 1) - (Len(ss.chan[s]) + 1)
      BY <3>1, <3>3 DEF Outstanding
    <3>5. \A a, b \in Int : (a + 1) - (b + 1) = a - b
      OBVIOUS
    <3> QED  BY <2>1, <3>4, <3>5 DEF Outstanding
  <2>3. CASE s # st
    BY <1>1, <1>3, <2>1, <2>3 DEF Outstanding, IsStorage, Counts
  <2> QED  BY <2>2, <2>3
<1> QED  BY <1>4 DEF new

(* processJob keeps the books whatever it does with the job: a terminal    *)
(* job is counted, one within the capacity is sent, one beyond it waits.   *)
LEMMA ProcessJobEffect ==
  ASSUME NEW ss, IsStorage(ss), Conserving(ss), NEW job \in Job, job.state \in States
  PROVE  LET new == ProcessJob(ss, job) IN
         /\ IsStorage(new)
         /\ Conserving(new)
         /\ \A s \in Working : Outstanding(new, s) = Outstanding(ss, s)
<1> DEFINE st == job.state
           new == ProcessJob(ss, job)
<1>1. CASE st \in Terminal
  <2>1. new = CompleteJob(ss, job)
    BY <1>1 DEF ProcessJob
  <2>2. /\ new.executing = ss.executing /\ new.waiting = ss.waiting
        /\ new.chan = ss.chan /\ new.waitq = ss.waitq
    <3>1. DOMAIN ss = StorageFields
      BY DEF IsStorage
    <3> HIDE DEF new
    <3> QED  BY <2>1, <3>1, CompleteJobFields
  <2>3. IsStorage(new)
    BY <2>1, CompleteJobType
  <2> QED  BY <2>2, <2>3 DEF Conserving, Outstanding
<1>2. CASE st \notin Terminal /\ ss.executing[st] < Concurrency[st]
  <2>1. st \in Working
    BY <1>2 DEF Working
  <2>2. new = RunJob(ss, job)
    BY <1>2 DEF ProcessJob, CanRunJobForState
  <2>3. IsStorage(new) /\ \A s \in Working : Outstanding(new, s) = Outstanding(ss, s)
    BY <2>1, <2>2, RunJobType, RunJobOutstanding
  <2>4. /\ new.executing = [ss.executing EXCEPT ![st] = ss.executing[st] + 1]
        /\ new.waiting = ss.waiting /\ new.waitq = ss.waitq
    <3>1. DOMAIN ss = StorageFields
      BY DEF IsStorage
    <3> HIDE DEF new
    <3> QED  BY <2>2, <3>1, RunJobFields
  <2>5. Conserving(new)
    <3> HIDE DEF new, st
    <3>1. \A s \in Working : /\ s \in States /\ ss.executing[s] \in Int
                             /\ Concurrency[s] \in Nat
      BY ConfigAssumption DEF Working, IsStorage, Counts
    <3>2. ss.waitq[st] = <<>>
      BY <1>2, <2>1, <3>1 DEF Conserving
    <3> QED
      BY <1>2, <2>1, <2>4, <3>1, <3>2 DEF Conserving, IsStorage, Counts
  <2> QED  BY <2>3, <2>5
<1>3. CASE st \notin Terminal /\ ~(ss.executing[st] < Concurrency[st])
  <2>1. st \in Working
    BY <1>3 DEF Working
  <2>2. new = QueueJob(ss, job)
    BY <1>3 DEF ProcessJob, CanRunJobForState
  <2>3. /\ IsStorage(new)
        /\ new.waitq[st] # <<>>
        /\ Len(new.waitq[st]) = Len(ss.waitq[st]) + 1
    BY <2>2, QueueJobType
  <2>4. /\ new.waiting = [ss.waiting EXCEPT ![st] = ss.waiting[st] + 1]
        /\ new.waitq = [ss.waitq EXCEPT ![st] = <<job>> \o ss.waitq[st]]
        /\ new.executing = ss.executing /\ new.chan = ss.chan
    <3>1. DOMAIN ss = StorageFields
      BY DEF IsStorage
    <3> HIDE DEF new
    <3> QED  BY <2>2, <3>1, QueueJobFields
  <2>5. Conserving(new)
    <3> HIDE DEF new, st
    <3>1. \A s \in Working : /\ s \in States /\ ss.executing[s] \in Int
                             /\ Concurrency[s] \in Nat
      BY ConfigAssumption DEF Working, IsStorage, Counts
    <3>2. ss.executing[st] = Concurrency[st]
      BY <1>3, <2>1, <3>1 DEF Conserving
    <3>3. \A s \in Working : s # st => new.waiting[s] = ss.waiting[s] /\ new.waitq[s] = ss.waitq[s]
      BY <2>4, <3>1 DEF IsStorage, Counts
    <3>4. new.waiting[st] = ss.waiting[st] + 1
      BY <2>1, <2>4, <3>1 DEF IsStorage, Counts
    <3> QED
      BY <2>1, <2>3, <2>4, <3>2, <3>3, <3>4 DEF Conserving
  <2> QED  BY <2>3, <2>4, <2>5 DEF Outstanding
<1> QED  BY <1>1, <1>2, <1>3

(* runNextWaitingJob takes one outstanding job of the state off the books  *)
(* and passes its place to the longest waiting job, if there is one.       *)
LEMMA RunNextWaitingJobEffect ==
  ASSUME NEW ss, IsStorage(ss), Conserving(ss), NEW s \in Working
  PROVE  LET new == RunNextWaitingJob(ss, s) IN
         /\ IsStorage(new)
         /\ Conserving(new)
         /\ Outstanding(new, s) = Outstanding(ss, s) - 1
         /\ \A t \in Working \ {s} : Outstanding(new, t) = Outstanding(ss, t)
<1> DEFINE new == RunNextWaitingJob(ss, s)
           freed == [ss EXCEPT !.executing[s] = @ - 1]
           q == ss.waitq[s]
           n == Len(q)
<1>1. /\ s \in States /\ q \in Seq(JobIn(s)) /\ n \in Nat
      /\ ss.executing[s] \in Int /\ ss.waiting[s] \in Int
  BY LenProperties DEF Working, IsStorage, Counts
<1>2. /\ DOMAIN freed = StorageFields
      /\ freed.executing = [ss.executing EXCEPT ![s] = ss.executing[s] - 1]
      /\ freed.waiting = ss.waiting /\ freed.completed = ss.completed
      /\ freed.waitq = ss.waitq /\ freed.chan = ss.chan
  BY DEF IsStorage, StorageFields
<1>3. IsStorage(freed)
  <2> HIDE DEF freed
  <2>1. freed.executing \in Counts
    BY <1>1, <1>2 DEF IsStorage, Counts
  <2> QED  BY <1>2, <2>1 DEF IsStorage
<1>4. /\ Outstanding(freed, s) = Outstanding(ss, s) - 1
      /\ \A t \in Working \ {s} : Outstanding(freed, t) = Outstanding(ss, t)
  <2> HIDE DEF freed
  <2>1. \A t \in Working : t \in States /\ ss.executing[t] \in Int /\ Len(ss.chan[t]) \in Nat
    BY LenProperties DEF Working, IsStorage, Counts
  <2>2. freed.executing[s] = ss.executing[s] - 1
    BY <1>1, <1>2 DEF IsStorage, Counts
  <2>3. \A t \in Working \ {s} : freed.executing[t] = ss.executing[t]
    BY <1>2, <2>1 DEF IsStorage, Counts
  <2>4. freed.chan = ss.chan
    BY <1>2
  <2> QED  BY <2>1, <2>2, <2>3, <2>4 DEF Outstanding
<1>5. CASE n = 0
  <2>1. new = freed
    BY <1>5 DEF RunNextWaitingJob
  <2>2. q = <<>>
    BY <1>1, <1>5, EmptySeq
  <2>3. Conserving(freed)
    <3> HIDE DEF freed
    <3>1. \A t \in Working : /\ t \in States /\ ss.executing[t] \in Int
                             /\ Concurrency[t] \in Nat
      BY ConfigAssumption DEF Working, IsStorage, Counts
    <3> QED  BY <1>2, <2>2, <3>1 DEF Conserving, IsStorage, Counts
  <2> QED  BY <1>3, <1>4, <2>1, <2>3
<1>6. CASE n # 0
  <2> DEFINE job == q[n]
             rest == SubSeq(q, 1, n - 1)
             popped == [freed EXCEPT !.waitq[s] = SubSeq(@, 1, n - 1),
                                     !.waiting[job.state] = @ - 1]
  <2>1. job \in JobIn(s) /\ job \in Job /\ job.state = s
    <3>1. n \in 1 .. Len(q)
      BY <1>1, <1>6
    <3>2. job \in JobIn(s)
      BY <1>1, <3>1, ElementOfSeq
    <3> QED  BY <1>1, <3>2 DEF JobIn, Job, StateName
  <2>2. rest \in Seq(JobIn(s)) /\ rest \in Seq(Job) /\ Len(rest) = n - 1
    <3>1. \A i \in 1 .. n - 1 : q[i] \in JobIn(s) /\ q[i] \in Job
      <4>1. \A i \in 1 .. n - 1 : i \in 1 .. Len(q)
        BY <1>1
      <4>2. \A i \in 1 .. n - 1 : q[i] \in JobIn(s)
        BY <1>1, <4>1, ElementOfSeq
      <4> QED  BY <1>1, <4>2 DEF JobIn, Job, StateName
    <3>2. n - 1 \in Int /\ 1 <= n
      BY <1>1, <1>6
    <3>3. rest \in Seq(JobIn(s)) /\ Len(rest) = IF 1 <= n - 1 THEN n - 1 - 1 + 1 ELSE 0
      BY <3>1, <3>2, SubSeqProperties
    <3>4. rest \in Seq(Job)
      BY <3>1, <3>2, SubSeqProperties
    <3> QED  BY <3>2, <3>3, <3>4
  <2>3. new = RunJob(popped, job)
    BY <1>6, <2>1 DEF RunNextWaitingJob
  <2>4. /\ DOMAIN popped = StorageFields
        /\ popped.waitq = [ss.waitq EXCEPT ![s] = rest]
        /\ popped.waiting = [ss.waiting EXCEPT ![s] = ss.waiting[s] - 1]
        /\ popped.executing = freed.executing /\ popped.chan = ss.chan
        /\ popped.completed = ss.completed
    <3> HIDE DEF freed
    <3> QED  BY <1>2, <2>1 DEF StorageFields
  <2> HIDE DEF popped, freed, job, rest, q
  <2>5. IsStorage(popped)
    <3>1. popped.waiting \in Counts
      BY <1>1, <2>4 DEF IsStorage, Counts
    <3>2. popped.waitq \in [States -> Seq(Job)]
      BY <1>1, <2>2, <2>4 DEF IsStorage
    <3>3. \A t \in States : popped.waitq[t] \in Seq(JobIn(t))
      BY <1>1, <2>2, <2>4 DEF IsStorage
    <3> QED  BY <1>3, <1>2, <2>4, <3>1, <3>2, <3>3 DEF IsStorage
  <2>6. IsStorage(new) /\ \A t \in Working : Outstanding(new, t) = Outstanding(popped, t)
    BY <2>1, <2>3, <2>5, RunJobType, RunJobOutstanding
  <2>7. \A t \in Working : Outstanding(popped, t) = Outstanding(freed, t)
    BY <1>2, <2>4 DEF Outstanding
  <2>8. /\ new.executing = [popped.executing EXCEPT ![s] = popped.executing[s] + 1]
        /\ new.waiting = popped.waiting /\ new.waitq = popped.waitq
    <3> HIDE DEF new
    <3>1. /\ new.executing = [popped.executing EXCEPT ![job.state] = popped.executing[job.state] + 1]
          /\ new.waiting = popped.waiting /\ new.waitq = popped.waitq
      BY <2>3, <2>4, RunJobFields
    <3> QED  BY <2>1, <3>1
  <2>9. Conserving(new)
    <3>1. \A t \in Working : /\ t \in States /\ ss.executing[t] \in Int
                             /\ Concurrency[t] \in Nat
      BY ConfigAssumption DEF Working, IsStorage, Counts
    <3>2. q # <<>>
      BY <1>1, <1>6, EmptySeq DEF q
    <3>3. ss.executing[s] = Concurrency[s] /\ ss.waiting[s] = n
      BY <3>2 DEF Conserving, q
    <3>4. new.executing[s] = ss.executing[s]
      BY <1>1, <1>2, <2>4, <2>8 DEF IsStorage, Counts
    <3>5. new.waiting[s] = n - 1 /\ new.waitq[s] = rest
      BY <1>1, <2>4, <2>8, <3>3 DEF IsStorage, Counts
    <3>6. \A t \in Working \ {s} : /\ new.executing[t] = ss.executing[t]
                                   /\ new.waiting[t] = ss.waiting[t]
                                   /\ new.waitq[t] = ss.waitq[t]
      BY <1>2, <2>4, <2>8, <3>1 DEF IsStorage, Counts
    <3> QED
      BY <2>2, <3>1, <3>3, <3>4, <3>5, <3>6 DEF Conserving
  <2> QED  BY <1>4, <2>6, <2>7, <2>9
<1> QED  BY <1>5, <1>6

-----------------------------------------------------------------------------
(* stateStorage, field by field                                            *)

(* Nobody waits: runNextWaitingJob only frees the place.                   *)
LEMMA FreedFields ==
  ASSUME NEW ss, IsStorage(ss), NEW s \in Working, Len(ss.waitq[s]) = 0
  PROVE  LET new == RunNextWaitingJob(ss, s) IN
         /\ new.executing = [ss.executing EXCEPT ![s] = @ - 1]
         /\ new.waiting = ss.waiting /\ new.completed = ss.completed
         /\ new.waitq = ss.waitq /\ new.chan = ss.chan
<1>1. RunNextWaitingJob(ss, s) = [ss EXCEPT !.executing[s] = @ - 1] /\ DOMAIN ss = StorageFields
  BY DEF RunNextWaitingJob, IsStorage
<1> QED  BY <1>1 DEF StorageFields

(* Somebody waits: the job at the end of the list takes the place, and     *)
(* Executing stays what it is.                                             *)
LEMMA PassedFields ==
  ASSUME NEW ss, IsStorage(ss), NEW s \in Working, Len(ss.waitq[s]) # 0
  PROVE  LET new == RunNextWaitingJob(ss, s)
             n == Len(ss.waitq[s])
             job == ss.waitq[s][n]
         IN
         /\ n \in Nat \ {0} /\ job \in JobIn(s)
         /\ new.executing = ss.executing /\ new.completed = ss.completed
         /\ new.waiting = [ss.waiting EXCEPT ![s] = @ - 1]
         /\ new.waitq = [ss.waitq EXCEPT ![s] = SubSeq(@, 1, n - 1)]
         /\ new.chan = [ss.chan EXCEPT ![s] = Append(@, job)]
<1> DEFINE new == RunNextWaitingJob(ss, s)
           n == Len(ss.waitq[s])
           job == ss.waitq[s][n]
           freed == [ss EXCEPT !.executing[s] = @ - 1]
           popped == [freed EXCEPT !.waitq[s] = SubSeq(@, 1, n - 1),
                                   !.waiting[job.state] = @ - 1]
<1>1. s \in States /\ ss.waitq[s] \in Seq(JobIn(s)) /\ n \in 1 .. Len(ss.waitq[s])
  BY LenProperties DEF Working, IsStorage
<1>2. job \in JobIn(s) /\ job.state = s
  <2>1. ss.waitq[s][n] \in JobIn(s)
    BY <1>1, ElementOfSeq
  <2> QED  BY <2>1 DEF JobIn
<1>3. new = RunJob(popped, job)
  BY <1>2 DEF RunNextWaitingJob
<1>4. /\ DOMAIN freed = StorageFields
      /\ freed.executing = [ss.executing EXCEPT ![s] = @ - 1]
      /\ freed.waiting = ss.waiting /\ freed.completed = ss.completed
      /\ freed.waitq = ss.waitq /\ freed.chan = ss.chan
  BY DEF IsStorage, StorageFields
<1>5. /\ DOMAIN popped = StorageFields
      /\ popped.waitq = [ss.waitq EXCEPT ![s] = SubSeq(@, 1, n - 1)]
      /\ popped.waiting = [ss.waiting EXCEPT ![s] = @ - 1]
      /\ popped.executing = freed.executing /\ popped.chan = ss.chan
      /\ popped.completed = ss.completed
  <2> HIDE DEF freed
  <2> QED  BY <1>2, <1>4 DEF StorageFields
<1> HIDE DEF popped, freed, new
<1>6. /\ new.executing = [popped.executing EXCEPT ![s] = @ + 1]
      /\ new.chan = [popped.chan EXCEPT ![s] = Append(@, job)]
      /\ new.waiting = popped.waiting /\ new.completed = popped.completed
      /\ new.waitq = popped.waitq
  BY <1>2, <1>3, <1>5 DEF RunJob, StorageFields
<1>7. new.executing = ss.executing
  BY <1>1, <1>4, <1>5, <1>6 DEF IsStorage, Counts
<1> QED  BY <1>1, <1>2, <1>5, <1>6, <1>7 DEF new

(* processJob counts a terminal job ...                                    *)
LEMMA CompletedFields ==
  ASSUME NEW ss, IsStorage(ss), NEW job, job.state \in Terminal
  PROVE  /\ ProcessJob(ss, job).completed = [ss.completed EXCEPT ![job.state] = @ + 1]
         /\ ProcessJob(ss, job).executing = ss.executing
         /\ ProcessJob(ss, job).waiting = ss.waiting
         /\ ProcessJob(ss, job).waitq = ss.waitq
         /\ ProcessJob(ss, job).chan = ss.chan
<1>1. DOMAIN ss = StorageFields
  BY DEF IsStorage
<1> QED  BY <1>1, CompleteJobFields DEF ProcessJob

(* ... sends one that fits ...                                             *)
LEMMA SentFields ==
  ASSUME NEW ss, IsStorage(ss), NEW job, job.state \notin Terminal,
         ss.executing[job.state] < Concurrency[job.state]
  PROVE  /\ ProcessJob(ss, job).executing = [ss.executing EXCEPT ![job.state] = @ + 1]
         /\ ProcessJob(ss, job).chan = [ss.chan EXCEPT ![job.state] = Append(@, job)]
         /\ ProcessJob(ss, job).waiting = ss.waiting
         /\ ProcessJob(ss, job).completed = ss.completed
         /\ ProcessJob(ss, job).waitq = ss.waitq
<1>1. DOMAIN ss = StorageFields
  BY DEF IsStorage
<1> QED  BY <1>1, RunJobFields DEF ProcessJob, CanRunJobForState

(* ... and queues one that does not.                                       *)
LEMMA QueuedFields ==
  ASSUME NEW ss, IsStorage(ss), NEW job, job.state \notin Terminal,
         ~(ss.executing[job.state] < Concurrency[job.state])
  PROVE  /\ ProcessJob(ss, job).waiting = [ss.waiting EXCEPT ![job.state] = @ + 1]
         /\ ProcessJob(ss, job).waitq = [ss.waitq EXCEPT ![job.state] = <<job>> \o @]
         /\ ProcessJob(ss, job).executing = ss.executing
         /\ ProcessJob(ss, job).completed = ss.completed
         /\ ProcessJob(ss, job).chan = ss.chan
<1>1. DOMAIN ss = StorageFields
  BY DEF IsStorage
<1> QED  BY <1>1, QueueJobFields DEF ProcessJob, CanRunJobForState
=============================================================================
