------------------------------- MODULE ForkProofs -------------------------------
(***************************************************************************)
(* Theorems about the workflows in which a job forks at most once in its   *)
(* life.  In the others a second fork overwrites the children of the first *)
(* (id_collision.cfg), and the theorems are false.  Some lemmas are about  *)
(* a set R of ids in which every kick is new (FreshKicks): all ids here,   *)
(* those of the roots in RestartProofs, where jobs may fork more often.    *)
(***************************************************************************)
EXTENDS RunProofs

-----------------------------------------------------------------------------
(* The states from which no result forks, now or later: the union of the   *)
(* sets of states that only lead into themselves, without kicks.           *)
LeadsNowhereElse(P) ==
  \A s \in P : s \in Working =>
    \A r \in ExecResults[s] : r.kicks = <<>> /\ r.state \in P

NeverForks == UNION {P \in SUBSET StateName : LeadsNowhereElse(P)}

(* A job that has children, in a run that is started or resumed, has its   *)
(* fork behind it.  Root ids have length one.                              *)
FamilyTree(f) ==
  \A child \in DOMAIN f :
    /\ child # <<>>
    /\ Len(child) > 1 =>
         \E id \in DOMAIN f : f[id] \in NeverForks /\ child = Append(id, child[Len(child)])

ForksOnce ==
  /\ \A s \in Working : \A r \in ExecResults[s] : r.kicks # <<>> => r.state \in NeverForks
  /\ \A run \in InitialRuns : FamilyTree(run)

-----------------------------------------------------------------------------
(* Of the jobs with an id in R: no list, channel or goroutine holds one    *)
(* twice, and no two of them hold the same one.                            *)
Distinct(q, R) == \A i, j \in DOMAIN q : q[i].id \in R /\ q[i].id = q[j].id => i = j

StoredOnce(ss, s, R) ==
  /\ Distinct(ss.waitq[s], R) /\ Distinct(ss.chan[s], R)
  /\ \A id \in R : id \in Ids(ss.waitq[s]) => id \notin Ids(ss.chan[s])

HeldOnce(s, R) ==
  \A w, x \in Busy(s) : Held(w).id \in R /\ Held(w).id = Held(x).id => w = x

AloneIn(s, R) ==
  /\ StoredOnce(storage, s, R) /\ HeldOnce(s, R)
  /\ \A id \in R : id \in HeldIds(s) => id \notin StoredIds(storage, s)
  /\ \A id \in R : id \in ReturnedIds(returnChan, s) =>
       id \notin StoredIds(storage, s) /\ id \notin HeldIds(s)

Alone(R) == (\A s \in Working : AloneIn(s, R)) /\ Distinct(returnChan, R)

(* A job of R on its way through a state is in that state, and enqueued.   *)
Tracked(R) ==
  \A s \in Working : \A id \in R : id \in OnItsWay(s) => id \in DOMAIN jobs \ todo /\ jobs[id] = s

(* What comes back from a worker is a result of the Exec of its state.     *)
Genuine(r) == \E x \in ExecResults[r.prior] : x.state = r.state /\ x.kicks = r.kicks

ResultsGenuine ==
  /\ \A i \in DOMAIN returnChan : Genuine(returnChan[i])
  /\ \A w \in Workers : wpc[w] = "send" => Genuine(wret[w])
  /\ proc = "kicks" => Genuine(cur)

(* The jobs of R that a Return still has to kick do not exist.             *)
FreshKicks(R) ==
  proc = "kicks" =>
    \A i \in k .. Len(cur.kicks) - 1 : KickId(i) \in R => KickId(i) \notin DOMAIN jobs

(* The counts of the terminal states are those of Run.Jobs.                *)
Settled(s) == {id \in DOMAIN jobs \ todo : jobs[id] = s}

Tallied ==
  main # "call" =>
    /\ \A s \in Terminal : /\ storage.completed[s] = Cardinality(Settled(s))
                           /\ storage.executing[s] = 0 /\ storage.waiting[s] = 0
    /\ \A s \in Working : storage.completed[s] = 0

(* What the listener has seen when the coordinator ends is the last word.  *)
LastWord == exit = "running" /\ ((Closing /\ ~ctxDone) \/ main = "nil") => Fresh
Tree == FamilyTree(jobs)

-----------------------------------------------------------------------------
(* A state that never forks leads, without kicks, to another.              *)
LEMMA NeverForksClosed ==
  ASSUME NEW s \in NeverForks, s \in Working, NEW r \in ExecResults[s]
  PROVE  r.kicks = <<>> /\ r.state \in NeverForks
<1>1. PICK P \in SUBSET StateName : LeadsNowhereElse(P) /\ s \in P
  BY DEF NeverForks
<1>2. r.kicks = <<>> /\ r.state \in P
  BY <1>1 DEF LeadsNowhereElse
<1> QED  BY <1>1, <1>2 DEF NeverForks

(* Parents of the children that exist have forked.                         *)
LEMMA ParentHasForked ==
  ASSUME NEW f, DOMAIN f \subseteq Id, FamilyTree(f),
         NEW id \in Id, id # <<>>, NEW i \in Nat, Append(id, i) \in DOMAIN f
  PROVE  id \in DOMAIN f /\ f[id] \in NeverForks
<1> DEFINE child == Append(id, i)
<1>1. id \in Seq(Nat) /\ Len(id) \in Nat \ {0}
  BY LenProperties, EmptySeq DEF Id
<1>2. Len(child) = Len(id) + 1
  BY <1>1, AppendProperties
<1>3. child \in DOMAIN f /\ child \in Seq(Nat)
  BY <1>1, AppendProperties
<1> HIDE DEF child
<1>4. Len(child) > 1
  BY <1>1, <1>2
<1>5. PICK parent \in DOMAIN f :
        f[parent] \in NeverForks /\ child = Append(parent, child[Len(child)])
  BY <1>3, <1>4 DEF FamilyTree
<1>6. child[Len(child)] \in Nat
  BY <1>3, <1>4, ElementOfSeq, LenProperties
<1>7. parent \in Seq(Nat) /\ Append(parent, child[Len(child)]) = Append(id, i)
  BY <1>5 DEF Id, child
<1>8. parent = id
  BY <1>1, <1>6, <1>7, AppendInjective
<1> QED  BY <1>5, <1>8

-----------------------------------------------------------------------------
(* Lists without a repeated id                                             *)

LEMMA DistinctAppend ==
  ASSUME NEW R, NEW S, NEW q \in Seq(S), NEW e \in S, Distinct(q, R),
         e.id \in R => e.id \notin Ids(q)
  PROVE  Distinct(Append(q, e), R)
<1> DEFINE new == Append(q, e)
           n == Len(q)
<1>1. /\ n \in Nat /\ DOMAIN q = 1 .. n
      /\ new \in Seq(S) /\ Len(new) = n + 1 /\ new[n + 1] = e
      /\ \A i \in 1 .. n : new[i] = q[i]
  BY LenProperties, AppendProperties
<1>2. DOMAIN new = 1 .. n + 1
  BY <1>1, LenProperties
<1>3. 1 .. n + 1 = (1 .. n) \cup {n + 1}
  BY <1>1
<1> HIDE DEF new, n
<1>4. e.id \in R => \A i \in 1 .. n : q[i].id # e.id
  BY <1>1 DEF Ids
<1>5. Distinct(new, R)
  BY <1>1, <1>2, <1>3, <1>4 DEF Distinct
<1> QED  BY <1>5 DEF new

LEMMA DistinctInFront ==
  ASSUME NEW R, NEW S, NEW q \in Seq(S), NEW e \in S, Distinct(q, R),
         e.id \in R => e.id \notin Ids(q)
  PROVE  Distinct(<<e>> \o q, R)
<1> DEFINE new == <<e>> \o q
           n == Len(q)
<1>1. n \in Nat /\ DOMAIN q = 1 .. n
  BY LenProperties
<1>2. /\ DOMAIN new = 1 .. n + 1 /\ new[1] = e
      /\ \A i \in 1 .. n : new[i + 1] = q[i]
  BY InFrontFields
<1> HIDE DEF new, n
<1>3. \A j \in 1 .. n + 1 : j = 1 \/ (j - 1 \in 1 .. n /\ new[j] = q[j - 1])
  <2>1. ASSUME NEW j \in 1 .. n + 1, j # 1 PROVE j - 1 \in 1 .. n /\ new[j] = q[j - 1]
    <3>1. j - 1 \in 1 .. n /\ (j - 1) + 1 = j
      BY <1>1, <2>1
    <3>2. new[(j - 1) + 1] = q[j - 1]
      BY <1>2, <3>1
    <3> QED  BY <3>1, <3>2
  <2> QED  BY <2>1
<1>4. e.id \in R => \A i \in 1 .. n : q[i].id # e.id
  BY <1>1 DEF Ids
<1>5. ASSUME NEW i \in 1 .. n + 1, NEW j \in 1 .. n + 1, new[i].id \in R, new[i].id = new[j].id
      PROVE  i = j
  <2>1. CASE i = 1
    BY <1>2, <1>3, <1>4, <1>5, <2>1
  <2>2. CASE j = 1
    BY <1>2, <1>3, <1>4, <1>5, <2>2
  <2>3. CASE i # 1 /\ j # 1
    <3>1. i - 1 \in DOMAIN q /\ j - 1 \in DOMAIN q /\ q[i - 1].id \in R /\ q[i - 1].id = q[j - 1].id
      BY <1>1, <1>3, <1>5, <2>3
    <3>2. i - 1 = j - 1
      BY <3>1 DEF Distinct
    <3> QED  BY <1>1, <3>2
  <2> QED  BY <2>1, <2>2, <2>3
<1>6. Distinct(new, R)
  BY <1>2, <1>5 DEF Distinct
<1> QED  BY <1>6 DEF new

LEMMA DistinctHead ==
  ASSUME NEW R, NEW S, NEW q \in Seq(S), q # <<>>, Distinct(q, R)
  PROVE  Distinct(Tail(q), R) /\ (Head(q).id \in R => Head(q).id \notin Ids(Tail(q)))
<1> DEFINE new == Tail(q)
           n == Len(q)
<1>1. /\ n \in Nat \ {0} /\ DOMAIN q = 1 .. n
      /\ new \in Seq(S) /\ Len(new) = n - 1
      /\ \A i \in 1 .. Len(new) : new[i] = q[i + 1]
  BY LenProperties, EmptySeq, HeadTailProperties
<1>2. DOMAIN new = 1 .. n - 1 /\ Head(q) = q[1]
  BY <1>1, LenProperties DEF Head
<1> HIDE DEF new, n
<1>3. \A i \in 1 .. n - 1 : i + 1 \in 1 .. n /\ 1 \in 1 .. n /\ i + 1 # 1 /\ new[i] = q[i + 1]
  BY <1>1
<1>4. q[1].id \in R => \A i \in 1 .. n - 1 : new[i].id # q[1].id
  BY <1>1, <1>3 DEF Distinct
<1>5. ASSUME NEW i \in 1 .. n - 1, NEW j \in 1 .. n - 1, new[i].id \in R, new[i].id = new[j].id
      PROVE  i = j
  <2>1. i + 1 \in DOMAIN q /\ j + 1 \in DOMAIN q /\ q[i + 1].id \in R /\ q[i + 1].id = q[j + 1].id
    BY <1>1, <1>3, <1>5
  <2>2. i + 1 = j + 1
    BY <2>1 DEF Distinct
  <2> QED  BY <1>1, <2>2
<1>6. Distinct(new, R) /\ (q[1].id \in R => q[1].id \notin Ids(new))
  BY <1>2, <1>4, <1>5 DEF Distinct, Ids
<1> QED  BY <1>2, <1>6 DEF new

LEMMA DistinctLast ==
  ASSUME NEW R, NEW S, NEW q \in Seq(S), Len(q) # 0, Distinct(q, R)
  PROVE  /\ Distinct(SubSeq(q, 1, Len(q) - 1), R)
         /\ q[Len(q)].id \in R => q[Len(q)].id \notin Ids(SubSeq(q, 1, Len(q) - 1))
<1> DEFINE new == SubSeq(q, 1, Len(q) - 1)
           n == Len(q)
<1>1. n \in Nat \ {0} /\ DOMAIN q = 1 .. n
  BY LenProperties
<1>2. DOMAIN new = 1 .. n - 1 /\ \A i \in 1 .. n - 1 : new[i] = q[i]
  BY WithoutLastFields
<1> HIDE DEF new, n
<1>3. \A i \in 1 .. n - 1 : i \in 1 .. n /\ n \in 1 .. n /\ i # n
  BY <1>1
<1>4. Distinct(new, R) /\ (q[n].id \in R => q[n].id \notin Ids(new))
  BY <1>1, <1>2, <1>3 DEF Distinct, Ids
<1> QED  BY <1>4 DEF new, n

(* processJob stores a job once that was not stored, and runNextWaitingJob *)
(* keeps it so.                                                            *)
LEMMA ProcessJobOnce ==
  ASSUME NEW R, NEW ss, IsStorage(ss), NEW job \in Job, job.state \in States,
         NEW s \in Working, StoredOnce(ss, s, R),
         s = job.state /\ job.id \in R => job.id \notin StoredIds(ss, s)
  PROVE  StoredOnce(ProcessJob(ss, job), s, R)
<1> DEFINE st == job.state
           new == ProcessJob(ss, job)
<1>1. /\ s \in States /\ s \notin Terminal
      /\ ss.waitq[st] \in Seq(JobIn(st)) /\ ss.chan[st] \in Seq(JobIn(st)) /\ job \in JobIn(st)
      /\ ss.waitq \in [States -> Seq(Job)] /\ ss.chan \in [States -> Seq(Job)]
  BY DEF Working, IsStorage, Job, JobIn
<1>2. CASE s # st \/ st \in Terminal
  <2>1. new.waitq[s] = ss.waitq[s] /\ new.chan[s] = ss.chan[s]
    <3>1. CASE st \in Terminal
      BY <3>1, CompletedFields
    <3>2. CASE s # st /\ st \notin Terminal /\ ss.executing[st] < Concurrency[st]
      <4>1. new.waitq = ss.waitq /\ new.chan = [ss.chan EXCEPT ![st] = Append(@, job)]
        BY <3>2, SentFields
      <4> HIDE DEF new
      <4> QED  BY <1>1, <3>2, <4>1
    <3>3. CASE s # st /\ st \notin Terminal /\ ~(ss.executing[st] < Concurrency[st])
      <4>1. new.chan = ss.chan /\ new.waitq = [ss.waitq EXCEPT ![st] = <<job>> \o @]
        BY <3>3, QueuedFields
      <4> HIDE DEF new
      <4> QED  BY <1>1, <3>3, <4>1
    <3> QED  BY <1>2, <3>1, <3>2, <3>3
  <2> QED  BY <2>1 DEF StoredOnce
<1>3. CASE s = st /\ st \notin Terminal /\ ss.executing[st] < Concurrency[st]
  <2>1. new.waitq[s] = ss.waitq[s] /\ new.chan[s] = Append(ss.chan[s], job)
    <3>1. new.waitq = ss.waitq /\ new.chan = [ss.chan EXCEPT ![st] = Append(@, job)]
      BY <1>3, SentFields
    <3> HIDE DEF new
    <3> QED  BY <1>1, <1>3, <3>1
  <2>2. job.id \in R => job.id \notin Ids(ss.waitq[s]) /\ job.id \notin Ids(ss.chan[s])
    BY <1>3 DEF StoredIds
  <2>3. /\ Distinct(Append(ss.chan[s], job), R)
        /\ Ids(Append(ss.chan[s], job)) = Ids(ss.chan[s]) \cup {job.id}
    BY <1>1, <1>3, <2>2, DistinctAppend, IdsAppend DEF StoredOnce
  <2>4. StoredOnce(new, s, R)
    <3> HIDE DEF new
    <3>1. Distinct(ss.waitq[s], R) /\ Distinct(ss.chan[s], R)
          /\ \A id \in R : id \in Ids(ss.waitq[s]) => id \notin Ids(ss.chan[s])
      BY DEF StoredOnce
    <3> QED  BY <2>1, <2>2, <2>3, <3>1 DEF StoredOnce
  <2> QED  BY <2>4
<1>4. CASE s = st /\ st \notin Terminal /\ ~(ss.executing[st] < Concurrency[st])
  <2>1. new.chan[s] = ss.chan[s] /\ new.waitq[s] = <<job>> \o ss.waitq[s]
    <3>1. new.chan = ss.chan /\ new.waitq = [ss.waitq EXCEPT ![st] = <<job>> \o @]
      BY <1>4, QueuedFields
    <3> HIDE DEF new
    <3> QED  BY <1>1, <1>4, <3>1
  <2>2. job.id \in R => job.id \notin Ids(ss.waitq[s]) /\ job.id \notin Ids(ss.chan[s])
    BY <1>4 DEF StoredIds
  <2>3. /\ Distinct(<<job>> \o ss.waitq[s], R)
        /\ Ids(<<job>> \o ss.waitq[s]) = Ids(ss.waitq[s]) \cup {job.id}
    BY <1>1, <1>4, <2>2, DistinctInFront, IdsInFront DEF StoredOnce
  <2>4. StoredOnce(new, s, R)
    <3> HIDE DEF new
    <3>1. Distinct(ss.waitq[s], R) /\ Distinct(ss.chan[s], R)
          /\ \A id \in R : id \in Ids(ss.waitq[s]) => id \notin Ids(ss.chan[s])
      BY DEF StoredOnce
    <3> QED  BY <2>1, <2>2, <2>3, <3>1 DEF StoredOnce
  <2> QED  BY <2>4
<1> QED  BY <1>2, <1>3, <1>4

LEMMA RunNextWaitingJobOnce ==
  ASSUME NEW R, NEW ss, IsStorage(ss), NEW t \in Working, NEW s \in Working, StoredOnce(ss, s, R)
  PROVE  StoredOnce(RunNextWaitingJob(ss, t), s, R)
<1> DEFINE new == RunNextWaitingJob(ss, t)
           q == ss.waitq[t]
           n == Len(q)
<1>1. /\ s \in States /\ t \in States
      /\ q \in Seq(JobIn(t)) /\ ss.chan[t] \in Seq(JobIn(t))
      /\ ss.waitq \in [States -> Seq(Job)] /\ ss.chan \in [States -> Seq(Job)]
  BY DEF Working, IsStorage
<1>2. CASE n = 0
  <2>1. new.waitq = ss.waitq /\ new.chan = ss.chan
    BY <1>2, FreedFields
  <2> QED  BY <2>1 DEF StoredOnce
<1>3. CASE n # 0
  <2>1. /\ q[n] \in JobIn(t)
        /\ new.waitq = [ss.waitq EXCEPT ![t] = SubSeq(@, 1, n - 1)]
        /\ new.chan = [ss.chan EXCEPT ![t] = Append(@, q[n])]
    <3>1. Len(ss.waitq[t]) # 0 /\ IsStorage(ss) /\ t \in Working
      BY <1>3
    <3> QED  BY ONLY <3>1, PassedFields
  <2> HIDE DEF new
  <2>2. CASE s = t
    <3>1. /\ new.waitq[s] = SubSeq(q, 1, n - 1) /\ new.chan[s] = Append(ss.chan[t], q[n])
      BY <1>1, <2>1, <2>2
    <3>2. /\ Distinct(q, R) /\ Distinct(ss.chan[t], R)
          /\ \A id \in R : id \in Ids(q) => id \notin Ids(ss.chan[t])
      BY <2>2 DEF StoredOnce
    <3>3. /\ Distinct(SubSeq(q, 1, n - 1), R)
          /\ q[n].id \in R => q[n].id \notin Ids(SubSeq(q, 1, n - 1))
      BY <1>1, <1>3, <3>2, DistinctLast
    <3>4. Ids(q) = Ids(SubSeq(q, 1, n - 1)) \cup {q[n].id}
      BY <1>1, <1>3, IdsLast
    <3>5. q[n].id \in R => q[n].id \notin Ids(ss.chan[t])
      BY <3>2, <3>4
    <3>6. /\ Distinct(Append(ss.chan[t], q[n]), R)
          /\ Ids(Append(ss.chan[t], q[n])) = Ids(ss.chan[t]) \cup {q[n].id}
      BY <1>1, <2>1, <3>2, <3>5, DistinctAppend, IdsAppend
    <3> QED  BY <3>1, <3>2, <3>3, <3>4, <3>6 DEF StoredOnce, new
  <2>3. CASE s # t
    <3>1. new.waitq[s] = ss.waitq[s] /\ new.chan[s] = ss.chan[s]
      BY <1>1, <2>1, <2>3
    <3> QED  BY <3>1 DEF StoredOnce, new
  <2> QED  BY <2>2, <2>3
<1> QED  BY <1>2, <1>3

-----------------------------------------------------------------------------
(* What the other workers of a state hold when one of them moves.          *)
OtherIds(s, w) == {Held(x).id : x \in Busy(s) \ {w}}

LEMMA HeldParts ==
  ASSUME NEW R, NEW w \in Workers, NEW s \in Working
  PROVE  /\ w \in Busy(s) <=> s = StateOf(w) /\ InHand(w)
         /\ HeldIds(s) = OtherIds(s, w) \cup IF w \in Busy(s) THEN {Held(w).id} ELSE {}
         /\ HeldOnce(s, R) /\ w \in Busy(s) /\ Held(w).id \in R => Held(w).id \notin OtherIds(s, w)
<1>1. w \in WorkersOf(s) <=> s = StateOf(w)
  <2>1. \A x \in WorkersOf(s) : StateOf(x) = s
    BY DEF WorkersOf, StateOf
  <2> QED  BY <2>1, WorkerFacts
<1> QED  BY <1>1 DEF HeldIds, OtherIds, HeldOnce, Busy

LEMMA HeldAfter ==
  ASSUME NEW R, Books, NEW w \in Workers, NEW to \in WorkerStates, wpc' = [wpc EXCEPT ![w] = to],
         \A x \in Workers \ {w} : wjob'[x] = wjob[x] /\ wret'[x] = wret[x],
         NEW s \in Working
  PROVE  /\ HeldIds(s)' = OtherIds(s, w)
              \cup IF s = StateOf(w) /\ InHand(w)' THEN {Held(w)'.id} ELSE {}
         /\ /\ HeldOnce(s, R)
            /\ s = StateOf(w) /\ InHand(w)' /\ Held(w)'.id \in R => Held(w)'.id \notin OtherIds(s, w)
            => HeldOnce(s, R)'
<1>1. \A x \in WorkersOf(s) : x \in Workers /\ StateOf(x) = s
  BY DEF Workers, WorkersOf, StateOf
<1>2. \A x \in Workers \ {w} : wpc'[x] = wpc[x]
  BY DEF Books, TypeOK
<1>3. \A x \in Workers \ {w} : Held(x)' = Held(x) /\ (InHand(x)' <=> InHand(x))
  BY <1>2 DEF Held, InHand
<1>4. \A x \in WorkersOf(s) \ {w} : (x \in Busy(s)' <=> x \in Busy(s)) /\ Held(x)' = Held(x)
  BY <1>1, <1>3 DEF Busy
<1>5. w \in Busy(s)' <=> s = StateOf(w) /\ InHand(w)'
  BY <1>1, WorkerFacts DEF Busy
<1>6. Busy(s)' \subseteq WorkersOf(s) /\ Busy(s) \subseteq WorkersOf(s)
  BY DEF Busy
<1>7. HeldIds(s)' = OtherIds(s, w) \cup IF w \in Busy(s)' THEN {Held(w)'.id} ELSE {}
  BY <1>4, <1>6 DEF HeldIds, OtherIds
<1>8. ASSUME HeldOnce(s, R),
             w \in Busy(s)' /\ Held(w)'.id \in R => Held(w)'.id \notin OtherIds(s, w)
      PROVE  HeldOnce(s, R)'
  <2>1. ASSUME NEW x \in Busy(s)', NEW y \in Busy(s)', Held(x)'.id \in R, Held(x)'.id = Held(y)'.id
        PROVE  x = y
    <3>1. CASE x # w /\ y # w
      BY <1>4, <1>6, <1>8, <2>1, <3>1 DEF HeldOnce
    <3>2. CASE x = w /\ y # w
      BY <1>4, <1>6, <1>8, <2>1, <3>2 DEF OtherIds
    <3>3. CASE x # w /\ y = w
      BY <1>4, <1>6, <1>8, <2>1, <3>3 DEF OtherIds
    <3> QED  BY <3>1, <3>2, <3>3
  <2> QED  BY <2>1 DEF HeldOnce
<1> QED  BY <1>5, <1>7, <1>8

-----------------------------------------------------------------------------
(* A worker hands its one copy on, or keeps it.                            *)
LEMMA WorkerAlone ==
  ASSUME NEW R, Books, Tracked(R), Alone(R), NEW w \in Workers, Worker(w)
  PROVE  Alone(R)' /\ \A s \in Working : OnItsWay(s)' \subseteq OnItsWay(s)
<1> USE DEF coordVars, workerVars, others, statusVars
<1> DEFINE st == StateOf(w)
<1>1. /\ st \in Working /\ st \in States /\ IsStorage(storage) /\ returnChan \in Seq(Return)
      /\ wpc \in [Workers -> WorkerStates] /\ DOMAIN wjob = Workers /\ DOMAIN wret = Workers
  BY WorkerFacts DEF Books, TypeOK
<1>2. ASSUME NEW s \in Working
      PROVE  /\ StoredIds(storage, s)' = StoredIds(storage', s)
             /\ ReturnedIds(returnChan, s)' = ReturnedIds(returnChan', s)
             /\ AloneIn(s, R)' <=>
                  /\ StoredOnce(storage', s, R) /\ HeldOnce(s, R)'
                  /\ \A id \in R : id \in HeldIds(s)' => id \notin StoredIds(storage', s)
                  /\ \A id \in R : id \in ReturnedIds(returnChan', s) =>
                       id \notin StoredIds(storage', s) /\ id \notin HeldIds(s)'
             /\ OnItsWay(s)' = StoredIds(storage', s) \cup HeldIds(s)'
                                 \cup ReturnedIds(returnChan', s)
  BY DEF StoredIds, ReturnedIds, From, AloneIn, OnItsWay, StoredOnce
<1>3. ASSUME WorkerReceive(w), NEW s \in Working
      PROVE  AloneIn(s, R)' /\ OnItsWay(s)' \subseteq OnItsWay(s)
  <2> DEFINE ch == storage.chan[st]
             got == Head(ch).id
  <2>1. ch \in Seq(JobIn(st)) /\ ch # <<>> /\ s \in States
    BY <1>1, <1>3 DEF IsStorage, WorkerReceive, Working
  <2>2. Ids(ch) = Ids(Tail(ch)) \cup {got}
    BY <2>1, IdsHead
  <2>3. /\ wpc[w] = "idle" /\ wpc' = [wpc EXCEPT ![w] = "exec"]
        /\ wjob' = [wjob EXCEPT ![w] = Head(ch)] /\ UNCHANGED <<wret, returnChan>>
        /\ storage' = [storage EXCEPT !.chan[st] = Tail(@)]
    BY <1>3 DEF WorkerReceive
  <2>4. storage'.chan = [storage.chan EXCEPT ![st] = Tail(ch)] /\ storage'.waitq = storage.waitq
    <3>1. DOMAIN storage = StorageFields
      BY <1>1 DEF IsStorage
    <3> QED  BY <2>3, <3>1 DEF StorageFields
  <2>5. Held(w)'.id = got /\ InHand(w)' /\ ~InHand(w)
    BY <1>1, <2>3 DEF Held, InHand
  <2>6. s = st => Distinct(ch, R)
    BY DEF Alone, AloneIn, StoredOnce
  <2>7. s = st => Distinct(Tail(ch), R) /\ (got \in R => got \notin Ids(Tail(ch)))
    BY <2>1, <2>6, DistinctHead
  <2> HIDE DEF ch, st, got
  <2>8. storage'.chan[s] = IF s = st THEN Tail(ch) ELSE storage.chan[s]
    BY <1>1, <2>1, <2>4 DEF IsStorage
  <2>9. /\ StoredOnce(storage', s, R)
        /\ StoredIds(storage, s) = StoredIds(storage', s) \cup IF s = st THEN {got} ELSE {}
        /\ s = st /\ got \in R => got \notin StoredIds(storage', s)
    <3>1. StoredOnce(storage, s, R)
      BY DEF Alone, AloneIn
    <3>2. CASE s = st
      BY <2>2, <2>4, <2>7, <2>8, <3>1, <3>2 DEF StoredOnce, StoredIds, ch
    <3>3. CASE s # st
      BY <2>4, <2>8, <3>1, <3>3 DEF StoredOnce, StoredIds
    <3> QED  BY <3>2, <3>3
  <2>10. HeldIds(s) = OtherIds(s, w)
    BY <2>5, HeldParts
  <2>11. s = st /\ got \in R => got \notin OtherIds(s, w)
    BY <2>9, <2>10 DEF Alone, AloneIn
  <2>12. /\ HeldIds(s)' = OtherIds(s, w) \cup IF s = st THEN {got} ELSE {}
         /\ HeldOnce(s, R)'
    <3>1. /\ "exec" \in WorkerStates
          /\ \A x \in Workers \ {w} : wjob'[x] = wjob[x] /\ wret'[x] = wret[x]
      BY <1>1, <2>3 DEF WorkerStates
    <3>2. HeldOnce(s, R)
      BY DEF Alone, AloneIn
    <3> QED  BY <2>3, <2>5, <2>11, <3>1, <3>2, HeldAfter DEF st
  <2>13. AloneIn(s, R)
    BY DEF Alone
  <2>14. AloneIn(s, R)'
    BY <1>2, <2>3, <2>9, <2>10, <2>11, <2>12, <2>13 DEF AloneIn
  <2> QED  BY <1>2, <2>3, <2>9, <2>10, <2>12, <2>14 DEF OnItsWay
<1>4. ASSUME NEW to \in WorkerStates, wpc' = [wpc EXCEPT ![w] = to],
             UNCHANGED <<storage, returnChan>>,
             \A x \in Workers \ {w} : wjob'[x] = wjob[x] /\ wret'[x] = wret[x],
             InHand(w)' <=> InHand(w), InHand(w) => Held(w)'.id = Held(w).id,
             NEW s \in Working
      PROVE  AloneIn(s, R)' /\ OnItsWay(s)' \subseteq OnItsWay(s)
  <2>1. AloneIn(s, R)
    BY DEF Alone
  <2>2. HeldIds(s)' = HeldIds(s) /\ HeldOnce(s, R)'
    <3>1. s = StateOf(w) /\ InHand(w) /\ Held(w).id \in R => Held(w).id \notin OtherIds(s, w)
      BY <2>1, HeldParts DEF AloneIn
    <3>2. HeldIds(s) = OtherIds(s, w)
              \cup IF s = StateOf(w) /\ InHand(w) THEN {Held(w).id} ELSE {}
      BY HeldParts
    <3>3. HeldIds(s)' = OtherIds(s, w)
              \cup IF s = StateOf(w) /\ InHand(w)' THEN {Held(w)'.id} ELSE {}
      BY <1>4, HeldAfter
    <3>4. /\ HeldOnce(s, R)
          /\ s = StateOf(w) /\ InHand(w)' /\ Held(w)'.id \in R
               => Held(w)'.id \notin OtherIds(s, w)
          => HeldOnce(s, R)'
      BY <1>4, HeldAfter
    <3> QED  BY <1>4, <2>1, <3>1, <3>2, <3>3, <3>4 DEF AloneIn
  <2> QED  BY <1>2, <1>4, <2>1, <2>2 DEF AloneIn, OnItsWay
<1>5. ASSUME WorkerSends(w)
      PROVE  /\ Distinct(returnChan, R)'
             /\ \A s \in Working : AloneIn(s, R)' /\ OnItsWay(s)' \subseteq OnItsWay(s)
  <2>1. /\ wpc[w] = "send" /\ wpc' = [wpc EXCEPT ![w] = "idle"]
        /\ wret' = [wret EXCEPT ![w] = NoJob] /\ UNCHANGED <<storage, wjob>>
        /\ returnChan' = Append(returnChan, wret[w])
    BY <1>5 DEF WorkerSends
  <2>2. wret[w] \in Return /\ wret[w].prior = st
    BY <2>1 DEF Books, TypeOK
  <2>3. Held(w).id = wret[w].id /\ InHand(w) /\ ~InHand(w)'
    BY <1>1, <2>1 DEF Held, InHand
  <2>4. w \in Busy(st) /\ wret[w].id \in HeldIds(st)
    BY <1>1, <2>3, HeldParts
  <2>5. "idle" \in WorkerStates /\ \A x \in Workers \ {w} : wjob'[x] = wjob[x] /\ wret'[x] = wret[x]
    BY <1>1, <2>1 DEF WorkerStates
  <2> HIDE DEF st
  <2>6. wret[w].id \in R => wret[w].id \notin Ids(returnChan)
    <3>1. ASSUME wret[w].id \in R, NEW i \in DOMAIN returnChan, returnChan[i].id = wret[w].id
          PROVE  FALSE
      <4>1. i \in 1 .. Len(returnChan)
        BY <1>1, LenProperties
      <4>2. returnChan[i].prior \in Working
        <5>1. returnChan[i] \in Return
          BY <1>1, <4>1, ElementOfSeq
        <5> QED  BY <5>1 DEF Return
      <4>3. returnChan[i].id \in ReturnedIds(returnChan, returnChan[i].prior)
        BY DEF ReturnedIds, From
      <4>4. jobs[wret[w].id] = returnChan[i].prior
        BY <3>1, <4>2, <4>3 DEF Tracked, OnItsWay
      <4>5. jobs[wret[w].id] = st
        BY <1>1, <2>4, <3>1 DEF Tracked, OnItsWay
      <4> QED  BY <1>1, <2>4, <3>1, <4>3, <4>4, <4>5 DEF Alone, AloneIn
    <3> QED  BY <3>1 DEF Ids
  <2>7. Distinct(returnChan, R)'
    <3>1. Distinct(Append(returnChan, wret[w]), R)
      BY <1>1, <2>2, <2>6, DistinctAppend DEF Alone
    <3> QED  BY <2>1, <3>1 DEF Distinct
  <2>8. ASSUME NEW s \in Working PROVE AloneIn(s, R)' /\ OnItsWay(s)' \subseteq OnItsWay(s)
    <3>1. AloneIn(s, R)
      BY DEF Alone
    <3>2. ReturnedIds(returnChan', s) =
            ReturnedIds(returnChan, s) \cup IF st = s THEN {wret[w].id} ELSE {}
      BY <1>1, <2>1, <2>2, ReturnedIdsAppend
    <3>3. /\ HeldIds(s) = OtherIds(s, w) \cup IF s = st THEN {wret[w].id} ELSE {}
          /\ s = st /\ wret[w].id \in R => wret[w].id \notin OtherIds(s, w)
      BY <2>3, <3>1, HeldParts DEF AloneIn, st
    <3>4. HeldIds(s)' = OtherIds(s, w) /\ HeldOnce(s, R)'
      <4>1. HeldIds(s)' = OtherIds(s, w)
              \cup IF s = StateOf(w) /\ InHand(w)' THEN {Held(w)'.id} ELSE {}
        BY <2>1, <2>5, HeldAfter
      <4>2. /\ HeldOnce(s, R)
            /\ s = StateOf(w) /\ InHand(w)' /\ Held(w)'.id \in R
                 => Held(w)'.id \notin OtherIds(s, w)
            => HeldOnce(s, R)'
        BY <2>1, <2>5, HeldAfter
      <4> QED  BY <2>3, <3>1, <4>1, <4>2 DEF AloneIn
    <3>5. AloneIn(s, R)'
      BY <1>2, <2>1, <3>1, <3>2, <3>3, <3>4 DEF AloneIn
    <3> QED  BY <1>2, <2>1, <3>2, <3>3, <3>4, <3>5 DEF OnItsWay
  <2> QED  BY <2>7, <2>8
<1>6. ASSUME WorkerReceive(w)
      PROVE  Alone(R)' /\ \A s \in Working : OnItsWay(s)' \subseteq OnItsWay(s)
  BY <1>3, <1>6 DEF WorkerReceive, Alone, Distinct
<1>7. ASSUME NEW to \in WorkerStates, wpc' = [wpc EXCEPT ![w] = to],
             UNCHANGED <<storage, returnChan>>,
             \A x \in Workers \ {w} : wjob'[x] = wjob[x] /\ wret'[x] = wret[x],
             InHand(w)' <=> InHand(w), InHand(w) => Held(w)'.id = Held(w).id
      PROVE  Alone(R)' /\ \A s \in Working : OnItsWay(s)' \subseteq OnItsWay(s)
  BY <1>4, <1>7 DEF Alone, Distinct
<1>8. ASSUME NEW r \in ExecResults[st], WorkerExecutes(w, r)
      PROVE  Alone(R)' /\ \A s \in Working : OnItsWay(s)' \subseteq OnItsWay(s)
  <2>1. /\ wpc[w] = "exec" /\ wpc' = [wpc EXCEPT ![w] = "send"]
        /\ wret' = [wret EXCEPT ![w] = [id |-> wjob[w].id, prior |-> wjob[w].state,
                                        state |-> r.state, kicks |-> r.kicks]]
        /\ wjob' = [wjob EXCEPT ![w] = NoJob] /\ UNCHANGED <<storage, returnChan>>
    BY <1>8 DEF WorkerExecutes
  <2>2. Held(w)'.id = Held(w).id /\ InHand(w)' /\ InHand(w) /\ "send" \in WorkerStates
    BY <1>1, <2>1 DEF Held, InHand, WorkerStates
  <2>3. \A x \in Workers \ {w} : wjob'[x] = wjob[x] /\ wret'[x] = wret[x]
    BY <1>1, <2>1
  <2> QED  BY <1>7, <2>1, <2>2, <2>3
<1>9. ASSUME WorkerDrops(w)
      PROVE  Alone(R)' /\ \A s \in Working : OnItsWay(s)' \subseteq OnItsWay(s)
  <2>1. /\ wpc[w] = "exec" /\ wpc' = [wpc EXCEPT ![w] = "dropped"]
        /\ UNCHANGED <<storage, returnChan, wjob, wret>>
    BY <1>9 DEF WorkerDrops
  <2>2. Held(w)'.id = Held(w).id /\ InHand(w)' /\ InHand(w) /\ "dropped" \in WorkerStates
    BY <1>1, <2>1 DEF Held, InHand, WorkerStates
  <2> QED  BY <1>7, <2>1, <2>2
<1>10. ASSUME WorkerSeesCancel(w) \/ WorkerSeesClosed(w)
       PROVE  Alone(R)' /\ \A s \in Working : OnItsWay(s)' \subseteq OnItsWay(s)
  <2>1. /\ wpc[w] = "idle" /\ wpc' = [wpc EXCEPT ![w] = "done"]
        /\ UNCHANGED <<storage, returnChan, wjob, wret>>
    BY <1>10 DEF WorkerSeesCancel, WorkerSeesClosed
  <2>2. ~InHand(w)' /\ ~InHand(w) /\ "done" \in WorkerStates
    BY <1>1, <2>1 DEF InHand, WorkerStates
  <2> QED  BY <1>7, <2>1, <2>2
<1>11. ASSUME WorkerSendsOnClosed(w)
       PROVE  Alone(R)' /\ \A s \in Working : OnItsWay(s)' \subseteq OnItsWay(s)
  <2>1. UNCHANGED <<storage, returnChan, wpc, wjob, wret>>
    BY <1>11 DEF WorkerSendsOnClosed, Die
  <2>2. \A s \in Working : HeldIds(s)' = HeldIds(s) /\ (HeldOnce(s, R)' <=> HeldOnce(s, R))
    BY <2>1 DEF HeldIds, HeldOnce, Busy, InHand, Held
  <2> QED  BY <1>2, <2>1, <2>2 DEF Alone, AloneIn, OnItsWay, Distinct
<1>12. WorkerSends(w) => Alone(R)' /\ \A s \in Working : OnItsWay(s)' \subseteq OnItsWay(s)
  BY <1>5 DEF Alone
<1> QED  BY <1>6, <1>8, <1>9, <1>10, <1>11, <1>12 DEF Worker

(* A job that is nowhere on its way is put on the way once.                *)
LEMMA ProcessedAlone ==
  ASSUME NEW R, Books, Alone(R), UNCHANGED <<wpc, wjob, wret>>,
         NEW mid, IsStorage(mid),
         \A s \in Working : StoredOnce(mid, s, R) /\ StoredIds(mid, s) = StoredIds(storage, s),
         NEW job \in Job, job.state \in States, storage' = ProcessJob(mid, job),
         Distinct(returnChan', R),
         \A s \in Working : /\ ReturnedIds(returnChan', s) \subseteq ReturnedIds(returnChan, s)
                            /\ job.id \in R => /\ job.id \notin StoredIds(storage, s)
                                               /\ job.id \notin HeldIds(s)
                                               /\ job.id \notin ReturnedIds(returnChan', s)
  PROVE  /\ Alone(R)'
         /\ \A s \in Working : \A id \in R : id \in OnItsWay(s)' =>
              \/ id = job.id /\ s = job.state
              \/ id # job.id /\ id \in OnItsWay(s)
<1>1. ASSUME NEW s \in Working
      PROVE  /\ AloneIn(s, R)'
             /\ \A id \in R : id \in OnItsWay(s)' => \/ id = job.id /\ s = job.state
                                                     \/ id # job.id /\ id \in OnItsWay(s)
  <2>1. AloneIn(s, R)
    BY DEF Alone
  <2>2. HeldIds(s)' = HeldIds(s) /\ (HeldOnce(s, R)' <=> HeldOnce(s, R))
    BY DEF HeldIds, HeldOnce, Busy, InHand, Held
  <2>3. StoredIds(storage', s) = StoredIds(storage, s) \cup IF s = job.state THEN {job.id} ELSE {}
    BY ProcessJobIds
  <2>4. StoredOnce(storage', s, R)
    BY ProcessJobOnce
  <2>5. /\ StoredIds(storage, s)' = StoredIds(storage', s)
        /\ ReturnedIds(returnChan, s)' = ReturnedIds(returnChan', s)
        /\ StoredOnce(storage, s, R)' <=> StoredOnce(storage', s, R)
    BY DEF StoredIds, ReturnedIds, From, StoredOnce
  <2>6. AloneIn(s, R)'
    BY <2>1, <2>2, <2>3, <2>4, <2>5 DEF AloneIn
  <2>7. OnItsWay(s)' = StoredIds(storage', s) \cup HeldIds(s) \cup ReturnedIds(returnChan', s)
    BY <2>2, <2>5 DEF OnItsWay
  <2> QED  BY <2>3, <2>6, <2>7 DEF OnItsWay
<1>2. Distinct(returnChan, R)'
  BY DEF Distinct
<1> QED  BY <1>1, <1>2 DEF Alone

(* A Return that is received leaves the job it carries nowhere on its way.  *)
LEMMA ReceivedAlone ==
  ASSUME NEW R, Books, Tracked(R), Alone(R), returnChan # <<>>
  PROVE  LET rtn == Head(returnChan)
             mid == RunNextWaitingJob(storage, rtn.prior)
             rest == Tail(returnChan)
         IN  /\ IsStorage(mid) /\ Distinct(rest, R)
             /\ \A s \in Working :
                  /\ StoredOnce(mid, s, R) /\ StoredIds(mid, s) = StoredIds(storage, s)
                  /\ ReturnedIds(rest, s) \subseteq ReturnedIds(returnChan, s)
                  /\ rtn.id \in R => /\ rtn.id \notin StoredIds(storage, s)
                                     /\ rtn.id \notin HeldIds(s)
                                     /\ rtn.id \notin ReturnedIds(rest, s)
<1> DEFINE rtn == Head(returnChan)
           mid == RunNextWaitingJob(storage, rtn.prior)
           rest == Tail(returnChan)
<1>1. rtn.prior \in Working /\ returnChan \in Seq(Return)
  BY HeadReturn DEF Books, TypeOK
<1>2. IsStorage(storage) /\ Conserving(storage) /\ \A s \in Working : StoredOnce(storage, s, R)
  BY DEF Books, TypeOK, WorkConserving, Alone, AloneIn
<1>3. IsStorage(mid)
  BY <1>1, <1>2, RunNextWaitingJobEffect
<1>4. ASSUME NEW s \in Working
      PROVE  StoredOnce(mid, s, R) /\ StoredIds(mid, s) = StoredIds(storage, s)
  BY <1>1, <1>2, RunNextWaitingJobOnce, RunNextWaitingJobIds
<1>5. Distinct(rest, R) /\ (rtn.id \in R => rtn.id \notin Ids(rest))
  BY <1>1, DistinctHead DEF Alone
<1>6. ASSUME NEW s \in Working
      PROVE  /\ ReturnedIds(returnChan, s) =
                   ReturnedIds(rest, s) \cup IF rtn.prior = s THEN {rtn.id} ELSE {}
             /\ ReturnedIds(rest, s) \subseteq Ids(rest)
  <2>1. ReturnedIds(rest, s) \subseteq Ids(rest)
    BY DEF ReturnedIds, From, Ids
  <2> QED  BY <1>1, <2>1, ReturnedIdsHead
<1>7. rtn.id \in ReturnedIds(returnChan, rtn.prior) /\ rtn.id \in OnItsWay(rtn.prior)
  BY <1>1, <1>6 DEF OnItsWay
<1>8. rtn.id \in R => jobs[rtn.id] = rtn.prior
  BY <1>1, <1>7 DEF Tracked
<1>9. ASSUME NEW s \in Working, rtn.id \in R
      PROVE  /\ rtn.id \notin StoredIds(storage, s) /\ rtn.id \notin HeldIds(s)
             /\ rtn.id \notin ReturnedIds(rest, s)
  <2>1. CASE s = rtn.prior
    <3>1. AloneIn(s, R)
      BY DEF Alone
    <3> QED  BY <1>5, <1>6, <1>7, <1>9, <2>1, <3>1 DEF AloneIn
  <2>2. CASE s # rtn.prior
    <3>1. rtn.id \notin OnItsWay(s)
      BY <1>8, <1>9, <2>2 DEF Tracked
    <3> QED  BY <1>5, <1>6, <1>9, <3>1 DEF OnItsWay
  <2> QED  BY <2>1, <2>2
<1> QED  BY <1>3, <1>4, <1>5, <1>6, <1>9

LEMMA CoordinatorAlone ==
  ASSUME NEW R, Books, EnqueuedFirst, FreshKicks(R), Tracked(R), Alone(R), Coordinator
  PROVE  Alone(R)' /\ Tracked(R)'
<1> USE DEF coordVars, workerVars, others, statusVars
<1>1. UNCHANGED <<wpc, wjob, wret>>
  BY DEF Coordinator, EnqueueJob, EnqueueUnregistered, InitialStatus, CoordinatorSeesCancel,
         HandleReturn, HandleUnregistered, KickJob, KickUnregistered, PersistJob, PersistKick,
         PersistFails, HandleReturnEnds, DrainEnds, CloseJobChannels, CloseReturnChan, Panic, Die
<1>2. IsStorage(storage) /\ \A s \in Working : StoredOnce(storage, s, R)
  BY DEF Books, TypeOK, Alone, AloneIn
<1>3. ASSUME NEW job \in Job, job.state \in States, storage' = ProcessJob(storage, job),
             returnChan' = returnChan, job.id \in R => \A s \in Working : job.id \notin OnItsWay(s)
      PROVE  /\ Alone(R)'
             /\ \A s \in Working : \A id \in R : id \in OnItsWay(s)' =>
                  \/ id = job.id /\ s = job.state
                  \/ id # job.id /\ id \in OnItsWay(s)
  <2>1. \A s \in Working : /\ ReturnedIds(returnChan', s) \subseteq ReturnedIds(returnChan, s)
                            /\ job.id \in R => /\ job.id \notin StoredIds(storage, s)
                                               /\ job.id \notin HeldIds(s)
                                               /\ job.id \notin ReturnedIds(returnChan', s)
    BY <1>3 DEF OnItsWay
  <2>2. Distinct(returnChan', R)
    BY <1>3 DEF Alone
  <2> QED  BY <1>1, <1>2, <1>3, <2>1, <2>2, ProcessedAlone
<1>4. ASSUME NEW id \in todo, EnqueueJob(id) PROVE Alone(R)' /\ Tracked(R)'
  <2> DEFINE job == [id |-> id, state |-> jobs[id]]
  <2>1. job \in Job /\ job.state \in States /\ id \in DOMAIN jobs
    BY <1>4 DEF EnqueueJob, Books, TypeOK, IsJobMap, Job, StateName
  <2>2. /\ storage' = ProcessJob(storage, job) /\ returnChan' = returnChan
        /\ jobs' = jobs /\ todo' = todo \ {id}
    BY <1>4 DEF EnqueueJob
  <2>3. job.id \in R => \A s \in Working : job.id \notin OnItsWay(s)
    BY DEF Tracked
  <2>4. job.id = id /\ job.state = jobs[id]
    OBVIOUS
  <2> HIDE DEF job
  <2>5. Alone(R)' /\ \A s \in Working : \A x \in R : x \in OnItsWay(s)' =>
                    \/ x = job.id /\ s = job.state
                    \/ x # job.id /\ x \in OnItsWay(s)
    BY <1>3, <2>1, <2>2, <2>3
  <2>6. Tracked(R)'
    BY <2>1, <2>2, <2>4, <2>5 DEF Tracked
  <2> QED  BY <2>5, <2>6
<1>5. ASSUME KickJob PROVE Alone(R)' /\ Tracked(R)'
  <2> DEFINE job == [id |-> KickId(k), state |-> cur.kicks[k + 1]]
  <2>1. job \in Job /\ job.state \in States
    BY <1>5, KickType DEF KickJob, Job, StateName
  <2>2. /\ storage' = ProcessJob(storage, job) /\ returnChan' = returnChan
        /\ jobs' = Put(jobs, job.id, job.state) /\ todo' = todo
        /\ proc = "kicks" /\ k < Len(cur.kicks)
    BY <1>5 DEF KickJob
  <2>3. job.id \in R => job.id \notin DOMAIN jobs
    <3>1. k \in 0 .. Len(cur.kicks) /\ cur.kicks \in Seq(StateName)
      BY <2>2 DEF Books, TypeOK, Return
    <3>2. k \in k .. Len(cur.kicks) - 1
      BY <2>2, <3>1, LenProperties
    <3> QED  BY <2>2, <3>2 DEF FreshKicks
  <2> HIDE DEF job
  <2>4. job.id \in R => \A s \in Working : job.id \notin OnItsWay(s)
    BY <2>3 DEF Tracked
  <2>5. Alone(R)' /\ \A s \in Working : \A x \in R : x \in OnItsWay(s)' =>
                    \/ x = job.id /\ s = job.state
                    \/ x # job.id /\ x \in OnItsWay(s)
    BY <1>3, <2>1, <2>2, <2>4
  <2>6. job.id \in R => job.id \notin todo
    BY <2>3 DEF Books, TypeOK
  <2>7. Tracked(R)'
    BY <2>2, <2>5, <2>6 DEF Tracked, Put
  <2> QED  BY <2>5, <2>7
<1>6. ASSUME HandleReturn PROVE Alone(R)' /\ Tracked(R)'
  <2> DEFINE rtn == Head(returnChan)
             job == [id |-> rtn.id, state |-> rtn.state]
             mid == RunNextWaitingJob(storage, rtn.prior)
  <2>1. rtn \in Return /\ rtn.id \in Id /\ rtn.state \in States /\ returnChan # <<>>
    BY <1>6, HeadReturn DEF HandleReturn
  <2>2. job \in Job /\ job.state \in States /\ job.id = rtn.id /\ job.state = rtn.state
    BY <2>1 DEF Job, StateName
  <2>3. /\ storage' = ProcessJob(mid, job) /\ returnChan' = Tail(returnChan)
        /\ jobs' = Put(jobs, rtn.id, rtn.state) /\ todo' = todo /\ todo = {}
    BY <1>6 DEF HandleReturn, EnqueuedFirst, Closing
  <2>4. /\ IsStorage(mid) /\ Distinct(Tail(returnChan), R)
        /\ \A s \in Working :
             /\ StoredOnce(mid, s, R) /\ StoredIds(mid, s) = StoredIds(storage, s)
             /\ ReturnedIds(Tail(returnChan), s) \subseteq ReturnedIds(returnChan, s)
             /\ rtn.id \in R => /\ rtn.id \notin StoredIds(storage, s)
                                /\ rtn.id \notin HeldIds(s)
                                /\ rtn.id \notin ReturnedIds(Tail(returnChan), s)
    BY <2>1, ReceivedAlone
  <2> HIDE DEF mid, job, rtn
  <2>5. Alone(R)' /\ \A s \in Working : \A x \in R : x \in OnItsWay(s)' =>
                    \/ x = job.id /\ s = job.state
                    \/ x # job.id /\ x \in OnItsWay(s)
    BY <1>1, <2>2, <2>3, <2>4, ProcessedAlone
  <2>6. Tracked(R)'
    BY <2>2, <2>3, <2>5 DEF Tracked, Put
  <2> QED  BY <2>5, <2>6
<1>7. ASSUME HandleUnregistered PROVE Alone(R)' /\ Tracked(R)'
  <2> DEFINE rtn == Head(returnChan)
  <2>1. /\ storage' = RunNextWaitingJob(storage, rtn.prior) /\ returnChan' = Tail(returnChan)
        /\ jobs' = Put(jobs, rtn.id, rtn.state) /\ todo' = todo /\ returnChan # <<>>
    BY <1>7 DEF HandleUnregistered
  <2>2. /\ Distinct(returnChan', R)
        /\ \A s \in Working :
             /\ StoredOnce(storage', s, R) /\ StoredIds(storage', s) = StoredIds(storage, s)
             /\ ReturnedIds(returnChan', s) \subseteq ReturnedIds(returnChan, s)
             /\ rtn.id \in R => /\ rtn.id \notin StoredIds(storage, s)
                                /\ rtn.id \notin HeldIds(s)
                                /\ rtn.id \notin ReturnedIds(returnChan', s)
    BY <2>1, ReceivedAlone
  <2> HIDE DEF rtn
  <2>3. \A s \in Working : /\ HeldIds(s)' = HeldIds(s) /\ (HeldOnce(s, R)' <=> HeldOnce(s, R))
                           /\ StoredIds(storage, s)' = StoredIds(storage', s)
                           /\ ReturnedIds(returnChan, s)' = ReturnedIds(returnChan', s)
                           /\ StoredOnce(storage, s, R)' <=> StoredOnce(storage', s, R)
    BY <1>1 DEF HeldIds, HeldOnce, Busy, InHand, Held, StoredIds, ReturnedIds, From, StoredOnce
  <2>4. Alone(R)'
    BY <2>2, <2>3 DEF Alone, AloneIn, Distinct
  <2>5. \A s \in Working : /\ OnItsWay(s)' \subseteq OnItsWay(s)
                           /\ rtn.id \in R => rtn.id \notin OnItsWay(s)'
    BY <2>2, <2>3 DEF OnItsWay
  <2>6. Tracked(R)'
    BY <2>1, <2>5 DEF Tracked, Put
  <2> QED  BY <2>4, <2>6
<1>8. ASSUME UNCHANGED <<storage, returnChan, todo>>, DOMAIN jobs \subseteq DOMAIN jobs',
             \A id \in DOMAIN jobs \cap R : jobs'[id] = jobs[id]
      PROVE  Alone(R)' /\ Tracked(R)'
  <2>1. \A s \in Working : /\ HeldIds(s)' = HeldIds(s) /\ (HeldOnce(s, R)' <=> HeldOnce(s, R))
                           /\ StoredIds(storage, s)' = StoredIds(storage, s)
                           /\ ReturnedIds(returnChan, s)' = ReturnedIds(returnChan, s)
                           /\ StoredOnce(storage, s, R)' <=> StoredOnce(storage, s, R)
    BY <1>1, <1>8
    DEF HeldIds, HeldOnce, Busy, InHand, Held, StoredIds, ReturnedIds, From, StoredOnce
  <2>2. Alone(R)'
    BY <1>8, <2>1 DEF Alone, AloneIn, Distinct
  <2>3. Tracked(R)'
    BY <1>8, <2>1 DEF Tracked, OnItsWay
  <2> QED  BY <2>2, <2>3
<1>9. ASSUME KickUnregistered PROVE Alone(R)' /\ Tracked(R)'
  <2>1. /\ UNCHANGED <<storage, returnChan, todo>> /\ proc = "kicks" /\ k < Len(cur.kicks)
        /\ jobs' = Put(jobs, KickId(k), cur.kicks[k + 1])
    BY <1>9 DEF KickUnregistered
  <2>2. k \in 0 .. Len(cur.kicks) /\ cur.kicks \in Seq(StateName)
    BY <2>1 DEF Books, TypeOK, Return
  <2>3. k \in k .. Len(cur.kicks) - 1
    BY <2>1, <2>2, LenProperties
  <2>4. KickId(k) \in R => KickId(k) \notin DOMAIN jobs
    BY <2>1, <2>3 DEF FreshKicks
  <2> QED  BY <1>8, <2>1, <2>4 DEF Put
<1> QED
  BY <1>4, <1>5, <1>6, <1>7, <1>8, <1>9
  DEF Coordinator, EnqueueUnregistered, InitialStatus, CoordinatorSeesCancel,
      PersistJob, PersistKick, PersistFails,
      HandleReturnEnds, DrainEnds, CloseJobChannels, CloseReturnChan, Die

LEMMA NothingOnItsWay ==
  ASSUME NEW R, \A w \in Workers : ~InHand(w), storage = NewStateStorage, returnChan = <<>>,
         NEW s \in Working
  PROVE  OnItsWay(s) = {} /\ Busy(s) = {} /\ StoredOnce(storage, s, R)
<1>1. DOMAIN <<>> = {}
  OBVIOUS
<1>2. storage.waitq[s] = <<>> /\ storage.chan[s] = <<>>
  BY DEF NewStateStorage, Working
<1>3. Ids(storage.waitq[s]) = {} /\ Ids(storage.chan[s]) = {}
  BY <1>1, <1>2 DEF Ids
<1>4. From(returnChan, s) = {}
  BY <1>1 DEF From
<1>5. Busy(s) = {}
  BY DEF Busy, Workers
<1> QED
  BY <1>1, <1>2, <1>3, <1>4, <1>5
  DEF OnItsWay, StoredIds, HeldIds, ReturnedIds, StoredOnce, Distinct

LEMMA AloneInit ==
  ASSUME NEW R, Init
  PROVE  Alone(R) /\ Tracked(R)
<1>1. DOMAIN <<>> = {}
  OBVIOUS
<1>2. \A s \in Working : OnItsWay(s) = {} /\ Busy(s) = {} /\ StoredOnce(storage, s, R)
  BY NothingOnItsWay DEF Init, InHand
<1>3. Distinct(returnChan, R)
  BY <1>1 DEF Init, Distinct
<1> QED  BY <1>2, <1>3 DEF Alone, AloneIn, Tracked, OnItsWay, HeldOnce

LEMMA AloneStep ==
  ASSUME NEW R, Books, Untouched, EnqueuedFirst, FreshKicks(R), Tracked(R), Alone(R), [Next]_vars
  PROVE  Alone(R)' /\ Tracked(R)'
<1> USE DEF coordVars, workerVars, others, statusVars
<1>1. ASSUME NEW w \in Workers, Worker(w) PROVE Alone(R)' /\ Tracked(R)'
  <2>1. UNCHANGED <<jobs, todo>>
    BY <1>1 DEF Worker, WorkerSeesCancel, WorkerReceive, WorkerSeesClosed, WorkerExecutes,
                WorkerDrops, WorkerSends, WorkerSendsOnClosed, Die
  <2>2. Alone(R)' /\ \A s \in Working : OnItsWay(s)' \subseteq OnItsWay(s)
    BY <1>1, WorkerAlone
  <2> QED  BY <2>1, <2>2 DEF Tracked
<1>2. ASSUME UNCHANGED <<wpc, wjob, wret, returnChan, jobs, todo>>,
             \A s \in Working : /\ storage'.waitq[s] = storage.waitq[s]
                                /\ storage'.chan[s] = storage.chan[s]
      PROVE  Alone(R)' /\ Tracked(R)'
  <2>1. \A s \in Working : /\ HeldIds(s)' = HeldIds(s) /\ (HeldOnce(s, R)' <=> HeldOnce(s, R))
                           /\ StoredIds(storage, s)' = StoredIds(storage, s)
                           /\ ReturnedIds(returnChan, s)' = ReturnedIds(returnChan, s)
                           /\ StoredOnce(storage, s, R)' <=> StoredOnce(storage, s, R)
    BY <1>2 DEF HeldIds, HeldOnce, Busy, InHand, Held, StoredIds, ReturnedIds, From, StoredOnce
  <2>2. Alone(R)'
    BY <1>2, <2>1 DEF Alone, AloneIn, Distinct
  <2>3. Tracked(R)'
    BY <1>2, <2>1 DEF Tracked, OnItsWay
  <2> QED  BY <2>2, <2>3
<1>3. ASSUME Cancel \/ ExecReturn \/ ProgramDies \/ UNCHANGED vars
      PROVE  Alone(R)' /\ Tracked(R)'
  BY <1>2, <1>3 DEF Cancel, ExecReturn, ProgramDies, Die, vars
<1>4. ASSUME ExecAllTerminal PROVE Alone(R)' /\ Tracked(R)'
  <2>1. storage'.waitq = storage.waitq /\ storage'.chan = storage.chan
    BY <1>4 DEF ExecAllTerminal, Books, TypeOK, IsStorage, StorageFields
  <2> QED  BY <1>2, <1>4, <2>1 DEF ExecAllTerminal
<1>5. ASSUME ExecStart PROVE Alone(R)' /\ Tracked(R)'
  <2>1. /\ storage' = NewStateStorage /\ returnChan' = <<>>
        /\ \A w \in Workers : wpc'[w] = "idle"
    BY <1>5 DEF ExecStart, Untouched
  <2>2. \A s \in Working : OnItsWay(s)' = {} /\ Busy(s)' = {} /\ StoredOnce(storage, s, R)'
    <3>1. \A w \in Workers : ~InHand(w)'
      BY <2>1 DEF InHand
    <3>2. \A s \in Working : OnItsWay(s) = {} /\ StoredOnce(storage, s, R)
      BY <1>5, NothingOnItsWay DEF ExecStart, Untouched, InHand
    <3>3. UNCHANGED <<storage, returnChan>>
      BY <1>5 DEF ExecStart
    <3>4. \A s \in Working : Busy(s)' = {}
      BY <3>1 DEF Busy, Workers
    <3> QED
      BY <3>2, <3>3, <3>4 DEF OnItsWay, HeldIds, StoredIds, ReturnedIds, From, StoredOnce
  <2>3. Distinct(returnChan, R)'
    BY <1>5 DEF ExecStart, Alone, Distinct
  <2> QED  BY <2>2, <2>3 DEF Alone, AloneIn, Tracked, OnItsWay, HeldOnce
<1> QED
  BY <1>1, <1>3, <1>4, <1>5, CoordinatorAlone DEF Next, Step, Finished

-----------------------------------------------------------------------------
LEMMA IdsOnTheWay ==
  ASSUME Books, NEW s \in Working
  PROVE  OnItsWay(s) \subseteq Id
<1>1. /\ storage.waitq[s] \in Seq(JobIn(s)) /\ storage.chan[s] \in Seq(JobIn(s))
      /\ returnChan \in Seq(Return)
  BY DEF Books, TypeOK, IsStorage, Working
<1>2. /\ \A i \in DOMAIN storage.waitq[s] : storage.waitq[s][i] \in JobIn(s)
      /\ \A i \in DOMAIN storage.chan[s] : storage.chan[s][i] \in JobIn(s)
      /\ \A i \in DOMAIN returnChan : returnChan[i] \in Return
  BY <1>1, ElementOfSeq, LenProperties
<1>3. StoredIds(storage, s) \subseteq Id /\ ReturnedIds(returnChan, s) \subseteq Id
  BY <1>2 DEF StoredIds, Ids, ReturnedIds, From, JobIn, Return
<1>4. \A w \in Busy(s) : Held(w).id \in Id
  BY DEF Books, TypeOK, Busy, InHand, Held, Job, JobIn, Return, Workers, WorkersOf
<1> QED  BY <1>3, <1>4 DEF OnItsWay, HeldIds

(* What a worker sends back is a result of State.Exec, and it is still that *)
(* when the coordinator has it in hand.                                     *)
LEMMA GenuineInit == Init => ResultsGenuine
<1>1. DOMAIN <<>> = {}
  OBVIOUS
<1> QED  BY <1>1 DEF Init, ResultsGenuine

LEMMA GenuineStep ==
  Books /\ Untouched /\ ResultsGenuine /\ [Next]_vars => ResultsGenuine'
<1> SUFFICES ASSUME Books, Untouched, ResultsGenuine, [Next]_vars PROVE ResultsGenuine'
  OBVIOUS
<1> USE DEF coordVars, workerVars, others, statusVars
<1>1. ASSUME UNCHANGED <<returnChan, wpc, wret>>, proc' = "kicks" => proc = "kicks" /\ cur' = cur
      PROVE  ResultsGenuine'
  BY <1>1 DEF ResultsGenuine, Genuine
<1>2. ASSUME NEW id \in todo, EnqueueJob(id) PROVE ResultsGenuine'
  BY <1>1, <1>2 DEF EnqueueJob
<1>3. ASSUME \/ InitialStatus \/ CoordinatorSeesCancel \/ DrainEnds \/ KickJob
             \/ KickUnregistered \/ PersistJob \/ PersistKick \/ PersistFails
             \/ HandleReturnEnds \/ CloseJobChannels \/ CloseReturnChan
             \/ \E id \in todo : EnqueueUnregistered(id)
      PROVE  ResultsGenuine'
  BY <1>1, <1>3 DEF InitialStatus, CoordinatorSeesCancel, DrainEnds, KickJob, KickUnregistered,
                    PersistJob, PersistKick, PersistFails, HandleReturnEnds, CloseJobChannels,
                    CloseReturnChan, EnqueueUnregistered, Panic, Die
<1>4. ASSUME HandleReturn \/ HandleUnregistered PROVE ResultsGenuine'
  <2>1. returnChan \in Seq(Return) /\ returnChan # <<>>
    BY <1>4 DEF HandleReturn, HandleUnregistered, Books, TypeOK
  <2> DEFINE rtn == Head(returnChan)
             rest == Tail(returnChan)
  <2>2. /\ Len(returnChan) \in Nat \ {0} /\ DOMAIN returnChan = 1 .. Len(returnChan)
        /\ rest \in Seq(Return) /\ Len(rest) = Len(returnChan) - 1
        /\ \A i \in 1 .. Len(rest) : rest[i] = returnChan[i + 1]
    BY <2>1, LenProperties, EmptySeq, HeadTailProperties
  <2>3. rtn = returnChan[1] /\ 1 \in DOMAIN returnChan
    BY <2>1, <2>2 DEF Head
  <2>4. DOMAIN rest = 1 .. Len(returnChan) - 1
    BY <2>2, LenProperties
  <2>5. /\ returnChan' = rest /\ UNCHANGED <<wpc, wret>>
        /\ cur' = rtn \/ proc' = "shutdown"
    BY <1>4 DEF HandleReturn, HandleUnregistered, Panic
  <2> HIDE DEF rtn, rest
  <2>6. Genuine(rtn)
    BY <2>3 DEF ResultsGenuine
  <2>7. ASSUME NEW i \in DOMAIN rest PROVE Genuine(rest[i])
    <3>1. i + 1 \in DOMAIN returnChan /\ rest[i] = returnChan[i + 1]
      BY <2>2, <2>4
    <3> QED  BY <3>1 DEF ResultsGenuine
  <2> QED  BY <2>5, <2>6, <2>7 DEF ResultsGenuine, Genuine
<1>5. ASSUME Cancel \/ ExecAllTerminal \/ ExecReturn \/ ProgramDies \/ UNCHANGED vars
      PROVE  ResultsGenuine'
  BY <1>1, <1>5 DEF Cancel, ExecAllTerminal, ExecReturn, ProgramDies, Die, vars
<1>6. ASSUME ExecStart PROVE ResultsGenuine'
  <2>1. \A w \in Workers : wpc'[w] = "idle"
    BY <1>6 DEF ExecStart
  <2> QED  BY <1>6, <2>1 DEF ExecStart, Untouched, ResultsGenuine, Genuine
<1>7. ASSUME NEW w \in Workers, Worker(w) PROVE ResultsGenuine'
  <2>0. wpc \in [Workers -> WorkerStates] /\ DOMAIN wret = Workers
    BY DEF Books, TypeOK
  <2>1. ASSUME NEW to \in {"exec", "done", "dropped"}, wpc' = [wpc EXCEPT ![w] = to],
               UNCHANGED <<returnChan, wret, cur, proc>>
        PROVE  ResultsGenuine'
    BY <2>0, <2>1 DEF ResultsGenuine, Genuine
  <2>2. ASSUME NEW r \in ExecResults[StateOf(w)], WorkerExecutes(w, r) PROVE ResultsGenuine'
    <3>1. /\ wpc[w] = "exec" /\ wpc' = [wpc EXCEPT ![w] = "send"]
          /\ wret' = [wret EXCEPT ![w] = [id |-> wjob[w].id, prior |-> wjob[w].state,
                                          state |-> r.state, kicks |-> r.kicks]]
          /\ UNCHANGED <<returnChan, cur, proc>>
      BY <2>2 DEF WorkerExecutes
    <3>2. wjob[w].state = StateOf(w)
      BY <3>1 DEF Books, TypeOK, JobIn
    <3>3. Genuine(wret'[w])
      BY <2>0, <3>1, <3>2 DEF Genuine
    <3>4. \A x \in Workers : x # w => wret'[x] = wret[x] /\ wpc'[x] = wpc[x]
      BY <2>0, <3>1
    <3> QED  BY <3>1, <3>3, <3>4 DEF ResultsGenuine, Genuine
  <2>3. ASSUME WorkerSends(w) PROVE ResultsGenuine'
    <3>1. /\ wpc[w] = "send" /\ wpc' = [wpc EXCEPT ![w] = "idle"]
          /\ wret' = [wret EXCEPT ![w] = NoJob] /\ returnChan' = Append(returnChan, wret[w])
          /\ UNCHANGED <<cur, proc>>
      BY <2>3 DEF WorkerSends
    <3>2. returnChan \in Seq(Return) /\ wret[w] \in Return /\ Genuine(wret[w])
      BY <3>1 DEF Books, TypeOK, ResultsGenuine
    <3>3. /\ Len(returnChan) \in Nat /\ DOMAIN returnChan = 1 .. Len(returnChan)
          /\ returnChan' \in Seq(Return) /\ Len(returnChan') = Len(returnChan) + 1
          /\ returnChan'[Len(returnChan) + 1] = wret[w]
          /\ \A i \in 1 .. Len(returnChan) : returnChan'[i] = returnChan[i]
      BY <3>1, <3>2, LenProperties, AppendProperties
    <3>4. DOMAIN returnChan' = (1 .. Len(returnChan)) \cup {Len(returnChan) + 1}
      BY <3>3, LenProperties
    <3>5. \A i \in DOMAIN returnChan' : Genuine(returnChan'[i])
      BY <3>2, <3>3, <3>4 DEF ResultsGenuine
    <3>6. \A x \in Workers : wpc'[x] = "send" => x # w /\ wret'[x] = wret[x] /\ wpc'[x] = wpc[x]
      BY <2>0, <3>1
    <3> QED  BY <3>1, <3>5, <3>6 DEF ResultsGenuine, Genuine
  <2>4. ASSUME WorkerSeesCancel(w) \/ WorkerReceive(w) \/ WorkerSeesClosed(w) \/ WorkerDrops(w)
        PROVE  ResultsGenuine'
    BY <2>1, <2>4 DEF WorkerSeesCancel, WorkerReceive, WorkerSeesClosed, WorkerDrops
  <2>5. ASSUME WorkerSendsOnClosed(w) PROVE ResultsGenuine'
    BY <1>1, <2>5 DEF WorkerSendsOnClosed, Die
  <2> QED  BY <1>7, <2>2, <2>3, <2>4, <2>5 DEF Worker
<1> QED
  BY <1>2, <1>3, <1>4, <1>5, <1>6, <1>7 DEF Next, Step, Finished, Coordinator

-----------------------------------------------------------------------------
(* Fresh ids for the children of a fork: a job that has children never      *)
(* forks again, so the ids of the kicks of a Return are new.                *)
LEMMA ReturnTracked ==
  ASSUME NEW R, Books, Tracked(R), returnChan # <<>>, Head(returnChan).id \in R
  PROVE  /\ Head(returnChan).id \in DOMAIN jobs \ todo
         /\ jobs[Head(returnChan).id] = Head(returnChan).prior
<1> DEFINE rtn == Head(returnChan)
<1>1. rtn.prior \in Working /\ returnChan \in Seq(Return)
  BY HeadReturn DEF Books, TypeOK
<1>2. rtn.id \in ReturnedIds(returnChan, rtn.prior)
  BY <1>1, ReturnedIdsHead
<1> QED  BY <1>1, <1>2 DEF Tracked, OnItsWay

LEMMA HeadGenuine ==
  ASSUME Books, ResultsGenuine, returnChan # <<>>
  PROVE  Genuine(Head(returnChan))
<1>1. returnChan \in Seq(Return)
  BY DEF Books, TypeOK
<1>2. Head(returnChan) = returnChan[1] /\ 1 \in DOMAIN returnChan
  BY <1>1, LenProperties, EmptySeq DEF Head
<1> QED  BY <1>2 DEF ResultsGenuine

LEMMA KicksAreNew ==
  ASSUME Books, FreshKicks(Id), proc = "kicks", NEW i \in k .. Len(cur.kicks) - 1
  PROVE  KickId(i) \notin DOMAIN jobs
<1>1. cur.id \in Seq(Nat) /\ k \in Nat /\ cur.kicks \in Seq(StateName)
  BY DEF Books, TypeOK, Return, Id
<1>2. i \in Nat
  BY <1>1, LenProperties
<1>3. KickId(i) \in Id
  BY <1>1, <1>2, AppendProperties DEF KickId, Id
<1> QED  BY <1>3 DEF FreshKicks

LEMMA TreeInit ==
  ASSUME ForksOnce
  PROVE  Init => Tree /\ FreshKicks(Id)
BY DEF ForksOnce, Init, Tree, FreshKicks

LEMMA TreeStep ==
  ASSUME ForksOnce
  PROVE  Books /\ PanicCloses /\ Replayed /\ ResultsGenuine /\ Tracked(Id) /\ Tree
           /\ FreshKicks(Id) /\ [Next]_vars => Tree' /\ FreshKicks(Id)'
<1> SUFFICES ASSUME Books, PanicCloses, Replayed, ResultsGenuine, Tracked(Id), Tree,
                    FreshKicks(Id), [Next]_vars
             PROVE  Tree' /\ FreshKicks(Id)'
  OBVIOUS
<1> USE DEF coordVars, workerVars, others, statusVars
<1>1. DOMAIN jobs \subseteq Id
  BY DEF Books, TypeOK, IsJobMap
<1>2. ASSUME UNCHANGED jobs, proc' = "kicks" => UNCHANGED <<proc, cur, k>>
      PROVE  Tree' /\ FreshKicks(Id)'
  BY <1>2 DEF Tree, FamilyTree, FreshKicks, KickId
<1>3. ASSUME HandleReturn \/ HandleUnregistered PROVE Tree' /\ FreshKicks(Id)'
  <2> DEFINE rtn == Head(returnChan)
  <2>1. /\ rtn \in Return /\ rtn.prior \in Working /\ rtn.id \in Id
        /\ rtn.kicks \in Seq(StateName) /\ returnChan # <<>>
    BY <1>3, HeadReturn DEF HandleReturn, HandleUnregistered
  <2>2. rtn.id \in DOMAIN jobs /\ jobs[rtn.id] = rtn.prior /\ Genuine(rtn)
    BY <2>1, ReturnTracked, HeadGenuine
  <2>3. /\ jobs' = Put(jobs, rtn.id, rtn.state)
        /\ (cur' = rtn /\ k' = 0) \/ proc' = "shutdown"
    BY <1>3 DEF HandleReturn, HandleUnregistered, Panic
  <2> HIDE DEF rtn
  <2>4. PICK x \in ExecResults[rtn.prior] : x.state = rtn.state /\ x.kicks = rtn.kicks
    BY <2>2 DEF Genuine
  <2>5. rtn.prior \in NeverForks => rtn.kicks = <<>> /\ rtn.state \in NeverForks
    BY <2>1, <2>4, NeverForksClosed
  <2>6. DOMAIN jobs' = DOMAIN jobs /\ jobs'[rtn.id] = rtn.state
        /\ \A id \in DOMAIN jobs : id # rtn.id => jobs'[id] = jobs[id]
    BY <2>2, <2>3 DEF Put
  <2>7. \A id \in DOMAIN jobs : jobs[id] \in NeverForks => jobs'[id] \in NeverForks
    BY <2>2, <2>5, <2>6
  <2>8. Tree'
    BY <2>6, <2>7 DEF Tree, FamilyTree
  <2>9. ASSUME NEW i \in 0 .. Len(rtn.kicks) - 1, Append(rtn.id, i) \in DOMAIN jobs
        PROVE  FALSE
    <3>1. rtn.id # <<>> /\ i \in Nat
      BY <2>2 DEF Tree, FamilyTree
    <3>2. jobs[rtn.id] \in NeverForks
      BY <1>1, <2>1, <2>9, <3>1, ParentHasForked DEF Tree
    <3>3. rtn.kicks = <<>>
      BY <2>2, <2>5, <3>2
    <3>4. Len(<<>>) = 0
      BY EmptySeq
    <3> QED  BY <2>9, <3>3, <3>4
  <2> QED  BY <2>3, <2>6, <2>8, <2>9 DEF FreshKicks, KickId
<1>4. ASSUME KickJob \/ KickUnregistered, Alive PROVE Tree' /\ FreshKicks(Id)'
  <2> DEFINE new == KickId(k)
  <2>1. /\ proc = "kicks" /\ k < Len(cur.kicks) /\ cur' = cur
        /\ k' = k + 1 \/ proc' = "shutdown"
        /\ jobs' = Put(jobs, KickId(k), cur.kicks[k + 1])
    BY <1>4 DEF KickJob, KickUnregistered, Panic
  <2>0. exit = "running"
    BY <1>4, <2>1 DEF PanicCloses, Closing, Alive
  <2>2. /\ cur \in Return /\ cur.prior \in Working /\ cur.id \in Seq(Nat)
        /\ cur.kicks \in Seq(StateName) /\ Len(cur.kicks) \in Nat
        /\ k \in Nat /\ k \in 0 .. Len(cur.kicks)
    BY <2>1, LenProperties DEF Books, TypeOK, Return, Id
  <2>3. new \notin DOMAIN jobs
    <3>1. k \in k .. Len(cur.kicks) - 1
      BY <2>1, <2>2
    <3> QED  BY <2>1, <3>1, KicksAreNew
  <2>4. cur.id \in DOMAIN jobs /\ jobs[cur.id] = cur.state
    BY <2>0, <2>1 DEF Replayed, HandAgrees, Recorded, Unsaved
  <2>5. cur.state \in NeverForks
    <3>1. PICK x \in ExecResults[cur.prior] : x.state = cur.state /\ x.kicks = cur.kicks
      BY <2>1 DEF ResultsGenuine, Genuine
    <3>2. cur.kicks # <<>>
      BY <2>1, <2>2, EmptySeq
    <3> QED  BY <2>2, <3>1, <3>2 DEF ForksOnce
  <2>6. new \in Seq(Nat) /\ Len(new) = Len(cur.id) + 1 /\ new[Len(new)] = k
        /\ new # <<>> /\ Len(cur.id) \in Nat
    <3>1. Len(cur.id) \in Nat /\ new \in Seq(Nat) /\ Len(new) = Len(cur.id) + 1
          /\ new[Len(cur.id) + 1] = k
      BY <2>2, LenProperties, AppendProperties DEF KickId
    <3> HIDE DEF new
    <3> QED  BY <3>1, EmptySeq
  <2>7. new = Append(cur.id, new[Len(new)])
    <3>1. new = Append(cur.id, k)
      BY DEF KickId
    <3> HIDE DEF new
    <3> QED  BY <2>6, <3>1
  <2> HIDE DEF new
  <2>8. /\ DOMAIN jobs' = DOMAIN jobs \cup {new}
        /\ \A id \in DOMAIN jobs : jobs'[id] = jobs[id]
    BY <2>1, <2>3 DEF Put, new
  <2>9. ASSUME NEW child \in DOMAIN jobs'
        PROVE  /\ child # <<>>
               /\ Len(child) > 1 =>
                    \E id \in DOMAIN jobs' : /\ jobs'[id] \in NeverForks
                                             /\ child = Append(id, child[Len(child)])
    <3>1. CASE child = new
      BY <2>4, <2>5, <2>6, <2>7, <2>8, <3>1
    <3>2. CASE child # new
      <4>1. child \in DOMAIN jobs
        BY <2>8, <3>2
      <4> QED  BY <2>8, <4>1 DEF Tree, FamilyTree
    <3> QED  BY <3>1, <3>2
  <2>10. Tree'
    BY <2>9 DEF Tree, FamilyTree
  <2>11. ASSUME NEW i \in k + 1 .. Len(cur.kicks) - 1 PROVE KickId(i) \notin DOMAIN jobs'
    <3>1. i \in k .. Len(cur.kicks) - 1 /\ i \in Nat /\ i # k
      BY <2>2
    <3>2. KickId(i) \notin DOMAIN jobs
      BY <2>1, <3>1, KicksAreNew
    <3>3. KickId(i) # new
      BY <2>1, <2>2, <3>1, KickIdsDiffer DEF new
    <3> QED  BY <2>8, <3>2, <3>3
  <2> QED  BY <2>1, <2>10, <2>11 DEF FreshKicks, KickId
<1>5. ASSUME NEW id \in todo, EnqueueJob(id) PROVE Tree' /\ FreshKicks(Id)'
  BY <1>2, <1>5 DEF EnqueueJob
<1>6. ASSUME \/ InitialStatus \/ CoordinatorSeesCancel \/ DrainEnds
             \/ PersistJob \/ PersistKick \/ PersistFails \/ HandleReturnEnds
             \/ CloseJobChannels \/ CloseReturnChan
             \/ \E id \in todo : EnqueueUnregistered(id)
      PROVE  Tree' /\ FreshKicks(Id)'
  BY <1>2, <1>6 DEF InitialStatus, CoordinatorSeesCancel, DrainEnds, PersistJob,
                    PersistKick, PersistFails, HandleReturnEnds, CloseJobChannels,
                    CloseReturnChan, EnqueueUnregistered, Panic, Die
<1>7. ASSUME \/ Cancel \/ ExecAllTerminal \/ ExecStart \/ ExecReturn \/ ProgramDies
             \/ UNCHANGED vars
      PROVE  Tree' /\ FreshKicks(Id)'
  BY <1>2, <1>7 DEF Cancel, ExecAllTerminal, ExecStart, ExecReturn, ProgramDies, Die, vars
<1>8. ASSUME NEW w \in Workers, Worker(w) PROVE Tree' /\ FreshKicks(Id)'
  BY <1>2, <1>8 DEF Worker, WorkerSeesCancel, WorkerReceive, WorkerSeesClosed, WorkerExecutes,
                    WorkerDrops, WorkerSends, WorkerSendsOnClosed, Die
<1> QED
  BY <1>3, <1>4, <1>5, <1>6, <1>7, <1>8 DEF Next, Step, Finished, Coordinator

-----------------------------------------------------------------------------
(* The inductive invariant of the workflows that fork once.                *)
OneOfEach ==
  /\ PanicCloses /\ Replayed /\ EnqueuedFirst /\ ResultsGenuine /\ Tree
  /\ FreshKicks(Id) /\ Tracked(Id) /\ Alone(Id)

LEMMA OneOfEachInvariant ==
  ASSUME ForksOnce
  PROVE  Spec => [](Books /\ Untouched /\ OneOfEach)
<1>1. Init => Tree /\ FreshKicks(Id)
  BY TreeInit
<1>2. Books /\ PanicCloses /\ Replayed /\ ResultsGenuine /\ Tracked(Id) /\ Tree
        /\ FreshKicks(Id) /\ [Next]_vars => Tree' /\ FreshKicks(Id)'
  BY TreeStep
<1>3. Init => Alone(Id) /\ Tracked(Id)
  BY AloneInit
<1>4. Books /\ Untouched /\ EnqueuedFirst /\ FreshKicks(Id) /\ Tracked(Id) /\ Alone(Id)
        /\ [Next]_vars => Alone(Id)' /\ Tracked(Id)'
  BY AloneStep
<1> QED
  BY <1>1, <1>2, <1>3, <1>4, BooksInit, BooksStep, UntouchedInit, UntouchedStep, ReplayedInit,
     ReplayedStep, EnqueuedFirstInit, EnqueuedFirstStep, PanicClosesInit, PanicClosesStep,
     GenuineInit, GenuineStep, PTL
  DEF Spec, OneOfEach

-----------------------------------------------------------------------------
(* UniqueInFlight                                                          *)
HeldCopies(s) == {CopyOf("worker", w, Held(w)) : w \in Busy(s)}
ReturnedAt(i) == CopyOf("returned", i, [id |-> returnChan[i].id, state |-> returnChan[i].prior])
ReturnedCopies(s) == {ReturnedAt(i) : i \in From(returnChan, s)}

LEMMA PlaceOf ==
  ASSUME Books, \A s \in Terminal : storage.waitq[s] = <<>>, NEW c \in Copies
  PROVE  \E s \in Working : \/ c \in QueueCopies("waiting", storage.waitq[s])
                            \/ c \in QueueCopies("channel", storage.chan[s])
                            \/ c \in HeldCopies(s)
                            \/ c \in ReturnedCopies(s)
<1>1. \A s \in States \ Working : storage.waitq[s] = <<>> /\ storage.chan[s] = <<>>
  BY DEF Working, Books, TypeOK, IsStorage
<1>2. DOMAIN <<>> = {}
  OBVIOUS
<1>3. \A at : QueueCopies(at, <<>>) = {}
  BY <1>2 DEF QueueCopies
<1>4. CASE c \in WaitingCopies
  <2>1. PICK s \in States : c \in QueueCopies("waiting", storage.waitq[s])
    BY <1>4 DEF WaitingCopies
  <2>2. s \in Working
    BY <1>1, <1>3, <2>1
  <2> QED  BY <2>1, <2>2
<1>5. CASE c \in ChannelCopies
  <2>1. PICK s \in States : c \in QueueCopies("channel", storage.chan[s])
    BY <1>5 DEF ChannelCopies
  <2>2. s \in Working
    BY <1>1, <1>3, <2>1
  <2> QED  BY <2>1, <2>2
<1>6. CASE c \in WorkerCopies
  <2>1. PICK w \in Workers : InHand(w) /\ c = CopyOf("worker", w, Held(w))
    BY <1>6 DEF WorkerCopies
  <2>2. StateOf(w) \in Working /\ w \in Busy(StateOf(w))
    BY <2>1, WorkerFacts DEF Busy
  <2> QED  BY <2>1, <2>2 DEF HeldCopies
<1>7. CASE c \in ReturnCopies
  <2>1. PICK i \in DOMAIN returnChan : c = ReturnedAt(i)
    BY <1>7 DEF ReturnCopies, ReturnedAt
  <2>2. returnChan \in Seq(Return) /\ i \in 1 .. Len(returnChan)
    BY LenProperties DEF Books, TypeOK
  <2>3. returnChan[i] \in Return
    BY <2>2, ElementOfSeq
  <2>4. returnChan[i].prior \in Working /\ i \in From(returnChan, returnChan[i].prior)
    BY <2>3 DEF Return, From
  <2> QED  BY <2>1, <2>4 DEF ReturnedCopies
<1> QED  BY <1>4, <1>5, <1>6, <1>7 DEF Copies

LEMMA CopyIds ==
  /\ \A at, q : \A c \in QueueCopies(at, q) : c.id \in Ids(q)
  /\ \A s : \A c \in HeldCopies(s) : c.id \in HeldIds(s)
  /\ \A s : \A c \in ReturnedCopies(s) : c.id \in ReturnedIds(returnChan, s)
<1>1. \A at, i, job : CopyOf(at, i, job).id = job.id
  BY DEF CopyOf
<1>2. \A i : ReturnedAt(i).id = returnChan[i].id
  BY DEF ReturnedAt, CopyOf
<1> QED
  BY <1>1, <1>2
  DEF QueueCopies, Ids, HeldCopies, HeldIds, ReturnedCopies, ReturnedIds

LEMMA OneCopyEach ==
  ASSUME Books, \A s \in Terminal : storage.waitq[s] = <<>>, Tracked(Id), Alone(Id)
  PROVE  UniqueInFlight
<1> SUFFICES ASSUME NEW c \in Copies, NEW d \in Copies, c.id = d.id PROVE c = d
  BY DEF UniqueInFlight
<1>1. \A at, i, job : CopyOf(at, i, job).id = job.id
  BY DEF CopyOf
<1>2. \A i : ReturnedAt(i).id = returnChan[i].id
  BY DEF ReturnedAt, CopyOf
<1>3. ASSUME NEW s \in Working,
             NEW e, \/ e \in QueueCopies("waiting", storage.waitq[s])
                    \/ e \in QueueCopies("channel", storage.chan[s])
                    \/ e \in HeldCopies(s)
                    \/ e \in ReturnedCopies(s)
      PROVE  e.id \in OnItsWay(s) /\ e.id \in Id
  <2>1. e.id \in OnItsWay(s)
    BY <1>3, CopyIds DEF OnItsWay, StoredIds
  <2> QED  BY <2>1, IdsOnTheWay
<1>4. PICK s \in Working : \/ c \in QueueCopies("waiting", storage.waitq[s])
                           \/ c \in QueueCopies("channel", storage.chan[s])
                           \/ c \in HeldCopies(s)
                           \/ c \in ReturnedCopies(s)
  BY PlaceOf
<1>5. PICK t \in Working : \/ d \in QueueCopies("waiting", storage.waitq[t])
                           \/ d \in QueueCopies("channel", storage.chan[t])
                           \/ d \in HeldCopies(t)
                           \/ d \in ReturnedCopies(t)
  BY PlaceOf
<1>6. s = t
  <2>1. c.id \in OnItsWay(s) /\ d.id \in OnItsWay(t) /\ c.id \in Id
    BY <1>3, <1>4, <1>5
  <2> QED  BY <2>1 DEF Tracked
<1>7. AloneIn(s, Id) /\ Distinct(returnChan, Id) /\ c.id \in Id
  BY <1>3, <1>4 DEF Alone
<1>8. \A at, q : Distinct(q, Id) /\ c \in QueueCopies(at, q) /\ d \in QueueCopies(at, q) => c = d
  BY <1>1, <1>7 DEF Distinct, QueueCopies
<1>9. CASE c \in QueueCopies("waiting", storage.waitq[s])
  <2>1. c.id \in Ids(storage.waitq[s])
    BY <1>9, CopyIds
  <2>2. /\ c.id \notin Ids(storage.chan[s]) /\ c.id \notin HeldIds(s)
        /\ c.id \notin ReturnedIds(returnChan, s)
    BY <1>7, <2>1 DEF AloneIn, StoredOnce, StoredIds
  <2>3. d \in QueueCopies("waiting", storage.waitq[s])
    BY <1>5, <1>6, <2>2, CopyIds
  <2> QED  BY <1>7, <1>8, <1>9, <2>3 DEF AloneIn, StoredOnce
<1>10. CASE c \in QueueCopies("channel", storage.chan[s])
  <2>1. c.id \in Ids(storage.chan[s])
    BY <1>10, CopyIds
  <2>2. /\ c.id \notin Ids(storage.waitq[s]) /\ c.id \notin HeldIds(s)
        /\ c.id \notin ReturnedIds(returnChan, s)
    BY <1>7, <2>1 DEF AloneIn, StoredOnce, StoredIds
  <2>3. d \in QueueCopies("channel", storage.chan[s])
    BY <1>5, <1>6, <2>2, CopyIds
  <2> QED  BY <1>7, <1>8, <1>10, <2>3 DEF AloneIn, StoredOnce
<1>11. CASE c \in HeldCopies(s)
  <2>1. c.id \in HeldIds(s)
    BY <1>11, CopyIds
  <2>2. /\ c.id \notin Ids(storage.waitq[s]) /\ c.id \notin Ids(storage.chan[s])
        /\ c.id \notin ReturnedIds(returnChan, s)
    BY <1>7, <2>1 DEF AloneIn, StoredIds
  <2>3. d \in HeldCopies(s)
    BY <1>5, <1>6, <2>2, CopyIds
  <2> QED  BY <1>1, <1>7, <1>11, <2>3 DEF AloneIn, HeldOnce, HeldCopies
<1>12. CASE c \in ReturnedCopies(s)
  <2>1. c.id \in ReturnedIds(returnChan, s)
    BY <1>12, CopyIds
  <2>2. /\ c.id \notin Ids(storage.waitq[s]) /\ c.id \notin Ids(storage.chan[s])
        /\ c.id \notin HeldIds(s)
    BY <1>7, <2>1 DEF AloneIn, StoredIds
  <2>3. d \in ReturnedCopies(s)
    BY <1>5, <1>6, <2>2, CopyIds
  <2> QED  BY <1>2, <1>7, <1>12, <2>3 DEF Distinct, ReturnedCopies, From
<1> QED  BY <1>4, <1>9, <1>10, <1>11, <1>12

(* In a workflow that forks once no job is anywhere twice: never in two     *)
(* lists, channels or hands, so never executed twice at once (job.go:22),   *)
(* whatever the Concurrency and wherever the run is cancelled.              *)
THEOREM NoJobRunsTwice ==
  ASSUME ForksOnce
  PROVE  Spec => []UniqueInFlight
<1>1. Books /\ OneOfEach /\ Completion => UniqueInFlight
  BY OneCopyEach DEF OneOfEach, Completion
<1>2. Spec => [](Books /\ Untouched /\ OneOfEach)
  BY OneOfEachInvariant
<1>3. Spec => []Completion
  BY InFlightInit, InFlightStep, UntouchedInit, UntouchedStep, CompletionInit, CompletionStep,
     PTL DEF Spec
<1> QED  BY <1>1, <1>2, <1>3, PTL

-----------------------------------------------------------------------------
(* A job that has reached a terminal state is left alone: neither a late    *)
(* Return nor the fork of another job changes it (processor.go:54-55).      *)
LEMMA TerminalStep ==
  Books /\ FreshKicks(Id) /\ Tracked(Id) /\ [Next]_vars
    => [\A id \in DOMAIN jobs : jobs[id] \in Terminal => jobs'[id] = jobs[id]]_vars
<1> SUFFICES ASSUME Books, FreshKicks(Id), Tracked(Id), Next,
                    NEW id \in DOMAIN jobs, jobs[id] \in Terminal
             PROVE  jobs'[id] = jobs[id]
  OBVIOUS
<1> USE DEF coordVars, workerVars, others, statusVars
<1>1. CASE HandleReturn \/ HandleUnregistered
  <2>1. /\ returnChan # <<>>
        /\ jobs' = Put(jobs, Head(returnChan).id, Head(returnChan).state)
    BY <1>1 DEF HandleReturn, HandleUnregistered
  <2>2. jobs[Head(returnChan).id] \in Working
    BY <2>1, HeadReturn, ReturnTracked
  <2> QED  BY <2>1, <2>2 DEF Put, Working
<1>2. CASE KickJob \/ KickUnregistered
  <2>1. proc = "kicks" /\ k < Len(cur.kicks) /\ jobs' = Put(jobs, KickId(k), cur.kicks[k + 1])
    BY <1>2 DEF KickJob, KickUnregistered
  <2>2. k \in 0 .. Len(cur.kicks) /\ cur.kicks \in Seq(StateName)
    BY <2>1 DEF Books, TypeOK, Return
  <2>3. k \in k .. Len(cur.kicks) - 1
    BY <2>1, <2>2, LenProperties
  <2>4. KickId(k) \notin DOMAIN jobs
    BY <2>1, <2>3, KicksAreNew
  <2> QED  BY <2>1, <2>4 DEF Put
<1>3. CASE /\ Coordinator
           /\ ~HandleReturn /\ ~HandleUnregistered /\ ~KickJob /\ ~KickUnregistered
  BY <1>3 DEF Coordinator, EnqueueJob, EnqueueUnregistered, InitialStatus, CoordinatorSeesCancel,
              PersistJob, PersistKick, PersistFails,
              HandleReturnEnds, DrainEnds, CloseJobChannels, CloseReturnChan, Die
<1>4. CASE Cancel \/ ExecAllTerminal \/ ExecStart \/ ExecReturn \/ ProgramDies \/ UNCHANGED vars
  BY <1>4 DEF Cancel, ExecAllTerminal, ExecStart, ExecReturn, ProgramDies, Die, vars
<1>5. CASE \E w \in Workers : Worker(w)
  BY <1>5 DEF Worker, WorkerSeesCancel, WorkerReceive, WorkerSeesClosed, WorkerExecutes,
              WorkerDrops, WorkerSends, WorkerSendsOnClosed, Die
<1> QED  BY <1>1, <1>2, <1>3, <1>4, <1>5 DEF Next, Step, Finished

(* In a workflow that forks once a job that has reached a terminal state    *)
(* keeps it, to the end of the run (processor.go:54-55).                    *)
THEOREM TerminalStays ==
  ASSUME ForksOnce
  PROVE  Spec => TerminalIsFinal
<1>1. Books /\ OneOfEach /\ [Next]_vars
        => [\A id \in DOMAIN jobs : jobs[id] \in Terminal => jobs'[id] = jobs[id]]_vars
  BY TerminalStep DEF OneOfEach
<1>2. Spec => [](Books /\ Untouched /\ OneOfEach)
  BY OneOfEachInvariant
<1> QED  BY <1>1, <1>2, PTL DEF Spec, TerminalIsFinal

-----------------------------------------------------------------------------
(* FinalStatusExact: the counts of the terminal states are those of         *)
(* Run.Jobs, whenever a job is moved both are.                              *)
LEMMA ProcessJobTally ==
  ASSUME NEW ss, IsStorage(ss), NEW job \in Job, job.state \in States
  PROVE  /\ \A s \in States : ProcessJob(ss, job).completed[s] =
              ss.completed[s] + IF s = job.state /\ s \in Terminal THEN 1 ELSE 0
         /\ \A s \in Terminal : /\ ProcessJob(ss, job).executing[s] = ss.executing[s]
                                /\ ProcessJob(ss, job).waiting[s] = ss.waiting[s]
<1> DEFINE new == ProcessJob(ss, job)
           t == job.state
<1>1. /\ Terminal \subseteq States /\ t \in States
      /\ ss.completed \in [States -> Int] /\ ss.executing \in [States -> Int]
      /\ ss.waiting \in [States -> Int]
  BY ConfigAssumption DEF IsStorage, Counts
<1>2. CASE t \in Terminal
  <2>1. /\ new.completed = [ss.completed EXCEPT ![t] = @ + 1]
        /\ new.executing = ss.executing /\ new.waiting = ss.waiting
    BY <1>2, CompletedFields
  <2> HIDE DEF new, t
  <2>2. /\ \A s \in States : new.completed[s] =
              ss.completed[s] + IF s = t /\ s \in Terminal THEN 1 ELSE 0
        /\ \A s \in Terminal : new.executing[s] = ss.executing[s] /\ new.waiting[s] = ss.waiting[s]
    BY <1>1, <1>2, <2>1
  <2> QED  BY <2>2 DEF new, t
<1>3. CASE t \notin Terminal /\ ss.executing[t] < Concurrency[t]
  <2>1. /\ new.executing = [ss.executing EXCEPT ![t] = @ + 1]
        /\ new.completed = ss.completed /\ new.waiting = ss.waiting
    BY <1>3, SentFields
  <2> HIDE DEF new, t
  <2>2. /\ \A s \in States : new.completed[s] =
              ss.completed[s] + IF s = t /\ s \in Terminal THEN 1 ELSE 0
        /\ \A s \in Terminal : new.executing[s] = ss.executing[s] /\ new.waiting[s] = ss.waiting[s]
    BY <1>1, <1>3, <2>1
  <2> QED  BY <2>2 DEF new, t
<1>4. CASE t \notin Terminal /\ ~(ss.executing[t] < Concurrency[t])
  <2>1. /\ new.waiting = [ss.waiting EXCEPT ![t] = @ + 1]
        /\ new.completed = ss.completed /\ new.executing = ss.executing
    BY <1>4, QueuedFields
  <2> HIDE DEF new, t
  <2>2. /\ \A s \in States : new.completed[s] =
              ss.completed[s] + IF s = t /\ s \in Terminal THEN 1 ELSE 0
        /\ \A s \in Terminal : new.executing[s] = ss.executing[s] /\ new.waiting[s] = ss.waiting[s]
    BY <1>1, <1>4, <2>1
  <2> QED  BY <2>2 DEF new, t
<1> QED  BY <1>2, <1>3, <1>4

LEMMA RunNextWaitingJobTally ==
  ASSUME NEW ss, IsStorage(ss), NEW t \in Working
  PROVE  /\ RunNextWaitingJob(ss, t).completed = ss.completed
         /\ \A s \in Terminal : /\ RunNextWaitingJob(ss, t).executing[s] = ss.executing[s]
                                /\ RunNextWaitingJob(ss, t).waiting[s] = ss.waiting[s]
<1> DEFINE new == RunNextWaitingJob(ss, t)
<1>1. /\ Terminal \subseteq States /\ t \notin Terminal
      /\ ss.executing \in [States -> Int] /\ ss.waiting \in [States -> Int]
  BY ConfigAssumption DEF IsStorage, Counts, Working
<1>2. CASE Len(ss.waitq[t]) = 0
  <2>1. /\ new.executing = [ss.executing EXCEPT ![t] = @ - 1]
        /\ new.waiting = ss.waiting /\ new.completed = ss.completed
    BY <1>2, FreedFields
  <2> HIDE DEF new
  <2>2. /\ new.completed = ss.completed
        /\ \A s \in Terminal : new.executing[s] = ss.executing[s] /\ new.waiting[s] = ss.waiting[s]
    BY <1>1, <2>1
  <2> QED  BY <2>2 DEF new
<1>3. CASE Len(ss.waitq[t]) # 0
  <2>1. /\ new.waiting = [ss.waiting EXCEPT ![t] = @ - 1]
        /\ new.executing = ss.executing /\ new.completed = ss.completed
    BY <1>3, PassedFields
  <2> HIDE DEF new
  <2>2. /\ new.completed = ss.completed
        /\ \A s \in Terminal : new.executing[s] = ss.executing[s] /\ new.waiting[s] = ss.waiting[s]
    BY <1>1, <2>1
  <2> QED  BY <2>2 DEF new
<1> QED  BY <1>2, <1>3

LEMMA OneMoreSettled ==
  ASSUME Books, Tallied, main # "call", NEW id, NEW t \in States,
         \A s \in Terminal : /\ id \notin Settled(s)
                             /\ Settled(s)' = Settled(s) \cup IF s = t THEN {id} ELSE {},
         \A s \in Terminal : /\ storage'.executing[s] = storage.executing[s]
                             /\ storage'.waiting[s] = storage.waiting[s],
         \A s \in States : storage'.completed[s] =
           storage.completed[s] + IF s = t /\ s \in Terminal THEN 1 ELSE 0
  PROVE  Tallied'
<1>1. IsFiniteSet(DOMAIN jobs) /\ storage.completed \in [States -> Int]
      /\ Terminal \subseteq States
  BY ConfigAssumption DEF Books, TypeOK, IsJobMap, IsStorage, Counts
<1>2. ASSUME NEW s \in Terminal PROVE storage'.completed[s] = Cardinality(Settled(s)')
  <2>1. Settled(s) \subseteq DOMAIN jobs
    BY DEF Settled
  <2>2. IsFiniteSet(Settled(s))
    BY <1>1, <2>1, FS_Subset
  <2>3. CASE s = t
    <3>1. Cardinality(Settled(s) \cup {id}) = Cardinality(Settled(s)) + 1
      BY <2>2, FS_AddElement
    <3> QED  BY <1>1, <2>3, <3>1 DEF Tallied
  <2>4. CASE s # t
    <3>1. storage'.completed[s] = storage.completed[s] + 0 /\ storage.completed[s] \in Int
      BY <1>1, <2>4
    <3>2. Settled(s)' = Settled(s)
      BY <2>4
    <3> QED  BY <3>1, <3>2 DEF Tallied
  <2> QED  BY <2>3, <2>4
<1>3. ASSUME NEW s \in Working PROVE storage'.completed[s] = 0
  <2>1. s \in States /\ s \notin Terminal
    BY DEF Working
  <2>2. storage'.completed[s] = storage.completed[s] + 0 /\ storage.completed[s] = 0
    BY <2>1 DEF Tallied
  <2> QED  BY <2>2
<1> QED  BY <1>2, <1>3 DEF Tallied

LEMMA TalliedInit == Init => Tallied
BY DEF Init, Tallied

LEMMA TalliedStep ==
  Books /\ Untouched /\ EnqueuedFirst /\ FreshKicks(Id) /\ Tracked(Id) /\ Tallied /\ [Next]_vars
    => Tallied'
<1> SUFFICES ASSUME Books, Untouched, EnqueuedFirst, FreshKicks(Id), Tracked(Id), Tallied,
                    [Next]_vars
             PROVE  Tallied'
  OBVIOUS
<1> USE DEF coordVars, workerVars, others, statusVars
<1>1. IsStorage(storage) /\ Conserving(storage) /\ Terminal \subseteq States
  BY ConfigAssumption DEF Books, TypeOK, WorkConserving
<1>2. ASSUME UNCHANGED <<jobs, todo>>, main' # "call" => main # "call",
             /\ storage'.executing = storage.executing
             /\ storage'.waiting = storage.waiting
             /\ storage'.completed = storage.completed
      PROVE  Tallied'
  <2>1. \A s : Settled(s)' = Settled(s)
    BY <1>2 DEF Settled
  <2> QED  BY <1>2, <2>1 DEF Tallied
<1>3. ASSUME Coordinator PROVE main' = main /\ main # "call"
  BY <1>3 DEF Untouched, Coordinator, EnqueueJob, EnqueueUnregistered, InitialStatus,
              CoordinatorSeesCancel, HandleReturn, HandleUnregistered, KickJob,
              KickUnregistered, PersistJob, PersistKick, PersistFails, HandleReturnEnds,
              DrainEnds, CloseJobChannels, CloseReturnChan, Panic, Die
<1>4. ASSUME NEW id \in todo, EnqueueJob(id) PROVE Tallied'
  <2> DEFINE job == [id |-> id, state |-> jobs[id]]
  <2>1. job \in Job /\ job.state = jobs[id] /\ jobs[id] \in States /\ id \in DOMAIN jobs
    BY <1>4 DEF EnqueueJob, Books, TypeOK, IsJobMap, Job, StateName
  <2>2. /\ storage' = ProcessJob(storage, job) /\ jobs' = jobs /\ todo' = todo \ {id}
    BY <1>4 DEF EnqueueJob
  <2>3. main # "call"
    BY <1>3, <1>4 DEF Coordinator
  <2> HIDE DEF job
  <2>4. /\ \A s \in States : storage'.completed[s] =
              storage.completed[s] + IF s = jobs[id] /\ s \in Terminal THEN 1 ELSE 0
        /\ \A s \in Terminal : /\ storage'.executing[s] = storage.executing[s]
                               /\ storage'.waiting[s] = storage.waiting[s]
    BY <1>1, <2>1, <2>2, ProcessJobTally
  <2>5. \A s \in Terminal : /\ id \notin Settled(s)
                            /\ Settled(s)' = Settled(s) \cup IF s = jobs[id] THEN {id} ELSE {}
    BY <2>1, <2>2 DEF Settled
  <2> QED  BY <2>1, <2>3, <2>4, <2>5, OneMoreSettled
<1>5. ASSUME HandleReturn PROVE Tallied'
  <2> DEFINE rtn == Head(returnChan)
             job == [id |-> rtn.id, state |-> rtn.state]
             mid == RunNextWaitingJob(storage, rtn.prior)
  <2>1. /\ rtn \in Return /\ rtn.prior \in Working /\ rtn.id \in Id /\ rtn.state \in States
        /\ returnChan # <<>>
    BY <1>5, HeadReturn DEF HandleReturn
  <2>2. rtn.id \in DOMAIN jobs \ todo /\ jobs[rtn.id] = rtn.prior
    BY <2>1, ReturnTracked
  <2>3. job \in Job /\ job.state = rtn.state
    BY <2>1 DEF Job, StateName
  <2>4. /\ storage' = ProcessJob(mid, job) /\ todo' = todo /\ jobs' = Put(jobs, rtn.id, rtn.state)
    BY <1>5 DEF HandleReturn
  <2>5. main # "call"
    BY <1>3, <1>5 DEF Coordinator
  <2>6. /\ IsStorage(mid) /\ mid.completed = storage.completed
        /\ \A s \in Terminal : mid.executing[s] = storage.executing[s]
                               /\ mid.waiting[s] = storage.waiting[s]
    BY <1>1, <2>1, RunNextWaitingJobEffect, RunNextWaitingJobTally
  <2> HIDE DEF rtn, job, mid
  <2>7. /\ \A s \in States : storage'.completed[s] =
              mid.completed[s] + IF s = rtn.state /\ s \in Terminal THEN 1 ELSE 0
        /\ \A s \in Terminal : /\ storage'.executing[s] = mid.executing[s]
                               /\ storage'.waiting[s] = mid.waiting[s]
    BY <2>1, <2>3, <2>4, <2>6, ProcessJobTally
  <2>8. \A s \in Terminal : /\ rtn.id \notin Settled(s)
                            /\ Settled(s)' = Settled(s) \cup IF s = rtn.state THEN {rtn.id} ELSE {}
    <3>1. jobs[rtn.id] \notin Terminal
      BY <2>1, <2>2 DEF Working
    <3>2. /\ DOMAIN jobs' = DOMAIN jobs /\ jobs'[rtn.id] = rtn.state
          /\ \A id \in DOMAIN jobs : id # rtn.id => jobs'[id] = jobs[id]
      BY <2>2, <2>4 DEF Put
    <3> QED  BY <2>2, <2>4, <3>1, <3>2 DEF Settled
  <2>9. /\ \A s \in Terminal : /\ storage'.executing[s] = storage.executing[s]
                               /\ storage'.waiting[s] = storage.waiting[s]
        /\ \A s \in States : storage'.completed[s] =
              storage.completed[s] + IF s = rtn.state /\ s \in Terminal THEN 1 ELSE 0
    BY <2>6, <2>7
  <2> QED  BY <2>1, <2>5, <2>8, <2>9, OneMoreSettled
<1>6. ASSUME KickJob PROVE Tallied'
  <2> DEFINE new == KickId(k)
             st == cur.kicks[k + 1]
             job == [id |-> new, state |-> st]
  <2>1. /\ proc = "kicks" /\ k < Len(cur.kicks) /\ st \in States
        /\ storage' = ProcessJob(storage, job) /\ todo' = todo /\ jobs' = Put(jobs, new, st)
    BY <1>6 DEF KickJob
  <2>2. job \in Job /\ job.state = st
    BY <2>1, KickType DEF Job, StateName
  <2>3. new \notin DOMAIN jobs
    <3>1. k \in 0 .. Len(cur.kicks) /\ cur.kicks \in Seq(StateName)
      BY <2>1 DEF Books, TypeOK, Return
    <3>2. k \in k .. Len(cur.kicks) - 1
      BY <2>1, <3>1, LenProperties
    <3> QED  BY <2>1, <3>2, KicksAreNew
  <2>4. todo = {} /\ main # "call"
    BY <1>3, <1>6, <2>1 DEF EnqueuedFirst, Closing, Coordinator
  <2> HIDE DEF new, st, job
  <2>5. /\ \A s \in States : storage'.completed[s] =
              storage.completed[s] + IF s = st /\ s \in Terminal THEN 1 ELSE 0
        /\ \A s \in Terminal : /\ storage'.executing[s] = storage.executing[s]
                               /\ storage'.waiting[s] = storage.waiting[s]
    BY <1>1, <2>1, <2>2, ProcessJobTally
  <2>6. \A s \in Terminal : /\ new \notin Settled(s)
                            /\ Settled(s)' = Settled(s) \cup IF s = st THEN {new} ELSE {}
    BY <2>1, <2>3, <2>4 DEF Settled, Put
  <2> QED  BY <2>1, <2>4, <2>5, <2>6, OneMoreSettled
<1>7. ASSUME \/ InitialStatus \/ CoordinatorSeesCancel \/ DrainEnds
             \/ PersistJob \/ PersistKick \/ PersistFails \/ HandleReturnEnds
             \/ CloseJobChannels \/ CloseReturnChan
             \/ \E id \in todo : EnqueueUnregistered(id)
             \/ Cancel \/ ExecReturn \/ ProgramDies \/ UNCHANGED vars
      PROVE  Tallied'
  <2>1. UNCHANGED <<jobs, todo, storage>> /\ (main' # "call" => main # "call")
    BY <1>7 DEF InitialStatus, CoordinatorSeesCancel, DrainEnds, PersistJob, PersistKick,
                PersistFails, HandleReturnEnds, CloseJobChannels, CloseReturnChan,
                EnqueueUnregistered, Cancel, ExecReturn, ProgramDies, Die, vars
  <2> QED  BY <1>2, <2>1
<1>8. ASSUME NEW w \in Workers, Worker(w) PROVE Tallied'
  <2>1. UNCHANGED <<jobs, todo, main>>
    BY <1>8 DEF Worker, WorkerSeesCancel, WorkerReceive, WorkerSeesClosed, WorkerExecutes,
                WorkerDrops, WorkerSends, WorkerSendsOnClosed, Die
  <2>2. /\ storage'.executing = storage.executing
        /\ storage'.waiting = storage.waiting
        /\ storage'.completed = storage.completed
    <3>1. DOMAIN storage = StorageFields
      BY <1>1 DEF IsStorage
    <3> QED  BY <1>8, <3>1 DEF Worker, WorkerSeesCancel, WorkerReceive, WorkerSeesClosed,
                WorkerExecutes, WorkerDrops, WorkerSends, WorkerSendsOnClosed, Die, StorageFields
  <2> QED  BY <1>2, <2>1, <2>2
<1>9. ASSUME main = "call"
      PROVE  /\ storage = NewStateStorage /\ todo = {}
             /\ \A s \in States : /\ storage.executing[s] = 0 /\ storage.waiting[s] = 0
                                  /\ storage.completed[s] = 0
  BY <1>9 DEF Untouched, EnqueuedFirst, Closing, NewStateStorage
<1>10. ASSUME ExecStart PROVE Tallied'
  <2>1. main = "call" /\ storage' = storage /\ todo' = DOMAIN jobs /\ jobs' = jobs
    BY <1>10 DEF ExecStart
  <2>2. \A s : Settled(s)' = {}
    BY <2>1 DEF Settled
  <2>3. Cardinality({}) = 0
    BY FS_EmptySet
  <2> QED  BY <1>1, <1>9, <2>1, <2>2, <2>3 DEF Tallied, Working
<1>11. ASSUME ExecAllTerminal PROVE Tallied'
  <2> DEFINE total(s) == storage.completed[s] + Cardinality({id \in DOMAIN jobs : jobs[id] = s})
  <2>1. /\ main = "call" /\ UNCHANGED <<jobs, todo>> /\ AllJobsAreTerminal
        /\ storage' = [storage EXCEPT !.completed =
              [s \in States |-> @[s] + Cardinality({id \in DOMAIN jobs : jobs[id] = s})]]
    BY <1>11 DEF ExecAllTerminal
  <2>2. /\ storage'.executing = storage.executing /\ storage'.waiting = storage.waiting
        /\ storage'.completed = [s \in States |-> total(s)]
    BY <1>1, <2>1 DEF IsStorage, StorageFields
  <2>3. \A s \in States : storage'.completed[s] = Cardinality(Settled(s)')
    <3> SUFFICES ASSUME NEW s \in States PROVE storage'.completed[s] = Cardinality(Settled(s)')
      OBVIOUS
    <3>1. Settled(s)' = {id \in DOMAIN jobs : jobs[id] = s}
      BY <1>9, <2>1 DEF Settled
    <3>2. IsFiniteSet(DOMAIN jobs)
      BY DEF Books, TypeOK, IsJobMap
    <3>3. Cardinality({id \in DOMAIN jobs : jobs[id] = s}) \in Nat
      <4>1. IsFiniteSet({id \in DOMAIN jobs : jobs[id] = s})
        BY <3>2, FS_Subset
      <4> QED  BY <4>1, FS_CardinalityType
    <3>4. storage'.completed[s] = 0 + Cardinality({id \in DOMAIN jobs : jobs[id] = s})
      BY <1>9, <2>1, <2>2
    <3> QED  BY <3>1, <3>3, <3>4
  <2>4. \A s \in Working : s \in States /\ Settled(s)' = {}
    BY <1>9, <2>1 DEF Settled, AllJobsAreTerminal, Working
  <2>5. \A s \in Working : storage'.completed[s] = 0
    BY <2>3, <2>4, FS_EmptySet
  <2> QED  BY <1>1, <1>9, <2>1, <2>2, <2>3, <2>5 DEF Tallied
<1>12. ASSUME HandleUnregistered PROVE Tallied'
  <2> DEFINE rtn == Head(returnChan)
  <2>1. rtn.prior \in Working /\ returnChan # <<>> /\ rtn.state \notin States
    BY <1>12, HeadReturn DEF HandleUnregistered
  <2>2. rtn.id \in DOMAIN jobs \ todo /\ jobs[rtn.id] = rtn.prior
    BY <2>1, ReturnTracked, HeadReturn
  <2>3. /\ storage' = RunNextWaitingJob(storage, rtn.prior) /\ todo' = todo
        /\ jobs' = Put(jobs, rtn.id, rtn.state)
    BY <1>12 DEF HandleUnregistered
  <2>4. main' = main /\ main # "call"
    BY <1>3, <1>12 DEF Coordinator
  <2> HIDE DEF rtn
  <2>5. /\ storage'.completed = storage.completed
        /\ \A s \in Terminal : storage'.executing[s] = storage.executing[s]
                               /\ storage'.waiting[s] = storage.waiting[s]
    BY <1>1, <2>1, <2>3, RunNextWaitingJobTally
  <2>6. \A s \in Terminal : Settled(s)' = Settled(s)
    BY <1>1, <2>1, <2>2, <2>3 DEF Settled, Put, Working
  <2> QED  BY <2>4, <2>5, <2>6 DEF Tallied
<1>13. ASSUME KickUnregistered PROVE Tallied'
  <2>1. /\ proc = "kicks" /\ k < Len(cur.kicks) /\ cur.kicks[k + 1] \notin States
        /\ UNCHANGED <<storage, todo>> /\ jobs' = Put(jobs, KickId(k), cur.kicks[k + 1])
    BY <1>13 DEF KickUnregistered
  <2>2. k \in 0 .. Len(cur.kicks) /\ cur.kicks \in Seq(StateName)
    BY <2>1 DEF Books, TypeOK, Return
  <2>3. k \in k .. Len(cur.kicks) - 1
    BY <2>1, <2>2, LenProperties
  <2>4. KickId(k) \notin DOMAIN jobs
    BY <2>1, <2>3, KicksAreNew
  <2>5. main' = main /\ main # "call"
    BY <1>3, <1>13 DEF Coordinator
  <2>6. \A s \in Terminal : Settled(s)' = Settled(s)
    BY <1>1, <2>1, <2>4 DEF Settled, Put
  <2> QED  BY <2>1, <2>5, <2>6 DEF Tallied
<1> QED
  BY <1>4, <1>5, <1>6, <1>7, <1>8, <1>10, <1>11, <1>12, <1>13
  DEF Next, Step, Finished, Coordinator

(* What the listener has seen when the coordinator ends is never outdated:  *)
(* the workers only take jobs that the counts already include.              *)
LEMMA LastWordInit == Init => LastWord
BY DEF Init, LastWord, Closing

LEMMA LastWordStep ==
  InFlight /\ Untouched /\ Completion /\ FreshUnlessDue /\ LastWord /\ [Next]_vars => LastWord'
<1> SUFFICES ASSUME InFlight, Untouched, Completion, FreshUnlessDue, LastWord, [Next]_vars,
                    exit = "running", exit' = "running"
             PROVE  LastWord'
  BY ExitStays DEF LastWord
<1> USE DEF coordVars, workerVars, others, statusVars
<1>1. ASSUME UNCHANGED <<proc, main, shown>>, ctxDone => ctxDone',
             StatusCounts(storage)' = StatusCounts(storage)
      PROVE  LastWord'
  BY <1>1 DEF LastWord, Closing, Fresh
<1>2. ASSUME NEW w \in Workers, Worker(w) PROVE LastWord'
  <2>1. UNCHANGED <<proc, main, shown, ctxDone>>
    BY <1>2 DEF Worker, WorkerSeesCancel, WorkerReceive, WorkerSeesClosed, WorkerExecutes,
                WorkerDrops, WorkerSends, WorkerSendsOnClosed, Die
  <2>2. StatusCounts(storage)' = StatusCounts(storage)
    <3>1. DOMAIN storage = StorageFields
      BY DEF InFlight, Books, TypeOK, IsStorage
    <3> QED
      BY <1>2, <3>1 DEF StatusCounts, StorageFields, Worker, WorkerSeesCancel, WorkerReceive,
         WorkerSeesClosed, WorkerExecutes, WorkerDrops, WorkerSends, WorkerSendsOnClosed, Die
  <2> QED  BY <1>1, <2>1, <2>2
<1>3. ASSUME Coordinator PROVE LastWord'
  <2>1. UNCHANGED <<main, ctxDone>>
    BY <1>3 DEF Coordinator, EnqueueJob, EnqueueUnregistered, InitialStatus,
                CoordinatorSeesCancel, HandleReturn, HandleUnregistered, KickJob,
                KickUnregistered, PersistJob, PersistKick, PersistFails, HandleReturnEnds,
                DrainEnds, CloseJobChannels, CloseReturnChan, Panic, Die
  <2>2. main # "nil"
    <3>1. proc \notin {"off", "done"}
      BY <1>3 DEF Coordinator, EnqueueJob, EnqueueUnregistered, InitialStatus,
                  CoordinatorSeesCancel, HandleReturn, HandleUnregistered, KickJob,
                  KickUnregistered, PersistJob, PersistKick, PersistFails, HandleReturnEnds,
                  DrainEnds, CloseJobChannels, CloseReturnChan
    <3> QED  BY <3>1 DEF Completion, Ended
  <2>3. ASSUME ~Closing' \/ ctxDone PROVE LastWord'
    BY <2>1, <2>2, <2>3 DEF LastWord
  <2>4. ASSUME DrainEnds PROVE LastWord'
    <3>1. Fresh'
      BY <2>4 DEF DrainEnds, FreshUnlessDue, Fresh, StatusCounts
    <3> QED  BY <3>1 DEF LastWord
  <2>5. ASSUME CloseJobChannels \/ CloseReturnChan PROVE LastWord'
    BY <2>1, <2>5 DEF CloseJobChannels, CloseReturnChan, LastWord, Closing, Fresh, StatusCounts
  <2>6. ASSUME CoordinatorSeesCancel PROVE LastWord'
    BY <2>3, <2>6 DEF CoordinatorSeesCancel
  <2>7. /\ ~HandleUnregistered /\ ~KickUnregistered /\ ~PersistFails
        /\ \A id \in todo : ~EnqueueUnregistered(id)
    BY DyingSteps
  <2>8. ASSUME NEW id \in todo, EnqueueJob(id) PROVE LastWord'
    BY <2>3, <2>8 DEF EnqueueJob, Closing
  <2>9. ASSUME InitialStatus \/ HandleReturn \/ KickJob \/ PersistJob \/ PersistKick \/ HandleReturnEnds
        PROVE  LastWord'
    BY <2>3, <2>9 DEF InitialStatus, HandleReturn, KickJob, PersistJob, PersistKick,
                      HandleReturnEnds, Closing
  <2> QED
    BY <1>3, <2>4, <2>5, <2>6, <2>7, <2>8, <2>9 DEF Coordinator
<1>4. ASSUME Cancel \/ UNCHANGED vars PROVE LastWord'
  BY <1>1, <1>4 DEF Cancel, vars, StatusCounts
<1>5. ASSUME ExecAllTerminal PROVE LastWord'
  <2>1. Fresh'
    BY <1>5 DEF ExecAllTerminal, Fresh, StatusCounts
  <2> QED  BY <2>1 DEF LastWord
<1>6. ASSUME ExecStart PROVE LastWord'
  BY <1>6 DEF ExecStart, LastWord, Closing
<1>7. ASSUME ExecReturn PROVE LastWord'
  <2>1. /\ proc = "done" /\ UNCHANGED <<proc, shown, storage, ctxDone>>
        /\ main' = "nil" => ~ctxDone
    BY <1>7 DEF ExecReturn
  <2>2. ~ctxDone => Fresh
    BY <2>1 DEF LastWord, Closing
  <2> QED  BY <2>1, <2>2 DEF LastWord, Fresh, StatusCounts
<1> QED
  BY <1>2, <1>3, <1>4, <1>5, <1>6, <1>7, DyingSteps DEF Next, Step, Finished

(* When Exec answers nil the counts last shown to the listener are those of *)
(* Run.Jobs: nothing executing, nothing waiting, and per terminal state the *)
(* number of its jobs (processor.go:300-308, 367-369).                      *)
THEOREM FinalCountsAreExact ==
  ASSUME ForksOnce
  PROVE  Spec => []FinalStatusExact
<1>1. InFlight /\ EnqueuedFirst /\ Completion /\ Tallied /\ LastWord => FinalStatusExact
  <2> SUFFICES ASSUME InFlight, EnqueuedFirst, Completion, Tallied, LastWord, main = "nil",
                      exit = "running"
               PROVE  shown = <<[s \in States |-> 0], [s \in States |-> 0],
                                [s \in States |-> Cardinality(JobsIn(s))]>>
    BY DEF FinalStatusExact
  <2>1. Quiet /\ todo = {} /\ IsStorage(storage) /\ Conserving(storage)
    BY DEF Completion, Ended, EnqueuedFirst, InFlight, Books, TypeOK, WorkConserving
  <2>2. \A s \in States : Settled(s) = JobsIn(s)
    BY <2>1 DEF Settled, JobsIn
  <2>3. \A s \in States : s \in Terminal \/ s \in Working
    BY DEF Working
  <2>4. ASSUME NEW s \in Working
        PROVE  /\ storage.executing[s] = 0 /\ storage.waiting[s] = 0
               /\ storage.completed[s] = Cardinality(JobsIn(s))
    <3>1. storage.executing[s] = 0 /\ storage.waitq[s] = <<>>
      BY <2>1, QuietIsEmpty DEF Quiet
    <3>2. storage.waiting[s] = Len(<<>>)
      BY <2>1, <3>1 DEF Conserving
    <3>3. JobsIn(s) = {}
      BY <2>1 DEF Quiet, JobsIn, Working
    <3>4. storage.completed[s] = 0
      BY DEF Tallied
    <3> QED  BY <3>1, <3>2, <3>3, <3>4, EmptySeq, FS_EmptySet
  <2>5. ASSUME NEW s \in Terminal
        PROVE  /\ storage.executing[s] = 0 /\ storage.waiting[s] = 0
               /\ storage.completed[s] = Cardinality(JobsIn(s))
    <3>1. s \in States
      BY ConfigAssumption
    <3> QED  BY <2>2, <3>1 DEF Tallied
  <2>6. /\ storage.executing = [s \in States |-> 0]
        /\ storage.waiting = [s \in States |-> 0]
        /\ storage.completed = [s \in States |-> Cardinality(JobsIn(s))]
    BY <2>1, <2>3, <2>4, <2>5 DEF IsStorage, Counts
  <2> QED  BY <2>6 DEF LastWord, Fresh, StatusCounts
<1>2. Spec => [](Books /\ Untouched /\ OneOfEach)
  BY OneOfEachInvariant
<1>3. Books /\ Untouched /\ OneOfEach /\ Tallied /\ [Next]_vars => Tallied'
  BY TalliedStep DEF OneOfEach
<1>4. Spec => []Tallied
  BY <1>2, <1>3, TalliedInit, PTL DEF Spec
<1>5. Spec => [](InFlight /\ Completion /\ LastWord /\ EnqueuedFirst)
  <2>1. InFlight => Books
    BY DEF InFlight
  <2> QED
    BY <2>1, InFlightInit, InFlightStep, UntouchedInit, UntouchedStep, CompletionInit,
       CompletionStep, EnqueuedFirstInit, EnqueuedFirstStep, FreshInit, FreshStep,
       LastWordInit, LastWordStep, PTL DEF Spec
<1> QED  BY <1>1, <1>4, <1>5, PTL

-----------------------------------------------------------------------------
(* Refinement: what the goroutines do to the run is what Workflow allows.   *)
(* The jobs of the run that the coordinator still adds, from the kick lo    *)
(* on, before it is done or panics:                                         *)
Reached(lo, kicks) ==
  {i \in lo .. Len(kicks) - 1 : \A h \in lo + 1 .. i : kicks[h] \in States}

Coming(id, lo, kicks) ==
  [child \in {Append(id, i) : i \in Reached(lo, kicks)} |-> kicks[child[Len(child)] + 1]]

(* Every job that the coordinator has enqueued or received is in a state    *)
(* that is registered: it panics over the first that is not.                *)
Known ==
  exit = "running" /\ main # "call" => \A id \in DOMAIN jobs \ todo : jobs[id] \in States

LEMMA KnownInit == Init => Known
BY DEF Init, Known

LEMMA KnownStep == Books /\ Untouched /\ Known /\ [Next]_vars => Known'
<1> SUFFICES ASSUME Books, Untouched, Known, [Next]_vars, exit = "running", exit' = "running"
             PROVE  Known'
  BY ExitStays DEF Known
<1> USE DEF coordVars, workerVars, others, statusVars
<1>1. ASSUME UNCHANGED <<jobs, todo>>, main' # "call" => main # "call" PROVE Known'
  BY <1>1 DEF Known
<1>2. ASSUME NEW id \in todo, EnqueueJob(id) PROVE Known'
  BY <1>2 DEF EnqueueJob, Known
<1>3. ASSUME HandleReturn \/ KickJob PROVE Known'
  <2>1. main # "call"
    BY <1>3 DEF HandleReturn, KickJob, Untouched
  <2>2. todo' = todo /\ main' = main
    BY <1>3 DEF HandleReturn, KickJob
  <2>3. \/ /\ jobs' = Put(jobs, Head(returnChan).id, Head(returnChan).state)
           /\ Head(returnChan).state \in States
        \/ jobs' = Put(jobs, KickId(k), cur.kicks[k + 1]) /\ cur.kicks[k + 1] \in States
    BY <1>3 DEF HandleReturn, KickJob
  <2> QED  BY <2>1, <2>2, <2>3 DEF Known, Put
<1>4. ASSUME \/ InitialStatus \/ CoordinatorSeesCancel \/ DrainEnds
             \/ PersistJob \/ PersistKick \/ HandleReturnEnds
             \/ CloseJobChannels \/ CloseReturnChan
             \/ Cancel \/ ExecReturn \/ UNCHANGED vars
      PROVE  Known'
  BY <1>1, <1>4 DEF InitialStatus, CoordinatorSeesCancel, DrainEnds, PersistJob, PersistKick,
                    HandleReturnEnds, CloseJobChannels, CloseReturnChan, Cancel, ExecReturn, vars
<1>5. ASSUME NEW w \in Workers, Worker(w) PROVE Known'
  BY <1>1, <1>5 DEF Worker, WorkerSeesCancel, WorkerReceive, WorkerSeesClosed, WorkerExecutes,
                    WorkerDrops, WorkerSends, WorkerSendsOnClosed, Die
<1>6. ASSUME ExecStart PROVE Known'
  BY <1>6 DEF ExecStart, Known
<1>7. ASSUME ExecAllTerminal PROVE Known'
  BY <1>7, ConfigAssumption DEF ExecAllTerminal, AllJobsAreTerminal, Known
<1> QED
  BY <1>2, <1>3, <1>4, <1>5, <1>6, <1>7, DyingSteps DEF Next, Step, Finished, Coordinator

LEMMA PoolCases ==
  /\ proc # "kicks" => Pool = jobs
  /\ proc = "kicks" => Pool = Overlay(Coming(cur.id, k, cur.kicks), jobs)
BY DEF Pool, Coming, Reached, KickId

LEMMA OutcomeCases ==
  /\ main = "nil" /\ exit = "running" => Outcome = "finished"
  /\ Returned /\ ~(main = "nil" /\ exit = "running") => Outcome = "stopped"
  /\ main \notin {"nil", "ctxErr"} => Outcome = "running"
BY DEF Outcome, Returned

LEMMA PromiseInit == Init => Promise!Init
<1> SUFFICES ASSUME Init PROVE Promise!Init
  OBVIOUS
<1>1. Pool = jobs /\ Outcome = "running"
  BY PoolCases, OutcomeCases DEF Init
<1> QED  BY <1>1 DEF Init, Promise!Init

(* Adding a kick to Run.Jobs is no step of the workflow: the fork appeared  *)
(* when the Return was received.                                            *)
LEMMA KickIsSilent ==
  ASSUME Books, KickJob
  PROVE  Pool' = Pool
<1> DEFINE new == KickId(k)
           old == Coming(cur.id, k, cur.kicks)
           rest == Coming(cur.id, k + 1, cur.kicks)
           n == Len(cur.kicks)
<1>1. /\ proc = "kicks" /\ proc' = "kicks" /\ cur' = cur /\ k' = k + 1 /\ k < n
      /\ jobs' = Put(jobs, new, cur.kicks[k + 1]) /\ cur.kicks[k + 1] \in States
  BY DEF KickJob
<1>2. /\ cur.id \in Seq(Nat) /\ cur.kicks \in Seq(StateName) /\ n \in Nat
      /\ k \in Nat /\ k \in 0 .. n
  BY <1>1, LenProperties DEF Books, TypeOK, Return, Id
<1>0. /\ Reached(k, cur.kicks) = Reached(k + 1, cur.kicks) \cup {k}
      /\ \A i \in Reached(k + 1, cur.kicks) : i \in Nat /\ i # k
  <2>1. k .. n - 1 = (k + 1 .. n - 1) \cup {k} /\ k + 1 .. k = {}
    BY <1>1, <1>2
  <2>2. ASSUME NEW i \in k + 1 .. n - 1
        PROVE  k + 1 .. i = (k + 1 + 1 .. i) \cup {k + 1} /\ i \in Nat /\ i # k
    BY <1>2
  <2> HIDE DEF n
  <2>3. \A i \in k + 1 .. n - 1 :
          (\A h \in k + 1 .. i : cur.kicks[h] \in States)
            <=> (\A h \in k + 1 + 1 .. i : cur.kicks[h] \in States)
    BY <1>1, <2>2
  <2> QED  BY <2>1, <2>2, <2>3 DEF Reached, n
<1>3. Pool = Overlay(old, jobs)
  BY <1>1, PoolCases
<1>4. Pool' = Overlay(rest, jobs')
  <2>1. proc' = "kicks" => Pool' = Overlay(Coming(cur.id, k, cur.kicks)', jobs')
    BY DEF Pool, Coming, Reached, KickId
  <2> QED  BY <1>1, <2>1 DEF Coming, Reached
<1>5. \A i \in Nat : KickId(i) = new => i = k
  BY <1>1, <1>2, KickIdsDiffer
<1>6. new[Len(new)] = k
  <2>1. Len(cur.id) \in Nat /\ Len(new) = Len(cur.id) + 1 /\ new[Len(cur.id) + 1] = k
    BY <1>2, LenProperties, AppendProperties DEF KickId
  <2> HIDE DEF new
  <2> QED  BY <2>1
<1>7. DOMAIN old = DOMAIN rest \cup {new} /\ new \notin DOMAIN rest
  <2>1. /\ DOMAIN old = {KickId(i) : i \in Reached(k, cur.kicks)}
        /\ DOMAIN rest = {KickId(i) : i \in Reached(k + 1, cur.kicks)}
    BY DEF Coming, KickId
  <2> HIDE DEF new, old, rest
  <2>2. new \notin DOMAIN rest
    BY <1>0, <1>5, <2>1
  <2>3. new = KickId(k)
    BY DEF new
  <2> QED  BY <1>0, <2>1, <2>2, <2>3
<1>8. /\ old[new] = cur.kicks[k + 1]
      /\ \A x \in DOMAIN rest : rest[x] = old[x]
  <2>1. \A x \in DOMAIN old : old[x] = cur.kicks[x[Len(x)] + 1]
    BY DEF Coming
  <2>2. \A x \in DOMAIN rest : rest[x] = cur.kicks[x[Len(x)] + 1]
    BY DEF Coming
  <2> HIDE DEF new, old, rest
  <2> QED  BY <1>6, <1>7, <2>1, <2>2
<1> HIDE DEF new, old, rest
<1>9. /\ DOMAIN jobs' = DOMAIN jobs \cup {new} /\ jobs'[new] = cur.kicks[k + 1]
      /\ \A x \in DOMAIN jobs : x # new => jobs'[x] = jobs[x]
  BY <1>1 DEF Put
<1>10. DOMAIN old \cup DOMAIN jobs = DOMAIN rest \cup DOMAIN jobs'
  BY <1>7, <1>9
<1>11. ASSUME NEW x \in DOMAIN old \cup DOMAIN jobs
       PROVE  (IF x \in DOMAIN old THEN old[x] ELSE jobs[x])
                = (IF x \in DOMAIN rest THEN rest[x] ELSE jobs'[x])
  <2>1. CASE x = new
    BY <1>7, <1>8, <1>9, <2>1
  <2>2. CASE x # new /\ x \in DOMAIN rest
    BY <1>7, <1>8, <2>2
  <2>3. CASE x # new /\ x \notin DOMAIN rest
    BY <1>7, <1>9, <1>11, <2>3
  <2> QED  BY <2>1, <2>2, <2>3
<1>12. Overlay(old, jobs) = Overlay(rest, jobs')
  BY <1>10, <1>11 DEF Overlay
<1> QED  BY <1>3, <1>4, <1>12

(* Nor is the kick that the coordinator panics over: the last that the run  *)
(* takes over of the fork.                                                  *)
LEMMA LastKickIsSilent ==
  ASSUME Books, KickUnregistered
  PROVE  Pool' = Pool
<1> DEFINE new == KickId(k)
           old == Coming(cur.id, k, cur.kicks)
<1>1. /\ proc = "kicks" /\ proc' = "shutdown" /\ k < Len(cur.kicks)
      /\ jobs' = Put(jobs, new, cur.kicks[k + 1]) /\ cur.kicks[k + 1] \notin States
  BY DEF KickUnregistered, Panic
<1>2. /\ cur.id \in Seq(Nat) /\ cur.kicks \in Seq(StateName) /\ Len(cur.kicks) \in Nat
      /\ k \in Nat /\ Len(cur.id) \in Nat
  BY <1>1, LenProperties DEF Books, TypeOK, Return, Id
<1>3. Reached(k, cur.kicks) = {k}
  <2>1. k \in k .. Len(cur.kicks) - 1 /\ k + 1 .. k = {}
    BY <1>1, <1>2
  <2>2. \A i \in k .. Len(cur.kicks) - 1 : i = k \/ k + 1 \in k + 1 .. i
    BY <1>2
  <2> QED  BY <1>1, <2>1, <2>2 DEF Reached
<1>4. new[Len(new)] = k
  <2>1. Len(new) = Len(cur.id) + 1 /\ new[Len(cur.id) + 1] = k
    BY <1>2, AppendProperties DEF KickId
  <2> HIDE DEF new
  <2> QED  BY <2>1
<1>5. DOMAIN old = {new} /\ old[new] = cur.kicks[k + 1]
  BY <1>3, <1>4 DEF Coming, KickId
<1>6. Pool = Overlay(old, jobs) /\ Pool' = jobs'
  BY <1>1, PoolCases DEF Pool
<1> HIDE DEF old, new
<1>7. Overlay(old, jobs) = Put(jobs, new, cur.kicks[k + 1])
  BY <1>5 DEF Overlay, Put
<1> QED  BY <1>1, <1>6, <1>7

(* A Return that is received advances its job by one result of State.Exec,  *)
(* and its whole fork appears at once, or as much of it as is taken over.   *)
LEMMA ReturnAdvances ==
  ASSUME Books, Untouched, EnqueuedFirst, PanicCloses, ResultsGenuine, Tracked(Id), Completion,
         Known, FreshKicks(Id)', Alive, HandleReturn \/ HandleUnregistered
  PROVE  Promise!Next
<1> DEFINE rtn == Head(returnChan)
           fork == Promise!Children(rtn.id, rtn)
<1>1. /\ rtn \in Return /\ rtn.prior \in Working /\ rtn.id \in Id
      /\ rtn.kicks \in Seq(StateName) /\ returnChan # <<>>
  BY HeadReturn DEF HandleReturn, HandleUnregistered
<1>2. rtn.id \in DOMAIN jobs /\ jobs[rtn.id] = rtn.prior /\ Genuine(rtn)
  BY <1>1, ReturnTracked, HeadGenuine
<1>3. /\ proc \in {"select", "drain"} /\ main' = main
      /\ jobs' = Put(jobs, rtn.id, rtn.state)
      /\ \/ proc' = "kicks" /\ cur' = rtn /\ k' = 0 /\ rtn.state \in States
         \/ proc' = "shutdown" /\ rtn.state \notin States
  BY DEF HandleReturn, HandleUnregistered, Panic, others
<1>4. exit = "running" /\ todo = {} /\ main \notin {"call", "nil", "ctxErr"}
  <2>1. exit = "running"
    BY <1>3 DEF PanicCloses, Closing, Alive
  <2>2. todo = {}
    BY <1>3 DEF EnqueuedFirst, Closing
  <2> QED  BY <1>3, <2>1, <2>2 DEF Untouched, Completion, Ended
<1> HIDE DEF rtn
<1>5. Pool = jobs
  BY <1>3, PoolCases
<1>6. DOMAIN fork = {Append(rtn.id, i) : i \in Promise!Taken(rtn)}
  BY DEF Promise!Children
<1>7. Pool' = Overlay(fork, jobs')
  <2>1. CASE rtn.state \in States
    <3>1. proc' = "kicks" => Pool' = Overlay(Coming(cur.id, k, cur.kicks)', jobs')
      BY DEF Pool, Coming, Reached, KickId
    <3>2. Promise!Taken(rtn) = Reached(0, rtn.kicks)
      <4>1. 0 + 1 = 1
        OBVIOUS
      <4> QED  BY <2>1, <4>1 DEF Promise!Taken, Reached
    <3>3. Coming(cur.id, k, cur.kicks)' = Coming(rtn.id, 0, rtn.kicks)
      BY <1>3, <2>1 DEF Coming, Reached
    <3>4. Coming(rtn.id, 0, rtn.kicks) = fork
      BY <3>2 DEF Coming, Promise!Children
    <3> QED  BY <1>3, <2>1, <3>1, <3>3, <3>4
  <2>2. CASE rtn.state \notin States
    <3>1. Pool' = jobs'
      BY <1>3, <2>2 DEF Pool
    <3>2. DOMAIN fork = {}
      BY <1>6, <2>2 DEF Promise!Taken
    <3> HIDE DEF fork
    <3>3. jobs' = [x \in DOMAIN jobs' |-> jobs'[x]]
      BY <1>3 DEF Put
    <3> QED  BY <3>1, <3>2, <3>3 DEF Overlay
  <2> QED  BY <2>1, <2>2
<1>8. DOMAIN fork \cap DOMAIN Pool = {}
  <2>1. ASSUME NEW i \in Promise!Taken(rtn) PROVE Append(rtn.id, i) \notin DOMAIN jobs'
    <3>1. i \in 0 .. Len(rtn.kicks) - 1 /\ rtn.state \in States
      BY DEF Promise!Taken
    <3>2. i \in Nat /\ rtn.id \in Seq(Nat)
      BY <1>1, <3>1, LenProperties DEF Id
    <3>3. Append(rtn.id, i) \in Id
      BY <3>2, AppendProperties DEF Id
    <3> QED  BY <1>3, <3>1, <3>3 DEF FreshKicks, KickId
  <2> HIDE DEF fork
  <2>2. \A i \in Promise!Taken(rtn) : Append(rtn.id, i) \notin DOMAIN jobs
    BY <1>3, <2>1 DEF Put
  <2> QED  BY <1>5, <1>6, <2>2
<1>9. PICK r \in ExecResults[rtn.prior] : r.state = rtn.state /\ r.kicks = rtn.kicks
  BY <1>2 DEF Genuine
<1>10. Promise!Children(rtn.id, r) = fork
  BY <1>9 DEF Promise!Children, Promise!Taken
<1> HIDE DEF fork
<1>11. Outcome = "running" /\ Outcome' = "running"
  BY <1>3, <1>4, OutcomeCases DEF Outcome, Returned
<1>12. \A x \in DOMAIN Pool : Pool[x] \in States
  BY <1>4, <1>5 DEF Known
<1>13. Promise!Overlay(fork, Promise!Put(Pool, rtn.id, r.state)) = Overlay(fork, jobs')
  BY <1>3, <1>5, <1>9 DEF Promise!Overlay, Overlay, Promise!Put, Put
<1>14. Promise!Advance(rtn.id, r)
  BY <1>7, <1>8, <1>10, <1>11, <1>12, <1>13 DEF Promise!Advance
<1>15. rtn.id \in DOMAIN Pool /\ Pool[rtn.id] \in States \ Terminal /\ r \in ExecResults[Pool[rtn.id]]
  BY <1>1, <1>2, <1>5, <1>9 DEF Working
<1> QED  BY <1>14, <1>15 DEF Promise!Next

LEMMA PromiseStep ==
  Books /\ Untouched /\ OneOfEach /\ Completion /\ Known /\ FreshKicks(Id)' /\ [Next]_vars
    => [Promise!Next]_(Promise!vars)
<1> SUFFICES ASSUME Books, Untouched, OneOfEach, Completion, Known, FreshKicks(Id)', [Next]_vars
             PROVE  [Promise!Next]_(Promise!vars)
  OBVIOUS
<1> USE DEF coordVars, workerVars, others, statusVars
<1>1. ASSUME Pool' = Pool, main' = main,
             exit' = exit \/ main # "nil" \/ (exit # "running" /\ exit' # "running")
      PROVE  [Promise!Next]_(Promise!vars)
  BY <1>1 DEF Outcome, Returned, Promise!vars
<1>2. ASSUME UNCHANGED <<jobs, main>>,
             exit' = exit \/ main # "nil" \/ (exit # "running" /\ exit' # "running"),
             UNCHANGED <<proc, cur, k>> \/ (proc # "kicks" /\ proc' # "kicks")
      PROVE  [Promise!Next]_(Promise!vars)
  BY <1>1, <1>2 DEF Pool, KickId
<1>3. ASSUME HandleReturn \/ HandleUnregistered, Alive PROVE [Promise!Next]_(Promise!vars)
  BY <1>3, ReturnAdvances DEF OneOfEach
<1>4. ASSUME KickJob PROVE [Promise!Next]_(Promise!vars)
  BY <1>1, <1>4, KickIsSilent DEF KickJob
<1>14. ASSUME main = "nil", exit = "running"
       PROVE  proc \in {"off", "done"} /\ \A w \in Workers : wpc[w] # "send"
  BY <1>14 DEF Completion, Ended
<1>15. exit # "running" => exit' # "running"
  BY ExitStays
<1>16. ASSUME KickUnregistered PROVE [Promise!Next]_(Promise!vars)
  <2>1. proc = "kicks" /\ main' = main
    BY <1>16 DEF KickUnregistered
  <2> QED  BY <1>1, <1>14, <1>15, <1>16, <2>1, LastKickIsSilent
<1>17. ASSUME PersistFails \/ \E id \in todo : EnqueueUnregistered(id)
       PROVE  [Promise!Next]_(Promise!vars)
  <2>1. proc \notin {"off", "done"} /\ UNCHANGED <<jobs, main>>
        /\ (UNCHANGED <<proc, cur, k>> \/ (proc # "kicks" /\ proc' # "kicks"))
    BY <1>17 DEF PersistFails, EnqueueUnregistered, Panic, Die
  <2> QED  BY <1>2, <1>14, <1>15, <2>1
<1>5. ASSUME PersistJob PROVE [Promise!Next]_(Promise!vars)
  <2>1. /\ proc = "kicks" /\ proc' = "persist" /\ UNCHANGED <<jobs, main>> /\ k = Len(cur.kicks)
    BY <1>5 DEF PersistJob
  <2>2. cur.kicks \in Seq(StateName) /\ k \in Nat
    BY <2>1, LenProperties DEF Books, TypeOK, Return
  <2>3. k .. Len(cur.kicks) - 1 = {}
    BY <2>1, <2>2
  <2>4. DOMAIN Coming(cur.id, k, cur.kicks) = {}
    BY <2>3 DEF Coming, Reached
  <2>5. jobs = [x \in DOMAIN jobs |-> jobs[x]]
    BY DEF Books, TypeOK, IsJobMap
  <2>6. Overlay(Coming(cur.id, k, cur.kicks), jobs) = jobs
    BY <2>4, <2>5 DEF Overlay
  <2>7. Pool = jobs /\ Pool' = jobs'
    BY <2>1, <2>6, PoolCases DEF Pool
  <2> QED  BY <1>1, <1>5, <2>1, <2>7 DEF PersistJob
<1>6. ASSUME NEW id \in todo, EnqueueJob(id) PROVE [Promise!Next]_(Promise!vars)
  BY <1>2, <1>6 DEF EnqueueJob
<1>7. ASSUME InitialStatus \/ CoordinatorSeesCancel \/ DrainEnds \/ PersistKick
             \/ HandleReturnEnds \/ CloseJobChannels \/ CloseReturnChan
      PROVE  [Promise!Next]_(Promise!vars)
  BY <1>2, <1>7 DEF InitialStatus, CoordinatorSeesCancel, DrainEnds, PersistKick,
                    HandleReturnEnds, CloseJobChannels, CloseReturnChan
<1>8. ASSUME Cancel \/ ProgramDies \/ UNCHANGED vars PROVE [Promise!Next]_(Promise!vars)
  BY <1>2, <1>8 DEF Cancel, ProgramDies, Die, vars
<1>9. ASSUME NEW w \in Workers, Worker(w) PROVE [Promise!Next]_(Promise!vars)
  <2>1. CASE WorkerSendsOnClosed(w)
    <3>1. wpc[w] = "send" /\ UNCHANGED <<jobs, main, proc, cur, k>>
      BY <2>1 DEF WorkerSendsOnClosed, Die
    <3> QED  BY <1>2, <1>14, <1>15, <3>1
  <2>2. CASE ~WorkerSendsOnClosed(w)
    BY <1>2, <1>9, <2>2 DEF Worker, WorkerSeesCancel, WorkerReceive, WorkerSeesClosed,
                            WorkerExecutes, WorkerDrops, WorkerSends
  <2> QED  BY <2>1, <2>2
<1>10. ASSUME ExecStart PROVE [Promise!Next]_(Promise!vars)
  <2>1. proc # "kicks" /\ proc' # "kicks" /\ jobs' = jobs /\ main = "call" /\ main' = "wait"
    BY <1>10 DEF ExecStart, Untouched
  <2>2. Pool' = Pool /\ Outcome' = Outcome
    BY <2>1 DEF Pool, Outcome, Returned
  <2> QED  BY <2>2 DEF Promise!vars
<1>11. ASSUME proc # "kicks", UNCHANGED <<jobs, proc, exit>>, exit = "running",
              main \in {"call", "wait"}, main' = "nil",
              \A id \in DOMAIN jobs : jobs[id] \in Terminal
       PROVE  [Promise!Next]_(Promise!vars)
  <2>1. Pool = jobs /\ Pool' = jobs /\ Outcome = "running" /\ Outcome' = "finished"
    BY <1>11 DEF Pool, Outcome, Returned
  <2> QED  BY <1>11, <2>1 DEF Promise!Finish, Promise!Next
<1>12. ASSUME ExecAllTerminal, Alive PROVE [Promise!Next]_(Promise!vars)
  <2>1. exit = "running"
    BY <1>12 DEF ExecAllTerminal, Untouched, OneOfEach, PanicCloses, Closing, Alive
  <2> QED  BY <1>11, <1>12, <2>1 DEF ExecAllTerminal, AllJobsAreTerminal, Untouched
<1>13. ASSUME ExecReturn PROVE [Promise!Next]_(Promise!vars)
  <2>1. CASE ctxDone \/ exit # "running"
    <3>1. Pool' = Pool /\ Outcome = "running" /\ Outcome' = "stopped"
      BY <1>13, <2>1 DEF ExecReturn, Pool, Outcome, Returned
    <3> QED  BY <3>1 DEF Promise!Stop, Promise!Next
  <2>2. CASE ~ctxDone /\ exit = "running"
    BY <1>11, <1>13, <2>2 DEF ExecReturn, Completion, Closing, Quiet
  <2> QED  BY <2>1, <2>2
<1> QED
  BY <1>3, <1>4, <1>5, <1>6, <1>7, <1>8, <1>9, <1>10, <1>12, <1>13, <1>16, <1>17
  DEF Next, Step, Finished, Coordinator

(* Processor implements Workflow for every workflow that forks once, those  *)
(* that name states nobody registered included: the run moves by one result *)
(* of the State.Exec of the job's state at a time, a fork appears at once   *)
(* and overwrites nothing, a result is cut off at its first unregistered    *)
(* state and is the last one then, nil is answered of finished runs only,   *)
(* and nothing moves afterwards (processor.go:374-396, 442-466).            *)
THEOREM ProcessorImplementsWorkflow ==
  ASSUME ForksOnce
  PROVE  Spec => ImplementsWorkflow
<1>1. Init => Promise!Init
  BY PromiseInit
<1>2. Books /\ Untouched /\ OneOfEach /\ Completion /\ Known /\ OneOfEach' /\ [Next]_vars
        => [Promise!Next]_(Promise!vars)
  BY PromiseStep DEF OneOfEach
<1>3. Spec => [](Books /\ Untouched /\ OneOfEach)
  BY OneOfEachInvariant
<1>4. Spec => [](Completion /\ Known)
  <2>1. InFlight => Books
    BY DEF InFlight
  <2> QED
    BY <2>1, InFlightInit, InFlightStep, UntouchedInit, UntouchedStep, CompletionInit,
       CompletionStep, KnownInit, KnownStep, PTL DEF Spec
<1> QED  BY <1>1, <1>2, <1>3, <1>4, PTL DEF Spec, ImplementsWorkflow, Promise!Spec
================================================================================
