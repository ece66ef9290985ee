--------------------------- MODULE ExecuteOneProofs ---------------------------
(***************************************************************************)
(* What holds of the rate limiter and of timeouts for every set of         *)
(* workers, every configuration and every scale of rates and times.        *)
(***************************************************************************)
EXTENDS ExecuteOne, TLAPS

-----------------------------------------------------------------------------
(* The rate limiter                                                        *)

(* Types of what WithinBounds and BurstCutsOnce speak of.                  *)
RatesOK ==
  /\ min \in Rate /\ max \in Rate /\ current \in Rate /\ peak \in Rate
  /\ sinceBackoff \in 0 .. BackoffDebounce

(* A cut only ever starts from a rate within the bounds, so the two        *)
(* properties are inductive together with the types.                       *)
LimiterInv == RatesOK /\ WithinBounds /\ BurstCutsOnce

(* Normalized rates are positive and in order, whatever they were.         *)
LEMMA NormalizedRates ==
  ASSUME NEW c \in Config
  PROVE  LET r == NormalizeAIMDRates(c) IN
         /\ r.min \in Rate /\ r.max \in Rate /\ r.initial \in Rate
         /\ r.min <= r.initial /\ r.initial <= r.max
BY DEF Config, Rate, NormalizeAIMDRates, Lesser, Greater, SmallestRate

LEMMA LimiterStarts ==
  ASSUME LimiterInit
  PROVE  LimiterInv
<1>1. PICK c \in Configs :
        LET r == NormalizeAIMDRates(c) IN
        /\ current = r.initial /\ min = r.min /\ max = r.max
        /\ limit = r.initial /\ burst = BurstForRate(r.initial)
        /\ sinceBackoff = BackoffDebounce
        /\ peak = r.initial
  BY DEF LimiterInit
<1>2. c \in Config
  BY LimiterAssumption
<1>3. RatesOK /\ WithinBounds
  BY <1>1, <1>2, NormalizedRates, LimiterAssumption DEF RatesOK, WithinBounds
<1>4. BurstCutsOnce
  BY <1>1, LimiterAssumption DEF BurstCutsOnce, Window
<1> QED
  BY <1>3, <1>4 DEF LimiterInv

(* Half a rate, and no less than the floor, is a rate.                     *)
LEMMA HalfRate ==
  ASSUME NEW r \in Rate, NEW lo \in Rate, lo <= r
  PROVE  LET cut == Greater(Halve(r), lo) IN cut \in Rate /\ lo <= cut /\ cut <= r
BY DEF Rate, Greater, Halve

LEMMA BackoffKeeps ==
  ASSUME LimiterInv, Backoff
  PROVE  LimiterInv'
<1>1. CASE Window
  BY <1>1 DEF Backoff, LimiterInv, limiterVars, RatesOK, WithinBounds, BurstCutsOnce, Window
<1>2. CASE ~Window
  <2> DEFINE cut == Greater(Halve(current), min)
  <2>1. /\ current' = cut /\ limit' = cut /\ burst' = BurstForRate(cut)
        /\ min' = min /\ max' = max
        /\ sinceBackoff' = 0 /\ peak' = current
    BY <1>2 DEF Backoff, Cut, ApplyLimiterSettings
  <2>2. cut \in Rate /\ min <= cut /\ cut <= current
    BY HalfRate DEF LimiterInv, RatesOK, WithinBounds
  <2>3. RatesOK' /\ WithinBounds'
    BY <2>1, <2>2, LimiterAssumption DEF LimiterInv, RatesOK, WithinBounds, Rate
  <2>4. BurstCutsOnce'
    BY <2>1, <2>2 DEF BurstCutsOnce, Rate
  <2> QED
    BY <2>3, <2>4 DEF LimiterInv
<1> QED
  BY <1>1, <1>2

(* A success never lowers the rate.                                        *)
LEMMA OnSuccessKeeps ==
  ASSUME LimiterInv, OnSuccess
  PROVE  LimiterInv'
<1>1. CASE UNCHANGED limiterVars
  BY <1>1 DEF LimiterInv, limiterVars, RatesOK, WithinBounds, BurstCutsOnce, Window
<1>2. CASE current < max /\ Raise
  <2> DEFINE more == Lesser(current + Unit, max)
  <2>1. /\ current' = more /\ limit' = more /\ burst' = BurstForRate(more)
        /\ min' = min /\ max' = max /\ disableMerge' = disableMerge
        /\ sinceBackoff' = sinceBackoff /\ peak' = peak
    BY <1>2 DEF Raise, ApplyLimiterSettings
  <2>2. more \in Rate /\ current <= more /\ more <= max
    BY <1>2, LimiterAssumption DEF LimiterInv, RatesOK, Rate, Lesser
  <2>3. RatesOK' /\ WithinBounds'
    BY <2>1, <2>2 DEF LimiterInv, RatesOK, WithinBounds, Rate
  <2>4. Greater(Halve(peak), min) \in Int
    BY DEF LimiterInv, RatesOK, Rate, Greater, Halve
  <2>5. BurstCutsOnce'
    BY <2>1, <2>2, <2>4 DEF LimiterInv, RatesOK, Rate, BurstCutsOnce, Window
  <2> QED
    BY <2>3, <2>5 DEF LimiterInv
<1> QED
  BY <1>1, <1>2 DEF OnSuccess, LimiterInv, RatesOK, Rate

LEMMA PassTimeKeeps ==
  ASSUME LimiterInv, PassTime
  PROVE  LimiterInv'
<1>1. /\ sinceBackoff' = Lesser(sinceBackoff + 1, BackoffDebounce)
      /\ UNCHANGED <<current, min, max, disableMerge, limit, burst, peak>>
  BY DEF PassTime
<1>2. sinceBackoff' \in 0 .. BackoffDebounce /\ sinceBackoff' >= sinceBackoff
  BY <1>1, LimiterAssumption DEF LimiterInv, RatesOK, Lesser
<1>3. RatesOK' /\ WithinBounds'
  BY <1>1, <1>2 DEF LimiterInv, RatesOK, WithinBounds
<1>4. BurstCutsOnce'
  BY <1>1, <1>2, LimiterAssumption DEF LimiterInv, RatesOK, BurstCutsOnce, Window
<1> QED
  BY <1>3, <1>4 DEF LimiterInv

(* Every step of the workers is one of these as far as the limiter goes.   *)
LEMMA LimiterSteps ==
  ASSUME [Next]_vars
  PROVE  Backoff \/ OnSuccess \/ PassTime \/ UNCHANGED limiterVars
<1>1. CASE UNCHANGED vars
  BY <1>1 DEF vars
<1>2. ASSUME NEW w \in Workers, Work(w)
      PROVE  Backoff \/ OnSuccess \/ UNCHANGED limiterVars
  BY <1>2, Zenon DEF Work, Receive, WaitReturns, ExecReturns, Return, SeesContextDone
<1>3. ASSUME NEW w \in Workers, DeadlineFires(w)
      PROVE  UNCHANGED limiterVars
  BY <1>3, Zenon DEF DeadlineFires
<1>4. CASE ClockTicks
  BY <1>4 DEF ClockTicks
<1>5. ASSUME NEW how \in ContextEnds, ContextDone(how)
      PROVE  UNCHANGED limiterVars
  BY <1>5, Zenon DEF ContextDone
<1>6. CASE AllStopped
  BY <1>6 DEF AllStopped, vars
<1> QED
  BY <1>1, <1>2, <1>3, <1>4, <1>5, <1>6, Zenon DEF Next

LEMMA LimiterInvariant == Spec => []LimiterInv
<1>1. Init => LimiterInv
  BY LimiterStarts DEF Init
<1>2. LimiterInv /\ [Next]_vars => LimiterInv'
  <2> SUFFICES ASSUME LimiterInv, [Next]_vars
               PROVE  LimiterInv'
    OBVIOUS
  <2>1. CASE UNCHANGED limiterVars
    BY <2>1 DEF LimiterInv, limiterVars, RatesOK, WithinBounds, BurstCutsOnce, Window
  <2> QED
    BY <2>1, LimiterSteps, BackoffKeeps, OnSuccessKeeps, PassTimeKeeps
<1> QED
  BY <1>1, <1>2, PTL DEF Spec

(* In every reachable state the rate is between the bounds, and the        *)
(* limiter underneath has that rate and its burst (ratelimit.go:239-270).  *)
THEOREM RateWithinBounds == Spec => []WithinBounds
<1>1. LimiterInv => WithinBounds
  BY DEF LimiterInv
<1> QED
  BY <1>1, LimiterInvariant, PTL

(* However many workers report one overload, it costs at most half of the  *)
(* rate until the window has passed (ratelimit.go:170-188).                *)
THEOREM OneCutPerBurst == Spec => []BurstCutsOnce
<1>1. LimiterInv => BurstCutsOnce
  BY DEF LimiterInv
<1> QED
  BY <1>1, LimiterInvariant, PTL

-----------------------------------------------------------------------------
(* RampBounded: while reports are merged, the rate has been raised n times  *)
(* since the cut only if n - 1 whole intervals, and the time since the      *)
(* last raise, have passed since then.                                      *)
LEMMA TimesMonotone ==
  ASSUME NEW u \in Nat, NEW a \in Nat, NEW b \in Nat, a <= b
  PROVE  u * a <= u * b
<1>1. PICK d \in Nat : b = a + d
  <2>1. b - a \in Nat /\ b = a + (b - a)
    OBVIOUS
  <2> QED  BY <2>1
<1>2. u * b = u * a + u * d
  BY <1>1
<1>3. u * d \in Nat /\ u * a \in Nat
  OBVIOUS
<1> QED  BY <1>2, <1>3

LEMMA WholeIntervals ==
  ASSUME NEW i \in Nat \ {0}, NEW s \in Nat, NEW m \in Nat, i * m <= s
  PROVE  m <= s \div i /\ s \div i \in Nat
<1> DEFINE q == s \div i
<1>1. q \in Nat /\ s < i * (q + 1)
  OBVIOUS
<1> HIDE DEF q
<1>2. ASSUME ~(m <= q) PROVE FALSE
  <2>1. q + 1 <= m
    BY <1>1, <1>2
  <2>2. i * (q + 1) <= i * m
    BY <1>1, <2>1, TimesMonotone
  <2>3. i * (q + 1) \in Int /\ i * m \in Int
    BY <1>1
  <2> QED  BY <1>1, <2>2, <2>3
<1> QED  BY <1>1, <1>2 DEF q

Floor == Greater(Halve(peak), min)

Raised(n) ==
  /\ current <= Floor + Unit * n
  /\ n = 0 \/ IncreaseInterval * (n - 1) + sinceIncrease <= sinceBackoff

Ramp ==
  /\ sinceIncrease \in 0 .. IncreaseInterval
  /\ Window => \E n \in Nat : Raised(n)

LEMMA FloorType ==
  ASSUME LimiterInv
  PROVE  Floor \in Nat
BY DEF LimiterInv, RatesOK, Rate, Floor, Greater, Halve

LEMMA RampStarts ==
  ASSUME LimiterInit
  PROVE  Ramp
BY LimiterAssumption DEF LimiterInit, Ramp, Window

LEMMA RampUnchanged ==
  ASSUME Ramp, UNCHANGED limiterVars
  PROVE  Ramp'
<1>1. UNCHANGED <<current, min, disableMerge, sinceIncrease, sinceBackoff, peak>>
  BY DEF limiterVars
<1>2. \A n : Raised(n)' <=> Raised(n)
  BY <1>1 DEF Raised, Floor
<1> QED  BY <1>1, <1>2 DEF Ramp, Window

LEMMA RampBackoff ==
  ASSUME LimiterInv, Ramp, Backoff
  PROVE  Ramp'
<1>1. CASE Window
  BY <1>1, RampUnchanged DEF Backoff
<1>2. CASE ~Window
  <2>1. /\ current' = Greater(Halve(current), min) /\ min' = min /\ peak' = current
        /\ sinceIncrease' = IncreaseInterval
    BY <1>2 DEF Backoff, Cut, ApplyLimiterSettings
  <2>2. Floor' = current'
    BY <2>1 DEF Floor
  <2>3. Floor' \in Nat /\ Unit * 0 = 0
    BY <2>1, <2>2, LimiterAssumption DEF LimiterInv, RatesOK, Rate, Greater, Halve
  <2>4. Raised(0)'
    BY <2>2, <2>3 DEF Raised
  <2>5. 0 \in Nat /\ sinceIncrease' \in 0 .. IncreaseInterval
    BY <2>1, LimiterAssumption
  <2> QED  BY <2>4, <2>5 DEF Ramp
<1> QED  BY <1>1, <1>2

LEMMA RampOnSuccess ==
  ASSUME LimiterInv, Ramp, OnSuccess
  PROVE  Ramp'
<1>1. CASE UNCHANGED limiterVars
  BY <1>1, RampUnchanged
<1>2. CASE sinceIncrease >= IncreaseInterval /\ Raise
  <2>1. /\ current' = Lesser(current + Unit, max) /\ sinceIncrease' = 0
        /\ UNCHANGED <<min, max, disableMerge, sinceBackoff, peak>>
    BY <1>2 DEF Raise, ApplyLimiterSettings
  <2>2. Floor' = Floor /\ (Window' <=> Window)
    BY <2>1 DEF Floor, Window
  <2>3. current \in Nat /\ max \in Nat /\ sinceBackoff \in Nat /\ Floor \in Nat
        /\ sinceIncrease = IncreaseInterval
    BY <1>2, FloorType, LimiterAssumption DEF LimiterInv, RatesOK, Rate, Ramp
  <2>4. ASSUME Window, NEW n \in Nat, Raised(n) PROVE Raised(n + 1)'
    <3>1. current' <= current + Unit /\ current' \in Nat /\ Unit \in Nat
      BY <2>1, <2>3, LimiterAssumption DEF Lesser
    <3>2. Unit * (n + 1) = Unit * n + Unit /\ Unit * n \in Nat
      BY LimiterAssumption
    <3>3. current' <= Floor + Unit * (n + 1)
      BY <2>3, <2>4, <3>1, <3>2 DEF Raised
    <3>4. IncreaseInterval * n <= sinceBackoff
      <4>1. CASE n = 0
        <5>1. IncreaseInterval * 0 = 0
          BY LimiterAssumption
        <5> QED  BY <2>3, <4>1, <5>1
      <4>2. CASE n # 0
        <5>1. IncreaseInterval * (n - 1) + IncreaseInterval = IncreaseInterval * n
          BY LimiterAssumption
        <5> QED  BY <2>3, <2>4, <4>2, <5>1 DEF Raised
      <4> QED  BY <4>1, <4>2
    <3>5. (n + 1) - 1 = n /\ IncreaseInterval * n \in Nat
      BY LimiterAssumption
    <3>6. IncreaseInterval * ((n + 1) - 1) + sinceIncrease' <= sinceBackoff'
      BY <2>1, <2>3, <3>4, <3>5
    <3> QED  BY <2>2, <3>3, <3>6 DEF Raised
  <2>5. Window' => \E n \in Nat : Raised(n)'
    <3> SUFFICES ASSUME Window PROVE \E n \in Nat : Raised(n)'
      BY <2>2
    <3>1. PICK n \in Nat : Raised(n)
      BY DEF Ramp
    <3>2. Raised(n + 1)' /\ n + 1 \in Nat
      BY <2>4, <3>1
    <3> QED  BY <3>2
  <2> QED  BY <2>1, <2>5, LimiterAssumption DEF Ramp
<1> QED
  <2>1. current \in Int /\ max \in Int /\ sinceIncrease \in Int
    BY LimiterAssumption DEF LimiterInv, RatesOK, Rate, Ramp
  <2> QED  BY <1>1, <1>2, <2>1, LimiterAssumption DEF OnSuccess

LEMMA RampPassTime ==
  ASSUME LimiterInv, Ramp, PassTime
  PROVE  Ramp'
<1>1. /\ sinceBackoff' = Lesser(sinceBackoff + 1, BackoffDebounce)
      /\ sinceIncrease' = Lesser(sinceIncrease + 1, IncreaseInterval)
      /\ UNCHANGED <<current, min, disableMerge, peak>>
  BY DEF PassTime
<1>2. sinceBackoff \in 0 .. BackoffDebounce /\ sinceIncrease \in 0 .. IncreaseInterval
  BY DEF LimiterInv, RatesOK, Ramp
<1>3. sinceIncrease' \in 0 .. IncreaseInterval /\ sinceIncrease' <= sinceIncrease + 1
  BY <1>1, <1>2, LimiterAssumption DEF Lesser
<1>4. ASSUME Window' PROVE Window /\ sinceBackoff' = sinceBackoff + 1
  BY <1>1, <1>2, <1>4, LimiterAssumption DEF Window, Lesser
<1>5. ASSUME Window', NEW n \in Nat, Raised(n) PROVE Raised(n)'
  <2>1. Floor' = Floor
    BY <1>1 DEF Floor
  <2>2. n # 0 => IncreaseInterval * (n - 1) \in Int
    BY LimiterAssumption
  <2>3. n = 0 \/ IncreaseInterval * (n - 1) + sinceIncrease' <= sinceBackoff'
    BY <1>2, <1>3, <1>4, <1>5, <2>2 DEF Raised
  <2> QED  BY <1>1, <1>5, <2>1, <2>3 DEF Raised
<1>6. Window' => \E n \in Nat : Raised(n)'
  BY <1>4, <1>5 DEF Ramp
<1> QED  BY <1>3, <1>6 DEF Ramp

LEMMA RampInvariant == Spec => [](LimiterInv /\ Ramp)
<1>1. Init => Ramp
  BY RampStarts DEF Init
<1>2. LimiterInv /\ Ramp /\ [Next]_vars => Ramp'
  BY LimiterSteps, RampBackoff, RampOnSuccess, RampPassTime, RampUnchanged
<1> QED
  BY <1>1, <1>2, LimiterInvariant, PTL DEF Spec

(* Successes that were under way when the overload was reported give back   *)
(* at most one event per second at once and one more per full interval, if  *)
(* there is one (ratelimit.go:169, 191, 202).                               *)
THEOREM RampIsBounded == Spec => []RampBounded
<1>1. LimiterInv /\ Ramp => RampBounded
  <2> SUFFICES ASSUME LimiterInv, Ramp, Window, IncreaseInterval > 0
               PROVE  current <= Floor + Unit * (1 + sinceBackoff \div IncreaseInterval)
    BY DEF RampBounded, Floor
  <2> DEFINE q == sinceBackoff \div IncreaseInterval
  <2>1. PICK n \in Nat : Raised(n)
    BY DEF Ramp
  <2>2. /\ current \in Nat /\ Floor \in Nat /\ Unit \in Nat /\ sinceBackoff \in Nat
        /\ sinceIncrease \in Nat /\ IncreaseInterval \in Nat \ {0}
    BY FloorType, LimiterAssumption DEF LimiterInv, RatesOK, Rate, Ramp
  <2>3. q \in Nat /\ n <= 1 + q
    <3>1. CASE n = 0
      BY <2>2, <3>1
    <3>2. CASE n # 0
      <4>1. n - 1 \in Nat /\ IncreaseInterval * (n - 1) \in Nat
        BY <2>2, <3>2
      <4>2. IncreaseInterval * (n - 1) <= sinceBackoff
        BY <2>1, <2>2, <3>2, <4>1 DEF Raised
      <4>3. n - 1 <= sinceBackoff \div IncreaseInterval /\ sinceBackoff \div IncreaseInterval \in Nat
        BY <2>2, <4>1, <4>2, WholeIntervals
      <4> QED  BY <4>3
    <3> QED  BY <3>1, <3>2
  <2> HIDE DEF q
  <2>4. Unit * n <= Unit * (1 + q) /\ Unit * n \in Nat /\ Unit * (1 + q) \in Nat
    BY <2>2, <2>3, TimesMonotone
  <2>5. current <= Floor + Unit * (1 + q)
    BY <2>1, <2>2, <2>4 DEF Raised
  <2> QED  BY <2>5 DEF q
<1> QED
  BY <1>1, RampInvariant, PTL

-----------------------------------------------------------------------------
(* TypeOK                                                                  *)
WorkerTypes ==
  /\ disableMerge \in BOOLEAN
  /\ limiter \in Limiters /\ timeout \in Timeouts
  /\ ctx \in {"live"} \cup ContextEnds
  /\ pc \in [Workers -> {"idle", "wait", "exec", "send", "done"}]
  /\ refused \in [Workers -> BOOLEAN] /\ fired \in [Workers -> BOOLEAN]
  /\ outcome \in [Workers -> {"none", "done", "failed", "timed out"}]

(* A limiter that lets anything through at all lets one event through.     *)
LEMMA BurstType ==
  ASSUME NEW r \in Rate
  PROVE  BurstForRate(r) \in Rate
<1> DEFINE m == r + Unit - 1
<1>1. Unit \in Nat \ {0} /\ m \in Nat /\ Unit * 1 = Unit /\ Unit <= m /\ r > 0
  BY LimiterAssumption DEF Rate
<1> HIDE DEF m
<1>2. 1 <= m \div Unit /\ m \div Unit \in Nat
  BY <1>1, WholeIntervals
<1>3. BurstForRate(r) = m \div Unit
  BY <1>1 DEF BurstForRate, m, Rate
<1> QED  BY <1>2, <1>3 DEF Rate

LEMMA LimiterTypes ==
  ASSUME LimiterInv, Ramp, disableMerge \in BOOLEAN
  PROVE  LimiterTypeOK
<1>1. limit \in Rate /\ burst \in Rate
  BY BurstType DEF LimiterInv, RatesOK, WithinBounds
<1> QED  BY <1>1 DEF LimiterInv, RatesOK, Ramp, LimiterTypeOK

LEMMA RefusalType ==
  ASSUME LimiterInv
  PROVE  (current > Capacity) \in BOOLEAN
<1>1. Capacity \in Int
  BY ExecuteAssumption
<1>2. current \in Int
  BY DEF LimiterInv, RatesOK, Rate
<1>3. CASE current > Capacity
  BY <1>3
<1>4. CASE ~(current > Capacity)
  BY <1>1, <1>2, <1>4
<1> QED  BY <1>3, <1>4

LEMMA WorkerTypesInit == Init => WorkerTypes
BY LimiterAssumption DEF Init, LimiterInit, WorkerTypes, Config

LEMMA WorkerTypesStep == LimiterInv /\ WorkerTypes /\ [Next]_vars => WorkerTypes'
<1> SUFFICES ASSUME LimiterInv, WorkerTypes, [Next]_vars PROVE WorkerTypes'
  OBVIOUS
<1> USE DEF WorkerTypes, config, workerVars
<1>1. disableMerge' \in BOOLEAN
  BY LimiterSteps
  DEF Backoff, Cut, OnSuccess, Raise, PassTime, ApplyLimiterSettings, limiterVars
<1>2. ASSUME NEW w \in Workers, NEW err \in Answers(w), ExecReturns(w, err) PROVE WorkerTypes'
  BY <1>1, <1>2 DEF ExecReturns
<1>3. ASSUME NEW w \in Workers,
             Receive(w) \/ WaitReturns(w) \/ Return(w) \/ SeesContextDone(w) \/ DeadlineFires(w)
      PROVE  WorkerTypes'
  <2>1. CASE Receive(w) \/ SeesContextDone(w)
    BY <1>1, <2>1 DEF Receive, SeesContextDone
  <2>2. CASE WaitReturns(w)
    <3>1. (current > Capacity) \in BOOLEAN
      BY RefusalType
    <3> QED  BY <1>1, <2>2, <3>1 DEF WaitReturns
  <2>3. CASE Return(w)
    BY <1>1, <2>3 DEF Return
  <2>4. CASE DeadlineFires(w)
    BY <1>1, <2>4 DEF DeadlineFires
  <2> QED  BY <1>3, <2>1, <2>2, <2>3, <2>4
<1>4. ASSUME NEW how \in ContextEnds, ContextDone(how) PROVE WorkerTypes'
  BY <1>1, <1>4 DEF ContextDone
<1>5. ASSUME ClockTicks \/ AllStopped \/ UNCHANGED vars PROVE WorkerTypes'
  BY <1>1, <1>5 DEF ClockTicks, AllStopped, vars
<1> QED  BY <1>2, <1>3, <1>4, <1>5, Zenon DEF Next, Work

(* Rates, burst and time stamps keep their types, and so do the workers.    *)
THEOREM ExecuteTypesCorrect == Spec => []TypeOK
<1>1. LimiterInv /\ Ramp /\ WorkerTypes => TypeOK
  BY LimiterTypes DEF WorkerTypes, TypeOK
<1> QED
  BY <1>1, RampInvariant, WorkerTypesInit, WorkerTypesStep, PTL DEF Spec

-----------------------------------------------------------------------------
(* Timeouts                                                                *)

TimeoutInv ==
  /\ outcome \in [Workers -> {"none", "done", "failed", "timed out"}]
  /\ fired \in [Workers -> BOOLEAN]
  /\ TimedOutTruthfully

(* While the run goes on, only a deadline that has passed makes Exec answer *)
(* DeadlineExceeded, if it sets none of its own.                           *)
LEMMA TimedOutFired ==
  ASSUME ~JobDeadlines, NEW w \in Workers, NEW err \in Answers(w), TimedOut(err)
  PROVE  fired[w]
BY DEF TimedOut, IsDeadlineExceeded, Answers

LEMMA TimeoutStep ==
  ASSUME ~JobDeadlines, TimeoutInv, [Next]_vars
  PROVE  TimeoutInv'
<1> USE DEF TimeoutInv, TimedOutTruthfully
<1>1. CASE UNCHANGED <<outcome, fired>>
  BY <1>1
<1>2. ASSUME NEW w \in Workers, NEW err \in Answers(w), ExecReturns(w, err)
      PROVE  TimeoutInv'
  <2>1. PICK result \in {"none", "done", "failed", "timed out"} :
          /\ outcome' = [outcome EXCEPT ![w] = result]
          /\ result = "timed out" => TimedOut(err)
    BY <1>2 DEF ExecReturns
  <2>2. fired' = fired
    BY <1>2 DEF ExecReturns
  <2> QED
    BY <2>1, <2>2, TimedOutFired
<1>3. ASSUME NEW w \in Workers, Return(w)
      PROVE  TimeoutInv'
  <2>1. outcome' = [outcome EXCEPT ![w] = "none"] /\ fired' = [fired EXCEPT ![w] = FALSE]
    BY <1>3 DEF Return
  <2> QED
    BY <2>1
<1>4. ASSUME NEW w \in Workers, DeadlineFires(w)
      PROVE  TimeoutInv'
  <2>1. fired' = [fired EXCEPT ![w] = TRUE] /\ outcome' = outcome
    BY <1>4 DEF DeadlineFires
  <2> QED
    BY <2>1
<1>5. ASSUME NEW w \in Workers, Receive(w) \/ WaitReturns(w) \/ SeesContextDone(w)
      PROVE  UNCHANGED <<outcome, fired>>
  BY <1>5 DEF Receive, WaitReturns, SeesContextDone
<1>6. ASSUME ClockTicks \/ AllStopped \/ \E how \in ContextEnds : ContextDone(how)
      PROVE  UNCHANGED <<outcome, fired>>
  BY <1>6, Zenon DEF ClockTicks, AllStopped, ContextDone, workerVars, vars
<1>7. CASE UNCHANGED vars
  BY <1>7, <1>1 DEF vars, workerVars
<1> QED
  BY <1>1, <1>2, <1>3, <1>4, <1>5, <1>6, <1>7, Zenon DEF Next, Work

(* A job goes to the FailState only when the deadline of its own Exec has  *)
(* passed, if Exec sets no deadlines itself (processor.go:520-528).        *)
THEOREM TimeoutsAreTrue ==
  ASSUME ~JobDeadlines
  PROVE  Spec => []TimedOutTruthfully
<1>1. Init => TimeoutInv
  BY DEF Init, TimeoutInv, TimedOutTruthfully
<1>2. TimeoutInv /\ [Next]_vars => TimeoutInv'
  BY TimeoutStep
<1>3. TimeoutInv => TimedOutTruthfully
  BY DEF TimeoutInv
<1> QED
  BY <1>1, <1>2, <1>3, PTL DEF Spec
=============================================================================
