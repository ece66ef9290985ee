--------------------------- MODULE AimdRateLimiter ---------------------------
(***************************************************************************)
(* AIMDRateLimiter of ratelimit.go: a rate that is halved when the         *)
(* downstream service reports overload and raised by one event per second  *)
(* when it does not, both at most once in a window of time.  Every method  *)
(* runs under the limiter's mutex, so each is one step.                    *)
(*                                                                         *)
(* A rate is a whole number of 1/Unit events per second, and half of one   *)
(* is rounded down to it.  Time passes in ticks; a time stamp is kept as   *)
(* the ticks since, up to the window it is compared with, which stands     *)
(* for "zero or long ago" as well.                                         *)
(***************************************************************************)
EXTENDS Integers

CONSTANTS
  Unit,             \* one event per second
  Configs,          \* the rates and options a limiter may be made with
  IncreaseInterval, \* in ticks, defaults applied; 0 stands for a negative
  BackoffDebounce   \* Duration too, which holds nothing back

Config == [initial : Int, min : Int, max : Int, disableMerge : BOOLEAN]

ASSUME LimiterAssumption ==
  /\ Unit \in Nat \ {0}
  /\ Configs \subseteq Config
  /\ IncreaseInterval \in Nat
  /\ BackoffDebounce \in Nat

VARIABLES
  current, min, max,
  disableMerge,   \* backoffDebounceDisabled
  limit, burst,   \* the settings of the rate.Limiter underneath
  sinceIncrease,  \* now - lastIncrease
  sinceBackoff,   \* now - lastBackoff
  peak            \* history: the rate before the cut that opened the last window

limiterVars == <<current, min, max, disableMerge, limit, burst, sinceIncrease,
                 sinceBackoff, peak>>

Lesser(a, b) == IF a <= b THEN a ELSE b
Greater(a, b) == IF a <= b THEN b ELSE a
Halve(r) == r \div 2

(* The smallest rate of the scale stands for the constant minRate.         *)
SmallestRate == 1

MutantNoSmallest(c) ==
  LET lo == Lesser(c.min, c.max)
      hi == Greater(c.min, c.max)
  IN  [min |-> lo, max |-> hi, initial |-> Lesser(Greater(c.initial, lo), hi)]

NormalizeAIMDRates(c) ==
  LET lo == Greater(Lesser(c.min, c.max), SmallestRate)
      hi == Greater(Greater(c.min, c.max), lo)
  IN  [min |-> lo, max |-> hi, initial |-> Lesser(Greater(c.initial, lo), hi)]

BurstForRate(r) == IF r <= 0 THEN 1 ELSE (r + Unit - 1) \div Unit

LimiterInit ==
  \E c \in Configs :
    LET r == NormalizeAIMDRates(c) IN
    /\ current = r.initial /\ min = r.min /\ max = r.max
    /\ disableMerge = c.disableMerge
    /\ limit = r.initial /\ burst = BurstForRate(r.initial)
    /\ sinceIncrease = IncreaseInterval /\ sinceBackoff = BackoffDebounce
    /\ peak = r.initial

MutantKeepBurst(r) ==
  /\ current' = r /\ limit' = r
  /\ UNCHANGED <<min, max, disableMerge, burst>>

(* applyLimiterSettingsLocked, after the new rate is set.                  *)
ApplyLimiterSettings(r) ==
  /\ current' = r /\ limit' = r /\ burst' = BurstForRate(r)
  /\ UNCHANGED <<min, max, disableMerge>>

(* Reports of overload are merged.                                         *)
Window == ~disableMerge /\ sinceBackoff < BackoffDebounce

Cut ==
  /\ sinceBackoff' = 0
  /\ sinceIncrease' = IncreaseInterval
  /\ ApplyLimiterSettings(Greater(Halve(current), min))
  /\ peak' = IF Window THEN peak ELSE current

MutantNoMerge == Cut

(* A window that every report opens again.                                 *)
MutantSlidingWindow ==
  IF Window THEN /\ sinceBackoff' = 0
                 /\ UNCHANGED <<current, min, max, disableMerge, limit, burst,
                                sinceIncrease, peak>>
  ELSE Cut

Backoff == IF Window THEN UNCHANGED limiterVars ELSE Cut

Raise ==
  /\ sinceIncrease' = 0
  /\ ApplyLimiterSettings(Lesser(current + Unit, max))
  /\ UNCHANGED <<sinceBackoff, peak>>

MutantEverySuccess == IF current >= max THEN UNCHANGED limiterVars ELSE Raise

MutantSuccessesPostpone ==
  IF current >= max THEN UNCHANGED limiterVars
  ELSE IF sinceIncrease >= IncreaseInterval THEN Raise
  ELSE /\ sinceIncrease' = 0
       /\ UNCHANGED <<current, min, max, disableMerge, limit, burst, sinceBackoff, peak>>

OnSuccess ==
  IF current >= max \/ sinceIncrease < IncreaseInterval THEN UNCHANGED limiterVars
  ELSE Raise

PassTime ==
  /\ sinceIncrease < IncreaseInterval \/ sinceBackoff < BackoffDebounce
  /\ sinceIncrease' = Lesser(sinceIncrease + 1, IncreaseInterval)
  /\ sinceBackoff' = Lesser(sinceBackoff + 1, BackoffDebounce)
  /\ UNCHANGED <<current, min, max, disableMerge, limit, burst, peak>>

-----------------------------------------------------------------------------
Rate == Nat \ {0}

LimiterTypeOK ==
  /\ min \in Rate /\ max \in Rate /\ current \in Rate /\ peak \in Rate
  /\ limit \in Rate /\ burst \in Rate
  /\ disableMerge \in BOOLEAN
  /\ sinceIncrease \in 0 .. IncreaseInterval
  /\ sinceBackoff \in 0 .. BackoffDebounce

(* The rate stays between the bounds, whatever order the configuration      *)
(* named them in, and the limiter underneath runs at the rate that Current *)
(* reports (ratelimit.go:97-98, "so min/max invariants stay consistent",   *)
(* 239-244).                                                               *)
WithinBounds ==
  /\ min <= current /\ current <= max
  /\ limit = current /\ burst = BurstForRate(current)

(* However many workers report the overload of one burst, the rate is cut   *)
(* once: until the reports are no longer merged it never falls below half  *)
(* of what it was when the first came in (ratelimit.go:168, 175).          *)
BurstCutsOnce == Window => current >= Greater(Halve(peak), min)

(* ... nor do successes that were under way give it back: it regains one   *)
(* event per second at once and one more per full interval, if there is    *)
(* one (ratelimit.go:169, 191, 202).                                       *)
RampBounded ==
  Window /\ IncreaseInterval > 0 =>
    current <= Greater(Halve(peak), min) + Unit * (1 + sinceBackoff \div IncreaseInterval)
=============================================================================
