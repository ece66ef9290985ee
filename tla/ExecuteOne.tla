----------------------------- MODULE ExecuteOne -----------------------------
(***************************************************************************)
(* StateExec.executeOne of processor.go: the workers of one state, who     *)
(* share its rate limiter.  Each waits for the limiter, calls Exec under a *)
(* deadline of its own and classifies what comes back: timed out, failed   *)
(* (an overload is reported to the limiter), or done (a success is).  The  *)
(* context of the run may be cancelled, or its deadline may pass.          *)
(*                                                                         *)
(* Downstream of Exec there is a service of limited capacity: a request    *)
(* sent at a rate above it is refused, and the refusal is known only when  *)
(* Exec returns.  There is always another job for this state.              *)
(***************************************************************************)
EXTENDS AimdRateLimiter, FiniteSets

CONSTANTS
  Workers,
  Limiters,      \* the kinds of State.RateLimit: "none", "plain", "adaptive"
  Timeouts,      \* may State.Timeout be set? a set of BOOLEANs
  ContextEnds,   \* how the run's context may end: "canceled", "expired"
  JobDeadlines,  \* may Exec return a DeadlineExceeded of its own making?
  Capacity       \* of the service, a rate

ASSUME ExecuteAssumption ==
  /\ IsFiniteSet(Workers)
  /\ Limiters \subseteq {"none", "plain", "adaptive"}
  /\ Timeouts \subseteq BOOLEAN
  /\ ContextEnds \subseteq {"canceled", "expired"}
  /\ JobDeadlines \in BOOLEAN
  /\ Capacity \in Nat

VARIABLES
  limiter,   \* the kind of this state's RateLimit
  timeout,   \* is its Timeout set?
  ctx,       \* "live", or how it ended
  pc,        \* where each worker is
  refused,   \* does the service refuse this request?
  fired,     \* has the deadline of this Exec passed while ctx was live?
  outcome    \* what became of the last Exec

config == <<limiter, timeout>>
workerVars == <<pc, refused, fired, outcome>>
vars == <<limiterVars, config, ctx, workerVars>>

Init ==
  /\ LimiterInit
  /\ limiter \in Limiters /\ timeout \in Timeouts
  /\ ctx = "live"
  /\ pc = [w \in Workers |-> "idle"]
  /\ refused = [w \in Workers |-> FALSE] /\ fired = [w \in Workers |-> FALSE]
  /\ outcome = [w \in Workers |-> "none"]

-----------------------------------------------------------------------------
(* A select that finds the context done as well may still choose the job.  *)
Receive(w) ==
  /\ pc[w] = "idle"
  /\ pc' = [pc EXCEPT ![w] = "wait"]
  /\ UNCHANGED <<limiterVars, config, ctx, refused, fired, outcome>>

(* applyRateLimit and deriveExecContext.  Wait returns when there is a     *)
(* token or, with an error that nobody looks at, when the context ends;    *)
(* in either case Exec is called.                                          *)
WaitReturns(w) ==
  /\ pc[w] = "wait"
  /\ pc' = [pc EXCEPT ![w] = "exec"]
  /\ refused' = [refused EXCEPT ![w] = current > Capacity]
  /\ UNCHANGED <<limiterVars, config, ctx, fired, outcome>>

(* The deadline of execCtx passes; a context that has ended already stays  *)
(* what it is.                                                             *)
DeadlineFires(w) ==
  /\ timeout
  /\ pc[w] = "exec"
  /\ ctx = "live"
  /\ ~fired[w]
  /\ fired' = [fired EXCEPT ![w] = TRUE]
  /\ UNCHANGED <<limiterVars, config, ctx, pc, refused,
                 outcome>>

(* What Exec may answer: nil, an error, a RateLimitError; and, of a        *)
(* context that has ended, its error, also wrapped in a RateLimitError.    *)
Answers(w) ==
  (IF refused[w] THEN {"overload"} ELSE {"nil", "error"})
    \cup (IF ctx # "live" \/ fired[w] THEN {"error"} ELSE {})
    \cup (IF fired[w] \/ ctx = "expired" \/ JobDeadlines
          THEN {"deadline"} \cup (IF refused[w] THEN {"overload deadline"} ELSE {})
          ELSE {})

IsDeadlineExceeded(err) == err \in {"deadline", "overload deadline"}
IsRateLimitError(err) == err \in {"overload", "overload deadline"}

MutantAnyDeadline(err) == timeout /\ IsDeadlineExceeded(err)
TimedOut(err) == timeout /\ IsDeadlineExceeded(err) /\ ctx = "live"

(* Exec returns and classifyResult takes note of it.                       *)
ExecReturns(w, err) ==
  /\ pc[w] = "exec"
  /\ err \in Answers(w)
  /\ outcome' = [outcome EXCEPT ![w] =
       IF TimedOut(err) THEN "timed out" ELSE IF err = "nil" THEN "done" ELSE "failed"]
  /\ IF limiter # "adaptive" \/ TimedOut(err) THEN UNCHANGED limiterVars
     ELSE IF err = "nil" THEN OnSuccess
     ELSE IF IsRateLimitError(err) THEN Backoff
     ELSE UNCHANGED limiterVars
  /\ pc' = [pc EXCEPT ![w] = "send"]
  /\ refused' = [refused EXCEPT ![w] = FALSE]
  /\ UNCHANGED <<config, ctx, fired>>

(* Back in Run: the context is looked at once more, and the result sent or  *)
(* dropped.                                                                *)
Return(w) ==
  /\ pc[w] = "send"
  /\ pc' = [pc EXCEPT ![w] = IF ctx = "live" THEN "idle" ELSE "done"]
  /\ fired' = [fired EXCEPT ![w] = FALSE]
  /\ outcome' = [outcome EXCEPT ![w] = "none"]
  /\ UNCHANGED <<limiterVars, config, ctx, refused>>

SeesContextDone(w) ==
  /\ pc[w] = "idle"
  /\ ctx # "live"
  /\ pc' = [pc EXCEPT ![w] = "done"]
  /\ UNCHANGED <<limiterVars, config, ctx, refused, fired, outcome>>

ContextDone(how) ==
  /\ ctx = "live"
  /\ ctx' = how
  /\ UNCHANGED <<limiterVars, config, workerVars>>

ClockTicks ==
  /\ PassTime
  /\ UNCHANGED <<config, ctx, workerVars>>

AllStopped ==
  /\ \A w \in Workers : pc[w] = "done"
  /\ UNCHANGED vars

Work(w) ==
  \/ Receive(w) \/ WaitReturns(w)
  \/ \E err \in Answers(w) : ExecReturns(w, err)
  \/ Return(w) \/ SeesContextDone(w)

Next ==
  \/ \E w \in Workers : Work(w) \/ DeadlineFires(w)
  \/ ClockTicks
  \/ \E how \in ContextEnds : ContextDone(how)
  \/ AllStopped

Spec == Init /\ [][Next]_vars

(* Workers and clock go on: a limiter whose rate is positive has a token    *)
(* for everyone in the end, and Exec returns.  The service answers         *)
(* honestly: not every request it refuses runs into a deadline instead,    *)
(* and not every one it could serve fails.                                 *)
Fairness ==
  /\ \A w \in Workers : WF_vars(Work(w))
  /\ WF_vars(ClockTicks)
  /\ SF_vars(\E w \in Workers : ExecReturns(w, "overload"))
  /\ SF_vars(\E w \in Workers : ExecReturns(w, "nil"))

FairSpec == Spec /\ Fairness

-----------------------------------------------------------------------------
TypeOK ==
  /\ LimiterTypeOK
  /\ limiter \in Limiters /\ timeout \in Timeouts
  /\ ctx \in {"live"} \cup ContextEnds
  /\ pc \in [Workers -> {"idle", "wait", "exec", "send", "done"}]
  /\ refused \in [Workers -> BOOLEAN] /\ fired \in [Workers -> BOOLEAN]
  /\ outcome \in [Workers -> {"none", "done", "failed", "timed out"}]

(* A job goes to the FailState only because the deadline that the           *)
(* processor set has passed, never because the run was being stopped       *)
(* (processor.go:28-30, 520-523; README.md:96).  Of an Exec that makes     *)
(* deadlines of its own it is not true.                                    *)
TimedOutTruthfully ==
  \A w \in Workers : outcome[w] = "timed out" => fired[w]

(* Overload is heard: a rate above the capacity comes down to it, whatever  *)
(* the interleaving of reports, windows and stale successes, as long as    *)
(* the run goes on (README.md:66-70).                                      *)
Settles ==
  (limiter = "adaptive" /\ min <= Capacity /\ current > Capacity) ~>
    (current <= Capacity \/ ctx # "live")

(* ... and forgotten: a rate that was cut rises again until the next step   *)
(* would exceed the capacity or the maximum is reached.                    *)
Recovers ==
  (limiter = "adaptive" /\ current <= Capacity) ~>
    (current + Unit > Capacity \/ current = max \/ ctx # "live")
=============================================================================
