------------------------------ MODULE Workflow ------------------------------
(***************************************************************************)
(* What a Processor promises about a Run, whatever its goroutines do: the  *)
(* jobs of the run move only along results of their State.Exec, one whole  *)
(* result at a time; a fork brings in new jobs under new ids and disturbs  *)
(* no job that exists; Exec says "finished" only of a run whose jobs are   *)
(* all terminal, and after Exec has returned nothing moves.  A state that  *)
(* nobody registered ends the run: a result is taken over up to the first  *)
(* such state and including it, and no job moves after that.               *)
(***************************************************************************)
EXTENDS Integers, Sequences, Maps

CONSTANTS
  States, Terminal,
  ExecResults,   \* per working state, the results its Exec may return
  InitialRuns    \* the runs Exec may be called with: id -> state

VARIABLES
  pool,          \* the jobs of the run: id -> state
  outcome        \* "running", "finished" (nil), or "stopped": ctx.Err(), or
                 \* whatever Exec answers while the program dies

vars == <<pool, outcome>>

Init ==
  /\ pool \in InitialRuns
  /\ outcome = "running"

(* The kicks of a result that are reached, and the jobs they fork off id.  *)
Taken(r) ==
  {i \in 0 .. Len(r.kicks) - 1 : r.state \in States /\ \A h \in 1 .. i : r.kicks[h] \in States}

Children(id, r) ==
  [child \in {Append(id, i) : i \in Taken(r)} |-> r.kicks[child[Len(child)] + 1]]

Advance(id, r) ==
  /\ outcome = "running"
  /\ \A x \in DOMAIN pool : pool[x] \in States
  /\ DOMAIN Children(id, r) \cap DOMAIN pool = {}
  /\ pool' = Overlay(Children(id, r), Put(pool, id, r.state))
  /\ UNCHANGED outcome

Finish ==
  /\ outcome = "running"
  /\ \A id \in DOMAIN pool : pool[id] \in Terminal
  /\ outcome' = "finished"
  /\ UNCHANGED pool

Stop ==
  /\ outcome = "running"
  /\ outcome' = "stopped"
  /\ UNCHANGED pool

Next ==
  \/ \E id \in DOMAIN pool :
       pool[id] \in States \ Terminal /\ \E r \in ExecResults[pool[id]] : Advance(id, r)
  \/ Finish
  \/ Stop

Spec == Init /\ [][Next]_vars
=============================================================================
