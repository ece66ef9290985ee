----------------------------- MODULE MCProcessor -----------------------------
(***************************************************************************)
(* Instances of Processor for TLC: the workflows that the runs use.        *)
(***************************************************************************)
EXTENDS Processor

To(s) == [state |-> s, kicks |-> <<>>]
Fork(s, kicks) == [state |-> s, kicks |-> kicks]

Roots(n) == {<<i>> : i \in 1 .. n}
AllIn(n, s) == [id \in Roots(n) |-> s]

(* A fan-out: "split" forks at most once into two jobs of state "part",    *)
(* "part" may fail back into itself, both end in "done".  A run, a result  *)
(* or a fork may name a state that nobody registered.                      *)
PipeStates == {"split", "part", "done"}
PipeTerminal == {"done"}
PipeConcurrency == [s \in PipeStates |-> CASE s = "split" -> 2 [] s = "part" -> 1 [] OTHER -> 0]
PipeExec == [s \in {"split", "part"} |->
  IF s = "split" THEN {To("part"), Fork("part", <<"part", "done">>), Fork("done", <<"nowhere">>)}
  ELSE {To("part"), To("done"), To("nowhere")}]
PipeRuns == {AllIn(2, "split"), [AllIn(2, "done") EXCEPT ![<<2>>] = "part"], AllIn(1, "done"),
             [AllIn(2, "part") EXCEPT ![<<1>>] = "nowhere"]}

(* The same without the stray states.                                      *)
CleanExec == [s \in {"split", "part"} |->
  IF s = "split" THEN {To("part"), Fork("part", <<"part", "done">>)}
  ELSE {To("part"), To("done")}]
CleanRuns == {AllIn(2, "split")}

(* Two forks of the same job, no cycle: the second fork kicks an id that   *)
(* exists, and may still be in flight.                                     *)
ReforkStates == {"first", "second", "part", "done"}
ReforkConcurrency == [s \in ReforkStates |-> IF s = "done" THEN 0 ELSE 1]
ReforkExec == [s \in {"first", "second", "part"} |->
  CASE s = "first"  -> {Fork("second", <<"part">>)}
    [] s = "second" -> {To("done"), Fork("done", <<"part">>)}
    [] s = "part"   -> {To("done")}]
ReforkRuns == {AllIn(1, "first"), [AllIn(2, "first") EXCEPT ![<<2>>] = "part"]}

(* Jobs that poll for ever, more of them than the state runs at once.      *)
PollStates == {"poll"}
NoTerminal == {}
PollConcurrency == [s \in PollStates |-> 2]
PollExec == [s \in PollStates |-> {To("poll")}]
PollRuns == {AllIn(4, "poll")}
=============================================================================
