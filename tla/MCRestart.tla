------------------------------ MODULE MCRestart ------------------------------
(***************************************************************************)
(* Instances of Restart for TLC.                                           *)
(***************************************************************************)
EXTENDS Restart, MCProcessor

(* One job goes through two states and forks in the first: enough for its  *)
(* child to be lost, executed twice, and overwritten while it executes.    *)
OneForks == [s \in {"first", "second", "part"} |->
  CASE s = "first"  -> {Fork("second", <<"part">>)}
    [] OTHER        -> {To("done")}]
Mixed == {[AllIn(2, "first") EXCEPT ![<<2>>] = "part"]}
=============================================================================
