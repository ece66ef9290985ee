---------------------------- MODULE MCExecuteOne ----------------------------
(***************************************************************************)
(* Instances of ExecuteOne for TLC.                                        *)
(***************************************************************************)
EXTENDS ExecuteOne

(* Above the capacity; bounds in the wrong order, and an initial rate      *)
(* below both; cuts that are never merged.                                 *)
HalfEvents == {
  [initial |-> 7, min |-> 1, max |-> 8, disableMerge |-> FALSE],
  [initial |-> 0, min |-> 6, max |-> -1, disableMerge |-> FALSE],
  [initial |-> 6, min |-> 2, max |-> 6, disableMerge |-> TRUE]}
EveryKind == {"none", "plain", "adaptive"}
=============================================================================
