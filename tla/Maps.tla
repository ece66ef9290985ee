-------------------------------- MODULE Maps --------------------------------
(***************************************************************************)
(* Finite maps, Go's map[K]V: assignment to a key, and the map that is     *)
(* left when the entries of one are played over another.  TLC!@@ says the  *)
(* same, but the proof system cannot expand it.                            *)
(***************************************************************************)

Put(f, x, v) == [y \in DOMAIN f \cup {x} |-> IF y = x THEN v ELSE f[y]]

Overlay(new, old) ==
  [x \in DOMAIN new \cup DOMAIN old |-> IF x \in DOMAIN new THEN new[x] ELSE old[x]]
=============================================================================
