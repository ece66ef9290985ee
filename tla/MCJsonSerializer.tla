--------------------------- MODULE MCJsonSerializer ---------------------------
(***************************************************************************)
(* Instances of JsonSerializer for TLC.                                    *)
(***************************************************************************)
EXTENDS JsonSerializer

OneJob == [id \in {"a"} |-> 1]
FreshOrUsed == {NoFile, OneJob}
Used == {OneJob}
Fresh == {NoFile}
None == {}
=============================================================================
