----------------------------- MODULE MCToolRuns -----------------------------
(***************************************************************************)
(* Instances of ToolRuns for TLC: more runs than may be active at once, a  *)
(* retention of one, and a caller to which one of the runs is invisible.   *)
(***************************************************************************)
EXTENDS ToolRuns

CONSTANTS r1, r2, r3, ancestor

AncestorSeesTwo == [c \in Callers |-> {r1, r2}]
\* One run produces output, between and beside the others' changes.
FirstOutputs == [r \in Runs |-> IF r = r1 THEN 1 ELSE 0]
=============================================================================
