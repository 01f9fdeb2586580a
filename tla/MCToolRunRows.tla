---------------------------- MODULE MCToolRunRows ----------------------------
(***************************************************************************)
(* Instances of ToolRunRows for TLC: two runs, the second of which the tab *)
(* or the first may start, one caller, and one reset of the tab.           *)
(***************************************************************************)
EXTENDS ToolRunRows

CONSTANTS r1, r2, ancestor

SeesAll == [c \in Callers |-> Runs]
SeesFirst == [c \in Callers |-> {r1}]
\* One run produces output, between and beside the others' changes.
FirstOutputs == [r \in Runs |-> IF r = r1 THEN 1 ELSE 0]
=============================================================================
