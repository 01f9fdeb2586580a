---------------------------- MODULE MCCompletions ----------------------------
(* Two calls, of which the second may be a run that the first detaches, or   *)
(* which both run in the foreground.                                         *)
EXTENDS Completions, TLC

CONSTANTS c1, c2

SecondByFirst == c2 :> c1
=============================================================================
