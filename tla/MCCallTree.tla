----------------------------- MODULE MCCallTree -----------------------------
(***************************************************************************)
(* Instances of CallTree for TLC: batches of one and of two calls, which   *)
(* are alike.                                                              *)
(***************************************************************************)
EXTENDS CallTree

CONSTANTS a, b

Symmetric == Permutations(Calls)
=============================================================================
