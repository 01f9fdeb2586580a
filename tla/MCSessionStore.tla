--------------------------- MODULE MCSessionStore ---------------------------
(***************************************************************************)
(* Instances of SessionStore for TLC: two directories, one name of the     *)
(* user's and two sessions, of which one changes its stack and one may be  *)
(* annotated instead.                                                      *)
(***************************************************************************)
EXTENDS SessionStore

CONSTANTS d1, d2, s1, s2, own

Symmetric == Permutations(Dirs)
=============================================================================
