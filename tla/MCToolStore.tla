----------------------------- MODULE MCToolStore -----------------------------
(***************************************************************************)
(* Instances of ToolStore for TLC: two toolboxes, of which the first can   *)
(* shadow the second, one shipped and one authored tool name, and a caller *)
(* that selects both toolboxes.                                            *)
(***************************************************************************)
EXTENDS ToolStore, TLC

CONSTANTS t1, t2, core, user, lib1, lib2, src1, src2, path, c1

\* A session that selected both toolboxes, and toolboxes named explicitly.
Both  == {<<t1, t2>>, <<t2>>}
Every == {<<t1>>, <<t2>>, <<t1, t2>>}

ScopeBoth == [c \in Clients |-> <<t1, t2>>]

\* Sources differ in nothing but that some are shipped.
Symmetric == Permutations(Authored) \cup Permutations(Shipped)
=============================================================================
