------------------------- MODULE MCChangeSetWriter -------------------------
(***************************************************************************)
(* Two operations: the first target lies in the root, the second two       *)
(* directories below it, so an apply may have to create both.              *)
(***************************************************************************)
EXTENDS ChangeSetWriter, TLC

CONSTANTS c1, c2

MCContent == {c1, c2}
MCDepthOf == [i \in 1..2 |-> IF i = 1 THEN 0 ELSE 2]
MCOwnership == [i \in 1..2 |-> IF i = 1 THEN "managed" ELSE "owned"]
Interchangeable == Permutations(MCContent)
=============================================================================
