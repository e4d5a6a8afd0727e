--------------------------- MODULE MCRunRegistry ---------------------------
(***************************************************************************)
(* One start and two resumes of the same run race each other, or two       *)
(* starts compete for a run or a thread; a thread id may equal a run id.   *)
(***************************************************************************)
EXTENDS RunRegistry, TLC

CONSTANTS r1, r2, t1, p1, p2, p3, d1, d2

MCRunId == {r1, r2}
MCThreadId == {r1, t1}
Symmetry == Permutations(Process) \cup Permutations(Digest)
=============================================================================
