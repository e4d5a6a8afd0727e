--------------------------- MODULE MCInitCommand ---------------------------
(* Two interchangeable invocations of "vibe init" on one run of nine stages*)
(* in a repository with two versions and two gaps, one of them required.   *)
EXTENDS InitCommand, TLC

Symmetry == Permutations(Process)
=============================================================================
