---------------------------- MODULE MCInitGraph ----------------------------
(* A run of three stages shared by two interchangeable clients.            *)
EXTENDS InitGraph, TLC

Symmetry == Permutations(Client) \cup Permutations(Key)
=============================================================================
