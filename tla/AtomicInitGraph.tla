-------------------------- MODULE AtomicInitGraph --------------------------
(***************************************************************************)
(* What InitializationGraph promises to the programs that share a run:     *)
(* every method that returns has read and replaced the checkpoint in one   *)
(* indivisible step.  Its state is the stored checkpoint alone.            *)
(***************************************************************************)
EXTENDS InitCheckpoint

CONSTANTS
  NoCheckpoint,  \* what the store holds before start
  MaxRevision    \* bound on the revisions of the run

VARIABLE row

Init == row = NoCheckpoint

Start == row = NoCheckpoint /\ \E d \in Digest : row' = Started(d)

Transition ==
  /\ row # NoCheckpoint
  /\ row.revision < MaxRevision
  /\ Follows(row, row')

Next == Start \/ Transition

Spec == Init /\ [][Next]_row

(***************************************************************************)
(* A run goes through its stages in order, one at a time, and one that was *)
(* cancelled or completed never changes again.                             *)
(***************************************************************************)
StagesInOrder ==
  [][row # NoCheckpoint =>
       /\ row'.stage \in {row.stage, row.stage + 1}
       /\ row'.stage # row.stage => row.status = "running"
       /\ row.status \notin Terminal
       /\ row'.digest = row.digest
       /\ row.confirmed \subseteq row'.confirmed]_row
=============================================================================
