--------------------------- MODULE InitCheckpoint ---------------------------
(***************************************************************************)
(* The checkpoint of one initialization run (workflows/state.py) and what  *)
(* each method of InitializationGraph (workflows/init_graph.py) makes of   *)
(* it.  The operators are pure: InitGraph applies them through a load and a*)
(* conditional UPDATE, AtomicInitGraph in one step, InitCommand from the   *)
(* "vibe init" program.                                                    *)
(*                                                                         *)
(* A stage is its position in the enumeration InitStage; StageCount is the *)
(* length of that enumeration (9 in the code; the graph itself only uses   *)
(* its order, its first member and its last).  The confirmed mapping is    *)
(* abstracted to the set of its keys, the repository digest to a value.    *)
(***************************************************************************)
EXTENDS Integers

CONSTANTS
  StageCount,    \* number of stages
  Digest,        \* the repository digests
  Key            \* the keys of the confirmed mapping

ASSUME StageCountAssumption == StageCount \in Nat \ {0}

Stage  == 1..StageCount
First  == 1                   \* InitStage.INSPECT
Verify == StageCount          \* InitStage.VERIFY
Status == {"running", "paused", "failed", "cancelled", "completed"}
Terminal == {"cancelled", "completed"}

Checkpoint ==
  [stage: Stage, status: Status, digest: Digest, confirmed: SUBSET Key,
   attempt: Nat, revision: Nat]

Started(d) ==
  [stage |-> First, status |-> "running", digest |-> d, confirmed |-> {},
   attempt |-> 1, revision |-> 1]

(***************************************************************************)
(* _NEXT_STAGE: the stage that follows, for every stage but the last.      *)
(* (mutant) A table that lets a run jump to any later stage.               *)
(***************************************************************************)
(* (mutant) One that lets a run repeat the stage it is at.                 *)
IsSameOrNext(s, t) == t \in {s, s + 1}
IsLaterStage(s, t) == t > s
IsNextStage(s, t) == s < StageCount /\ t = s + 1

(***************************************************************************)
(* Each method's acceptance test, from its early raises.                   *)
(***************************************************************************)
MayAdvance(c, s) == c.status = "running" /\ IsNextStage(c.stage, s)
MayRevise(c) == c.status = "running"
MayPause(c) == c.status = "running"
(* (mutant) A resume that does not compare digests.                        *)
MayResumeAnyVersion(c, d) == c.status = "paused"
MayResume(c, d) == c.status = "paused" /\ d = c.digest
MayFail(c) == c.status = "running"
MayRetry(c) == c.status = "failed"
MayCancel(c) == c.status \notin Terminal
MayComplete(c) == c.status = "running" /\ c.stage = Verify

(***************************************************************************)
(* Each method's result: a copy of the checkpoint it was given, with the   *)
(* next revision.  (_merge adds the confirmed keys to the earlier ones.)   *)
(***************************************************************************)
Revised(c, k) ==
  [c EXCEPT !.confirmed = @ \cup k, !.revision = @ + 1]

(* (mutant) The table looked up twice.                                     *)
AdvancedTwice(c, s, k) == [Revised(c, k) EXCEPT !.stage = s + 1]
Advanced(c, s, k) == [Revised(c, k) EXCEPT !.stage = s]

(* (mutant) A status change that stores the revision it loaded.            *)
WithStatusSameRevision(c, st) == [c EXCEPT !.status = st]
WithStatus(c, st) == [c EXCEPT !.status = st, !.revision = @ + 1]

Paused(c) == WithStatus(c, "paused")
Resumed(c) == WithStatus(c, "running")
Failed(c) == WithStatus(c, "failed")
Retried(c) == [WithStatus(c, "running") EXCEPT !.attempt = @ + 1]
Cancelled(c) == WithStatus(c, "cancelled")
Completed(c, k) == [Revised(c, k) EXCEPT !.status = "completed"]

(***************************************************************************)
(* The checkpoint n is what one of the methods makes of the checkpoint p.  *)
(***************************************************************************)
Follows(p, n) ==
  \/ \E s \in Stage, k \in SUBSET Key : MayAdvance(p, s) /\ n = Advanced(p, s, k)
  \/ \E k \in SUBSET Key : MayRevise(p) /\ n = Revised(p, k)
  \/ MayPause(p) /\ n = Paused(p)
  \/ \E d \in Digest : MayResume(p, d) /\ n = Resumed(p)
  \/ MayFail(p) /\ n = Failed(p)
  \/ MayRetry(p) /\ n = Retried(p)
  \/ MayCancel(p) /\ n = Cancelled(p)
  \/ \E k \in SUBSET Key : MayComplete(p) /\ n = Completed(p, k)
=============================================================================
