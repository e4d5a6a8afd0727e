----------------------------- MODULE InitGraph -----------------------------
(***************************************************************************)
(* InitializationGraph (workflows/init_graph.py) over SqliteCheckpointStore*)
(* (workflows/checkpoints.py), used on one run by several clients (the     *)
(* invocations of "vibe init" that were given the same --run-id).          *)
(*                                                                         *)
(* No lock is held across a method.  It loads the checkpoint, checks it,   *)
(* perhaps runs the caller's side effect, and replaces the row by          *)
(*    UPDATE ... WHERE run_id = ? AND revision = ?                         *)
(* where the revision is the one it loaded; no row matched is the error    *)
(* CheckpointConflict.  Each of the two SQL statements is one transaction, *)
(* so the load (with the checks, which are local) and the update are one   *)
(* step each; other clients run in between.  A client may be killed at any *)
(* point.                                                                  *)
(***************************************************************************)
EXTENDS InitCheckpoint

CONSTANTS
  Client,
  NoCheckpoint,
  MaxRevision      \* bound on the revisions of the run

ASSUME MaxRevisionAssumption == MaxRevision \in Nat
ASSUME NoCheckpointAssumption == NoCheckpoint \notin Checkpoint

VARIABLES
  row,        \* the row of vibe_init_checkpoints for the run
  pc,         \* "idle", "effect" (side effect due) or "replace"
  previous,   \* the checkpoint a client loaded
  current,    \* the one it will store
  effects,    \* history: the stages whose side effect has run
  returned    \* history: the keys some call that returned had confirmed

vars == <<row, pc, previous, current, effects, returned>>

PC == {"idle", "effect", "replace"}

TypeOK ==
  /\ row \in Checkpoint \cup {NoCheckpoint}
  /\ pc \in [Client -> PC]
  /\ previous \in [Client -> Checkpoint \cup {NoCheckpoint}]
  /\ current \in [Client -> Checkpoint \cup {NoCheckpoint}]
  /\ effects \subseteq Stage
  /\ returned \subseteq Key
  /\ \A c \in Client :
       pc[c] # "idle" => previous[c] # NoCheckpoint /\ current[c] # NoCheckpoint

Init ==
  /\ row = NoCheckpoint
  /\ pc = [c \in Client |-> "idle"]
  /\ previous = [c \in Client |-> NoCheckpoint]
  /\ current = [c \in Client |-> NoCheckpoint]
  /\ effects = {}
  /\ returned = {}

-----------------------------------------------------------------------------
(***************************************************************************)
(* start is one INSERT; the primary key refuses a second one.              *)
(***************************************************************************)
Start(c) ==
  /\ pc[c] = "idle"
  /\ row = NoCheckpoint
  /\ \E d \in Digest : row' = Started(d)
  /\ UNCHANGED <<pc, previous, current, effects, returned>>

(***************************************************************************)
(* The first half of every other method: load, and hold the copy to store. *)
(***************************************************************************)
Prepare(c, new, next) ==
  /\ previous' = [previous EXCEPT ![c] = row]
  /\ current' = [current EXCEPT ![c] = new]
  /\ pc' = [pc EXCEPT ![c] = next]
  /\ UNCHANGED <<row, effects, returned>>

Loadable(c) ==
  pc[c] = "idle" /\ row # NoCheckpoint /\ row.revision < MaxRevision

Advance(c) ==
  /\ Loadable(c)
  /\ \E s \in Stage, k \in SUBSET Key, next \in {"effect", "replace"} :
       MayAdvance(row, s) /\ Prepare(c, Advanced(row, s, k), next)

Revise(c) ==
  /\ Loadable(c)
  /\ \E k \in SUBSET Key : MayRevise(row) /\ Prepare(c, Revised(row, k), "replace")

Pause(c) == Loadable(c) /\ MayPause(row) /\ Prepare(c, Paused(row), "replace")

Resume(c) ==
  /\ Loadable(c)
  /\ \E d \in Digest : MayResume(row, d) /\ Prepare(c, Resumed(row), "replace")

Fail(c)   == Loadable(c) /\ MayFail(row) /\ Prepare(c, Failed(row), "replace")
Retry(c)  == Loadable(c) /\ MayRetry(row) /\ Prepare(c, Retried(row), "replace")
Cancel(c) == Loadable(c) /\ MayCancel(row) /\ Prepare(c, Cancelled(row), "replace")

Complete(c) ==
  /\ Loadable(c)
  /\ \E k \in SUBSET Key :
       MayComplete(row) /\ Prepare(c, Completed(row, k), "replace")

(***************************************************************************)
(* advance runs the caller's side effect before it stores the checkpoint.  *)
(***************************************************************************)
SideEffect(c) ==
  /\ pc[c] = "effect"
  /\ effects' = effects \cup {current[c].stage}
  /\ pc' = [pc EXCEPT ![c] = "replace"]
  /\ UNCHANGED <<row, previous, current, returned>>

(***************************************************************************)
(* The second half: SqliteCheckpointStore.replace.  (mutant) An UPDATE     *)
(* whose WHERE clause names only the run.                                  *)
(***************************************************************************)
MatchesAnyRevision(stored, loaded) == TRUE
Matches(stored, loaded) == stored.revision = loaded.revision

Leave(c) ==
  /\ pc' = [pc EXCEPT ![c] = "idle"]
  /\ previous' = [previous EXCEPT ![c] = NoCheckpoint]
  /\ current' = [current EXCEPT ![c] = NoCheckpoint]

Replace(c) ==
  /\ pc[c] = "replace"
  /\ Matches(row, previous[c])
  /\ row' = current[c]
  /\ returned' = returned \cup (current[c].confirmed \ previous[c].confirmed)
  /\ Leave(c)
  /\ UNCHANGED effects

Conflict(c) ==
  /\ pc[c] = "replace"
  /\ ~Matches(row, previous[c])
  /\ Leave(c)
  /\ UNCHANGED <<row, effects, returned>>

Kill(c) ==
  /\ pc[c] # "idle"
  /\ Leave(c)
  /\ UNCHANGED <<row, effects, returned>>

Begin(c) ==
  \/ Start(c)  \/ Advance(c) \/ Revise(c) \/ Pause(c) \/ Resume(c)
  \/ Fail(c)   \/ Retry(c)   \/ Cancel(c) \/ Complete(c)

Finish(c) == SideEffect(c) \/ Replace(c) \/ Conflict(c) \/ Kill(c)

Next == \E c \in Client : Begin(c) \/ Finish(c)

Spec == Init /\ [][Next]_vars

-----------------------------------------------------------------------------
(***************************************************************************)
(* The revision identifies the state it was loaded with: a client whose    *)
(* loaded revision is still the stored one holds the stored checkpoint.    *)
(* It is why replace may test the revision alone.                          *)
(***************************************************************************)
RevisionIdentifiesState ==
  \A c \in Client :
    pc[c] # "idle" =>
      /\ row # NoCheckpoint
      /\ previous[c].revision <= row.revision
      /\ previous[c].revision = row.revision => previous[c] = row

(***************************************************************************)
(* No lost update: what a call that returned has confirmed stays in the    *)
(* checkpoint, whatever calls overlapped with it.                          *)
(***************************************************************************)
NoConfirmationLost == returned # {} => returned \subseteq row.confirmed

(***************************************************************************)
(* The side effect of a stage runs only once the run has reached the stage *)
(* before it (tests/workflows/test_init_graph.py: an invalid transition    *)
(* fails before its side effect).                                          *)
(***************************************************************************)
NoEarlySideEffect ==
  \A s \in effects : row # NoCheckpoint /\ row.stage + 1 >= s

(***************************************************************************)
(* The methods behave as if each were one indivisible step.                *)
(***************************************************************************)
Atomic == INSTANCE AtomicInitGraph
TransitionsAreAtomic == Atomic!Spec

(***************************************************************************)
(* Whatever the clients do, a run visits its stages in order and keeps its *)
(* terminal status, its repository digest and its confirmed answers.       *)
(***************************************************************************)
StagesInOrder == Atomic!StagesInOrder
=============================================================================
