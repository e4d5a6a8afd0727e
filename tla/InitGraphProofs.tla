-------------------------- MODULE InitGraphProofs --------------------------
(***************************************************************************)
(* Proofs about InitGraph, for any clients, digests, keys, number of stages*)
(* and bound on the revisions.                                             *)
(*                                                                         *)
(* The argument.  Every method stores a checkpoint that Follows the one it *)
(* loaded: one revision later, its stage the same or the next.  So the     *)
(* stored revision only grows, a revision identifies the checkpoint that   *)
(* was stored with it, and an UPDATE that still finds the loaded revision  *)
(* replaces exactly the checkpoint that was loaded.                        *)
(***************************************************************************)
EXTENDS InitGraph, TLAPS

USE StageCountAssumption DEF Stage, First, Verify, Status, Terminal

(***************************************************************************)
(* What holds of a call in progress: it will store a successor of what it  *)
(* loaded, and the run is at least as far as what it loaded.               *)
(***************************************************************************)
CallsFollow ==
  \A c \in Client :
    pc[c] # "idle" =>
      /\ Follows(previous[c], current[c])
      /\ previous[c].stage <= row.stage

NothingBeforeStart == row = NoCheckpoint => returned = {} /\ effects = {}

IInv ==
  /\ TypeOK
  /\ RevisionIdentifiesState
  /\ CallsFollow
  /\ NothingBeforeStart
  /\ NoConfirmationLost
  /\ NoEarlySideEffect

-----------------------------------------------------------------------------
(***************************************************************************)
(* What every transition of the graph does to a checkpoint.                *)
(***************************************************************************)
LEMMA FollowsFacts ==
  ASSUME NEW p \in Checkpoint, NEW n, Follows(p, n)
  PROVE  /\ n \in Checkpoint
         /\ n.revision = p.revision + 1
         /\ n.stage \in {p.stage, p.stage + 1}
         /\ n.stage # p.stage => p.status = "running"
         /\ p.status \notin Terminal
         /\ n.digest = p.digest
         /\ p.confirmed \subseteq n.confirmed
<1>1. /\ p.revision + 1 \in Nat /\ p.attempt + 1 \in Nat
      /\ p.confirmed \subseteq Key
  BY DEF Checkpoint
<1>2. ASSUME NEW k \in SUBSET Key
      PROVE  /\ Revised(p, k) \in Checkpoint
             /\ Revised(p, k).revision = p.revision + 1
             /\ Revised(p, k).stage = p.stage
             /\ Revised(p, k).digest = p.digest
             /\ p.confirmed \subseteq Revised(p, k).confirmed
  <2>1. p.confirmed \cup k \in SUBSET Key
    BY <1>1
  <2> QED BY <1>1, <2>1 DEF Revised, Checkpoint
<1>3. ASSUME NEW st \in Status
      PROVE  /\ WithStatus(p, st) \in Checkpoint
             /\ WithStatus(p, st).revision = p.revision + 1
             /\ WithStatus(p, st).stage = p.stage
             /\ WithStatus(p, st).digest = p.digest
             /\ WithStatus(p, st).confirmed = p.confirmed
  BY <1>1 DEF WithStatus, Checkpoint
<1>4. CASE \E s \in Stage, k \in SUBSET Key : MayAdvance(p, s) /\ n = Advanced(p, s, k)
  <2>1. PICK s \in Stage, k \in SUBSET Key :
          MayAdvance(p, s) /\ n = [Revised(p, k) EXCEPT !.stage = s]
    BY <1>4 DEF Advanced
  <2> QED BY <1>2, <2>1 DEF MayAdvance, IsNextStage, Checkpoint
<1>5. CASE \E k \in SUBSET Key : MayRevise(p) /\ n = Revised(p, k)
  BY <1>2, <1>5 DEF MayRevise
<1>6. CASE \/ MayPause(p) /\ n = Paused(p)
           \/ \E d \in Digest : MayResume(p, d) /\ n = Resumed(p)
           \/ MayFail(p) /\ n = Failed(p)
           \/ MayCancel(p) /\ n = Cancelled(p)
  BY <1>3, <1>6 DEF MayPause, MayResume, MayFail, MayCancel,
                    Paused, Resumed, Failed, Cancelled
<1>7. CASE MayRetry(p) /\ n = Retried(p)
  <2>1. n = [WithStatus(p, "running") EXCEPT !.attempt = p.attempt + 1]
    BY <1>7 DEF Retried, WithStatus, Checkpoint
  <2> QED BY <1>1, <1>3, <1>7, <2>1 DEF MayRetry, Checkpoint
<1>8. CASE \E k \in SUBSET Key : MayComplete(p) /\ n = Completed(p, k)
  <2>1. PICK k \in SUBSET Key :
          MayComplete(p) /\ n = [Revised(p, k) EXCEPT !.status = "completed"]
    BY <1>8 DEF Completed
  <2> QED BY <1>2, <2>1 DEF MayComplete, Checkpoint
<1> QED
  BY <1>4, <1>5, <1>6, <1>7, <1>8 DEF Follows

(***************************************************************************)
(* Every method but start begins by holding a successor of the stored row. *)
(***************************************************************************)
LEMMA CallsPrepareSuccessors ==
  ASSUME NEW c \in Client, Begin(c), ~Start(c)
  PROVE  \E n, next : /\ Loadable(c)
                      /\ Follows(row, n)
                      /\ next \in {"effect", "replace"}
                      /\ Prepare(c, n, next)
<1>1. CASE Advance(c)  BY <1>1 DEF Advance, Follows
<1>2. CASE Revise(c)   BY <1>2 DEF Revise, Follows
<1>3. CASE Pause(c)    BY <1>3 DEF Pause, Follows
<1>4. CASE Resume(c)   BY <1>4 DEF Resume, Follows
<1>5. CASE Fail(c)     BY <1>5 DEF Fail, Follows
<1>6. CASE Retry(c)    BY <1>6 DEF Retry, Follows
<1>7. CASE Cancel(c)   BY <1>7 DEF Cancel, Follows
<1>8. CASE Complete(c) BY <1>8 DEF Complete, Follows
<1> QED
  BY <1>1, <1>2, <1>3, <1>4, <1>5, <1>6, <1>7, <1>8 DEF Begin

-----------------------------------------------------------------------------
LEMMA InitEstablishes == Init => IInv
BY DEF Init, IInv, TypeOK, PC, RevisionIdentifiesState, CallsFollow,
       NothingBeforeStart, NoConfirmationLost, NoEarlySideEffect

LEMMA StartPreserves ==
  ASSUME IInv, NEW c \in Client, Start(c)
  PROVE  IInv'
<1>1. PICK d \in Digest : row' = Started(d)
  BY DEF Start
<1>2. row' \in Checkpoint
  BY <1>1 DEF Started, Checkpoint
<1>3. \A x \in Client : pc[x] = "idle"
  BY DEF IInv, RevisionIdentifiesState, Start
<1>4. TypeOK'
  BY <1>2 DEF IInv, TypeOK, Start
<1>5. RevisionIdentifiesState'
  BY <1>3 DEF RevisionIdentifiesState, Start
<1>6. CallsFollow'
  BY <1>3 DEF CallsFollow, Start
<1>7. NothingBeforeStart'
  BY <1>2, NoCheckpointAssumption DEF NothingBeforeStart
<1>8. NoConfirmationLost'
  BY DEF IInv, NothingBeforeStart, NoConfirmationLost, Start
<1>9. NoEarlySideEffect'
  BY DEF IInv, NothingBeforeStart, NoEarlySideEffect, Start
<1> QED
  BY <1>4, <1>5, <1>6, <1>7, <1>8, <1>9 DEF IInv

LEMMA PreparePreserves ==
  ASSUME IInv, NEW c \in Client, NEW n, NEW next \in {"effect", "replace"},
         Loadable(c), Follows(row, n), Prepare(c, n, next)
  PROVE  IInv'
<1>1. row \in Checkpoint /\ row # NoCheckpoint
  BY DEF IInv, TypeOK, Loadable
<1>2. n \in Checkpoint
  BY <1>1, FollowsFacts
<1>3. TypeOK'
  BY <1>1, <1>2, NoCheckpointAssumption DEF IInv, TypeOK, PC, Prepare
<1>4. RevisionIdentifiesState'
  BY <1>1 DEF IInv, TypeOK, RevisionIdentifiesState, Prepare, Checkpoint
<1>5. CallsFollow'
  <2> SUFFICES ASSUME NEW x \in Client, pc'[x] # "idle"
               PROVE  Follows(previous'[x], current'[x]) /\ previous'[x].stage <= row.stage
    BY DEF CallsFollow, Prepare
  <2>1. CASE x = c
    <3>1. previous'[x] = row /\ current'[x] = n
      BY <2>1 DEF IInv, TypeOK, Prepare
    <3>2. row.stage \in Nat
      BY <1>1 DEF Checkpoint
    <3> QED BY <3>1, <3>2
  <2>2. CASE x # c
    <3>1. previous'[x] = previous[x] /\ current'[x] = current[x] /\ pc[x] # "idle"
      BY <2>2 DEF IInv, TypeOK, Prepare
    <3> QED BY <3>1 DEF IInv, CallsFollow
  <2> QED BY <2>1, <2>2
<1>6. NothingBeforeStart'
  BY DEF IInv, NothingBeforeStart, Prepare
<1>7. NoConfirmationLost'
  BY DEF IInv, NoConfirmationLost, Prepare
<1>8. NoEarlySideEffect'
  BY DEF IInv, NoEarlySideEffect, Prepare
<1> QED
  BY <1>3, <1>4, <1>5, <1>6, <1>7, <1>8 DEF IInv

LEMMA SideEffectPreserves ==
  ASSUME IInv, NEW c \in Client, SideEffect(c)
  PROVE  IInv'
<1>1. /\ previous[c] \in Checkpoint
      /\ row \in Checkpoint /\ row # NoCheckpoint
  BY DEF IInv, TypeOK, RevisionIdentifiesState, SideEffect
<1>2. Follows(previous[c], current[c]) /\ previous[c].stage <= row.stage
  BY DEF IInv, CallsFollow, SideEffect
<1>3. current[c] \in Checkpoint /\ current[c].stage \in {previous[c].stage, previous[c].stage + 1}
  BY <1>1, <1>2, FollowsFacts
<1>4. current[c].stage \in Stage /\ current[c].stage <= row.stage + 1
  BY <1>1, <1>2, <1>3 DEF Checkpoint
<1>5. TypeOK'
  BY <1>4 DEF IInv, TypeOK, PC, SideEffect
<1>6. RevisionIdentifiesState'
  BY DEF IInv, TypeOK, RevisionIdentifiesState, SideEffect
<1>7. CallsFollow'
  BY DEF IInv, TypeOK, CallsFollow, SideEffect
<1>8. NothingBeforeStart'
  BY <1>1 DEF NothingBeforeStart, SideEffect
<1>9. NoConfirmationLost'
  BY DEF IInv, NoConfirmationLost, SideEffect
<1>10. NoEarlySideEffect'
  BY <1>1, <1>4 DEF IInv, NoEarlySideEffect, SideEffect
<1> QED
  BY <1>5, <1>6, <1>7, <1>8, <1>9, <1>10 DEF IInv

(***************************************************************************)
(* The UPDATE that finds the loaded revision replaces the loaded row.      *)
(***************************************************************************)
LEMMA ReplaceIsSuccessor ==
  ASSUME IInv, NEW c \in Client, Replace(c)
  PROVE  /\ row \in Checkpoint /\ row # NoCheckpoint
         /\ previous[c] = row
         /\ row' = current[c]
         /\ Follows(row, row')
<1>1. pc[c] # "idle" /\ row.revision = previous[c].revision /\ row' = current[c]
  BY DEF Replace, Matches
<1>2. row # NoCheckpoint /\ previous[c] = row
  BY <1>1 DEF IInv, RevisionIdentifiesState
<1>3. Follows(previous[c], current[c])
  BY <1>1 DEF IInv, CallsFollow
<1> QED
  BY <1>1, <1>2, <1>3 DEF IInv, TypeOK

LEMMA ReplacePreserves ==
  ASSUME IInv, NEW c \in Client, Replace(c)
  PROVE  IInv'
<1>1. /\ row \in Checkpoint /\ row # NoCheckpoint
      /\ previous[c] = row
      /\ row' = current[c]
      /\ Follows(row, row')
  BY ReplaceIsSuccessor
<1>2. /\ row' \in Checkpoint /\ row' # NoCheckpoint
      /\ row'.revision = row.revision + 1
      /\ row'.stage \in {row.stage, row.stage + 1}
      /\ row.confirmed \subseteq row'.confirmed
  BY <1>1, FollowsFacts, NoCheckpointAssumption
<1>3. TypeOK'
  <2>1. /\ pc' \in [Client -> PC]
        /\ previous' \in [Client -> Checkpoint \cup {NoCheckpoint}]
        /\ current' \in [Client -> Checkpoint \cup {NoCheckpoint}]
        /\ effects' \subseteq Stage
    BY DEF IInv, TypeOK, PC, Replace, Leave
  <2>2. returned' \subseteq Key
    BY <1>1, <1>2 DEF IInv, TypeOK, Replace, Checkpoint
  <2>3. \A x \in Client :
          pc'[x] # "idle" => previous'[x] # NoCheckpoint /\ current'[x] # NoCheckpoint
    BY DEF IInv, TypeOK, Replace, Leave
  <2> QED BY <1>2, <2>1, <2>2, <2>3 DEF TypeOK
<1>4. ASSUME NEW x \in Client, pc'[x] # "idle"
      PROVE  /\ x # c /\ pc[x] # "idle"
             /\ previous'[x] = previous[x] /\ current'[x] = current[x]
             /\ previous[x] \in Checkpoint
             /\ previous[x].revision <= row.revision
             /\ previous[x].stage <= row.stage
             /\ Follows(previous[x], current[x])
  BY <1>4 DEF IInv, TypeOK, RevisionIdentifiesState, CallsFollow, Replace, Leave
<1>5. RevisionIdentifiesState'
  <2>1. ASSUME NEW x \in Client, pc'[x] # "idle"
        PROVE  previous'[x].revision < row'.revision
    BY <1>1, <1>2, <1>4, <2>1 DEF Checkpoint
  <2>2. ASSUME NEW x \in Client, pc'[x] # "idle"
        PROVE  previous'[x].revision \in Nat
    BY <1>4, <2>2 DEF Checkpoint
  <2>3. row'.revision \in Nat
    BY <1>2 DEF Checkpoint
  <2> QED BY <1>2, <2>1, <2>2, <2>3 DEF RevisionIdentifiesState
<1>6. CallsFollow'
  <2>1. ASSUME NEW x \in Client, pc'[x] # "idle"
        PROVE  previous'[x].stage <= row'.stage
    BY <1>1, <1>2, <1>4, <2>1 DEF Checkpoint
  <2> QED BY <1>4, <2>1 DEF CallsFollow
<1>7. NothingBeforeStart'
  BY <1>2 DEF NothingBeforeStart
<1>8. NoConfirmationLost'
  BY <1>1, <1>2 DEF IInv, NoConfirmationLost, Replace
<1>9. NoEarlySideEffect'
  BY <1>1, <1>2 DEF IInv, TypeOK, NoEarlySideEffect, Replace, Checkpoint
<1> QED
  BY <1>3, <1>5, <1>6, <1>7, <1>8, <1>9 DEF IInv

LEMMA LeavePreserves ==
  ASSUME IInv, NEW c \in Client, Conflict(c) \/ Kill(c)
  PROVE  IInv'
<1>1. Leave(c) /\ UNCHANGED <<row, effects, returned>>
  BY DEF Conflict, Kill
<1>2. TypeOK'
  BY <1>1 DEF IInv, TypeOK, PC, Leave
<1>3. RevisionIdentifiesState'
  BY <1>1 DEF IInv, TypeOK, RevisionIdentifiesState, Leave
<1>4. CallsFollow'
  BY <1>1 DEF IInv, TypeOK, CallsFollow, Leave
<1>5. NothingBeforeStart' /\ NoConfirmationLost' /\ NoEarlySideEffect'
  BY <1>1 DEF IInv, NothingBeforeStart, NoConfirmationLost, NoEarlySideEffect
<1> QED
  BY <1>2, <1>3, <1>4, <1>5 DEF IInv

LEMMA StepPreserves == IInv /\ [Next]_vars => IInv'
<1>1. CASE UNCHANGED vars
  BY <1>1 DEF IInv, vars, TypeOK, RevisionIdentifiesState, CallsFollow,
              NothingBeforeStart, NoConfirmationLost, NoEarlySideEffect
<1>2. ASSUME IInv, NEW c \in Client, Begin(c) PROVE IInv'
  <2>1. CASE Start(c)
    BY <1>2, <2>1, StartPreserves
  <2>2. CASE ~Start(c)
    BY <1>2, <2>2, CallsPrepareSuccessors, PreparePreserves
  <2> QED BY <2>1, <2>2
<1>3. ASSUME IInv, NEW c \in Client, Finish(c) PROVE IInv'
  BY <1>3, SideEffectPreserves, ReplacePreserves, LeavePreserves DEF Finish
<1> QED
  BY <1>1, <1>2, <1>3 DEF Next

LEMMA Invariance == Spec => []IInv
BY InitEstablishes, StepPreserves, PTL DEF Spec

-----------------------------------------------------------------------------
(***************************************************************************)
(* Every variable keeps its type, and a call in progress holds both copies.*)
(***************************************************************************)
THEOREM TypeCorrect == Spec => []TypeOK
<1>1. IInv => TypeOK  BY DEF IInv
<1> QED BY <1>1, Invariance, PTL

(***************************************************************************)
(* A loaded revision that is still stored identifies the whole checkpoint: *)
(* comparing revisions is enough for replace.                              *)
(***************************************************************************)
THEOREM RevisionSound == Spec => []RevisionIdentifiesState
<1>1. IInv => RevisionIdentifiesState  BY DEF IInv
<1> QED BY <1>1, Invariance, PTL

(***************************************************************************)
(* No overlapping call can drop what a call that returned has confirmed.   *)
(***************************************************************************)
THEOREM ConfirmationsKept == Spec => []NoConfirmationLost
<1>1. IInv => NoConfirmationLost  BY DEF IInv
<1> QED BY <1>1, Invariance, PTL

(***************************************************************************)
(* A side effect never runs ahead of the run's stage.                      *)
(***************************************************************************)
THEOREM SideEffectsInTurn == Spec => []NoEarlySideEffect
<1>1. IInv => NoEarlySideEffect  BY DEF IInv
<1> QED BY <1>1, Invariance, PTL

(***************************************************************************)
(* Every step of a method either leaves the stored checkpoint alone or is  *)
(* one whole transition of the abstract graph: the methods are atomic.     *)
(* (The bound on revisions was tested when the row was loaded.)            *)
(***************************************************************************)
LoadedBelowBound ==
  \A c \in Client : pc[c] # "idle" => previous[c].revision < MaxRevision

LEMMA BoundInvariance == Spec => []LoadedBelowBound
<1>1. Init => LoadedBelowBound
  BY DEF Init, LoadedBelowBound
<1>2. IInv /\ LoadedBelowBound /\ [Next]_vars => LoadedBelowBound'
  <2> SUFFICES ASSUME IInv, LoadedBelowBound, [Next]_vars PROVE LoadedBelowBound'
    OBVIOUS
  <2>1. CASE UNCHANGED vars
    BY <2>1 DEF LoadedBelowBound, vars
  <2>2. ASSUME NEW c \in Client, Start(c) PROVE LoadedBelowBound'
    BY <2>2 DEF LoadedBelowBound, Start
  <2>3. ASSUME NEW c \in Client, NEW n, NEW next, Loadable(c), Prepare(c, n, next)
        PROVE  LoadedBelowBound'
    BY <2>3 DEF IInv, TypeOK, LoadedBelowBound, Loadable, Prepare
  <2>4. ASSUME NEW c \in Client, Begin(c) PROVE LoadedBelowBound'
    BY <2>2, <2>3, <2>4, CallsPrepareSuccessors
  <2>5. ASSUME NEW c \in Client, Finish(c) PROVE LoadedBelowBound'
    BY <2>5 DEF IInv, TypeOK, LoadedBelowBound, Finish, SideEffect, Replace,
                Conflict, Kill, Leave
  <2> QED BY <2>1, <2>4, <2>5 DEF Next
<1> QED
  BY <1>1, <1>2, Invariance, PTL DEF Spec

(***************************************************************************)
(* The instance has its own copy of the transition relation.               *)
(***************************************************************************)
LEMMA SameTransitions ==
  ASSUME NEW p, NEW n, Follows(p, n)
  PROVE  Atomic!Follows(p, n)
BY DEF Follows, MayAdvance, MayRevise, MayPause, MayResume, MayFail, MayRetry,
       MayCancel, MayComplete, IsNextStage, Revised, Advanced, WithStatus, Paused,
       Resumed, Failed, Retried, Cancelled, Completed,
       Atomic!Follows, Atomic!MayAdvance, Atomic!MayRevise, Atomic!MayPause,
       Atomic!MayResume, Atomic!MayFail, Atomic!MayRetry, Atomic!MayCancel,
       Atomic!MayComplete, Atomic!IsNextStage, Atomic!Revised, Atomic!Advanced,
       Atomic!WithStatus, Atomic!Paused, Atomic!Resumed, Atomic!Failed,
       Atomic!Retried, Atomic!Cancelled, Atomic!Completed,
       Atomic!Stage, Atomic!Verify, Atomic!Terminal

LEMMA StepIsAtomic ==
  ASSUME IInv, LoadedBelowBound, [Next]_vars
  PROVE  [Atomic!Next]_row
<1>1. CASE UNCHANGED vars
  BY <1>1 DEF vars
<1>2. ASSUME NEW c \in Client, Start(c) PROVE Atomic!Start
  BY <1>2 DEF Start, Started, Atomic!Start, Atomic!Started, Atomic!First
<1>3. ASSUME NEW c \in Client, Begin(c), ~Start(c) PROVE UNCHANGED row
  BY <1>3, CallsPrepareSuccessors DEF Prepare
<1>4. ASSUME NEW c \in Client, Replace(c) PROVE Atomic!Transition
  <2>1. row # NoCheckpoint /\ previous[c] = row /\ Follows(row, row')
    BY <1>4, ReplaceIsSuccessor
  <2>2. row.revision < MaxRevision
    BY <1>4, <2>1 DEF LoadedBelowBound, Replace
  <2> QED BY <2>1, <2>2, SameTransitions DEF Atomic!Transition
<1>5. ASSUME NEW c \in Client, SideEffect(c) \/ Conflict(c) \/ Kill(c)
      PROVE  UNCHANGED row
  BY <1>5 DEF SideEffect, Conflict, Kill
<1> QED
  BY <1>1, <1>2, <1>3, <1>4, <1>5 DEF Next, Finish, Atomic!Next

(***************************************************************************)
(* InitGraph implements AtomicInitGraph: nobody can tell a method from one *)
(* indivisible transition of the stored checkpoint.                        *)
(***************************************************************************)
THEOREM ImplementsAtomicGraph == Spec => TransitionsAreAtomic
<1>1. Init => Atomic!Init
  BY DEF Init, Atomic!Init
<1>2. IInv /\ LoadedBelowBound /\ [Next]_vars => [Atomic!Next]_row
  BY StepIsAtomic
<1> QED
  BY <1>1, <1>2, Invariance, BoundInvariance, PTL
  DEF Spec, TransitionsAreAtomic, Atomic!Spec

(***************************************************************************)
(* Stages in order, terminal status final, digest and confirmed keys kept, *)
(* in every behaviour of any number of clients.                            *)
(***************************************************************************)
THEOREM RunsInOrder == Spec => StagesInOrder
<1>1. IInv /\ [Next]_vars =>
        [row # NoCheckpoint =>
           /\ row'.stage \in {row.stage, row.stage + 1}
           /\ row'.stage # row.stage => row.status = "running"
           /\ row.status \notin Terminal
           /\ row'.digest = row.digest
           /\ row.confirmed \subseteq row'.confirmed]_row
  <2> SUFFICES ASSUME IInv, [Next]_vars, row # NoCheckpoint, row' # row
               PROVE  /\ row'.stage \in {row.stage, row.stage + 1}
                      /\ row'.stage # row.stage => row.status = "running"
                      /\ row.status \notin Terminal
                      /\ row'.digest = row.digest
                      /\ row.confirmed \subseteq row'.confirmed
    OBVIOUS
  <2>1. PICK c \in Client : Replace(c)
    BY CallsPrepareSuccessors DEF Next, vars, Begin, Finish, Start, Prepare, SideEffect, Conflict, Kill
  <2>2. row \in Checkpoint /\ Follows(row, row')
    BY <2>1, ReplaceIsSuccessor
  <2> QED BY <2>2, FollowsFacts
<1> QED
  BY <1>1, Invariance, PTL DEF Spec, StagesInOrder, Atomic!StagesInOrder, Atomic!Terminal
=============================================================================
