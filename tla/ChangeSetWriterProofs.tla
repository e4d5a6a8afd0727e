----------------------- MODULE ChangeSetWriterProofs -----------------------
(***************************************************************************)
(* Proofs about apply_changeset for every number of operations, every      *)
(* content, and any number of edits and failing calls.                     *)
(***************************************************************************)
EXTENDS ChangeSetWriter, TLAPS

-----------------------------------------------------------------------------
(***************************************************************************)
(* The inductive invariant                                                 *)
(***************************************************************************)

\* A call gets past verification only without a conflict.
NoConflict == pc \in (Preparing \ {"verify"}) \cup InTry => ~conflict

\* What the call could put back is what was reviewed.
Base ==
    pc \in Preparing \cup InTry =>
        \A i \in Op : Verified(i) /\ i \notin raced /\ ~conflict => Logical[i] = before[i]

\* The swaps have not reached these operations yet.
Ahead ==
    /\ pc \in Preparing \cup {"stage"} => backedUp = {} /\ installed = {}
    /\ pc = "swap_out" => \A i \in Op : i >= at => i \notin backedUp \cup installed
    /\ pc \in {"parents", "swap_in"} =>
        /\ after[at] # Absent
        /\ at \notin installed
        /\ at \notin raced => tree[at] = Absent
        /\ \A i \in Op : i > at => i \notin backedUp \cup installed

\* The swaps behind us are complete.
Behind ==
    /\ pc \in {"swap_out", "parents", "swap_in"} =>
        \A i \in Op : i < at /\ i \notin raced => tree[i] = after[i]
    /\ pc \in Cleaning => \A i \in Op \ raced : tree[i] = after[i]

\* Nothing but an old content, a new content or no file is ever seen.
NotMixed ==
    pc \in InTry => \A i \in Op \ raced : tree[i] \in {Logical[i], after[i], Absent}

BackupFaithful ==
    \A i \in Op : backup[i] # Absent => i \in backedUp /\ backup[i] = moved[i]

\* How far a rollback has come, as long as it met no error.
Undone ==
    /\ pc \in Preparing \cup Swapping \cup Cleaning => ~errors
    /\ pc = "rb_unlink" /\ ~errors =>
        \A i \in Op \ raced : i > at /\ i \in installed => tree[i] = Absent
    /\ pc = "rb_restore" /\ ~errors =>
        \A i \in Op \ raced : i > at \/ i \notin backedUp => tree[i] = Logical[i]
    /\ pc \in {"rb_dirs", "rb_rm_stage", "rb_rm_backup"} /\ ~errors =>
        \A i \in Op \ raced : tree[i] = Logical[i]

\* A moved file is in the backup directory until it is restored or the call has committed.
Kept ==
    /\ pc \in Preparing \cup Swapping => ~cleanupFailed
    /\ pc \in InTry /\ ~errors /\ ~cleanupFailed =>
        \A i \in backedUp \ raced :
            \/ pc = "rm_stage"
            \/ backup[i] = moved[i]
            \/ /\ pc \in RollingBack \ {"rb_unlink"}
               /\ pc = "rb_restore" => i > at
               /\ tree[i] = moved[i]

IInv ==
    /\ TypeOK
    /\ NoConflict /\ Base /\ Ahead /\ Behind /\ NotMixed /\ BackupFaithful /\ Undone /\ Kept
    /\ ReportedRollbackIsComplete
    /\ CrashLosesNothing

USE SizesAssumption, PathsAssumption, AbsentAssumption
    DEF Op, Value, Dir, changeset, files, lists, history, Swapping, Cleaning, RollingBack,
        Preparing, Ends, InTry,
        Works, Fails, StartRollback, NextOperation, AfterSwapOut, NextBackwards,
        ConflictAfter

LEMMA VerifyBeforeDigestStep == ASSUME IInv, VerifyBeforeDigest PROVE IInv'
<1>1. TypeOK'
  <2>1. tree' \in [Op -> Value] /\ backup' \in [Op -> Value] /\ moved' \in [Op -> Value]
    BY DEF IInv, TypeOK, VerifyBeforeDigest
  <2>2. /\ at' \in Op /\ depth' \in 0..NDirs /\ commandsLeft' \in 0..NCommands
        /\ faults' \in 0..MaxFaults /\ edits' \in 0..MaxEdits
    BY DEF IInv, TypeOK, VerifyBeforeDigest
  <2>3. pc' \in Preparing \cup InTry \cup Ends
    BY DEF IInv, TypeOK, VerifyBeforeDigest
  <2>. QED
    BY <2>1, <2>2, <2>3 DEF IInv, TypeOK, VerifyBeforeDigest
<1>2. NoConflict'
  BY DEF IInv, TypeOK, VerifyBeforeDigest, NoConflict
<1>3. Base'
  <2>1. SUFFICES ASSUME pc' \in {"verify", "commands"}, ~conflict',
                        NEW i \in Op, Verified(i)', i \notin raced
                 PROVE  tree[i] = before[i]
    BY DEF IInv, TypeOK, VerifyBeforeDigest, Base, Logical, Ahead
  <2>2. ~conflict /\ tree[at] = before[at]
    BY <2>1 DEF VerifyBeforeDigest, IInv, TypeOK
  <2>3. i < at \/ i = at
    BY <2>1 DEF VerifyBeforeDigest, Verified, IInv, TypeOK
  <2>4. i < at => tree[i] = before[i]
    BY <2>1, <2>2 DEF VerifyBeforeDigest, IInv, Base, Verified, Logical
  <2>. QED
    BY <2>2, <2>3, <2>4
<1>4. Ahead'
  BY DEF IInv, TypeOK, VerifyBeforeDigest, Ahead, Mutable, Logical, Base, NoConflict, Verified
<1>5. Behind'
  BY DEF IInv, TypeOK, VerifyBeforeDigest, Behind, Ahead, Mutable, Base, NoConflict, Verified, Logical
<1>6. NotMixed'
  BY DEF IInv, TypeOK, VerifyBeforeDigest, NotMixed, Logical, Ahead, Behind, Mutable, Verified, BackupFaithful
<1>7. BackupFaithful'
  BY DEF IInv, TypeOK, VerifyBeforeDigest, BackupFaithful
<1>8. Undone'
  BY DEF IInv, TypeOK, VerifyBeforeDigest, Undone, Logical, Ahead, Behind, Verified, BackupFaithful, NotMixed
<1>9. Kept'
  BY DEF IInv, TypeOK, VerifyBeforeDigest, Kept, Ahead, BackupFaithful, Undone, Behind, Verified
<1>10. ReportedRollbackIsComplete'
  BY DEF IInv, TypeOK, VerifyBeforeDigest, ReportedRollbackIsComplete, Undone, Base, Logical, NoConflict, Verified
<1>11. CrashLosesNothing'
  BY DEF IInv, TypeOK, VerifyBeforeDigest, CrashLosesNothing, Ahead, Kept, NotMixed, Base, Logical, NoConflict, Verified, Behind
<1>. QED
  BY <1>1, <1>2, <1>3, <1>4, <1>5, <1>6, <1>7, <1>8, <1>9, <1>10, <1>11 DEF IInv

LEMMA RunCommandStep == ASSUME IInv, RunCommand PROVE IInv'
<1>1. TypeOK'
  <2>1. tree' \in [Op -> Value] /\ backup' \in [Op -> Value] /\ moved' \in [Op -> Value]
    BY DEF IInv, TypeOK, RunCommand
  <2>2. /\ at' \in Op /\ depth' \in 0..NDirs /\ commandsLeft' \in 0..NCommands
        /\ faults' \in 0..MaxFaults /\ edits' \in 0..MaxEdits
    BY DEF IInv, TypeOK, RunCommand
  <2>3. pc' \in Preparing \cup InTry \cup Ends
    BY DEF IInv, TypeOK, RunCommand
  <2>. QED
    BY <2>1, <2>2, <2>3 DEF IInv, TypeOK, RunCommand
<1>2. NoConflict'
  BY DEF IInv, TypeOK, RunCommand, NoConflict
<1>3. Base'
  BY DEF IInv, TypeOK, RunCommand, Base, Logical, Verified, Mutable, Ahead, NoConflict
<1>4. Ahead'
  BY DEF IInv, TypeOK, RunCommand, Ahead, Mutable, Logical, Base, NoConflict, Verified
<1>5. Behind'
  BY DEF IInv, TypeOK, RunCommand, Behind, Ahead, Mutable, Base, NoConflict, Verified, Logical
<1>6. NotMixed'
  BY DEF IInv, TypeOK, RunCommand, NotMixed, Logical, Ahead, Behind, Mutable, Verified, BackupFaithful
<1>7. BackupFaithful'
  BY DEF IInv, TypeOK, RunCommand, BackupFaithful
<1>8. Undone'
  BY DEF IInv, TypeOK, RunCommand, Undone, Logical, Ahead, Behind, Verified, BackupFaithful, NotMixed
<1>9. Kept'
  BY DEF IInv, TypeOK, RunCommand, Kept, Ahead, BackupFaithful, Undone, Behind, Verified
<1>10. ReportedRollbackIsComplete'
  BY DEF IInv, TypeOK, RunCommand, ReportedRollbackIsComplete, Undone, Base, Logical, NoConflict, Verified
<1>11. CrashLosesNothing'
  BY DEF IInv, TypeOK, RunCommand, CrashLosesNothing, Ahead, Kept, NotMixed, Base, Logical, NoConflict, Verified, Behind
<1>. QED
  BY <1>1, <1>2, <1>3, <1>4, <1>5, <1>6, <1>7, <1>8, <1>9, <1>10, <1>11 DEF IInv

LEMMA SelectMutableStep == ASSUME IInv, SelectMutable PROVE IInv'
<1>1. TypeOK'
  <2>1. tree' \in [Op -> Value] /\ backup' \in [Op -> Value] /\ moved' \in [Op -> Value]
    BY DEF IInv, TypeOK, SelectMutable
  <2>2. /\ at' \in Op /\ depth' \in 0..NDirs /\ commandsLeft' \in 0..NCommands
        /\ faults' \in 0..MaxFaults /\ edits' \in 0..MaxEdits
    BY DEF IInv, TypeOK, SelectMutable
  <2>3. pc' \in Preparing \cup InTry \cup Ends
    BY DEF IInv, TypeOK, SelectMutable
  <2>. QED
    BY <2>1, <2>2, <2>3 DEF IInv, TypeOK, SelectMutable
<1>2. NoConflict'
  BY DEF IInv, TypeOK, SelectMutable, NoConflict
<1>3. Base'
  BY DEF IInv, TypeOK, SelectMutable, Base, Logical, Verified, Mutable, Ahead, NoConflict
<1>4. Ahead'
  BY DEF IInv, TypeOK, SelectMutable, Ahead, Mutable, Logical, Base, NoConflict, Verified
<1>5. Behind'
  BY DEF IInv, TypeOK, SelectMutable, Behind, Ahead, Mutable, Base, NoConflict, Verified, Logical
<1>6. NotMixed'
  BY DEF IInv, TypeOK, SelectMutable, NotMixed, Logical, Ahead, Behind, Mutable, Verified, BackupFaithful
<1>7. BackupFaithful'
  BY DEF IInv, TypeOK, SelectMutable, BackupFaithful
<1>8. Undone'
  BY DEF IInv, TypeOK, SelectMutable, Undone, Logical, Ahead, Behind, Verified, BackupFaithful, NotMixed
<1>9. Kept'
  BY DEF IInv, TypeOK, SelectMutable, Kept, Ahead, BackupFaithful, Undone, Behind, Verified
<1>10. ReportedRollbackIsComplete'
  BY DEF IInv, TypeOK, SelectMutable, ReportedRollbackIsComplete, Undone, Base, Logical, NoConflict, Verified
<1>11. CrashLosesNothing'
  BY DEF IInv, TypeOK, SelectMutable, CrashLosesNothing, Ahead, Kept, NotMixed, Base, Logical, NoConflict, Verified, Behind
<1>. QED
  BY <1>1, <1>2, <1>3, <1>4, <1>5, <1>6, <1>7, <1>8, <1>9, <1>10, <1>11 DEF IInv

LEMMA MakeTempsStep == ASSUME IInv, MakeTemps PROVE IInv'
<1>1. TypeOK'
  <2>1. tree' \in [Op -> Value] /\ backup' \in [Op -> Value] /\ moved' \in [Op -> Value]
    BY DEF IInv, TypeOK, MakeTemps
  <2>2. /\ at' \in Op /\ depth' \in 0..NDirs /\ commandsLeft' \in 0..NCommands
        /\ faults' \in 0..MaxFaults /\ edits' \in 0..MaxEdits
    BY DEF IInv, TypeOK, MakeTemps
  <2>3. pc' \in Preparing \cup InTry \cup Ends
    BY DEF IInv, TypeOK, MakeTemps
  <2>. QED
    BY <2>1, <2>2, <2>3 DEF IInv, TypeOK, MakeTemps
<1>2. NoConflict'
  BY DEF IInv, TypeOK, MakeTemps, NoConflict
<1>3. Base'
  BY DEF IInv, TypeOK, MakeTemps, Base, Logical, Verified, Mutable, Ahead, NoConflict
<1>4. Ahead'
  BY DEF IInv, TypeOK, MakeTemps, Ahead, Mutable, Logical, Base, NoConflict, Verified
<1>5. Behind'
  BY DEF IInv, TypeOK, MakeTemps, Behind, Ahead, Mutable, Base, NoConflict, Verified, Logical
<1>6. NotMixed'
  BY DEF IInv, TypeOK, MakeTemps, NotMixed, Logical, Ahead, Behind, Mutable, Verified, BackupFaithful
<1>7. BackupFaithful'
  BY DEF IInv, TypeOK, MakeTemps, BackupFaithful
<1>8. Undone'
  BY DEF IInv, TypeOK, MakeTemps, Undone, Logical, Ahead, Behind, Verified, BackupFaithful, NotMixed
<1>9. Kept'
  BY DEF IInv, TypeOK, MakeTemps, Kept, Ahead, BackupFaithful, Undone, Behind, Verified
<1>10. ReportedRollbackIsComplete'
  BY DEF IInv, TypeOK, MakeTemps, ReportedRollbackIsComplete, Undone, Base, Logical, NoConflict, Verified
<1>11. CrashLosesNothing'
  BY DEF IInv, TypeOK, MakeTemps, CrashLosesNothing, Ahead, Kept, NotMixed, Base, Logical, NoConflict, Verified, Behind
<1>. QED
  BY <1>1, <1>2, <1>3, <1>4, <1>5, <1>6, <1>7, <1>8, <1>9, <1>10, <1>11 DEF IInv

LEMMA StageContentsStep == ASSUME IInv, StageContents PROVE IInv'
<1>1. TypeOK'
  <2>1. tree' \in [Op -> Value] /\ backup' \in [Op -> Value] /\ moved' \in [Op -> Value]
    BY DEF IInv, TypeOK, StageContents
  <2>2. /\ at' \in Op /\ depth' \in 0..NDirs /\ commandsLeft' \in 0..NCommands
        /\ faults' \in 0..MaxFaults /\ edits' \in 0..MaxEdits
    BY DEF IInv, TypeOK, StageContents
  <2>3. pc' \in Preparing \cup InTry \cup Ends
    BY DEF IInv, TypeOK, StageContents
  <2>. QED
    BY <2>1, <2>2, <2>3 DEF IInv, TypeOK, StageContents
<1>2. NoConflict'
  BY DEF IInv, TypeOK, StageContents, NoConflict
<1>3. Base'
  BY DEF IInv, TypeOK, StageContents, Base, Logical, Verified, Mutable, Ahead, NoConflict
<1>4. Ahead'
  BY DEF IInv, TypeOK, StageContents, Ahead, Mutable, Logical, Base, NoConflict, Verified
<1>5. Behind'
  BY DEF IInv, TypeOK, StageContents, Behind, Ahead, Mutable, Base, NoConflict, Verified, Logical
<1>6. NotMixed'
  BY DEF IInv, TypeOK, StageContents, NotMixed, Logical, Ahead, Behind, Mutable, Verified, BackupFaithful
<1>7. BackupFaithful'
  BY DEF IInv, TypeOK, StageContents, BackupFaithful
<1>8. Undone'
  BY DEF IInv, TypeOK, StageContents, Undone, Logical, Ahead, Behind, Verified, BackupFaithful, NotMixed
<1>9. Kept'
  BY DEF IInv, TypeOK, StageContents, Kept, Ahead, BackupFaithful, Undone, Behind, Verified
<1>10. ReportedRollbackIsComplete'
  BY DEF IInv, TypeOK, StageContents, ReportedRollbackIsComplete, Undone, Base, Logical, NoConflict, Verified
<1>11. CrashLosesNothing'
  BY DEF IInv, TypeOK, StageContents, CrashLosesNothing, Ahead, Kept, NotMixed, Base, Logical, NoConflict, Verified, Behind
<1>. QED
  BY <1>1, <1>2, <1>3, <1>4, <1>5, <1>6, <1>7, <1>8, <1>9, <1>10, <1>11 DEF IInv

LEMMA SkipUnchangedStep == ASSUME IInv, SkipUnchanged PROVE IInv'
<1>1. TypeOK'
  <2>1. tree' \in [Op -> Value] /\ backup' \in [Op -> Value] /\ moved' \in [Op -> Value]
    BY DEF IInv, TypeOK, SkipUnchanged
  <2>2. /\ at' \in Op /\ depth' \in 0..NDirs /\ commandsLeft' \in 0..NCommands
        /\ faults' \in 0..MaxFaults /\ edits' \in 0..MaxEdits
    BY DEF IInv, TypeOK, SkipUnchanged
  <2>3. pc' \in Preparing \cup InTry \cup Ends
    BY DEF IInv, TypeOK, SkipUnchanged
  <2>. QED
    BY <2>1, <2>2, <2>3 DEF IInv, TypeOK, SkipUnchanged
<1>2. NoConflict'
  BY DEF IInv, TypeOK, SkipUnchanged, NoConflict
<1>3. Base'
  BY DEF IInv, TypeOK, SkipUnchanged, Base, Logical, Verified, Mutable, Ahead, NoConflict
<1>4. Ahead'
  BY DEF IInv, TypeOK, SkipUnchanged, Ahead, Mutable, Logical, Base, NoConflict, Verified
<1>5. Behind'
  BY DEF IInv, TypeOK, SkipUnchanged, Behind, Ahead, Mutable, Base, NoConflict, Verified, Logical
<1>6. NotMixed'
  BY DEF IInv, TypeOK, SkipUnchanged, NotMixed, Logical, Ahead, Behind, Mutable, Verified, BackupFaithful
<1>7. BackupFaithful'
  BY DEF IInv, TypeOK, SkipUnchanged, BackupFaithful
<1>8. Undone'
  BY DEF IInv, TypeOK, SkipUnchanged, Undone, Logical, Ahead, Behind, Verified, BackupFaithful, NotMixed
<1>9. Kept'
  BY DEF IInv, TypeOK, SkipUnchanged, Kept, Ahead, BackupFaithful, Undone, Behind, Verified
<1>10. ReportedRollbackIsComplete'
  BY DEF IInv, TypeOK, SkipUnchanged, ReportedRollbackIsComplete, Undone, Base, Logical, NoConflict, Verified
<1>11. CrashLosesNothing'
  BY DEF IInv, TypeOK, SkipUnchanged, CrashLosesNothing, Ahead, Kept, NotMixed, Base, Logical, NoConflict, Verified, Behind
<1>. QED
  BY <1>1, <1>2, <1>3, <1>4, <1>5, <1>6, <1>7, <1>8, <1>9, <1>10, <1>11 DEF IInv

LEMMA SwapOutStep == ASSUME IInv, SwapOut PROVE IInv'
<1>1. TypeOK'
  <2>1. tree' \in [Op -> Value] /\ backup' \in [Op -> Value] /\ moved' \in [Op -> Value]
    BY DEF IInv, TypeOK, SwapOut
  <2>2. /\ at' \in Op /\ depth' \in 0..NDirs /\ commandsLeft' \in 0..NCommands
        /\ faults' \in 0..MaxFaults /\ edits' \in 0..MaxEdits
    BY DEF IInv, TypeOK, SwapOut
  <2>3. pc' \in Preparing \cup InTry \cup Ends
    BY DEF IInv, TypeOK, SwapOut
  <2>. QED
    BY <2>1, <2>2, <2>3 DEF IInv, TypeOK, SwapOut
<1>2. NoConflict'
  BY DEF IInv, TypeOK, SwapOut, NoConflict
<1>3. Base'
  BY DEF IInv, TypeOK, SwapOut, Base, Logical, Verified, Mutable, Ahead, NoConflict
<1>4. Ahead'
  BY DEF IInv, TypeOK, SwapOut, Ahead, Mutable, Logical, Base, NoConflict, Verified
<1>5. Behind'
  <2>1. \A i \in Op : i < at /\ i \notin raced => tree'[i] = after[i]
    BY DEF IInv, TypeOK, SwapOut, Behind
  <2>2. pc' \in {"swap_out"} \cup Cleaning => tree'[at] = after[at]
    BY DEF IInv, TypeOK, SwapOut
  <2>3. UNCHANGED <<after, raced>>
    BY DEF SwapOut
  <2>4. \/ pc' = "rb_unlink"
        \/ pc' = "parents" /\ at' = at
        \/ pc' = "rm_backup" /\ at = NOps
        \/ pc' = "swap_out" /\ at' = at + 1
    BY DEF SwapOut
  <2>. QED
    BY <2>1, <2>2, <2>3, <2>4 DEF IInv, TypeOK, Behind
<1>6. NotMixed'
  BY DEF IInv, TypeOK, SwapOut, NotMixed, Logical, Ahead, Behind, Mutable, Verified, BackupFaithful
<1>7. BackupFaithful'
  BY DEF IInv, TypeOK, SwapOut, BackupFaithful
<1>8. Undone'
  BY DEF IInv, TypeOK, SwapOut, Undone, Logical, Ahead, Behind, Verified, BackupFaithful, NotMixed
<1>9. Kept'
  <2>1. ~cleanupFailed /\ UNCHANGED <<raced, cleanupFailed>> /\ pc' \notin {"rm_stage"} \cup (RollingBack \ {"rb_unlink"})
    BY DEF IInv, SwapOut, Kept
  <2>2. ~errors /\ UNCHANGED errors
    BY DEF IInv, SwapOut, Undone
  <2>3. \A i \in backedUp \ raced : backup[i] = moved[i]
    BY <2>1, <2>2 DEF IInv, SwapOut, Kept
  <2>4. \A i \in backedUp' \ raced : backup'[i] = moved'[i]
    <3>1. \A i \in Op \ {at} : /\ backup'[i] = backup[i] /\ moved'[i] = moved[i]
                               /\ i \in backedUp' => i \in backedUp
      BY DEF IInv, TypeOK, SwapOut
    <3>2. at \notin backedUp
      BY DEF IInv, TypeOK, SwapOut, Ahead
    <3>3. at \in backedUp' => backup'[at] = moved'[at]
      BY <3>2 DEF IInv, TypeOK, SwapOut
    <3>4. backedUp' \subseteq Op
      BY DEF IInv, TypeOK, SwapOut
    <3>. QED
      BY <2>3, <3>1, <3>3, <3>4
  <2>. QED
    BY <2>1, <2>4 DEF Kept
<1>10. ReportedRollbackIsComplete'
  BY DEF IInv, TypeOK, SwapOut, ReportedRollbackIsComplete, Undone, Base, Logical, NoConflict, Verified
<1>11. CrashLosesNothing'
  BY DEF IInv, TypeOK, SwapOut, CrashLosesNothing, Ahead, Kept, NotMixed, Base, Logical, NoConflict, Verified, Behind
<1>. QED
  BY <1>1, <1>2, <1>3, <1>4, <1>5, <1>6, <1>7, <1>8, <1>9, <1>10, <1>11 DEF IInv

LEMMA EnsureParentStep == ASSUME IInv, EnsureParent PROVE IInv'
<1>1. TypeOK'
  <2>1. tree' \in [Op -> Value] /\ backup' \in [Op -> Value] /\ moved' \in [Op -> Value]
    BY DEF IInv, TypeOK, EnsureParent
  <2>2. /\ at' \in Op /\ depth' \in 0..NDirs /\ commandsLeft' \in 0..NCommands
        /\ faults' \in 0..MaxFaults /\ edits' \in 0..MaxEdits
    BY DEF IInv, TypeOK, EnsureParent
  <2>3. pc' \in Preparing \cup InTry \cup Ends
    BY DEF IInv, TypeOK, EnsureParent
  <2>. QED
    BY <2>1, <2>2, <2>3 DEF IInv, TypeOK, EnsureParent
<1>2. NoConflict'
  BY DEF IInv, TypeOK, EnsureParent, NoConflict
<1>3. Base'
  BY DEF IInv, TypeOK, EnsureParent, Base, Logical, Verified, Mutable, Ahead, NoConflict
<1>4. Ahead'
  BY DEF IInv, TypeOK, EnsureParent, Ahead, Mutable, Logical, Base, NoConflict, Verified
<1>5. Behind'
  BY DEF IInv, TypeOK, EnsureParent, Behind, Ahead, Mutable, Base, NoConflict, Verified, Logical
<1>6. NotMixed'
  BY DEF IInv, TypeOK, EnsureParent, NotMixed, Logical, Ahead, Behind, Mutable, Verified, BackupFaithful
<1>7. BackupFaithful'
  BY DEF IInv, TypeOK, EnsureParent, BackupFaithful
<1>8. Undone'
  BY DEF IInv, TypeOK, EnsureParent, Undone, Logical, Ahead, Behind, Verified, BackupFaithful, NotMixed
<1>9. Kept'
  BY DEF IInv, TypeOK, EnsureParent, Kept, Ahead, BackupFaithful, Undone, Behind, Verified
<1>10. ReportedRollbackIsComplete'
  BY DEF IInv, TypeOK, EnsureParent, ReportedRollbackIsComplete, Undone, Base, Logical, NoConflict, Verified
<1>11. CrashLosesNothing'
  BY DEF IInv, TypeOK, EnsureParent, CrashLosesNothing, Ahead, Kept, NotMixed, Base, Logical, NoConflict, Verified, Behind
<1>. QED
  BY <1>1, <1>2, <1>3, <1>4, <1>5, <1>6, <1>7, <1>8, <1>9, <1>10, <1>11 DEF IInv

LEMMA SwapInStep == ASSUME IInv, SwapIn PROVE IInv'
<1>1. TypeOK'
  <2>1. tree' \in [Op -> Value] /\ backup' \in [Op -> Value] /\ moved' \in [Op -> Value]
    BY DEF IInv, TypeOK, SwapIn
  <2>2. /\ at' \in Op /\ depth' \in 0..NDirs /\ commandsLeft' \in 0..NCommands
        /\ faults' \in 0..MaxFaults /\ edits' \in 0..MaxEdits
    BY DEF IInv, TypeOK, SwapIn
  <2>3. pc' \in Preparing \cup InTry \cup Ends
    BY DEF IInv, TypeOK, SwapIn
  <2>. QED
    BY <2>1, <2>2, <2>3 DEF IInv, TypeOK, SwapIn
<1>2. NoConflict'
  BY DEF IInv, TypeOK, SwapIn, NoConflict
<1>3. Base'
  BY DEF IInv, TypeOK, SwapIn, Base, Logical, Verified, Mutable, Ahead, NoConflict
<1>4. Ahead'
  BY DEF IInv, TypeOK, SwapIn, Ahead, Mutable, Logical, Base, NoConflict, Verified
<1>5. Behind'
  <2>1. pc' # "rb_unlink" => \A i \in Op : i < at /\ i \notin raced => tree'[i] = after[i]
    BY DEF IInv, TypeOK, SwapIn, Behind
  <2>2. pc' # "rb_unlink" => tree'[at] = after[at]
    BY DEF IInv, TypeOK, SwapIn
  <2>3. UNCHANGED <<after, raced>>
    BY DEF SwapIn
  <2>4. \/ pc' = "rb_unlink"
        \/ pc' = "rm_backup" /\ at = NOps
        \/ pc' = "swap_out" /\ at' = at + 1
    BY DEF SwapIn
  <2>. QED
    BY <2>1, <2>2, <2>3, <2>4 DEF IInv, TypeOK, Behind
<1>6. NotMixed'
  BY DEF IInv, TypeOK, SwapIn, NotMixed, Logical, Ahead, Behind, Mutable, Verified, BackupFaithful
<1>7. BackupFaithful'
  BY DEF IInv, TypeOK, SwapIn, BackupFaithful
<1>8. Undone'
  BY DEF IInv, TypeOK, SwapIn, Undone, Logical, Ahead, Behind, Verified, BackupFaithful, NotMixed
<1>9. Kept'
  BY DEF IInv, TypeOK, SwapIn, Kept, Ahead, BackupFaithful, Undone, Behind, Verified
<1>10. ReportedRollbackIsComplete'
  BY DEF IInv, TypeOK, SwapIn, ReportedRollbackIsComplete, Undone, Base, Logical, NoConflict, Verified
<1>11. CrashLosesNothing'
  BY DEF IInv, TypeOK, SwapIn, CrashLosesNothing, Ahead, Kept, NotMixed, Base, Logical, NoConflict, Verified, Behind
<1>. QED
  BY <1>1, <1>2, <1>3, <1>4, <1>5, <1>6, <1>7, <1>8, <1>9, <1>10, <1>11 DEF IInv

LEMMA RemoveBackupStep == ASSUME IInv, RemoveBackup PROVE IInv'
<1>1. TypeOK'
  <2>1. tree' \in [Op -> Value] /\ backup' \in [Op -> Value] /\ moved' \in [Op -> Value]
    BY DEF IInv, TypeOK, RemoveBackup
  <2>2. /\ at' \in Op /\ depth' \in 0..NDirs /\ commandsLeft' \in 0..NCommands
        /\ faults' \in 0..MaxFaults /\ edits' \in 0..MaxEdits
    BY DEF IInv, TypeOK, RemoveBackup
  <2>3. pc' \in Preparing \cup InTry \cup Ends
    BY DEF IInv, TypeOK, RemoveBackup
  <2>. QED
    BY <2>1, <2>2, <2>3 DEF IInv, TypeOK, RemoveBackup
<1>2. NoConflict'
  BY DEF IInv, TypeOK, RemoveBackup, NoConflict
<1>3. Base'
  BY DEF IInv, TypeOK, RemoveBackup, Base, Logical, Verified, Mutable, Ahead, NoConflict
<1>4. Ahead'
  BY DEF IInv, TypeOK, RemoveBackup, Ahead, Mutable, Logical, Base, NoConflict, Verified
<1>5. Behind'
  BY DEF IInv, TypeOK, RemoveBackup, Behind, Ahead, Mutable, Base, NoConflict, Verified, Logical
<1>6. NotMixed'
  BY DEF IInv, TypeOK, RemoveBackup, NotMixed, Logical, Ahead, Behind, Mutable, Verified, BackupFaithful
<1>7. BackupFaithful'
  BY DEF IInv, TypeOK, RemoveBackup, BackupFaithful
<1>8. Undone'
  BY DEF IInv, TypeOK, RemoveBackup, Undone, Logical, Ahead, Behind, Verified, BackupFaithful, NotMixed
<1>9. Kept'
  BY DEF IInv, TypeOK, RemoveBackup, Kept, Ahead, BackupFaithful, Undone, Behind, Verified
<1>10. ReportedRollbackIsComplete'
  BY DEF IInv, TypeOK, RemoveBackup, ReportedRollbackIsComplete, Undone, Base, Logical, NoConflict, Verified
<1>11. CrashLosesNothing'
  BY DEF IInv, TypeOK, RemoveBackup, CrashLosesNothing, Ahead, Kept, NotMixed, Base, Logical, NoConflict, Verified, Behind
<1>. QED
  BY <1>1, <1>2, <1>3, <1>4, <1>5, <1>6, <1>7, <1>8, <1>9, <1>10, <1>11 DEF IInv

LEMMA RemoveStageStep == ASSUME IInv, RemoveStage PROVE IInv'
<1>1. TypeOK'
  <2>1. tree' \in [Op -> Value] /\ backup' \in [Op -> Value] /\ moved' \in [Op -> Value]
    BY DEF IInv, TypeOK, RemoveStage
  <2>2. /\ at' \in Op /\ depth' \in 0..NDirs /\ commandsLeft' \in 0..NCommands
        /\ faults' \in 0..MaxFaults /\ edits' \in 0..MaxEdits
    BY DEF IInv, TypeOK, RemoveStage
  <2>3. pc' \in Preparing \cup InTry \cup Ends
    BY DEF IInv, TypeOK, RemoveStage
  <2>. QED
    BY <2>1, <2>2, <2>3 DEF IInv, TypeOK, RemoveStage
<1>2. NoConflict'
  BY DEF IInv, TypeOK, RemoveStage, NoConflict
<1>3. Base'
  BY DEF IInv, TypeOK, RemoveStage, Base, Logical, Verified, Mutable, Ahead, NoConflict
<1>4. Ahead'
  BY DEF IInv, TypeOK, RemoveStage, Ahead, Mutable, Logical, Base, NoConflict, Verified
<1>5. Behind'
  BY DEF IInv, TypeOK, RemoveStage, Behind, Ahead, Mutable, Base, NoConflict, Verified, Logical
<1>6. NotMixed'
  BY DEF IInv, TypeOK, RemoveStage, NotMixed, Logical, Ahead, Behind, Mutable, Verified, BackupFaithful
<1>7. BackupFaithful'
  BY DEF IInv, TypeOK, RemoveStage, BackupFaithful
<1>8. Undone'
  BY DEF IInv, TypeOK, RemoveStage, Undone, Logical, Ahead, Behind, Verified, BackupFaithful, NotMixed
<1>9. Kept'
  BY DEF IInv, TypeOK, RemoveStage, Kept, Ahead, BackupFaithful, Undone, Behind, Verified
<1>10. ReportedRollbackIsComplete'
  BY DEF IInv, TypeOK, RemoveStage, ReportedRollbackIsComplete, Undone, Base, Logical, NoConflict, Verified
<1>11. CrashLosesNothing'
  BY DEF IInv, TypeOK, RemoveStage, CrashLosesNothing, Ahead, Kept, NotMixed, Base, Logical, NoConflict, Verified, Behind
<1>. QED
  BY <1>1, <1>2, <1>3, <1>4, <1>5, <1>6, <1>7, <1>8, <1>9, <1>10, <1>11 DEF IInv

LEMMA UnlinkInstalledStep == ASSUME IInv, UnlinkInstalled PROVE IInv'
<1>1. TypeOK'
  <2>1. tree' \in [Op -> Value] /\ backup' \in [Op -> Value] /\ moved' \in [Op -> Value]
    BY DEF IInv, TypeOK, UnlinkInstalled
  <2>2. /\ at' \in Op /\ depth' \in 0..NDirs /\ commandsLeft' \in 0..NCommands
        /\ faults' \in 0..MaxFaults /\ edits' \in 0..MaxEdits
    BY DEF IInv, TypeOK, UnlinkInstalled
  <2>3. pc' \in Preparing \cup InTry \cup Ends
    BY DEF IInv, TypeOK, UnlinkInstalled
  <2>. QED
    BY <2>1, <2>2, <2>3 DEF IInv, TypeOK, UnlinkInstalled
<1>2. NoConflict'
  BY DEF IInv, TypeOK, UnlinkInstalled, NoConflict
<1>3. Base'
  BY DEF IInv, TypeOK, UnlinkInstalled, Base, Logical, Verified, Mutable, Ahead, NoConflict
<1>4. Ahead'
  BY DEF IInv, TypeOK, UnlinkInstalled, Ahead, Mutable, Logical, Base, NoConflict, Verified
<1>5. Behind'
  BY DEF IInv, TypeOK, UnlinkInstalled, Behind, Ahead, Mutable, Base, NoConflict, Verified, Logical
<1>6. NotMixed'
  BY DEF IInv, TypeOK, UnlinkInstalled, NotMixed, Logical, Ahead, Behind, Mutable, Verified, BackupFaithful
<1>7. BackupFaithful'
  BY DEF IInv, TypeOK, UnlinkInstalled, BackupFaithful
<1>8. Undone'
  <2>1. \A i \in Op \ raced : ~errors' /\ i > at /\ i \in installed => tree'[i] = Absent
    BY DEF IInv, TypeOK, UnlinkInstalled, Undone
  <2>2. ~errors' /\ at \in installed => tree'[at] = Absent
    BY DEF IInv, TypeOK, UnlinkInstalled
  <2>3. UNCHANGED <<raced, installed, backedUp, moved>>
    BY DEF UnlinkInstalled
  <2>4. \/ pc' = "rb_unlink" /\ at' = at - 1
        \/ pc' = "rb_restore" /\ at = 1 /\ at' = NOps
    BY DEF UnlinkInstalled, IInv, TypeOK
  <2>5. CASE pc' = "rb_unlink"
    BY <2>1, <2>2, <2>3, <2>4, <2>5 DEF Undone, IInv, TypeOK
  <2>6. CASE pc' = "rb_restore"
    <3>1. \A i \in Op \ raced : ~errors' /\ i \in installed => tree'[i] = Absent
      BY <2>1, <2>2, <2>4, <2>6 DEF IInv, TypeOK
    <3>. QED
      BY <2>3, <2>4, <2>6, <3>1 DEF Undone, Logical, IInv, TypeOK
  <2>. QED
    BY <2>4, <2>5, <2>6
<1>9. Kept'
  BY DEF IInv, TypeOK, UnlinkInstalled, Kept, Ahead, BackupFaithful, Undone, Behind, Verified
<1>10. ReportedRollbackIsComplete'
  BY DEF IInv, TypeOK, UnlinkInstalled, ReportedRollbackIsComplete, Undone, Base, Logical, NoConflict, Verified
<1>11. CrashLosesNothing'
  BY DEF IInv, TypeOK, UnlinkInstalled, CrashLosesNothing, Ahead, Kept, NotMixed, Base, Logical, NoConflict, Verified, Behind
<1>. QED
  BY <1>1, <1>2, <1>3, <1>4, <1>5, <1>6, <1>7, <1>8, <1>9, <1>10, <1>11 DEF IInv

LEMMA RestoreBackedUpStep == ASSUME IInv, RestoreBackedUp PROVE IInv'
<1>1. TypeOK'
  <2>1. tree' \in [Op -> Value] /\ backup' \in [Op -> Value] /\ moved' \in [Op -> Value]
    BY DEF IInv, TypeOK, RestoreBackedUp
  <2>2. /\ at' \in Op /\ depth' \in 0..NDirs /\ commandsLeft' \in 0..NCommands
        /\ faults' \in 0..MaxFaults /\ edits' \in 0..MaxEdits
    BY DEF IInv, TypeOK, RestoreBackedUp
  <2>3. pc' \in Preparing \cup InTry \cup Ends
    BY DEF IInv, TypeOK, RestoreBackedUp
  <2>. QED
    BY <2>1, <2>2, <2>3 DEF IInv, TypeOK, RestoreBackedUp
<1>2. NoConflict'
  BY DEF IInv, TypeOK, RestoreBackedUp, NoConflict
<1>3. Base'
  BY DEF IInv, TypeOK, RestoreBackedUp, Base, Logical, Verified, Mutable, Ahead, NoConflict
<1>4. Ahead'
  BY DEF IInv, TypeOK, RestoreBackedUp, Ahead, Mutable, Logical, Base, NoConflict, Verified
<1>5. Behind'
  BY DEF IInv, TypeOK, RestoreBackedUp, Behind, Ahead, Mutable, Base, NoConflict, Verified, Logical
<1>6. NotMixed'
  BY DEF IInv, TypeOK, RestoreBackedUp, NotMixed, Logical, Ahead, Behind, Mutable, Verified, BackupFaithful
<1>7. BackupFaithful'
  BY DEF IInv, TypeOK, RestoreBackedUp, BackupFaithful
<1>8. Undone'
  <2>2. \A i \in Op \ raced : ~errors' /\ (i > at \/ i \notin backedUp) => tree'[i] = Logical'[i]
    BY DEF IInv, TypeOK, RestoreBackedUp, Undone, Logical
  <2>3. ~errors' /\ at \in backedUp => tree'[at] = Logical'[at]
    BY DEF IInv, TypeOK, RestoreBackedUp, BackupFaithful, Logical
  <2>4. \/ pc' = "rb_restore" /\ at' = at - 1
        \/ pc' = "rb_dirs" /\ at = 1
    BY DEF RestoreBackedUp, IInv, TypeOK
  <2>5. UNCHANGED <<raced, backedUp>>
    BY DEF RestoreBackedUp
  <2>. QED
    BY <2>2, <2>3, <2>4, <2>5 DEF Undone, IInv, TypeOK
<1>9. Kept'
  BY DEF IInv, TypeOK, RestoreBackedUp, Kept, Ahead, BackupFaithful, Undone, Behind, Verified
<1>10. ReportedRollbackIsComplete'
  BY DEF IInv, TypeOK, RestoreBackedUp, ReportedRollbackIsComplete, Undone, Base, Logical, NoConflict, Verified
<1>11. CrashLosesNothing'
  BY DEF IInv, TypeOK, RestoreBackedUp, CrashLosesNothing, Ahead, Kept, NotMixed, Base, Logical, NoConflict, Verified, Behind
<1>. QED
  BY <1>1, <1>2, <1>3, <1>4, <1>5, <1>6, <1>7, <1>8, <1>9, <1>10, <1>11 DEF IInv

LEMMA RemoveCreatedStep == ASSUME IInv, RemoveCreated PROVE IInv'
<1>1. TypeOK'
  <2>1. tree' \in [Op -> Value] /\ backup' \in [Op -> Value] /\ moved' \in [Op -> Value]
    BY DEF IInv, TypeOK, RemoveCreated
  <2>2. /\ at' \in Op /\ depth' \in 0..NDirs /\ commandsLeft' \in 0..NCommands
        /\ faults' \in 0..MaxFaults /\ edits' \in 0..MaxEdits
    BY DEF IInv, TypeOK, RemoveCreated
  <2>3. pc' \in Preparing \cup InTry \cup Ends
    BY DEF IInv, TypeOK, RemoveCreated
  <2>. QED
    BY <2>1, <2>2, <2>3 DEF IInv, TypeOK, RemoveCreated
<1>2. NoConflict'
  BY DEF IInv, TypeOK, RemoveCreated, NoConflict
<1>3. Base'
  BY DEF IInv, TypeOK, RemoveCreated, Base, Logical, Verified, Mutable, Ahead, NoConflict
<1>4. Ahead'
  BY DEF IInv, TypeOK, RemoveCreated, Ahead, Mutable, Logical, Base, NoConflict, Verified
<1>5. Behind'
  BY DEF IInv, TypeOK, RemoveCreated, Behind, Ahead, Mutable, Base, NoConflict, Verified, Logical
<1>6. NotMixed'
  BY DEF IInv, TypeOK, RemoveCreated, NotMixed, Logical, Ahead, Behind, Mutable, Verified, BackupFaithful
<1>7. BackupFaithful'
  BY DEF IInv, TypeOK, RemoveCreated, BackupFaithful
<1>8. Undone'
  BY DEF IInv, TypeOK, RemoveCreated, Undone, Logical, Ahead, Behind, Verified, BackupFaithful, NotMixed
<1>9. Kept'
  BY DEF IInv, TypeOK, RemoveCreated, Kept, Ahead, BackupFaithful, Undone, Behind, Verified
<1>10. ReportedRollbackIsComplete'
  BY DEF IInv, TypeOK, RemoveCreated, ReportedRollbackIsComplete, Undone, Base, Logical, NoConflict, Verified
<1>11. CrashLosesNothing'
  BY DEF IInv, TypeOK, RemoveCreated, CrashLosesNothing, Ahead, Kept, NotMixed, Base, Logical, NoConflict, Verified, Behind
<1>. QED
  BY <1>1, <1>2, <1>3, <1>4, <1>5, <1>6, <1>7, <1>8, <1>9, <1>10, <1>11 DEF IInv

LEMMA DropTempsStep == ASSUME IInv, DropTemps PROVE IInv'
<1>1. TypeOK'
  <2>1. tree' \in [Op -> Value] /\ backup' \in [Op -> Value] /\ moved' \in [Op -> Value]
    BY DEF IInv, TypeOK, DropTemps
  <2>2. /\ at' \in Op /\ depth' \in 0..NDirs /\ commandsLeft' \in 0..NCommands
        /\ faults' \in 0..MaxFaults /\ edits' \in 0..MaxEdits
    BY DEF IInv, TypeOK, DropTemps
  <2>3. pc' \in Preparing \cup InTry \cup Ends
    BY DEF IInv, TypeOK, DropTemps
  <2>. QED
    BY <2>1, <2>2, <2>3 DEF IInv, TypeOK, DropTemps
<1>2. NoConflict'
  BY DEF IInv, TypeOK, DropTemps, NoConflict
<1>3. Base'
  BY DEF IInv, TypeOK, DropTemps, Base, Logical, Verified, Mutable, Ahead, NoConflict
<1>4. Ahead'
  BY DEF IInv, TypeOK, DropTemps, Ahead, Mutable, Logical, Base, NoConflict, Verified
<1>5. Behind'
  BY DEF IInv, TypeOK, DropTemps, Behind, Ahead, Mutable, Base, NoConflict, Verified, Logical
<1>6. NotMixed'
  BY DEF IInv, TypeOK, DropTemps, NotMixed, Logical, Ahead, Behind, Mutable, Verified, BackupFaithful
<1>7. BackupFaithful'
  BY DEF IInv, TypeOK, DropTemps, BackupFaithful
<1>8. Undone'
  BY DEF IInv, TypeOK, DropTemps, Undone, Logical, Ahead, Behind, Verified, BackupFaithful, NotMixed
<1>9. Kept'
  BY DEF IInv, TypeOK, DropTemps, Kept, Ahead, BackupFaithful, Undone, Behind, Verified
<1>10. ReportedRollbackIsComplete'
  BY DEF IInv, TypeOK, DropTemps, ReportedRollbackIsComplete, Undone, Base, Logical, NoConflict, Verified
<1>11. CrashLosesNothing'
  BY DEF IInv, TypeOK, DropTemps, CrashLosesNothing, Ahead, Kept, NotMixed, Base, Logical, NoConflict, Verified, Behind
<1>. QED
  BY <1>1, <1>2, <1>3, <1>4, <1>5, <1>6, <1>7, <1>8, <1>9, <1>10, <1>11 DEF IInv

LEMMA EditStep == ASSUME IInv, Edit PROVE IInv'
<1>1. TypeOK'
  <2>1. tree' \in [Op -> Value] /\ backup' \in [Op -> Value] /\ moved' \in [Op -> Value]
    BY DEF IInv, TypeOK, Edit
  <2>2. /\ at' \in Op /\ depth' \in 0..NDirs /\ commandsLeft' \in 0..NCommands
        /\ faults' \in 0..MaxFaults /\ edits' \in 0..MaxEdits
    BY DEF IInv, TypeOK, Edit
  <2>3. pc' \in Preparing \cup InTry \cup Ends
    BY DEF IInv, TypeOK, Edit
  <2>. QED
    BY <2>1, <2>2, <2>3 DEF IInv, TypeOK, Edit
<1>2. NoConflict'
  BY DEF IInv, TypeOK, Edit, NoConflict
<1>3. Base'
  BY DEF IInv, TypeOK, Edit, Base, Logical, Verified, Mutable, Ahead, NoConflict
<1>4. Ahead'
  BY DEF IInv, TypeOK, Edit, Ahead, Mutable, Logical, Base, NoConflict, Verified
<1>5. Behind'
  BY DEF IInv, TypeOK, Edit, Behind, Ahead, Mutable, Base, NoConflict, Verified, Logical
<1>6. NotMixed'
  BY DEF IInv, TypeOK, Edit, NotMixed, Logical, Ahead, Behind, Mutable, Verified, BackupFaithful
<1>7. BackupFaithful'
  BY DEF IInv, TypeOK, Edit, BackupFaithful
<1>8. Undone'
  BY DEF IInv, TypeOK, Edit, Undone, Logical, Ahead, Behind, Verified, BackupFaithful, NotMixed
<1>9. Kept'
  BY DEF IInv, TypeOK, Edit, Kept, Ahead, BackupFaithful, Undone, Behind, Verified
<1>10. ReportedRollbackIsComplete'
  BY DEF IInv, TypeOK, Edit, ReportedRollbackIsComplete, Undone, Base, Logical, NoConflict, Verified
<1>11. CrashLosesNothing'
  BY DEF IInv, TypeOK, Edit, CrashLosesNothing, Ahead, Kept, NotMixed, Base, Logical, NoConflict, Verified, Behind
<1>. QED
  BY <1>1, <1>2, <1>3, <1>4, <1>5, <1>6, <1>7, <1>8, <1>9, <1>10, <1>11 DEF IInv

LEMMA DieStep == ASSUME IInv, Die PROVE IInv'
<1>1. TypeOK'
  <2>1. tree' \in [Op -> Value] /\ backup' \in [Op -> Value] /\ moved' \in [Op -> Value]
    BY DEF IInv, TypeOK, Die
  <2>2. /\ at' \in Op /\ depth' \in 0..NDirs /\ commandsLeft' \in 0..NCommands
        /\ faults' \in 0..MaxFaults /\ edits' \in 0..MaxEdits
    BY DEF IInv, TypeOK, Die
  <2>3. pc' \in Preparing \cup InTry \cup Ends
    BY DEF IInv, TypeOK, Die
  <2>. QED
    BY <2>1, <2>2, <2>3 DEF IInv, TypeOK, Die
<1>2. NoConflict'
  BY DEF IInv, TypeOK, Die, NoConflict
<1>3. Base'
  BY DEF IInv, TypeOK, Die, Base, Logical, Verified, Mutable, Ahead, NoConflict
<1>4. Ahead'
  BY DEF IInv, TypeOK, Die, Ahead, Mutable, Logical, Base, NoConflict, Verified
<1>5. Behind'
  BY DEF IInv, TypeOK, Die, Behind, Ahead, Mutable, Base, NoConflict, Verified, Logical
<1>6. NotMixed'
  BY DEF IInv, TypeOK, Die, NotMixed, Logical, Ahead, Behind, Mutable, Verified, BackupFaithful
<1>7. BackupFaithful'
  BY DEF IInv, TypeOK, Die, BackupFaithful
<1>8. Undone'
  BY DEF IInv, TypeOK, Die, Undone, Logical, Ahead, Behind, Verified, BackupFaithful, NotMixed
<1>9. Kept'
  BY DEF IInv, TypeOK, Die, Kept, Ahead, BackupFaithful, Undone, Behind, Verified
<1>10. ReportedRollbackIsComplete'
  BY DEF IInv, TypeOK, Die, ReportedRollbackIsComplete, Undone, Base, Logical, NoConflict, Verified
<1>11. CrashLosesNothing'
  BY DEF IInv, TypeOK, Die, CrashLosesNothing, Ahead, Kept, NotMixed, Base, Logical, NoConflict, Verified, Behind
<1>. QED
  BY <1>1, <1>2, <1>3, <1>4, <1>5, <1>6, <1>7, <1>8, <1>9, <1>10, <1>11 DEF IInv

LEMMA InitEstablishes == Init => IInv
<1>. SUFFICES ASSUME Init PROVE IInv
  OBVIOUS
<1>1. TypeOK
  <2>1. 1 \in Op /\ 0 \in 0..MaxEdits /\ 0 \in 0..MaxFaults /\ NCommands \in 0..NCommands
    OBVIOUS
  <2>. QED
    BY <2>1 DEF Init, TypeOK
<1>2. Base
  BY DEF Init, Base, BuildChangeSet, Logical, Verified
<1>. QED
  BY <1>1, <1>2 DEF Init, IInv, NoConflict, Ahead, Behind, NotMixed, BackupFaithful, Undone, Kept,
     ReportedRollbackIsComplete, CrashLosesNothing

LEMMA StepPreserves == IInv /\ [Next]_vars => IInv'
<1>1. ASSUME IInv, UNCHANGED vars PROVE IInv'
  BY <1>1 DEF IInv, vars, TypeOK, NoConflict, Base, Ahead, Behind, NotMixed, BackupFaithful, Undone,
     Kept, ReportedRollbackIsComplete, CrashLosesNothing, Logical, Verified
<1>. QED
  BY <1>1, VerifyBeforeDigestStep, RunCommandStep, SelectMutableStep, MakeTempsStep,
     StageContentsStep, SkipUnchangedStep, SwapOutStep, EnsureParentStep, SwapInStep,
     RemoveBackupStep, RemoveStageStep, UnlinkInstalledStep, RestoreBackedUpStep,
     RemoveCreatedStep, DropTempsStep, EditStep, DieStep DEF Next, Writer

LEMMA InvariantHolds == Spec => []IInv
BY InitEstablishes, StepPreserves, PTL DEF Spec

-----------------------------------------------------------------------------
(***************************************************************************)
(* Theorems                                                                *)
(***************************************************************************)

\* Every variable of apply_changeset keeps its type: the loops over the operations
\* (materialize/writer.py) never leave the changeset, forwards or backwards.
THEOREM TypeCorrect == Spec => []TypeOK
<1>1. IInv => TypeOK
  BY DEF IInv
<1>. QED
  BY <1>1, InvariantHolds, PTL

\* _rollback without errors has restored every reviewed content, whichever calls failed
\* before it, the removal of the backups included.
THEOREM RollbackCorrect == Spec => []ReportedRollbackIsComplete
<1>1. IInv => ReportedRollbackIsComplete
  BY DEF IInv
<1>. QED
  BY <1>1, InvariantHolds, PTL

\* The death of the process between any two calls of apply_changeset loses no reviewed
\* content.
THEOREM CrashSafe == Spec => []CrashLosesNothing
<1>1. IInv => CrashLosesNothing
  BY DEF IInv
<1>. QED
  BY <1>1, InvariantHolds, PTL

\* While the call goes on, its own steps leave the logical tree alone, except where
\* another program's file is written over.
LEMMA WriterStutters ==
    ASSUME IInv, IInv', Writer, pc' \notin Ends
    PROVE  /\ \A i \in Op : Logical'[i] = Logical[i] \/ (i = at /\ i \in raced)
           /\ UNCHANGED <<before, after, raced>>
           /\ pc \notin Ends
<1>1. CASE VerifyBeforeDigest \/ RunCommand \/ SelectMutable
  BY <1>1 DEF VerifyBeforeDigest, RunCommand, SelectMutable, Logical
<1>2. CASE MakeTemps
  BY <1>2 DEF MakeTemps, Logical, IInv, Ahead
<1>3. CASE StageContents \/ SkipUnchanged
  BY <1>3 DEF StageContents, SkipUnchanged, Logical
<1>4. CASE SwapOut
  BY <1>4 DEF SwapOut, Logical, IInv, TypeOK, Ahead
<1>5. CASE EnsureParent
  BY <1>5 DEF EnsureParent, Logical
<1>6. CASE SwapIn
  BY <1>6 DEF SwapIn, Logical, IInv, TypeOK, Ahead
<1>7. CASE RemoveBackup \/ RemoveStage
  BY <1>7 DEF RemoveBackup, RemoveStage, Logical
<1>8. CASE UnlinkInstalled
  BY <1>8 DEF UnlinkInstalled, Logical, IInv, TypeOK
<1>9. CASE RestoreBackedUp
  BY <1>9 DEF RestoreBackedUp, Logical, IInv, TypeOK
<1>10. CASE RemoveCreated
  BY <1>10 DEF RemoveCreated, Logical
<1>11. CASE DropTemps
  BY <1>11 DEF DropTemps, Logical
<1>. QED
  BY <1>1, <1>2, <1>3, <1>4, <1>5, <1>6, <1>7, <1>8, <1>9, <1>10, <1>11 DEF Writer

\* What the step that ends the call has made of the files.
LEMMA WriterEnds ==
    ASSUME IInv, IInv', Writer, pc' \in Ends
    PROVE  /\ UNCHANGED <<before, after, raced>>
           /\ pc \notin Ends
           /\ pc' # "died"
           /\ Logical' = tree
           /\ pc' = "applied" => \A i \in Op \ raced : Logical[i] = before[i] /\ tree[i] = after[i]
           /\ pc' \in {"conflict", "command_failed", "raised", "rolled_back"} =>
                \A i \in Op \ raced : tree[i] = Logical[i]
           /\ pc' = "incomplete" =>
                \A i \in Op \ raced : tree[i] \in {Logical[i], after[i], Absent}
<1>1. CASE VerifyBeforeDigest \/ RunCommand
  BY <1>1 DEF VerifyBeforeDigest, RunCommand, Logical
<1>2. CASE SelectMutable
  <2>1. \A i \in Op \ raced : Logical[i] = before[i]
    BY <1>2 DEF SelectMutable, IInv, Base, NoConflict, Verified
  <2>2. \A i \in Op : before[i] = after[i]
    BY <1>2 DEF SelectMutable, Mutable
  <2>3. Logical = tree /\ Logical' = tree
    BY <1>2 DEF SelectMutable, Logical
  <2>. QED
    BY <1>2, <2>1, <2>2, <2>3 DEF SelectMutable
<1>3. CASE MakeTemps
  BY <1>3 DEF MakeTemps, Logical
<1>4. CASE RemoveStage
  <2>1. \A i \in Op \ raced : Logical[i] = before[i] /\ tree[i] = after[i]
    BY <1>4 DEF RemoveStage, IInv, Base, NoConflict, Verified, Behind
  <2>. QED
    BY <1>4, <2>1 DEF RemoveStage, Logical
<1>5. CASE DropTemps
  <2>1. ~errors => \A i \in Op \ raced : tree[i] = Logical[i]
    BY <1>5 DEF DropTemps, IInv, Undone
  <2>2. \A i \in Op \ raced : tree[i] \in {Logical[i], after[i], Absent}
    BY <1>5 DEF DropTemps, IInv, NotMixed
  <2>. QED
    BY <1>5, <2>1, <2>2 DEF DropTemps, Logical
<1>6. CASE \/ StageContents \/ SkipUnchanged \/ SwapOut \/ EnsureParent \/ SwapIn \/ RemoveBackup
           \/ UnlinkInstalled \/ RestoreBackedUp \/ RemoveCreated
  BY <1>6 DEF StageContents, SkipUnchanged, SwapOut, EnsureParent, SwapIn, RemoveBackup,
     UnlinkInstalled, RestoreBackedUp, RemoveCreated
<1>. QED
  BY <1>1, <1>2, <1>3, <1>4, <1>5, <1>6 DEF Writer

\* apply_changeset implements the atomic commit: seen through Logical, its steps change
\* nothing until the call ends, and the end is one of the five AtomicApply allows.
THEOREM ImplementsAtomicApply == Spec => AppliesAtomically
<1>1. Init => Atomic!Init
  BY DEF Init, Atomic!Init, BuildChangeSet, Logical, Outcome, Atomic!Value
<1>2. ASSUME IInv, IInv', [Next]_vars
      PROVE  [Atomic!Next]_(Atomic!vars)
  <2>1. Logical \in [Op -> Value] /\ Logical' \in [Op -> Value]
    BY <1>2 DEF IInv, TypeOK, Logical
  <2>2. CASE UNCHANGED vars
    BY <2>2 DEF vars, Atomic!vars, Logical, Outcome
  <2>3. CASE Edit
    <3>1. PICK i \in Op, c \in Value : tree' = [tree EXCEPT ![i] = c] /\ raced' \in {raced, raced \cup {i}}
      BY <2>3 DEF Edit
    <3>2. UNCHANGED <<before, after, pc, backedUp, installed, moved>> /\ pc \notin Ends
      BY <2>3 DEF Edit
    <3>3. Outcome = "pending" /\ Outcome' = "pending"
      BY <3>2 DEF Outcome
    <3>4. \A j \in Op : j # i => Logical'[j] = Logical[j]
      BY <1>2, <3>1, <3>2 DEF Logical, IInv, TypeOK
    <3>5. Logical' = [Logical EXCEPT ![i] = Logical'[i]]
      BY <2>1, <3>4
    <3>6. Atomic!Edit
      BY <2>1, <3>1, <3>2, <3>3, <3>5 DEF Atomic!Edit, Atomic!Value
    <3>. QED
      BY <3>6 DEF Atomic!Next
  <2>4. CASE Die
    <3>1. Logical' = tree /\ UNCHANGED <<before, after, raced>> /\ pc \notin Ends /\ pc' = "died"
      BY <2>4 DEF Die, Logical
    <3>2. \A i \in Op \ raced : tree[i] \in {Logical[i], after[i], Absent}
      BY <1>2, <3>1 DEF IInv, NotMixed, Logical
    <3>3. Outcome = "pending" /\ Outcome' = "died"
      BY <3>1 DEF Outcome
    <3>. QED
      BY <2>1, <3>1, <3>2, <3>3 DEF Atomic!Next, Atomic!Die, Atomic!Torn, Atomic!Value
  <2>5. CASE Writer /\ pc' \notin Ends
    <3>1. /\ \A i \in Op : Logical'[i] = Logical[i] \/ (i = at /\ i \in raced)
          /\ UNCHANGED <<before, after, raced>>
          /\ pc \notin Ends
      BY <1>2, <2>5, WriterStutters
    <3>2. Outcome = "pending" /\ Outcome' = "pending"
      BY <2>5, <3>1 DEF Outcome
    <3>3. CASE \A i \in Op : Logical'[i] = Logical[i]
      <4>1. Logical' = Logical
        BY <2>1, <3>3
      <4>. QED
        BY <3>1, <3>2, <4>1 DEF Atomic!vars
    <3>4. CASE at \in Op /\ at \in raced /\ \A i \in Op : i # at => Logical'[i] = Logical[i]
      <4>1. Logical' = [Logical EXCEPT ![at] = Logical'[at]] /\ Logical'[at] \in Value
        BY <2>1, <3>4
      <4>2. Atomic!Edit
        BY <3>1, <3>2, <3>4, <4>1 DEF Atomic!Edit, Atomic!Value
      <4>. QED
        BY <4>2 DEF Atomic!Next
    <3>. QED
      BY <3>1, <3>3, <3>4
  <2>6. CASE Writer /\ pc' \in Ends
    <3>1. /\ UNCHANGED <<before, after, raced>> /\ pc \notin Ends /\ pc' # "died" /\ Logical' = tree
          /\ pc' = "applied" => \A i \in Op \ raced : Logical[i] = before[i] /\ tree[i] = after[i]
          /\ pc' \in {"conflict", "command_failed", "raised", "rolled_back"} =>
                \A i \in Op \ raced : tree[i] = Logical[i]
          /\ pc' = "incomplete" =>
                \A i \in Op \ raced : tree[i] \in {Logical[i], after[i], Absent}
      BY <1>2, <2>6, WriterEnds
    <3>2. Outcome = "pending"
      BY <3>1 DEF Outcome
    <3>3. CASE pc' = "applied"
      <4>1. Outcome' = "applied"
        BY <3>3 DEF Outcome
      <4>. QED
        BY <2>1, <3>1, <3>2, <3>3, <4>1 DEF Atomic!Next, Atomic!Apply, Atomic!Value
    <3>4. CASE pc' = "incomplete"
      <4>1. Outcome' = "incomplete"
        BY <3>4 DEF Outcome
      <4>. QED
        BY <2>1, <3>1, <3>2, <3>4, <4>1
        DEF Atomic!Next, Atomic!ReportIncomplete, Atomic!Torn, Atomic!Value
    <3>5. CASE pc' \in {"conflict", "command_failed", "raised", "rolled_back"}
      <4>1. Outcome' = "restored"
        BY <3>5 DEF Outcome
      <4>. QED
        BY <2>1, <3>1, <3>2, <3>5, <4>1 DEF Atomic!Next, Atomic!Restore, Atomic!Value
    <3>. QED
      BY <2>6, <3>1, <3>3, <3>4, <3>5
  <2>. QED
    BY <1>2, <2>2, <2>3, <2>4, <2>5, <2>6 DEF Next
<1>. QED
  BY <1>1, <1>2, InvariantHolds, PTL DEF Spec, AppliesAtomically, Atomic!Spec
-----------------------------------------------------------------------------
(***************************************************************************)
(* What is left behind: a second invariant, relative to the first          *)
(***************************************************************************)

\* The temporary directories come with mkdtemp and go with the two rmtree calls.
TempsGone ==
    /\ pc \in {"verify", "commands", "mk_stage", "applied"} => temps = {}
    /\ pc = "rm_stage" => "backup" \notin temps
    /\ pc \in RollingBack => faults >= 1
    /\ pc = "rb_rm_backup" /\ faults <= 1 => "stage" \notin temps
    /\ pc = "rolled_back" /\ faults <= 1 => temps = {}

\* Every directory this call made is below those the reviewed files lie in.
BelowReviewed ==
    /\ pc \notin {"rb_rm_stage", "rb_rm_backup"} \cup Ends => Rooted(before, depth)
    /\ \A d \in created, i \in Op : before[i] # Absent => DepthOf[i] < d

\* A created directory that RemoveCreated left has a raced file in it, or holds a directory
\* that is not on the list.
Occupied(d) ==
    \/ \E i \in raced : DepthOf[i] >= d
    \/ \E e \in Dir : e > d /\ e <= depth /\ e \notin created

OnlyOccupied ==
    /\ faults <= 1
    /\ pc = "rolled_back" \/ (pc \in {"rb_rm_stage", "rb_rm_backup"} /\ ~errors)
    =>
        \A d \in created : d <= depth => Occupied(d)

Tidy == TempsGone /\ BelowReviewed /\ OnlyOccupied

\* Where RemoveCreated stops without a failing call, somebody else is in the way.
LEMMA StopsAtOccupied ==
    ASSUME IInv, BelowReviewed, pc = "rb_dirs", ~errors,
           NEW d \in 0..depth, Rooted(tree, d), EmptiedDownTo(d), NEW c \in created, c <= d
    PROVE  \/ \E i \in raced : DepthOf[i] >= c
           \/ \E e \in Dir : e > c /\ e <= d /\ e \notin created
<1>1. c \in Dir /\ d \in Int /\ d > 0
  BY DEF IInv, TypeOK
<1>2. CASE d \notin created
  <2>1. d \in Dir /\ d > c
    BY <1>1, <1>2 DEF IInv, TypeOK
  <2>. QED
    BY <1>2, <2>1
<1>3. CASE d \in created /\ ~Rooted(tree, d - 1)
  <2>1. PICK i \in Op : tree[i] # Absent /\ ~(DepthOf[i] <= d - 1)
    BY <1>3 DEF Rooted
  <2>2. DepthOf[i] >= d /\ DepthOf[i] >= c
    BY <1>1, <2>1
  <2>3. before[i] = Absent
    BY <1>1, <1>3, <2>2 DEF BelowReviewed
  <2>4. i \notin raced => tree[i] = Logical[i] /\ Logical[i] = before[i]
    BY DEF IInv, Undone, Base, NoConflict, Verified
  <2>. QED
    BY <2>1, <2>2, <2>3, <2>4
<1>. QED
  BY <1>1, <1>2, <1>3 DEF EmptiedDownTo

LEMMA TempsGoneStep == ASSUME IInv, TempsGone, Next PROVE TempsGone'
<1>1. faults \in Nat /\ temps \subseteq {"stage", "backup"}
  BY DEF IInv, TypeOK
<1>2. CASE VerifyBeforeDigest \/ RunCommand \/ SelectMutable \/ MakeTemps
  <2>1. pc' \in {"verify", "commands", "mk_stage", "applied"} => temps' = {}
    BY <1>2 DEF TempsGone, VerifyBeforeDigest, RunCommand, SelectMutable, MakeTemps
  <2>2. pc' \notin RollingBack \cup {"rm_stage", "rolled_back"}
    BY <1>2 DEF VerifyBeforeDigest, RunCommand, SelectMutable, MakeTemps
  <2>. QED
    BY <2>1, <2>2 DEF TempsGone
<1>3. CASE \/ StageContents \/ SkipUnchanged \/ SwapOut \/ EnsureParent \/ SwapIn
  <2>1. \/ pc' \in Swapping \cup {"rm_backup"}
        \/ pc' = "rb_unlink" /\ faults' = faults + 1
    BY <1>3 DEF StageContents, SkipUnchanged, SwapOut, EnsureParent, SwapIn
  <2>. QED
    BY <1>1, <2>1 DEF TempsGone
<1>4. CASE RemoveBackup \/ RemoveStage
  <2>1. \/ pc' = "rm_stage" /\ temps' = temps \ {"backup"}
        \/ pc' = "applied" /\ pc = "rm_stage" /\ temps' = temps \ {"stage"}
        \/ pc' = "rb_unlink" /\ faults' = faults + 1
    BY <1>4 DEF RemoveBackup, RemoveStage
  <2>2. CASE pc' = "rm_stage" /\ temps' = temps \ {"backup"}
    BY <2>2 DEF TempsGone
  <2>3. CASE pc' = "applied" /\ pc = "rm_stage" /\ temps' = temps \ {"stage"}
    <3>1. "backup" \notin temps
      BY <2>3 DEF TempsGone
    <3>2. temps' = {}
      BY <1>1, <2>3, <3>1
    <3>. QED
      BY <2>3, <3>2 DEF TempsGone
  <2>4. CASE pc' = "rb_unlink" /\ faults' = faults + 1
    BY <1>1, <2>4 DEF TempsGone
  <2>. QED
    BY <2>1, <2>2, <2>3, <2>4
<1>5. CASE UnlinkInstalled \/ RestoreBackedUp \/ RemoveCreated
  <2>1. /\ pc \in RollingBack /\ pc' \in {"rb_unlink", "rb_restore", "rb_dirs", "rb_rm_stage"}
        /\ faults' \in {faults, faults + 1}
    BY <1>5 DEF UnlinkInstalled, RestoreBackedUp, RemoveCreated
  <2>. QED
    BY <1>1, <2>1 DEF TempsGone
<1>6. CASE DropTemps
  <2>1. \/ /\ pc = "rb_rm_stage" /\ pc' = "rb_rm_backup"
           /\ (faults' = faults /\ temps' = temps \ {"stage"}) \/ faults' = faults + 1
        \/ /\ pc = "rb_rm_backup" /\ pc' \in {"incomplete", "rolled_back"}
           /\ (faults' = faults /\ temps' = temps \ {"backup"}) \/ faults' = faults + 1
    BY <1>6 DEF DropTemps
  <2>2. faults >= 1
    BY <2>1 DEF TempsGone
  <2>3. faults' >= 1 /\ (faults' <= 1 => faults' = faults)
    BY <1>1, <2>1, <2>2
  <2>4. CASE pc = "rb_rm_stage"
    <3>1. pc' = "rb_rm_backup" /\ (faults' <= 1 => "stage" \notin temps')
      BY <1>1, <2>1, <2>3, <2>4
    <3>. QED
      BY <2>3, <3>1 DEF TempsGone
  <2>5. CASE pc = "rb_rm_backup"
    <3>1. pc' \in {"incomplete", "rolled_back"}
      BY <2>1, <2>5
    <3>2. faults' <= 1 => "stage" \notin temps /\ temps' = temps \ {"backup"}
      BY <1>1, <2>1, <2>3, <2>5 DEF TempsGone
    <3>3. faults' <= 1 => temps' = {}
      BY <1>1, <3>2
    <3>. QED
      BY <3>1, <3>3 DEF TempsGone
  <2>. QED
    BY <2>1, <2>4, <2>5
<1>7. CASE Edit \/ Die
  BY <1>1, <1>7 DEF TempsGone, Edit, Die
<1>. QED
  BY <1>2, <1>3, <1>4, <1>5, <1>6, <1>7 DEF Next, Writer

LEMMA BelowReviewedStep == ASSUME IInv, BelowReviewed, Next PROVE BelowReviewed'
<1>1. /\ depth \in 0..NDirs /\ at \in Op /\ created \subseteq Dir
      /\ \A i \in Op : DepthOf[i] \in 0..NDirs
  BY DEF IInv, TypeOK
<1>2. CASE EnsureParent
  <2>1. depth' \in Int /\ depth' >= depth /\ before' = before /\ pc = "parents"
    BY <1>1, <1>2 DEF EnsureParent
  <2>2. Rooted(before, depth)
    BY <2>1 DEF BelowReviewed
  <2>3. Rooted(before', depth')
    BY <1>1, <2>1, <2>2 DEF Rooted
  <2>4. \A d \in created' : d \in created \/ (d \in Int /\ depth < d)
    BY <1>2 DEF EnsureParent
  <2>5. ASSUME NEW d \in created', NEW i \in Op, before[i] # Absent PROVE DepthOf[i] < d
    <3>1. DepthOf[i] <= depth
      BY <2>2, <2>5 DEF Rooted
    <3>2. CASE d \in created
      BY <2>5, <3>2 DEF BelowReviewed
    <3>3. CASE d \in Int /\ depth < d
      BY <1>1, <3>1, <3>3
    <3>. QED
      BY <2>4, <3>2, <3>3
  <2>. QED
    BY <2>1, <2>3, <2>5 DEF BelowReviewed
<1>3. CASE RemoveCreated
  BY <1>3 DEF BelowReviewed, RemoveCreated
<1>4. CASE \/ VerifyBeforeDigest \/ RunCommand \/ SelectMutable \/ MakeTemps \/ StageContents
           \/ SkipUnchanged \/ SwapOut \/ SwapIn \/ RemoveBackup \/ RemoveStage
           \/ UnlinkInstalled \/ RestoreBackedUp \/ DropTemps \/ Edit \/ Die
  <2>1. UNCHANGED <<before, depth, created>>
    BY <1>4 DEF VerifyBeforeDigest, RunCommand, SelectMutable, MakeTemps, StageContents,
       SkipUnchanged, SwapOut, SwapIn, RemoveBackup, RemoveStage, UnlinkInstalled,
       RestoreBackedUp, DropTemps, Edit, Die
  <2>2. pc \in {"rb_rm_stage", "rb_rm_backup"} \cup Ends
            => pc' \in {"rb_rm_stage", "rb_rm_backup"} \cup Ends
    BY <1>4 DEF VerifyBeforeDigest, RunCommand, SelectMutable, MakeTemps, StageContents,
       SkipUnchanged, SwapOut, SwapIn, RemoveBackup, RemoveStage, UnlinkInstalled,
       RestoreBackedUp, DropTemps, Edit, Die
  <2>. QED
    BY <2>1, <2>2 DEF BelowReviewed, Rooted
<1>. QED
  BY <1>2, <1>3, <1>4 DEF Next, Writer

LEMMA OnlyOccupiedStep == ASSUME IInv, Tidy, Next PROVE OnlyOccupied'
<1>1. faults \in Nat /\ depth \in 0..NDirs /\ created \subseteq Dir
  BY DEF IInv, TypeOK
<1>2. CASE RemoveCreated
  <2>1. /\ UNCHANGED <<errors, created, raced>> /\ pc = "rb_dirs" /\ pc' = "rb_rm_stage"
        /\ depth' \in 0..depth /\ Rooted(tree, depth')
        /\ (faults' = faults /\ EmptiedDownTo(depth')) \/ faults' = faults + 1
    BY <1>2 DEF RemoveCreated
  <2>2. faults >= 1
    BY <2>1 DEF Tidy, TempsGone
  <2>3. SUFFICES ASSUME faults' <= 1, ~errors, NEW c \in created, c <= depth'
                 PROVE  Occupied(c)'
    BY <2>1 DEF OnlyOccupied
  <2>4. EmptiedDownTo(depth')
    BY <1>1, <2>1, <2>2, <2>3
  <2>5. PICK d \in 0..depth : d = depth'
    BY <2>1
  <2>6. \/ \E i \in raced : DepthOf[i] >= c
        \/ \E e \in Dir : e > c /\ e <= d /\ e \notin created
    BY <2>1, <2>3, <2>4, <2>5, StopsAtOccupied DEF Tidy
  <2>. QED
    BY <2>1, <2>5, <2>6 DEF Occupied
<1>3. CASE DropTemps
  <2>1. /\ UNCHANGED <<errors, created, raced, depth>>
        /\ faults' <= 1 => faults <= 1
        /\ pc \in {"rb_rm_stage", "rb_rm_backup"}
        /\ pc' = "rolled_back" => ~errors
    BY <1>1, <1>3 DEF DropTemps
  <2>. QED
    BY <2>1 DEF Tidy, OnlyOccupied, Occupied
<1>4. CASE Edit
  <2>1. UNCHANGED <<errors, created, depth, pc, faults>> /\ raced \subseteq raced'
    BY <1>4 DEF Edit
  <2>. QED
    BY <2>1 DEF Tidy, OnlyOccupied, Occupied
<1>5. CASE \/ VerifyBeforeDigest \/ RunCommand \/ SelectMutable \/ MakeTemps \/ StageContents
           \/ SkipUnchanged \/ SwapOut \/ EnsureParent \/ SwapIn \/ RemoveBackup \/ RemoveStage
           \/ UnlinkInstalled \/ RestoreBackedUp \/ Die
  <2>1. pc' \notin {"rb_rm_stage", "rb_rm_backup", "rolled_back"}
    BY <1>5 DEF VerifyBeforeDigest, RunCommand, SelectMutable, MakeTemps, StageContents,
       SkipUnchanged, SwapOut, EnsureParent, SwapIn, RemoveBackup, RemoveStage, UnlinkInstalled,
       RestoreBackedUp, Die
  <2>. QED
    BY <2>1 DEF OnlyOccupied
<1>. QED
  BY <1>2, <1>3, <1>4, <1>5 DEF Next, Writer

LEMMA TidyHolds == Spec => []Tidy
<1>1. Init => Tidy
  BY DEF Init, BuildChangeSet, Tidy, TempsGone, BelowReviewed, OnlyOccupied
<1>2. IInv /\ Tidy /\ [Next]_vars => Tidy'
  <2>1. ASSUME Tidy, UNCHANGED vars PROVE Tidy'
    BY <2>1 DEF vars, Tidy, TempsGone, BelowReviewed, OnlyOccupied, Occupied, Rooted
  <2>. QED
    BY <2>1, TempsGoneStep, BelowReviewedStep, OnlyOccupiedStep DEF Tidy
<1>. QED
  BY <1>1, <1>2, InvariantHolds, PTL DEF Spec

\* What apply_changeset cleans up, with any number of edits and whichever call failed: no
\* temporary directory outlives a success or a rollback that met no failing call, and of the
\* directories it made only those are left that somebody else's file, or a half-made chain
\* of directories, keeps from being removed.
THEOREM Cleaned == Spec => []NothingLeftBehind
<1>1. Tidy => NothingLeftBehind
  BY DEF Tidy, TempsGone, OnlyOccupied, Occupied, NothingLeftBehind
<1>. QED
  BY <1>1, TidyHolds, PTL
=============================================================================
