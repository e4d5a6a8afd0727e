-------------------------- MODULE ChangeSetWriter --------------------------
(***************************************************************************)
(* build_changeset (materialize/changeset.py) and apply_changeset          *)
(* (materialize/writer.py), one file-system call per step, while another   *)
(* program edits the same project, calls fail, and the process may die.    *)
(*                                                                         *)
(* Operation i of a changeset is the i-th path in sorted order, so an      *)
(* operation stands for its file.  The digest of a content is the content. *)
(* The directories the targets need form one chain 1, 2, ..., NDirs below  *)
(* the root: `depth` of them exist, and the target of operation i lies in  *)
(* directory DepthOf[i] (0 is the root).                                   *)
(***************************************************************************)
EXTENDS Integers

CONSTANTS
    NOps,       \* operations of the changeset
    NDirs,      \* length of the chain of directories
    DepthOf,    \* the directory each target lies in
    Ownership,  \* the ownership each path is declared with
    Content,    \* file contents
    Absent,     \* no file
    NCommands,  \* commands the changeset runs first
    MaxEdits,   \* bound: writes by the other program
    MaxFaults   \* bound: failing calls

Op == 1..NOps
Value == Content \cup {Absent}
Dir == 1..NDirs

ASSUME SizesAssumption ==
    /\ NOps \in Nat \ {0}
    /\ NDirs \in Nat
    /\ NCommands \in Nat
    /\ MaxEdits \in Nat
    /\ MaxFaults \in Nat
ASSUME PathsAssumption ==
    /\ DepthOf \in [Op -> 0..NDirs]
    /\ Ownership \in [Op -> {"owned", "managed", "observed"}]
ASSUME AbsentAssumption == Absent \notin Content

VARIABLES
    before, after,  \* the reviewed changeset, constant during the call
    tree,           \* the content of each target
    depth,          \* how much of the chain of directories exists
    pc, at,         \* the step of apply_changeset, and the operation it works on
    conflict,       \* a digest differed so far
    commandsLeft,
    temps,          \* which of the stage and backup directories exist
    backup,         \* the files in the backup directory
    backedUp, installed, created,   \* the three lists rollback works from
    errors,         \* rollback_errors is not empty
    raced,          \* (history) targets edited after they were verified
    moved,          \* (history) what was moved into the backup directory
    cleanupFailed,  \* (history) a rmtree of the try block failed
    edits, faults   \* (bounds)

changeset == <<before, after>>
files == <<tree, depth>>
lists == <<backedUp, installed, created>>
history == <<raced, moved, cleanupFailed>>
vars == <<before, after, tree, depth, pc, at, conflict, commandsLeft, temps, backup,
          backedUp, installed, created, errors, raced, moved, cleanupFailed, edits, faults>>

Swapping == {"stage", "swap_out", "parents", "swap_in"}
Cleaning == {"rm_backup", "rm_stage"}
RollingBack == {"rb_unlink", "rb_restore", "rb_dirs", "rb_rm_stage", "rb_rm_backup"}
Preparing == {"verify", "commands", "mk_stage", "mk_backup"}
Ends == {"applied", "rolled_back", "incomplete", "conflict", "command_failed", "raised", "died"}
InTry == Swapping \cup Cleaning \cup RollingBack

-----------------------------------------------------------------------------
(***************************************************************************)
(* build_changeset: the content an operation will write                    *)
(***************************************************************************)
Forbidden(owner, old, desired) ==
    owner = "managed" /\ old # Absent /\ desired = Absent

Planned(owner, old, desired) ==
    IF owner = "observed" THEN old ELSE desired

Mutable == {i \in Op : before[i] # after[i]}

\* The chain is complete down to the directory of every file that exists.
Rooted(t, d) == \A i \in Op : t[i] # Absent => DepthOf[i] <= d

BuildChangeSet ==
    /\ before = tree
    /\ \E desired \in [Op -> Value] :
        /\ \A i \in Op : ~Forbidden(Ownership[i], tree[i], desired[i])
        /\ after = [i \in Op |-> Planned(Ownership[i], tree[i], desired[i])]

Init ==
    /\ tree \in [Op -> Value]
    /\ before \in [Op -> Value]
    /\ after \in [Op -> Value]
    /\ BuildChangeSet
    /\ depth \in 0..NDirs
    /\ Rooted(tree, depth)
    /\ pc = "verify" /\ at = 1
    /\ conflict = FALSE
    /\ commandsLeft = NCommands
    /\ temps = {}
    /\ backup = [i \in Op |-> Absent]
    /\ backedUp = {} /\ installed = {} /\ created = {}
    /\ errors = FALSE
    /\ raced = {}
    /\ moved = [i \in Op |-> Absent]
    /\ cleanupFailed = FALSE
    /\ edits = 0 /\ faults = 0

Fails == faults < MaxFaults /\ faults' = faults + 1
Works == UNCHANGED faults

\* The except clause: roll back, last operation first.
StartRollback == pc' = "rb_unlink" /\ at' = NOps

\* (mutant) The loop runs one operation too far.
NextOperationTooFar ==
    IF at > NOps THEN pc' = "rm_backup" /\ at' = NOps
                 ELSE pc' = "swap_out" /\ at' = at + 1

\* The next operation of the loop, or the end of the loop.
NextOperation ==
    IF at = NOps THEN pc' = "rm_backup" /\ at' = NOps
                 ELSE pc' = "swap_out" /\ at' = at + 1

-----------------------------------------------------------------------------
(***************************************************************************)
(* Before the try block                                                    *)
(***************************************************************************)

\* (mutant) The last comparison decides.
ConflictAfterLast == tree[at] # before[at]

\* conflicts.append(...): any difference is remembered.
ConflictAfter == conflict \/ tree[at] # before[at]

\* One target is read and compared; all of them are, then a conflict ends the call.
VerifyBeforeDigest ==
    /\ pc = "verify"
    /\ \/ /\ Works
          /\ conflict' = ConflictAfter
          /\ IF at < NOps
                THEN pc' = "verify" /\ at' = at + 1
                ELSE pc' = (IF conflict' THEN "conflict" ELSE "commands") /\ at' = at
       \/ Fails /\ pc' = "conflict" /\ conflict' = TRUE /\ at' = at   \* unreadable
    /\ UNCHANGED <<changeset, files, commandsLeft, temps, backup, lists, errors, history, edits>>

RunCommand ==
    /\ pc = "commands" /\ commandsLeft > 0
    /\ commandsLeft' = commandsLeft - 1
    /\ \/ Works /\ pc' = "commands"
       \/ Fails /\ pc' = "command_failed"
    /\ UNCHANGED <<changeset, files, at, conflict, temps, backup, lists, errors, history, edits>>

\* The commands are done; a changeset without a mutable operation is applied already.
SelectMutable ==
    /\ pc = "commands" /\ commandsLeft = 0
    /\ pc' = IF Mutable = {} THEN "applied" ELSE "mk_stage"
    /\ UNCHANGED <<changeset, files, at, conflict, commandsLeft, temps, backup, lists, errors,
                   history, edits, faults>>

\* The two mkdtemp calls, outside the try block: a failure of one leaves the other behind.
MakeTemps ==
    /\ \/ /\ pc = "mk_stage"
          /\ \/ Works /\ pc' = "mk_backup" /\ temps' = {"stage"}
             \/ Fails /\ pc' = "raised" /\ temps' = temps
       \/ /\ pc = "mk_backup"
          /\ \/ Works /\ pc' = "stage" /\ temps' = temps \cup {"backup"}
             \/ Fails /\ pc' = "raised" /\ temps' = temps
    /\ UNCHANGED <<changeset, files, at, conflict, commandsLeft, backup, lists, errors, history, edits>>

-----------------------------------------------------------------------------
(***************************************************************************)
(* The try block                                                           *)
(***************************************************************************)
StageContents ==
    /\ pc = "stage"
    /\ \/ Works /\ pc' = "swap_out" /\ at' = 1
       \/ Fails /\ StartRollback
    /\ UNCHANGED <<changeset, files, conflict, commandsLeft, temps, backup, lists, errors, history, edits>>

SkipUnchanged ==
    /\ pc = "swap_out" /\ at \notin Mutable
    /\ NextOperation
    /\ UNCHANGED <<changeset, files, conflict, commandsLeft, temps, backup, lists, errors,
                   history, edits, faults>>

\* (mutant) Written as an elif of "if target.exists()".
AfterSwapOutElse ==
    IF after[at] = Absent \/ tree[at] # Absent THEN NextOperation
    ELSE pc' = "parents" /\ at' = at

\* After its file is out of the way a deletion is finished, a write goes on.
AfterSwapOut ==
    IF after[at] = Absent THEN NextOperation ELSE pc' = "parents" /\ at' = at

\* os.replace(target, backup_target), if the target exists.
SwapOut ==
    /\ pc = "swap_out" /\ at \in Mutable
    /\ \/ /\ tree[at] # Absent /\ Works
          /\ backup' = [backup EXCEPT ![at] = tree[at]]
          /\ moved' = [moved EXCEPT ![at] = tree[at]]
          /\ tree' = [tree EXCEPT ![at] = Absent]
          /\ backedUp' = backedUp \cup {at}
          /\ AfterSwapOut
       \/ /\ tree[at] = Absent /\ Works
          /\ AfterSwapOut
          /\ UNCHANGED <<backup, moved, tree, backedUp>>
       \/ /\ Fails /\ StartRollback
          /\ UNCHANGED <<backup, moved, tree, backedUp>>
    /\ UNCHANGED <<changeset, depth, conflict, commandsLeft, temps, installed, created, errors,
                   raced, cleanupFailed, edits>>

\* _ensure_parent: mkdir(parents=True) may stop half way, and then nothing is recorded.
EnsureParent ==
    /\ pc = "parents"
    /\ \/ /\ Works
          /\ depth' = IF depth < DepthOf[at] THEN DepthOf[at] ELSE depth
          /\ created' = created \cup {d \in Dir : depth < d /\ d <= DepthOf[at]}
          /\ pc' = "swap_in" /\ at' = at
       \/ /\ Fails
          /\ depth' \in {d \in 0..NDirs : d = depth \/ (depth < d /\ d < DepthOf[at])}
          /\ created' = created
          /\ StartRollback
    /\ UNCHANGED <<changeset, tree, conflict, commandsLeft, temps, backup, backedUp, installed,
                   errors, history, edits>>

\* replace(staged, target): whatever is there by now is overwritten.
SwapIn ==
    /\ pc = "swap_in"
    /\ \/ /\ Works
          /\ tree' = [tree EXCEPT ![at] = after[at]]
          /\ installed' = installed \cup {at}
          /\ NextOperation
       \/ /\ Fails /\ StartRollback
          /\ UNCHANGED <<tree, installed>>
    /\ UNCHANGED <<changeset, depth, conflict, commandsLeft, temps, backup, backedUp, created,
                   errors, history, edits>>

\* shutil.rmtree(backup): a failing one has already removed some of the files.
RemoveBackup ==
    /\ pc = "rm_backup"
    /\ \/ /\ Works
          /\ backup' = [i \in Op |-> Absent]
          /\ temps' = temps \ {"backup"}
          /\ pc' = "rm_stage" /\ at' = at
          /\ UNCHANGED cleanupFailed
       \/ /\ Fails
          /\ \E lost \in SUBSET backedUp :
                backup' = [i \in Op |-> IF i \in lost THEN Absent ELSE backup[i]]
          /\ cleanupFailed' = TRUE
          /\ StartRollback
          /\ UNCHANGED temps
    /\ UNCHANGED <<changeset, files, conflict, commandsLeft, lists, errors, raced, moved, edits>>

\* shutil.rmtree(stage), still inside the try block.
RemoveStage ==
    /\ pc = "rm_stage"
    /\ \/ Works /\ temps' = temps \ {"stage"} /\ pc' = "applied" /\ UNCHANGED <<at, cleanupFailed>>
       \/ Fails /\ StartRollback /\ cleanupFailed' = TRUE /\ UNCHANGED temps
    /\ UNCHANGED <<changeset, files, conflict, commandsLeft, backup, lists, errors, raced, moved, edits>>

-----------------------------------------------------------------------------
(***************************************************************************)
(* _rollback and the end of the except clause                              *)
(***************************************************************************)
\* (mutant) The loop ends before the first entry of the list.
NextBackwardsShort(here, there) ==
    IF at > 2 THEN pc' = here /\ at' = at - 1
              ELSE pc' = there /\ at' = NOps

NextBackwards(here, there) ==
    IF at > 1 THEN pc' = here /\ at' = at - 1
              ELSE pc' = there /\ at' = NOps

\* target.unlink(missing_ok=True) for what was installed.
UnlinkInstalled ==
    /\ pc = "rb_unlink"
    /\ \/ /\ at \in installed /\ Works
          /\ tree' = [tree EXCEPT ![at] = Absent]
          /\ UNCHANGED errors
       \/ at \in installed /\ Fails /\ errors' = TRUE /\ UNCHANGED tree
       \/ at \notin installed /\ Works /\ UNCHANGED <<tree, errors>>
    /\ NextBackwards("rb_unlink", "rb_restore")
    /\ UNCHANGED <<changeset, depth, conflict, commandsLeft, temps, backup, lists, history, edits>>

\* os.replace(source, target) for what was backed up; the source may be gone.
RestoreBackedUp ==
    /\ pc = "rb_restore"
    /\ \/ /\ at \in backedUp /\ backup[at] # Absent /\ Works
          /\ tree' = [tree EXCEPT ![at] = backup[at]]
          /\ backup' = [backup EXCEPT ![at] = Absent]
          /\ UNCHANGED errors
       \/ /\ at \in backedUp
          /\ \/ backup[at] = Absent /\ Works
             \/ backup[at] # Absent /\ Fails
          /\ errors' = TRUE
          /\ UNCHANGED <<tree, backup>>
       \/ at \notin backedUp /\ Works /\ UNCHANGED <<tree, backup, errors>>
    /\ NextBackwards("rb_restore", "rb_dirs")
    /\ UNCHANGED <<changeset, depth, conflict, commandsLeft, temps, lists, history, edits>>

\* (mutant) The shallowest directory is tried first, while the others are still in it.
EmptiedDownToShallowFirst(d) ==
    d = IF depth \in created /\ Rooted(tree, depth - 1) THEN depth - 1 ELSE depth

\* Directory d is the first one that is not removed: it was there before, or is not empty.
EmptiedDownTo(d) == d = 0 \/ d \notin created \/ ~Rooted(tree, d - 1)

\* rmdir of what was created, deepest first; a directory that is not empty stays, and so
\* does every one above it.
RemoveCreated ==
    /\ pc = "rb_dirs"
    /\ \E d \in 0..depth :
        /\ \A e \in Dir : d < e /\ e <= depth => e \in created
        /\ Rooted(tree, d)
        /\ depth' = d
        /\ \/ Works /\ EmptiedDownTo(d)
           \/ Fails
    /\ pc' = "rb_rm_stage"
    /\ UNCHANGED <<changeset, tree, at, conflict, commandsLeft, temps, backup, lists, errors,
                   history, edits>>

\* rmtree(..., ignore_errors=True) twice, whatever became of the rollback.
DropTemps ==
    /\ \/ /\ pc = "rb_rm_stage" /\ pc' = "rb_rm_backup"
          /\ \/ Works /\ temps' = temps \ {"stage"}
             \/ Fails /\ temps' = temps
          /\ UNCHANGED backup
       \/ /\ pc = "rb_rm_backup"
          /\ pc' = IF errors THEN "incomplete" ELSE "rolled_back"
          /\ \/ Works /\ temps' = temps \ {"backup"} /\ backup' = [i \in Op |-> Absent]
             \/ Fails /\ UNCHANGED <<temps, backup>>
    /\ UNCHANGED <<changeset, files, at, conflict, commandsLeft, lists, errors, history, edits>>

-----------------------------------------------------------------------------
(***************************************************************************)
(* Everything else that can happen during the call                         *)
(***************************************************************************)

\* Has the writer verified target i already?
Verified(i) == pc # "verify" \/ i < at

\* Another program writes or removes a target whose directory exists.
Edit ==
    /\ pc \notin Ends /\ edits < MaxEdits
    /\ edits' = edits + 1
    /\ \E i \in Op, c \in Value :
        /\ DepthOf[i] <= depth
        /\ tree[i] # c
        /\ tree' = [tree EXCEPT ![i] = c]
        /\ raced' = IF Verified(i) THEN raced \cup {i} ELSE raced
    /\ UNCHANGED <<changeset, depth, pc, at, conflict, commandsLeft, temps, backup, lists, errors,
                   moved, cleanupFailed, faults>>

\* Kill, power loss, or an interrupt: `except Exception` catches none of them.
Die ==
    /\ pc \notin Ends
    /\ pc' = "died"
    /\ UNCHANGED <<changeset, files, at, conflict, commandsLeft, temps, backup, lists, errors,
                   history, edits, faults>>

Writer ==
    \/ VerifyBeforeDigest \/ RunCommand \/ SelectMutable \/ MakeTemps
    \/ StageContents \/ SkipUnchanged \/ SwapOut \/ EnsureParent \/ SwapIn
    \/ RemoveBackup \/ RemoveStage
    \/ UnlinkInstalled \/ RestoreBackedUp \/ RemoveCreated \/ DropTemps

Next == Writer \/ Edit \/ Die

Spec == Init /\ [][Next]_vars

-----------------------------------------------------------------------------
(***************************************************************************)
(* Properties                                                              *)
(***************************************************************************)
TypeOK ==
    /\ before \in [Op -> Value] /\ after \in [Op -> Value] /\ tree \in [Op -> Value]
    /\ depth \in 0..NDirs
    /\ pc \in Preparing \cup InTry \cup Ends
    /\ at \in Op
    /\ conflict \in BOOLEAN
    /\ commandsLeft \in 0..NCommands
    /\ temps \subseteq {"stage", "backup"}
    /\ backup \in [Op -> Value] /\ moved \in [Op -> Value]
    /\ backedUp \subseteq Op /\ installed \subseteq Op /\ created \subseteq Dir
    /\ errors \in BOOLEAN /\ cleanupFailed \in BOOLEAN
    /\ raced \subseteq Op
    /\ edits \in 0..MaxEdits /\ faults \in 0..MaxFaults

\* An apply that reports "rolled back" (ApplyFailure without "rollback incomplete") has put
\* back every target nobody else touched, whichever call failed, even one of the two rmtree
\* calls that delete the backups: a missing backup is reported as an error.
ReportedRollbackIsComplete ==
    pc = "rolled_back" => \A i \in Op \ raced : tree[i] = before[i]

\* A process that dies loses nothing: the reviewed content of each target it has touched is
\* in the project, is replaced by the new one, or lies in the backup directory.
\* (Only after an earlier call of the clean-up or of the rollback failed is this untrue.)
CrashLosesNothing ==
    pc = "died" /\ ~errors /\ ~cleanupFailed =>
        \A i \in (backedUp \cup installed) \ raced :
            tree[i] \in {before[i], after[i]} \/ backup[i] = before[i]

\* An apply that succeeds leaves nothing of itself, and a rollback that met no failing call
\* leaves only the directories it created in which somebody put a file meanwhile, or that
\* hold one which a mkdir made before it failed.
NothingLeftBehind ==
    /\ pc = "applied" => temps = {}
    /\ pc = "rolled_back" /\ faults <= 1 =>
        /\ temps = {}
        /\ \A d \in created : d <= depth =>
            \/ \E i \in raced : DepthOf[i] >= d
            \/ \E e \in Dir : e > d /\ e <= depth /\ e \notin created

\* The docstring of apply_changeset, "apply a ChangeSet or restore the original tree", file by
\* file: after a failed call each file nobody else touched has its original or its new content.
\* (Violated: a rmtree of the clean-up fails after the files are installed; the rollback
\* unlinks them and has no backup left to put back, so a file has neither.)
ApplyOrRestore ==
    pc \in {"rolled_back", "incomplete"} =>
        \A i \in Op \ raced : tree[i] \in {before[i], after[i]}

\* The tree as the call could still put it back: what it has moved away is where it was.
\* While the call is in its try block nothing counts as changed.
Logical ==
    IF pc \notin InTry THEN tree
    ELSE [i \in Op |-> IF i \in backedUp THEN moved[i]
                       ELSE IF i \in installed THEN Absent
                       ELSE tree[i]]

Outcome ==
    CASE pc = "applied" -> "applied"
      [] pc = "incomplete" -> "incomplete"
      [] pc = "died" -> "died"
      [] pc \in {"conflict", "command_failed", "raised", "rolled_back"} -> "restored"
      [] OTHER -> "pending"

Atomic == INSTANCE AtomicApply WITH tree <- Logical, outcome <- Outcome

\* The call changes all files nobody else writes, in one step, or none of them; every
\* other end is reported or is the death of the process.
AppliesAtomically == Atomic!Spec
=============================================================================
