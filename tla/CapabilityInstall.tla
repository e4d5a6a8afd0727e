------------------------- MODULE CapabilityInstall -------------------------
(***************************************************************************)
(* "vibe install", "vibe update" and "vibe uninstall" of one project       *)
(* (remote/install.py, commands/install.py, update.py, uninstall.py),      *)
(* running at the same time or one after the other.                        *)
(*                                                                         *)
(* A capability owns an artifact and a file with its install transaction,  *)
(* the contents before the install of every file it touched; all share the *)
(* lock and the audit log.  An install renders its plan from the tree it   *)
(* sees, waits for an approval, applies the plan to a copy of the tree,    *)
(* runs the preflight and commits the difference between the copy and the  *)
(* tree; an uninstall puts the recorded contents back.                     *)
(*                                                                         *)
(* An apply to the project is taken file by file: each is moved to the     *)
(* backup and its successor put in its place, a failing call starts the    *)
(* rollback, any call of which may fail too, and the process may die       *)
(* between any two.  Other commands see the project as it is meanwhile.    *)
(* (ChangeSetWriter has the rest of apply_changeset: its temporary         *)
(* directories, and the directories of the targets.)                       *)
(*                                                                         *)
(* A version stands for the package it names: its content, digest, and     *)
(* permissions.  A tree maps the files there are to their contents.  What  *)
(* a command reads of the project at one place of its code (a copytree, a  *)
(* byte_tree, the digests of a changeset) it reads in one step.            *)
(***************************************************************************)
EXTENDS Integers, Sequences, SequencesExt

CONSTANTS
  Client,      \* invocations that may be under way at a time
  Cap,         \* capabilities
  MaxVersion,
  MaxCommits,  \* bound: applies of installs and updates (none is planned after them)
  MaxFaults,   \* bound: failing calls and deaths within applies
  Updates,     \* is "vibe update" among the commands?
  None

ASSUME InstallAssumption ==
  /\ MaxVersion \in Nat \ {0} /\ MaxCommits \in Nat /\ MaxFaults \in Nat
  /\ Updates \in BOOLEAN

VARIABLES
  tree,      \* the files of the project, with their contents
  pc,
  command,   \* the command a client runs, and on what
  changes,   \* the changes its plan asks for
  staged,    \* the copy of the tree it works on
  base,      \* the tree its changeset was built from
  work,      \* its apply_changeset: what is to do, moved away and put in place
  approved,  \* history: what a user approved
  verified,  \* history: what went through a preflight
  torn,      \* history: an apply was left half way, or another command read or
             \* wrote the project during one
  whole,     \* history: the project without the apply under way, while not torn
  orderly,   \* history: commands neither overlapped, nor were undone out of turn,
             \* nor torn
  before,    \* history: the installs and updates in effect, with the tree before each
  commits,   \* counts applies of installs and updates, up to MaxCommits
  faults     \* counts failing calls and deaths within applies, up to MaxFaults

local   == <<command, changes, staged, base>>
applies == <<torn, whole, orderly, faults>>
endorse == <<approved, verified>>
vars    == <<tree, pc, local, work, applies, endorse, before, commits>>

Version == 1..MaxVersion

Artifact(k)    == <<"artifact", k>>
Transaction(k) == <<"transaction", k>>
Lock  == <<"lock">>
Audit == <<"audit">>
Path  == {Artifact(k) : k \in Cap} \cup {Transaction(k) : k \in Cap} \cup {Lock, Audit}

Owned(k) == {Artifact(k), Transaction(k), Lock, Audit}

Entry == [version: Version, preflight: BOOLEAN]
Kind  == {"install", "update", "uninstall"}
Command == [kind: Kind, cap: Cap, version: Version \cup {None}]
Applying == {"out", "in", "rollback"}
PC == {"idle", "ask", "stage", "preflight", "build", "check", "apply"} \cup Applying

\* A change gives contents to files and removes the others of its paths.
\* Transactions nest (an update records the one it replaces), so that only the
\* shape of the outermost is asserted.
IsChange(change, paths) == change.paths = paths /\ DOMAIN change.files \subseteq paths

IsContent(p, content) ==
  \/ p = Lock /\ DOMAIN content \subseteq Cap /\ content \in [DOMAIN content -> Entry]
  \/ p = Audit /\ content \in Seq(Cap \X Version \X {"planned", "installed"})
  \/ \E k \in Cap : p = Artifact(k) /\ content \in Version
  \/ \E k \in Cap : p = Transaction(k) /\ IsChange(content, Owned(k))

IsTree(t) == DOMAIN t \subseteq Path /\ \A p \in DOMAIN t : IsContent(p, t[p])

IsWork(w) ==
  /\ DOMAIN w = {"rest", "at", "backup", "written"}
  /\ w.rest \subseteq Path /\ w.written \subseteq Path /\ w.at \in Path \cup {None}
  /\ IsTree(w.backup)

TypeOK ==
  /\ IsTree(tree)
  /\ pc \in [Client -> PC]
  /\ command \in [Client -> Command \cup {None}]
  /\ DOMAIN changes = Client /\ DOMAIN staged = Client /\ DOMAIN base = Client
  /\ DOMAIN work = Client
  /\ \A c \in Client :
       /\ work[c] # None => IsWork(work[c])
       /\ staged[c] # None => IsTree(staged[c])
       /\ base[c] # None => IsTree(base[c])
       /\ changes[c] # None =>
            changes[c].paths \subseteq Path /\ IsTree(changes[c].files)
  /\ approved \subseteq Cap \X Version /\ verified \subseteq Cap \X Version
  /\ torn \in BOOLEAN /\ orderly \in BOOLEAN /\ IsTree(whole)
  /\ commits \in 0..MaxCommits /\ faults \in 0..MaxFaults
  /\ \A i \in DOMAIN before : before[i].cap \in Cap /\ IsTree(before[i].tree)

Init ==
  /\ tree = <<>>
  /\ pc = [c \in Client |-> "idle"]
  /\ command = [c \in Client |-> None] /\ changes = [c \in Client |-> None]
  /\ staged = [c \in Client |-> None] /\ base = [c \in Client |-> None]
  /\ work = [c \in Client |-> None]
  /\ torn = FALSE /\ whole = <<>> /\ orderly = TRUE
  /\ approved = {} /\ verified = {} /\ before = <<>>
  /\ commits = 0 /\ faults = 0

-----------------------------------------------------------------------------
Excerpt(t, paths) == [paths |-> paths, files |-> Restrict(t, DOMAIN t \cap paths)]

Overlay(t, change) ==
  [p \in (DOMAIN t \ change.paths) \cup DOMAIN change.files |->
     IF p \in DOMAIN change.files THEN change.files[p] ELSE t[p]]

Same(s, t, p) == (p \in DOMAIN s <=> p \in DOMAIN t) /\ (p \in DOMAIN s => s[p] = t[p])

Pinned(t) == IF Lock \in DOMAIN t THEN t[Lock] ELSE <<>>

\* _render_lock: the entries there are, with this capability's replaced.
RenderLock(t, k, v, preflight) ==
  [j \in DOMAIN Pinned(t) \cup {k} |->
     IF j = k THEN [version |-> v, preflight |-> preflight] ELSE Pinned(t)[j]]

AppendAudit(t, k, v, status) ==
  Append(IF Audit \in DOMAIN t THEN t[Audit] ELSE <<>>, <<k, v, status>>)

PassedPreflight(t, k, v) ==
  k \in DOMAIN Pinned(t) /\ Pinned(t)[k] = [version |-> v, preflight |-> TRUE]

(***************************************************************************)
(* _render_transaction.  (mutant) It leaves its own file out.              *)
(***************************************************************************)
RenderTransactionNotItself(t, k) == Excerpt(t, Owned(k) \ {Transaction(k)})
RenderTransaction(t, k) == Excerpt(t, Owned(k))

InstallChanges(t, k, v) ==
  [paths |-> Owned(k),
   files |-> [p \in Owned(k) |->
                IF p = Artifact(k) THEN v
                ELSE IF p = Lock THEN RenderLock(t, k, v, FALSE)
                ELSE IF p = Audit THEN AppendAudit(t, k, v, "planned")
                ELSE RenderTransaction(t, k)]]

Resolves(t, k) == Artifact(k) \in DOMAIN t

(***************************************************************************)
(* What a command leaves behind when it returns or raises.                 *)
(***************************************************************************)
Leave(c) ==
  /\ pc' = [pc EXCEPT ![c] = "idle"]
  /\ command' = [command EXCEPT ![c] = None]
  /\ changes' = [changes EXCEPT ![c] = None]
  /\ staged' = [staged EXCEPT ![c] = None]
  /\ base' = [base EXCEPT ![c] = None]
  /\ work' = [work EXCEPT ![c] = None]

(***************************************************************************)
(* A command meets the project while another one applies its changeset.    *)
(***************************************************************************)
Busy(c) == \E d \in Client \ {c} : pc[d] \in Applying

Tears(tears) ==
  /\ torn' = (torn \/ tears)
  /\ orderly' = (orderly /\ ~tears)
  /\ whole' = IF torn' THEN <<>> ELSE whole

Faulty(fails) ==
  /\ fails => faults < MaxFaults
  /\ faults' = IF fails THEN faults + 1 ELSE faults
  /\ Tears(fails)

(***************************************************************************)
(* build_install_plan refuses a second install of a capability, except     *)
(* when it has nothing left to do.                                         *)
(***************************************************************************)
MayPlanInstall(t, k, v) == Transaction(k) \notin DOMAIN t \/ PassedPreflight(t, k, v)

Plan(c, kind, k, v) ==
  /\ pc[c] = "idle" /\ commits < MaxCommits
  /\ command' = [command EXCEPT ![c] = [kind |-> kind, cap |-> k, version |-> v]]
  /\ changes' = [changes EXCEPT ![c] = InstallChanges(tree, k, v)]
  /\ pc' = [pc EXCEPT ![c] = "ask"]
  /\ Tears(Busy(c))
  /\ UNCHANGED <<tree, staged, base, work, endorse, before, commits, faults>>

PlanInstall(c) ==
  \E k \in Cap, v \in Version : MayPlanInstall(tree, k, v) /\ Plan(c, "install", k, v)

\* _locked_provider and _is_newer: an upgrade of what the lock pins.
PlanUpdate(c) ==
  /\ Updates
  /\ \E k \in Cap, v \in Version :
       /\ k \in DOMAIN Pinned(tree)
       /\ v > Pinned(tree)[k].version
       /\ Plan(c, "update", k, v)

Approve(c) ==
  /\ pc[c] = "ask"
  /\ approved' = approved \cup {<<command[c].cap, command[c].version>>}
  /\ pc' = [pc EXCEPT ![c] = "stage"]
  /\ UNCHANGED <<tree, local, work, applies, verified, before, commits>>

Refuse(c) ==
  /\ pc[c] = "ask"
  /\ Leave(c)
  /\ UNCHANGED <<tree, applies, endorse, before, commits>>

-----------------------------------------------------------------------------
\* execute_install: nothing to do when the lock already pins this package.
AlreadyInstalled(c) ==
  /\ pc[c] = "stage"
  /\ PassedPreflight(tree, command[c].cap, command[c].version)
  /\ Leave(c)
  /\ UNCHANGED <<tree, applies, endorse, before, commits>>

\* The tree is copied and the plan applied to the copy.
Stage(c) ==
  /\ pc[c] = "stage"
  /\ ~PassedPreflight(tree, command[c].cap, command[c].version)
  /\ staged' = [staged EXCEPT ![c] = Overlay(tree, changes[c])]
  /\ pc' = [pc EXCEPT ![c] = "preflight"]
  /\ Tears(Busy(c))
  /\ UNCHANGED <<tree, command, changes, base, work, endorse, before, commits, faults>>

(***************************************************************************)
(* The preflight passes and the staged capability resolves: the lock and   *)
(* the audit log of the copy say so.  (mutant) Whatever the outcome.       *)
(***************************************************************************)
AnyOutcome(passed) == TRUE
PreflightGate(passed) == passed

Installed(t, k, v) ==
  Overlay(t, [paths |-> {Lock, Audit},
              files |-> [p \in {Lock, Audit} |->
                           IF p = Lock THEN RenderLock(t, k, v, TRUE)
                           ELSE AppendAudit(t, k, v, "installed")]])

Preflight(c) ==
  LET k == command[c].cap  v == command[c].version IN
  /\ pc[c] = "preflight"
  /\ \E passed \in BOOLEAN :
       /\ PreflightGate(passed)
       /\ verified' = IF passed THEN verified \cup {<<k, v>>} ELSE verified
  /\ staged' = [staged EXCEPT ![c] = Installed(staged[c], k, v)]
  /\ pc' = [pc EXCEPT ![c] = "build"]
  /\ UNCHANGED <<tree, command, changes, base, work, applies, approved, before, commits>>

\* _build_tree_commit: all that differs now between the tree and the copy.
BuildCommit(c) ==
  LET differing == {p \in Path : ~Same(tree, staged[c], p)} IN
  /\ pc[c] = "build"
  /\ base' = [base EXCEPT ![c] = tree]
  /\ changes' = [changes EXCEPT ![c] = Excerpt(staged[c], differing)]
  /\ pc' = [pc EXCEPT ![c] = "apply"]
  /\ Tears(Busy(c))
  /\ UNCHANGED <<tree, command, staged, work, endorse, before, commits, faults>>

-----------------------------------------------------------------------------
\* uninstall_command: the recorded contents, to be put back.
PlanUninstall(c) ==
  /\ pc[c] = "idle"
  /\ \E k \in Cap :
       /\ Transaction(k) \in DOMAIN tree
       /\ command' = [command EXCEPT ![c] = [kind |-> "uninstall", cap |-> k, version |-> None]]
       /\ changes' = [changes EXCEPT ![c] = tree[Transaction(k)]]
  /\ base' = [base EXCEPT ![c] = tree]
  /\ pc' = [pc EXCEPT ![c] = "check"]
  /\ Tears(Busy(c))
  /\ UNCHANGED <<tree, staged, work, endorse, before, commits, faults>>

(***************************************************************************)
(* They are tried on a copy first, where the capability must be gone.      *)
(***************************************************************************)
CheckUninstall(c) ==
  /\ pc[c] = "check"
  /\ ~Resolves(Overlay(tree, changes[c]), command[c].cap)
  /\ pc' = [pc EXCEPT ![c] = "apply"]
  /\ UNCHANGED <<tree, local, work, applies, endorse, before, commits>>

-----------------------------------------------------------------------------
(***************************************************************************)
(* apply_changeset refuses when a file of the changeset is not as it was   *)
(* when the changeset was built, and works on those that are to change.    *)
(* (What nothing reads from here on is dropped.)  (mutant) The ones to     *)
(* remove are forgotten.                                                   *)
(***************************************************************************)
Unchanged(c) == \A p \in changes[c].paths : Same(tree, base[c], p)

MutableOfContent(c) == {p \in DOMAIN changes[c].files : ~Same(base[c], changes[c].files, p)}
Mutable(c) == {p \in changes[c].paths : ~Same(base[c], changes[c].files, p)}

Verify(c) ==
  /\ pc[c] = "apply"
  /\ Unchanged(c)
  /\ command[c].kind # "uninstall" => commits < MaxCommits
  /\ commits' = IF command[c].kind = "uninstall" THEN commits ELSE commits + 1
  /\ work' = [work EXCEPT ![c] = [rest |-> Mutable(c), at |-> None,
                                  backup |-> <<>>, written |-> {}]]
  /\ staged' = [staged EXCEPT ![c] = None]
  /\ base' = [base EXCEPT ![c] = None]
  /\ pc' = [pc EXCEPT ![c] = "out"]
  /\ Tears(Busy(c))
  /\ UNCHANGED <<tree, command, changes, endorse, before, faults>>

(***************************************************************************)
(* The files are taken in the order of their names, those of artifacts     *)
(* and transactions in any that the capabilities give them.                *)
(***************************************************************************)
Earlier(p, q) ==
  \/ p = Audit /\ q = Lock
  \/ p \in {Audit, Lock} /\ \E k \in Cap : q = Transaction(k)

Firsts(S) == {p \in S : \A q \in S : ~Earlier(q, p)}
Lasts(S)  == {p \in S : \A q \in S : ~Earlier(p, q)}

Put(t, p, content)  == [q \in DOMAIN t \cup {p} |-> IF q = p THEN content ELSE t[q]]
Without(t, p)       == Restrict(t, DOMAIN t \ {p})

\* The file that is there is moved to the backup; one without successor is done with.
SwapOut(c) ==
  /\ pc[c] = "out"
  /\ \E p \in Firsts(work[c].rest) :
       /\ IF p \in DOMAIN tree
          THEN /\ tree' = Without(tree, p)
               /\ work' = [work EXCEPT ![c].backup = Put(@, p, tree[p]), ![c].at = p,
                                       ![c].rest = @ \ {p}]
          ELSE /\ tree' = tree
               /\ work' = [work EXCEPT ![c].at = p, ![c].rest = @ \ {p}]
       /\ pc' = IF p \in DOMAIN changes[c].files THEN [pc EXCEPT ![c] = "in"] ELSE pc
  /\ UNCHANGED <<local, applies, endorse, before, commits>>

\* Its successor is put in its place, over whatever is there by now.
SwapIn(c) ==
  /\ pc[c] = "in"
  /\ tree' = Put(tree, work[c].at, changes[c].files[work[c].at])
  /\ work' = [work EXCEPT ![c].written = @ \cup {work[c].at}]
  /\ pc' = [pc EXCEPT ![c] = "out"]
  /\ UNCHANGED <<local, applies, endorse, before, commits>>

Others(c) == {d \in Client \ {c} : pc[d] # "idle"}

InTurn(c) == command[c].kind = "uninstall" => before # <<>> /\ Last(before).cap = command[c].cap

\* All files are in place, and the temporary directories are removed: the command returns.
Finish(c) ==
  /\ pc[c] = "out" /\ work[c].rest = {}
  /\ orderly' = (orderly /\ Others(c) = {} /\ InTurn(c))
  /\ before' = IF ~orderly' THEN <<>>
               ELSE IF command[c].kind = "uninstall" THEN Front(before)
               ELSE Append(before, [cap |-> command[c].cap, tree |-> whole])
  /\ whole' = IF torn THEN <<>> ELSE tree
  /\ Leave(c)
  /\ UNCHANGED <<tree, torn, faults, endorse, commits>>

(***************************************************************************)
(* A call of the try block fails, the last rmtree included.  The rollback  *)
(* removes what was put in place and then puts back what was moved away,   *)
(* last first; where it fails it goes on, and the tree stays torn.         *)
(***************************************************************************)
FailApply(c) ==
  /\ pc[c] \in {"out", "in"} /\ faults < MaxFaults
  /\ faults' = faults + 1
  /\ pc' = [pc EXCEPT ![c] = "rollback"]
  /\ UNCHANGED <<tree, local, work, torn, whole, orderly, endorse, before, commits>>

Unlink(c) ==
  /\ pc[c] = "rollback"
  /\ \E p \in Lasts(work[c].written), works \in BOOLEAN :
       /\ tree' = IF works THEN Without(tree, p) ELSE tree
       /\ work' = [work EXCEPT ![c].written = @ \ {p}]
       /\ Faulty(~works)
  /\ UNCHANGED <<pc, local, endorse, before, commits>>

Restore(c) ==
  /\ pc[c] = "rollback" /\ work[c].written = {}
  /\ \E p \in Lasts(DOMAIN work[c].backup), works \in BOOLEAN :
       /\ tree' = IF works THEN Put(tree, p, work[c].backup[p]) ELSE tree
       /\ work' = [work EXCEPT ![c].backup = Without(@, p)]
       /\ Faulty(~works)
  /\ UNCHANGED <<pc, local, endorse, before, commits>>

RolledBack(c) ==
  /\ pc[c] = "rollback" /\ work[c].written = {} /\ DOMAIN work[c].backup = {}
  /\ Leave(c)
  /\ UNCHANGED <<tree, applies, endorse, before, commits>>

(***************************************************************************)
(* A command raises (a failed preflight, a capability that does not        *)
(* resolve, or still does, a conflict), or is killed, where an apply that  *)
(* has touched the project leaves it as it is at that moment.              *)
(***************************************************************************)
Touched(c) ==
  pc[c] \in Applying /\ (work[c].written # {} \/ DOMAIN work[c].backup # {})

Exit(c) ==
  /\ pc[c] \notin {"idle", "ask"}
  /\ Faulty(Touched(c))
  /\ Leave(c)
  /\ UNCHANGED <<tree, endorse, before, commits>>

Next ==
  \E c \in Client :
    \/ PlanInstall(c) \/ PlanUpdate(c) \/ Approve(c) \/ Refuse(c)
    \/ AlreadyInstalled(c) \/ Stage(c) \/ Preflight(c) \/ BuildCommit(c)
    \/ PlanUninstall(c) \/ CheckUninstall(c)
    \/ Verify(c) \/ SwapOut(c) \/ SwapIn(c) \/ Finish(c)
    \/ FailApply(c) \/ Unlink(c) \/ Restore(c) \/ RolledBack(c) \/ Exit(c)

Spec == Init /\ [][Next]_vars

-----------------------------------------------------------------------------
(***************************************************************************)
(* Whatever overlaps, is undone out of turn, fails or is left half way,    *)
(* the lock pins only packages that a user approved and that went through  *)
(* a preflight, at every moment of every apply.                            *)
(***************************************************************************)
PinnedIsApprovedAndVerified ==
  \A k \in DOMAIN Pinned(tree) : LET entry == Pinned(tree)[k] IN
    entry.preflight /\ <<k, entry.version>> \in approved \cap verified

(***************************************************************************)
(* Between applies, an artifact is in the tree if and only if its          *)
(* transaction is, the one that says how to take it out again, whatever    *)
(* overlaps, even after an apply that was rolled back; but not when an     *)
(* apply was left half way, by a kill or a failing rollback, or when       *)
(* another command read or wrote the project in the middle of one: nothing *)
(* in the code keeps a copy of half an apply from being committed.         *)
(*                                                                         *)
(* As long as no two commands overlapped and installs and updates were     *)
(* undone last first, the lock also pins exactly what is installed, at its *)
(* version.  (Out of turn, an uninstall puts back a lock that knows        *)
(* nothing of what was installed or updated later, and that may pin what   *)
(* is gone or an older version.)                                           *)
(***************************************************************************)
PinsWhatIsThere(t) ==
  \A k \in Cap :
    /\ Artifact(k) \in DOMAIN t <=> k \in DOMAIN Pinned(t)
    /\ Artifact(k) \in DOMAIN t => t[Artifact(k)] = Pinned(t)[k].version

InstalledIsRecorded ==
  (\A c \in Client : pc[c] \notin Applying) =>
    /\ ~torn => \A k \in Cap : Artifact(k) \in DOMAIN tree <=> Transaction(k) \in DOMAIN tree
    /\ orderly => PinsWhatIsThere(tree)

(***************************************************************************)
(* An uninstall in turn leaves the tree that its install found: the round  *)
(* trip of tests/commands/test_uninstall.py, at any depth of nesting, and  *)
(* with any number of failed and rolled back applies in between.           *)
(***************************************************************************)
RoundTrip ==
  [][\A c \in Client :
       before' # before /\ orderly' /\ pc[c] = "out" /\ command[c].kind = "uninstall" =>
         tree' = Last(before).tree]_vars
=============================================================================
