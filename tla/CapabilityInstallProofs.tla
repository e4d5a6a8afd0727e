---------------------- MODULE CapabilityInstallProofs ----------------------
(***************************************************************************)
(* Proofs about CapabilityInstall, for any clients, capabilities, versions *)
(* and bounds on the applies and their faults.                             *)
(*                                                                         *)
(* The argument has three parts.                                           *)
(*                                                                         *)
(* What is safe whatever overlaps or tears is said of every tree that may  *)
(* yet come back: the project, the copies commands work on, the backups of *)
(* their applies, and all transactions, however deep they nest.  A commit, *)
(* an undo and each call of an apply mix two such trees path by path,      *)
(* which keeps every part of the claim.                                    *)
(*                                                                         *)
(* While nothing is torn, one apply is under way at a time, and the        *)
(* project is "whole" but for what that apply has moved away and put in    *)
(* place: all its files are in place, and the project is what the changes  *)
(* make of it (Onward), or those are gone and the backup is back, and it   *)
(* is "whole" again (Midway).                                              *)
(*                                                                         *)
(* What holds only in turn is said of the stack of trees that the installs *)
(* and updates in effect began with: each transaction undoes just the step *)
(* to the next of them.                                                    *)
(***************************************************************************)
EXTENDS CapabilityInstall, SequenceTheorems, TLAPS
-----------------------------------------------------------------------------
IsMap(t) == t = [p \in DOMAIN t |-> t[p]]

(***************************************************************************)
(* The lock of t pins only what is in A, approved and verified, but for    *)
(* what it says of the capabilities in K.                                  *)
(***************************************************************************)
SoundBut(t, K, A) ==
  \A j \in DOMAIN Pinned(t) \ K :
    Pinned(t)[j].preflight /\ <<j, Pinned(t)[j].version>> \in A

(***************************************************************************)
(* The transactions of t are among those in T.                             *)
(***************************************************************************)
Records(t, T) ==
  \A k \in Cap : Transaction(k) \in DOMAIN t =>
    t[Transaction(k)] \in T /\ t[Transaction(k)].paths = Owned(k)

(***************************************************************************)
(* T is a set of transactions that would bring back only safe trees, and   *)
(* that holds every transaction within them.  (There is no other way to    *)
(* speak of what nests without an induction.)                              *)
(***************************************************************************)
Undoes(r, k, T, A) ==
  /\ IsChange(r, Owned(k))
  /\ IsTree(r.files) /\ Records(r.files, T) /\ SoundBut(r.files, {}, A)

Closed(T, A) == \A r \in T : \E k \in Cap : Undoes(r, k, T, A)

Safe(t, T, K, A) == IsMap(t) /\ IsTree(t) /\ Records(t, T) /\ SoundBut(t, K, A)

(***************************************************************************)
(* What no tree of half an apply has: artifact and transaction together.   *)
(***************************************************************************)
Paired(t, k) == Artifact(k) \in DOMAIN t <=> Transaction(k) \in DOMAIN t

Whole(t) == \A k \in Cap : Paired(t, k)

Mends(T) == \A r \in T, k \in Cap : r.paths = Owned(k) => Paired(r.files, k)

(***************************************************************************)
(* Where a command is, and what it holds there.                            *)
(***************************************************************************)
Endorsed == approved \cap verified

IsInstall(c) == command[c].kind # "uninstall" /\ command[c].version \in Version

IsPlan(change, k, T, A) ==
  /\ change.paths = Owned(k) /\ DOMAIN change.files = Owned(k)
  /\ IsTree(change.files) /\ Records(change.files, T) /\ SoundBut(change.files, {k}, A)

Planned(c, T) == IsInstall(c) /\ IsPlan(changes[c], command[c].cap, T, Endorsed)

IsStaged(c, T, K) ==
  IsInstall(c) /\ Safe(staged[c], T, K, Endorsed) /\ (~torn => Whole(staged[c]))

IsApproved(c) == <<command[c].cap, command[c].version>> \in approved

Undoing(c, T) ==
  /\ command[c].kind = "uninstall"
  /\ Undoes(changes[c], command[c].cap, T, Endorsed)
  /\ ~torn => Paired(changes[c].files, command[c].cap)

Committing(c, T) ==
  /\ IsStaged(c, T, {})
  /\ ~torn => Whole(base[c])
  /\ \E S \in SUBSET Path :
       /\ changes[c] = Excerpt(staged[c], S)
       /\ \A p \in Path \ S : Same(base[c], staged[c], p)

(***************************************************************************)
(* In the middle of an apply, no file of it is lost: each is as in the     *)
(* project without the apply, or in the backup, or of the successors.      *)
(***************************************************************************)
Partial(m, T) == IsTree(m) /\ Records(m, T) /\ SoundBut(m, {}, Endorsed)

Midway(c) ==
  LET w == work[c]  out == DOMAIN w.backup IN
  /\ \A p \in out : p \in DOMAIN whole /\ w.backup[p] = whole[p]
  /\ \A p \in Path \ (out \cup w.written) : Same(tree, whole, p)
  /\ \A p \in w.written \ out : p \notin DOMAIN whole
  /\ \A p \in out \ w.written : p \notin DOMAIN tree

Onward(c) ==
  LET w == work[c]  files == changes[c].files  out == DOMAIN w.backup IN
  /\ w.rest \cup w.written \cup out \subseteq changes[c].paths
  /\ w.rest \cap (w.written \cup out) = {}
  /\ \A p \in changes[c].paths \ w.rest : Same(tree, files, p) \/ (pc[c] = "in" /\ p = w.at)
  /\ pc[c] = "in" => w.at \notin w.rest \cup w.written \cup DOMAIN tree

Swapping(c, T) ==
  /\ IsWork(work[c]) /\ Partial(work[c].backup, T)
  /\ changes[c].paths \subseteq Path /\ DOMAIN changes[c].files \subseteq changes[c].paths
  /\ Partial(changes[c].files, T)
  /\ pc[c] = "in" => work[c].at \in DOMAIN changes[c].files
  /\ ~torn => Midway(c)
  /\ ~torn /\ pc[c] # "rollback" =>
       /\ Onward(c)
       /\ Safe(Overlay(whole, changes[c]), T, {}, Endorsed)
       /\ Whole(Overlay(whole, changes[c]))

Holds(c, T) ==
  /\ pc[c] # "idle" => command[c] \in Command
  /\ pc[c] \in {"ask", "stage"} => Planned(c, T)
  /\ pc[c] = "preflight" => IsStaged(c, T, {command[c].cap})
  /\ pc[c] = "build" => IsStaged(c, T, {})
  /\ pc[c] \in {"stage", "preflight"} => IsApproved(c)
  /\ pc[c] = "check" => Undoing(c, T)
  /\ pc[c] = "apply" => Undoing(c, T) \/ Committing(c, T)
  /\ pc[c] \in Applying => Swapping(c, T)

Traced(T) ==
  /\ Closed(T, Endorsed) /\ (~torn => Mends(T))
  /\ Safe(tree, T, {}, Endorsed)
  /\ Safe(whole, T, {}, Endorsed) /\ Whole(whole)
  /\ \A c \in Client : Holds(c, T)

(***************************************************************************)
(* Unless torn, one apply is under way at a time, and between applies the  *)
(* project is whole.                                                       *)
(***************************************************************************)
Calm == ~torn /\ \A c \in Client : pc[c] \notin Applying

OneAtATime ==
  /\ torn => whole = <<>>
  /\ ~torn => \A c, d \in Client : pc[c] \in Applying /\ pc[d] \in Applying => c = d
  /\ Calm => tree = whole

(***************************************************************************)
(* In turn: t is s with one more step of k, which its transaction undoes.  *)
(***************************************************************************)
Follows(t, s, k) ==
  /\ Transaction(k) \in DOMAIN t /\ t[Transaction(k)] = RenderTransaction(s, k)
  /\ \A p \in Path \ Owned(k) : Same(s, t, p)

After(i) == IF i < Len(before) THEN before[i + 1].tree ELSE whole

Stacked ==
  \A i \in 1..Len(before) :
    LET s == before[i].tree IN
    /\ before[i].cap \in Cap
    /\ IsMap(s) /\ IsTree(s) /\ PinsWhatIsThere(s)
    /\ Follows(After(i), s, before[i].cap)

(***************************************************************************)
(* In turn, the project is as a command that is under way has seen it.     *)
(***************************************************************************)
Fresh(c) ==
  LET k == command[c].cap  v == command[c].version  u == Overlay(whole, changes[c]) IN
  /\ pc[c] \in {"ask", "stage"} => changes[c] = InstallChanges(whole, k, v)
  /\ pc[c] \in {"preflight", "build"} \/ (pc[c] = "apply" /\ IsInstall(c)) =>
       /\ Follows(staged[c], whole, k) /\ PinsWhatIsThere(staged[c])
       /\ Artifact(k) \in DOMAIN staged[c] /\ staged[c][Artifact(k)] = v
  /\ pc[c] \in {"check", "apply", "out", "in"} /\ command[c].kind = "uninstall" =>
       Transaction(k) \in DOMAIN whole /\ changes[c] = whole[Transaction(k)]
  /\ pc[c] \in {"check", "apply"} => base[c] = whole
  /\ pc[c] \in {"out", "in"} /\ command[c].kind # "uninstall" =>
       Follows(u, whole, k) /\ PinsWhatIsThere(u)

InTurnSoFar ==
  orderly => ~torn /\ PinsWhatIsThere(whole) /\ Stacked /\ \A c \in Client : Fresh(c)

InvFor(T) ==
  /\ TypeOK
  /\ before \in Seq(Range(before))
  /\ Traced(T)
  /\ OneAtATime
  /\ InTurnSoFar

IInv == \E T : InvFor(T)
-----------------------------------------------------------------------------
(***************************************************************************)
(* The paths differ, and so nothing need be known of what they are.        *)
(***************************************************************************)
LEMMA PathsDiffer ==
  /\ \A j, k \in Cap : Artifact(j) = Artifact(k) => j = k
  /\ \A j, k \in Cap : Transaction(j) = Transaction(k) => j = k
  /\ \A j, k \in Cap : Artifact(j) # Transaction(k)
  /\ \A k \in Cap : /\ Artifact(k) # Lock /\ Artifact(k) # Audit
                    /\ Transaction(k) # Lock /\ Transaction(k) # Audit
  /\ Lock # Audit
BY DEF Artifact, Transaction, Lock, Audit

\* Each capability owns its own artifact and transaction, and shares the rest.
LEMMA OwnedIs ==
  ASSUME NEW k \in Cap
  PROVE  /\ Owned(k) \subseteq Path
         /\ {Lock, Audit, Artifact(k), Transaction(k)} = Owned(k)
         /\ {Lock, Audit} \subseteq Path
         /\ \A j \in Cap \ {k} : Artifact(j) \notin Owned(k) /\ Transaction(j) \notin Owned(k)
         /\ \A j \in Cap : Artifact(j) \in Path /\ Transaction(j) \in Path
BY PathsDiffer DEF Owned, Path

\* What each path may contain.
LEMMA ContentIs ==
  ASSUME NEW x, NEW k \in Cap
  PROVE  /\ IsContent(Lock, x) <=> DOMAIN x \subseteq Cap /\ x \in [DOMAIN x -> Entry]
         /\ IsContent(Audit, x) <=> x \in Seq(Cap \X Version \X {"planned", "installed"})
         /\ IsContent(Artifact(k), x) <=> x \in Version
         /\ IsContent(Transaction(k), x) <=> IsChange(x, Owned(k))
BY PathsDiffer DEF IsContent

\* A lock, of a tree that has one or not, pins entries of capabilities.
LEMMA PinnedIs ==
  ASSUME NEW t, IsTree(t), NEW k \in Cap
  PROVE  /\ DOMAIN Pinned(t) \subseteq Cap
         /\ \A j \in DOMAIN Pinned(t) : Pinned(t)[j] \in Entry
<1>1. CASE Lock \in DOMAIN t
  <2>1. Pinned(t) = t[Lock]
    BY <1>1 DEF Pinned
  <2>2. DOMAIN t[Lock] \subseteq Cap /\ t[Lock] \in [DOMAIN t[Lock] -> Entry]
    BY <1>1, ContentIs DEF IsTree
  <2> QED BY <2>1, <2>2
<1>2. CASE Lock \notin DOMAIN t
  BY <1>2 DEF Pinned
<1> QED BY <1>1, <1>2

\* Two trees that agree on the lock pin the same.
LEMMA SamePinned ==
  ASSUME NEW s, NEW t, Same(s, t, Lock)
  PROVE  Pinned(s) = Pinned(t)
BY DEF Same, Pinned

(***************************************************************************)
(* _render_lock: the lock pins v of k, and else what it pinned in t.       *)
(***************************************************************************)
Renders(lock, t, k, v) ==
  /\ DOMAIN lock = DOMAIN Pinned(t) \cup {k} /\ lock[k].version = v
  /\ \A j \in DOMAIN Pinned(t) \ {k} : lock[j] = Pinned(t)[j]
  /\ IsContent(Lock, lock)

LEMMA RenderLockIs ==
  ASSUME NEW t, IsTree(t), NEW k \in Cap, NEW v \in Version, NEW b \in BOOLEAN
  PROVE  Renders(RenderLock(t, k, v, b), t, k, v) /\ (b => RenderLock(t, k, v, b)[k].preflight)
<1> DEFINE lock == RenderLock(t, k, v, b)
<1>1. /\ DOMAIN lock = DOMAIN Pinned(t) \cup {k}
      /\ lock = [j \in DOMAIN lock |-> lock[j]]
      /\ lock[k] = [version |-> v, preflight |-> b]
      /\ \A j \in DOMAIN Pinned(t) \ {k} : lock[j] = Pinned(t)[j]
  BY Zenon DEF RenderLock
<1> HIDE DEF lock
<1>2. lock[k] \in Entry /\ lock[k].version = v /\ (b => lock[k].preflight)
  BY <1>1 DEF Entry
<1>3. \A j \in DOMAIN lock : lock[j] \in Entry
  BY <1>1, <1>2, PinnedIs
<1>4. DOMAIN lock \subseteq Cap
  BY <1>1, PinnedIs
<1>5. lock \in [DOMAIN lock -> Entry]
  BY <1>1, <1>3
<1>6. IsContent(Lock, lock)
  BY <1>4, <1>5, ContentIs
<1> QED BY <1>1, <1>2, <1>6 DEF Renders, lock

\* _append_audit.
LEMMA AppendAuditIs ==
  ASSUME NEW t, IsTree(t), NEW k \in Cap, NEW v \in Version,
         NEW status \in {"planned", "installed"}
  PROVE  IsContent(Audit, AppendAudit(t, k, v, status))
<1> DEFINE log == IF Audit \in DOMAIN t THEN t[Audit] ELSE <<>>
           Event == Cap \X Version \X {"planned", "installed"}
<1>1. log \in Seq(Event)
  <2>1. CASE Audit \in DOMAIN t
    BY <2>1, ContentIs DEF IsTree
  <2>2. CASE Audit \notin DOMAIN t
    BY <2>2, EmptySeq
  <2> QED BY <2>1, <2>2
<1>2. <<k, v, status>> \in Event
  OBVIOUS
<1>3. AppendAudit(t, k, v, status) = Append(log, <<k, v, status>>)
  BY DEF AppendAudit
<1> HIDE DEF log
<1>4. AppendAudit(t, k, v, status) \in Seq(Event)
  BY <1>1, <1>2, <1>3, AppendProperties
<1> QED BY <1>4, ContentIs

-----------------------------------------------------------------------------
\* What a change leaves: its own files on its paths, the others as they were.
LEMMA OverlayIs ==
  ASSUME NEW t, DOMAIN t \subseteq Path, NEW change,
         change.paths \subseteq Path, DOMAIN change.files \subseteq change.paths
  PROVE  LET u == Overlay(t, change) IN
         /\ IsMap(u) /\ DOMAIN u \subseteq Path
         /\ \A p \in change.paths : Same(u, change.files, p)
         /\ \A p \in Path \ change.paths : Same(u, t, p)
<1> DEFINE u == Overlay(t, change)
<1>1. /\ DOMAIN u = (DOMAIN t \ change.paths) \cup DOMAIN change.files
      /\ u = [p \in DOMAIN u |-> u[p]]
      /\ \A p \in DOMAIN u :
           u[p] = IF p \in DOMAIN change.files THEN change.files[p] ELSE t[p]
  BY Zenon DEF Overlay
<1> HIDE DEF u
<1> QED BY <1>1 DEF u, IsMap, Same

\* The part of t on some paths.
LEMMA ExcerptIs ==
  ASSUME NEW t, NEW S
  PROVE  LET x == Excerpt(t, S) IN
         /\ x.paths = S /\ DOMAIN x.files = DOMAIN t \cap S
         /\ \A p \in S : Same(x.files, t, p)
BY DEF Excerpt, Restrict, Same

\* A tree that agrees with another on its paths is the other.
LEMMA SameTree ==
  ASSUME NEW s, NEW t, IsMap(s), IsMap(t), DOMAIN s \subseteq Path, DOMAIN t \subseteq Path,
         \A p \in Path : Same(s, t, p)
  PROVE  s = t
<1>1. DOMAIN s = DOMAIN t
  BY DEF Same
<1>2. \A p \in DOMAIN s : s[p] = t[p]
  BY DEF Same
<1> QED BY <1>1, <1>2 DEF IsMap

(***************************************************************************)
(* A tree that is one of two others on each path has the claims of both.   *)
(***************************************************************************)
LEMMA Blend ==
  ASSUME NEW u, NEW t, NEW a, NEW S,
         DOMAIN u \subseteq Path, IsTree(t), IsTree(a),
         \A p \in S : Same(u, a, p), \A p \in Path \ S : Same(u, t, p), Lock \in Path
  PROVE  /\ IsTree(u)
         /\ \A T : Records(t, T) /\ Records(a, T) => Records(u, T)
         /\ \A K, A : SoundBut(t, K, A) /\ SoundBut(a, K, A) => SoundBut(u, K, A)
<1>1. \A p \in Path : Same(u, a, p) \/ Same(u, t, p)
  OBVIOUS
<1>2. IsTree(u)
  BY <1>1 DEF IsTree, Same
<1>3. ASSUME NEW T, Records(t, T), Records(a, T)
      PROVE  Records(u, T)
  <2> SUFFICES ASSUME NEW k \in Cap, Transaction(k) \in DOMAIN u
               PROVE  u[Transaction(k)] \in T /\ u[Transaction(k)].paths = Owned(k)
    BY DEF Records
  <2>1. CASE Same(u, a, Transaction(k))
    BY <1>3, <2>1 DEF Records, Same
  <2>2. CASE Same(u, t, Transaction(k))
    BY <1>3, <2>2 DEF Records, Same
  <2> QED BY <1>1, <2>1, <2>2
<1>4. ASSUME NEW K, NEW A, SoundBut(t, K, A), SoundBut(a, K, A)
      PROVE  SoundBut(u, K, A)
  <2>1. Pinned(u) = Pinned(a) \/ Pinned(u) = Pinned(t)
    BY <1>1, SamePinned
  <2> QED BY <1>4, <2>1 DEF SoundBut
<1> QED BY <1>2, <1>3, <1>4

\* More records and more approvals only help.
LEMMA Monotone ==
  ASSUME NEW T, NEW U, T \subseteq U, NEW A, NEW B, A \subseteq B
  PROVE  /\ \A t : Records(t, T) => Records(t, U)
         /\ \A t, K : SoundBut(t, K, A) => SoundBut(t, K, B)
         /\ \A r, k : Undoes(r, k, T, A) => Undoes(r, k, U, B)
         /\ \A t, K : Safe(t, T, K, A) => Safe(t, U, K, B)
<1>1. \A t : Records(t, T) => Records(t, U)
  BY DEF Records
<1>2. \A t, K : SoundBut(t, K, A) => SoundBut(t, K, B)
  BY DEF SoundBut
<1>3. \A r, k : Undoes(r, k, T, A) => Undoes(r, k, U, B)
  BY <1>1, <1>2 DEF Undoes
<1>4. \A t, K : Safe(t, T, K, A) => Safe(t, U, K, B)
  BY <1>1, <1>2 DEF Safe
<1> QED BY <1>1, <1>2, <1>3, <1>4

(***************************************************************************)
(* _render_transaction, of a safe tree: undoing brings back what was safe. *)
(***************************************************************************)
LEMMA TransactionUndoes ==
  ASSUME NEW t, NEW T, NEW A, Safe(t, T, {}, A), NEW k \in Cap
  PROVE  /\ Undoes(RenderTransaction(t, k), k, T, A)
         /\ Whole(t) => Paired(RenderTransaction(t, k).files, k)
<1> DEFINE r == RenderTransaction(t, k)
<1>1. /\ r.paths = Owned(k) /\ DOMAIN r.files = DOMAIN t \cap Owned(k)
      /\ \A p \in Owned(k) : Same(r.files, t, p)
  BY ExcerptIs DEF RenderTransaction
<1> HIDE DEF r
<1>2. /\ IsTree(t) /\ Records(t, T) /\ SoundBut(t, {}, A)
      /\ DOMAIN t \subseteq Path
  BY DEF Safe, IsTree
<1>3. IsChange(r, Owned(k))
  BY <1>1 DEF IsChange
<1>4. IsTree(r.files)
  BY <1>1, <1>2 DEF IsTree, Same
<1>5. Records(r.files, T)
  BY <1>1, <1>2 DEF Records, Same
<1>6. SoundBut(r.files, {}, A)
  <2>1. Same(r.files, t, Lock)
    BY <1>1, OwnedIs
  <2> QED BY <1>2, <2>1, SamePinned DEF SoundBut
<1>7. Whole(t) => Paired(r.files, k)
  BY <1>1, <1>2, OwnedIs DEF Whole, Paired, Same
<1> QED BY <1>3, <1>4, <1>5, <1>6, <1>7 DEF Undoes, r

\* A transaction in the tree is a record of the capability it is named after.
LEMMA RecordUndoes ==
  ASSUME NEW T, NEW A, Closed(T, A), NEW t, Records(t, T), NEW k \in Cap,
         Transaction(k) \in DOMAIN t
  PROVE  /\ Undoes(t[Transaction(k)], k, T, A)
         /\ Mends(T) => Paired(t[Transaction(k)].files, k)
<1>1. PICK j \in Cap : Undoes(t[Transaction(k)], j, T, A)
  BY DEF Closed, Records
<1>2. Owned(j) = Owned(k)
  BY <1>1 DEF Records, Undoes, IsChange
<1>3. j = k
  BY <1>2, OwnedIs
<1>4. Mends(T) => Paired(t[Transaction(k)].files, k)
  BY DEF Mends, Records
<1> QED BY <1>1, <1>3, <1>4

(***************************************************************************)
(* build_install_plan, on a safe tree.                                     *)
(***************************************************************************)
Carries(files, t, k, v) ==
  /\ files[Artifact(k)] = v /\ Renders(files[Lock], t, k, v)
  /\ files[Transaction(k)] = RenderTransaction(t, k)

LEMMA InstallChangesAre ==
  ASSUME NEW t, NEW T, NEW A, Safe(t, T, {}, A), NEW k \in Cap, NEW v \in Version,
         NEW change, change = InstallChanges(t, k, v)
  PROVE  /\ Carries(change.files, t, k, v)
         /\ IsPlan(change, k, T \cup {RenderTransaction(t, k)}, A)
<1> DEFINE files == change.files
           r == RenderTransaction(t, k)
           lock == RenderLock(t, k, v, FALSE)
           log == AppendAudit(t, k, v, "planned")
<1>1. /\ change.paths = Owned(k) /\ DOMAIN files = Owned(k)
      /\ files[Artifact(k)] = v /\ files[Lock] = lock
      /\ files[Audit] = log /\ files[Transaction(k)] = r
  BY OwnedIs, PathsDiffer DEF InstallChanges
<1>2. IsTree(t) /\ SoundBut(t, {}, A)
  BY DEF Safe
<1>3. Undoes(r, k, T, A)
  BY TransactionUndoes
<1>4. IsContent(Transaction(k), r)
  BY <1>3, ContentIs DEF Undoes
<1>5. Renders(lock, t, k, v)
  BY <1>2, RenderLockIs
<1>6. IsContent(Audit, log)
  BY <1>2, AppendAuditIs
<1> HIDE DEF files, lock, log
<1>7. IsContent(Artifact(k), v)
  BY ContentIs
<1>8. IsTree(files)
  <2>1. DOMAIN files \subseteq Path
    BY <1>1, OwnedIs
  <2>2. \A p \in {Lock, Audit, Artifact(k), Transaction(k)} : IsContent(p, files[p])
    BY <1>1, <1>4, <1>5, <1>6, <1>7 DEF Renders
  <2> QED BY <1>1, <2>1, <2>2, OwnedIs DEF IsTree
<1>9. Records(files, T \cup {r})
  BY <1>1, <1>3, OwnedIs DEF Records, Undoes, IsChange
<1>10. SoundBut(files, {k}, A)
  <2>1. Pinned(files) = lock
    BY <1>1, OwnedIs DEF Pinned
  <2> QED BY <1>2, <1>5, <2>1 DEF SoundBut, Renders
<1> QED BY <1>1, <1>5, <1>8, <1>9, <1>10 DEF Carries, IsPlan, files
-----------------------------------------------------------------------------
(***************************************************************************)
(* Steps of one command that leave the project alone.                      *)
(***************************************************************************)
LocalOK(c) ==
  /\ work[c] # None => IsWork(work[c])
  /\ staged[c] # None => IsTree(staged[c])
  /\ base[c] # None => IsTree(base[c])
  /\ changes[c] # None => changes[c].paths \subseteq Path /\ IsTree(changes[c].files)

OnlyMoves(c) ==
  /\ pc' \in [Client -> PC] /\ command' \in [Client -> Command \cup {None}]
  /\ DOMAIN changes' = Client /\ DOMAIN staged' = Client /\ DOMAIN base' = Client
  /\ DOMAIN work' = Client
  /\ \A d \in Client \ {c} :
       /\ pc'[d] = pc[d] /\ command'[d] = command[d] /\ changes'[d] = changes[d]
       /\ staged'[d] = staged[d] /\ base'[d] = base[d] /\ work'[d] = work[d]

Learns ==
  /\ approved \subseteq approved' /\ approved' \subseteq Cap \X Version
  /\ verified \subseteq verified' /\ verified' \subseteq Cap \X Version

\* What was torn stays torn, and the bounds are kept.
Wears ==
  /\ torn' \in BOOLEAN /\ orderly' \in BOOLEAN
  /\ commits' \in 0..MaxCommits /\ faults' \in 0..MaxFaults
  /\ torn => torn'
  /\ orderly' => orderly /\ ~torn'

\* "whole" is given up when something is torn, and else stays.
Keeps ==
  /\ Wears /\ before' = before
  /\ whole' = IF torn' THEN <<>> ELSE whole

LEMMA EmptyIsSafe ==
  ASSUME NEW T, NEW A
  PROVE  Safe(<<>>, T, {}, A) /\ Whole(<<>>) /\ PinsWhatIsThere(<<>>)
<1> DEFINE t == <<>>
<1>1. DOMAIN t = {}
  OBVIOUS
<1>2. Lock \notin DOMAIN t /\ Pinned(t) = <<>> /\ DOMAIN Pinned(t) = {}
  BY <1>1 DEF Pinned
<1>3. IsTree(t) /\ IsMap(t)
  BY <1>1 DEF IsTree, IsMap
<1> HIDE DEF t
<1>4. PinsWhatIsThere(t)
  BY <1>1, <1>2 DEF PinsWhatIsThere
<1>5. Safe(t, T, {}, A) /\ Whole(t)
  BY <1>1, <1>2, <1>3 DEF Safe, Records, SoundBut, Whole, Paired
<1> QED BY <1>4, <1>5 DEF t

\* What the others hold stays as it is.
LEMMA SwappingStays ==
  ASSUME NEW T, NEW U, T \subseteq U, NEW d \in Client,
         pc'[d] = pc[d], changes'[d] = changes[d], work'[d] = work[d],
         Endorsed \subseteq Endorsed', torn => torn',
         ~torn' => tree' = tree /\ whole' = whole,
         Swapping(d, T)
  PROVE  Swapping(d, U)'
<1>1. \A m : Partial(m, T) => IsTree(m) /\ Records(m, U) /\ SoundBut(m, {}, Endorsed')
  BY Monotone DEF Partial
<1>2. Partial(work[d].backup, U)' /\ Partial(changes[d].files, U)'
  BY <1>1 DEF Swapping, Partial
<1>3. ASSUME ~torn' PROVE Midway(d)'
  <2>1. Midway(d) /\ tree' = tree /\ whole' = whole
    BY <1>3 DEF Swapping
  <2> QED BY <2>1 DEF Midway
<1>4. ASSUME ~torn', pc'[d] # "rollback"
      PROVE  /\ Onward(d)' /\ Safe(Overlay(whole, changes[d])', U, {}, Endorsed')
             /\ Whole(Overlay(whole, changes[d])')
  <2>1. /\ Onward(d) /\ Safe(Overlay(whole, changes[d]), T, {}, Endorsed)
        /\ Whole(Overlay(whole, changes[d])) /\ tree' = tree /\ whole' = whole
    BY <1>4 DEF Swapping
  <2>2. Onward(d)'
    BY <2>1 DEF Onward
  <2>3. Overlay(whole, changes[d])' = Overlay(whole, changes[d])
    BY <2>1 DEF Overlay
  <2>4. Safe(Overlay(whole, changes[d]), U, {}, Endorsed')
    BY <2>1, Monotone
  <2> QED BY <2>1, <2>2, <2>3, <2>4
<1> QED BY <1>2, <1>3, <1>4 DEF Swapping

LEMMA OthersHold ==
  ASSUME NEW T, NEW U, T \subseteq U, NEW c \in Client, NEW d \in Client \ {c},
         OnlyMoves(c), Learns, torn => torn', Holds(d, T),
         ~torn' => pc[d] \notin Applying \/ (tree' = tree /\ whole' = whole)
  PROVE  Holds(d, U)'
<1>1. /\ pc'[d] = pc[d] /\ command'[d] = command[d] /\ changes'[d] = changes[d]
      /\ staged'[d] = staged[d] /\ base'[d] = base[d] /\ work'[d] = work[d]
  BY DEF OnlyMoves
<1>2. Endorsed \subseteq Endorsed' /\ approved \subseteq approved'
  BY DEF Learns, Endorsed
<1>3. IsInstall(d) => IsInstall(d)'
  BY <1>1 DEF IsInstall
<1>4. Planned(d, T) => Planned(d, U)'
  <2>1. Records(changes[d].files, T) => Records(changes[d].files, U)
    BY Monotone
  <2>2. SoundBut(changes[d].files, {command[d].cap}, Endorsed)
          => SoundBut(changes[d].files, {command[d].cap}, Endorsed')
    BY <1>2, Monotone
  <2> QED BY <1>1, <1>3, <2>1, <2>2 DEF Planned, IsPlan
<1>5. \A K : IsStaged(d, T, K) => IsStaged(d, U, K)'
  BY <1>1, <1>2, <1>3, Monotone DEF IsStaged
<1>6. Undoing(d, T) => Undoing(d, U)'
  BY <1>1, <1>2, Monotone DEF Undoing
<1>7. Committing(d, T) => Committing(d, U)'
  BY <1>1, <1>5 DEF Committing
<1>8. IsApproved(d) => IsApproved(d)'
  BY <1>1, <1>2 DEF IsApproved
<1>9. pc[d] = "preflight" => IsStaged(d, U, {command[d].cap})'
  <2>1. pc[d] = "preflight" => IsStaged(d, T, {command[d].cap})
    BY DEF Holds
  <2>2. Safe(staged[d], T, {command[d].cap}, Endorsed)
          => Safe(staged[d], U, {command[d].cap}, Endorsed')
    BY <1>2, Monotone
  <2> QED BY <1>1, <1>3, <2>1, <2>2 DEF IsStaged
<1>10. pc[d] = "build" => IsStaged(d, U, {})'
  BY <1>5 DEF Holds
<1>11. pc[d] \in Applying => Swapping(d, U)'
  BY <1>1, <1>2, SwappingStays DEF Holds
<1> QED BY <1>1, <1>4, <1>6, <1>7, <1>8, <1>9, <1>10, <1>11 DEF Holds

LEMMA KeepsTree ==
  ASSUME NEW T, InvFor(T), NEW U, T \subseteq U, NEW c \in Client, OnlyMoves(c), Learns,
         Keeps, tree' = tree,
         pc'[c] \notin Applying, Calm' => tree = whole,
         Closed(U, Endorsed'), ~torn' => Mends(U),
         LocalOK(c)', Holds(c, U)', orderly' => Fresh(c)'
  PROVE  IInv'
<1>1. Endorsed \subseteq Endorsed'
  BY DEF Learns, Endorsed
<1>2. Safe(whole', U, {}, Endorsed') /\ Whole(whole') /\ Safe(tree', U, {}, Endorsed')
  <2>1. Safe(whole, U, {}, Endorsed') /\ Safe(tree, U, {}, Endorsed')
    BY <1>1, Monotone DEF InvFor, Traced
  <2>2. CASE torn'
    BY <2>1, <2>2, EmptyIsSafe DEF Keeps
  <2>3. CASE ~torn'
    BY <2>1, <2>3 DEF Keeps, InvFor, Traced
  <2> QED BY <2>2, <2>3
<1>3. TypeOK'
  <2>1. \A d \in Client : LocalOK(d)'
    BY DEF InvFor, TypeOK, OnlyMoves, LocalOK
  <2>2. IsTree(tree') /\ IsTree(whole')
    BY <1>2 DEF Safe
  <2>3. \A i \in DOMAIN before' : before'[i].cap \in Cap /\ IsTree(before'[i].tree)
    BY DEF InvFor, TypeOK, Keeps
  <2> QED BY <2>1, <2>2, <2>3, Zenon DEF TypeOK, LocalOK, OnlyMoves, Learns, Keeps, Wears
<1>4. (before \in Seq(Range(before)))'
  BY DEF InvFor, Keeps
<1>5. \A d \in Client : Holds(d, U)'
  <2> SUFFICES ASSUME NEW d \in Client \ {c} PROVE Holds(d, U)'
    OBVIOUS
  <2>1. Holds(d, T) /\ (torn => torn') /\ (~torn' => whole' = whole)
    BY DEF InvFor, Traced, Keeps, Wears
  <2> QED BY <2>1, OthersHold
<1>6. Traced(U)'
  BY <1>2, <1>5 DEF Traced
<1>7. OneAtATime'
  <2>1. ASSUME ~torn', NEW d \in Client, NEW e \in Client, pc'[d] \in Applying, pc'[e] \in Applying
        PROVE  d = e
    <3>1. d # c /\ e # c /\ pc[d] \in Applying /\ pc[e] \in Applying /\ ~torn
      BY <2>1 DEF OnlyMoves, Keeps, Wears
    <3> QED BY <3>1 DEF InvFor, OneAtATime
  <2>2. (Calm' => tree' = whole') /\ (torn' => whole' = <<>>)
    BY DEF Calm, Keeps
  <2> QED BY <2>1, <2>2 DEF OneAtATime
<1>8. InTurnSoFar'
  <2> SUFFICES ASSUME orderly'
               PROVE  ~torn' /\ PinsWhatIsThere(whole') /\ Stacked' /\ \A d \in Client : Fresh(d)'
    BY DEF InTurnSoFar
  <2>1. /\ orderly /\ ~torn' /\ whole' = whole /\ before' = before
        /\ PinsWhatIsThere(whole) /\ Stacked /\ \A d \in Client : Fresh(d)
    BY DEF InvFor, InTurnSoFar, Keeps, Wears
  <2>2. Stacked'
    BY <2>1 DEF Stacked, After
  <2>3. ASSUME NEW d \in Client \ {c} PROVE Fresh(d)'
    BY <2>1 DEF Fresh, OnlyMoves, IsInstall
  <2> QED BY <2>1, <2>2, <2>3
<1> QED BY <1>3, <1>4, <1>6, <1>7, <1>8 DEF InvFor, IInv

(***************************************************************************)
(* A command that reads the project reads a whole one, or tears it.        *)
(***************************************************************************)
LEMMA TearsKeeps ==
  ASSUME NEW T, InvFor(T), NEW tears \in BOOLEAN, Tears(tears),
         UNCHANGED <<before, commits>>, faults' \in 0..MaxFaults
  PROVE  Keeps /\ (~torn' => ~tears)
<1>1. torn \in BOOLEAN /\ orderly \in BOOLEAN /\ commits \in 0..MaxCommits
  BY Zenon DEF InvFor, TypeOK
<1>2. torn' \in BOOLEAN /\ orderly' \in BOOLEAN
  BY Zenon DEF Tears
<1>3. orderly => ~torn
  BY DEF InvFor, InTurnSoFar
<1>4. (torn => torn') /\ (orderly' => orderly /\ ~torn') /\ (~torn' => ~tears)
  BY <1>3, Zenon DEF Tears
<1> QED BY <1>1, <1>2, <1>4, Zenon DEF Keeps, Wears, Tears

LEMMA ReadsWhole ==
  ASSUME NEW T, InvFor(T), NEW c \in Client, pc[c] \notin Applying, Tears(Busy(c)),
         UNCHANGED <<before, commits, faults>>
  PROVE  /\ Keeps /\ (~torn' => Calm /\ tree = whole /\ Whole(tree) /\ Mends(T))
         /\ orderly' => tree = whole /\ whole' = whole
<1>1. Busy(c) \in BOOLEAN /\ faults' \in 0..MaxFaults
  BY Zenon DEF Busy, InvFor, TypeOK
<1>2. Keeps /\ (~torn' => ~Busy(c))
  BY <1>1, TearsKeeps
<1>3. ASSUME ~torn' PROVE Calm /\ tree = whole /\ Whole(tree) /\ Mends(T)
  <2>1. ~torn /\ ~Busy(c)
    BY <1>2, <1>3 DEF Keeps, Wears
  <2>2. Calm
    BY <2>1 DEF Calm, Busy
  <2>3. tree = whole
    BY <2>2 DEF InvFor, OneAtATime
  <2> QED BY <2>1, <2>2, <2>3 DEF InvFor, Traced
<1>4. orderly' => tree = whole /\ whole' = whole
  BY <1>2, <1>3 DEF Keeps, Wears
<1> QED BY <1>2, <1>3, <1>4

\* A command that is not applying does not make the project whole.
LEMMA StaysCalm ==
  ASSUME NEW T, InvFor(T), NEW c \in Client, pc[c] \notin Applying, OnlyMoves(c), Keeps
  PROVE  Calm' => tree = whole
<1>1. Calm' => Calm
  BY DEF Calm, OnlyMoves, Keeps, Wears
<1> QED BY <1>1 DEF InvFor, OneAtATime

LEMMA NothingTears ==
  ASSUME NEW T, InvFor(T), UNCHANGED <<applies, before, commits>>
  PROVE  Keeps
<1>1. /\ torn \in BOOLEAN /\ orderly \in BOOLEAN /\ commits \in 0..MaxCommits
      /\ faults \in 0..MaxFaults
  BY Zenon DEF InvFor, TypeOK
<1>2. torn' = torn /\ orderly' = orderly /\ whole' = whole /\ faults' = faults
  BY DEF applies
<1>3. orderly => ~torn
  BY DEF InvFor, InTurnSoFar
<1>4. torn => whole = <<>>
  BY DEF InvFor, OneAtATime
<1> QED BY <1>1, <1>2, <1>3, <1>4, Zenon DEF Keeps, Wears

\* A command that returns, raises or dies.
LEMMA LeavePreserves ==
  ASSUME IInv, NEW c \in Client, Leave(c), UNCHANGED <<tree, endorse>>,
         \A T : InvFor(T) => Keeps /\ (Calm' => tree = whole)
  PROVE  IInv'
<1>1. PICK T : InvFor(T)
  BY DEF IInv
<1>2. /\ pc'[c] = "idle" /\ changes'[c] = None /\ staged'[c] = None /\ base'[c] = None
      /\ work'[c] = None /\ OnlyMoves(c)
  BY <1>1 DEF InvFor, TypeOK, Leave, OnlyMoves, PC
<1>3. Learns /\ Endorsed' = Endorsed
  BY <1>1 DEF endorse, Learns, InvFor, TypeOK, Endorsed
<1>4. Closed(T, Endorsed') /\ (~torn' => Mends(T))
  BY <1>1, <1>3 DEF InvFor, Traced, Keeps, Wears
<1>5. LocalOK(c)'
  BY <1>2 DEF LocalOK
<1>6. Holds(c, T)' /\ Fresh(c)' /\ pc'[c] \notin Applying
  BY <1>2 DEF Holds, Fresh, Applying
<1> QED BY <1>1, <1>2, <1>3, <1>4, <1>5, <1>6, KeepsTree

-----------------------------------------------------------------------------
\* build_install_plan, for an install or an update.
LEMMA PlanPreserves ==
  ASSUME IInv, NEW c \in Client, NEW kind \in {"install", "update"}, NEW k \in Cap,
         NEW v \in Version, Plan(c, kind, k, v)
  PROVE  IInv'
<1>1. PICK T : InvFor(T)
  BY DEF IInv
<1> DEFINE r == RenderTransaction(tree, k)
           U == T \cup {r}
<1>2. Closed(T, Endorsed) /\ Safe(tree, T, {}, Endorsed)
  BY <1>1 DEF InvFor, Traced
<1>3. /\ pc'[c] = "ask" /\ command'[c] = [kind |-> kind, cap |-> k, version |-> v]
      /\ command'[c] \in Command
      /\ changes'[c] = InstallChanges(tree, k, v)
      /\ OnlyMoves(c) /\ staged'[c] = staged[c] /\ base'[c] = base[c] /\ work'[c] = work[c]
  <2>1. [kind |-> kind, cap |-> k, version |-> v] \in Command
    BY DEF Command, Kind
  <2> QED BY <1>1, <2>1 DEF InvFor, TypeOK, Plan, OnlyMoves, PC
<1>4. Learns /\ Endorsed' = Endorsed /\ tree' = tree
  BY <1>1 DEF Plan, endorse, Learns, InvFor, TypeOK, Endorsed
<1>5. /\ Keeps /\ (~torn' => tree = whole /\ Whole(tree) /\ Mends(T))
      /\ (orderly' => tree = whole /\ whole' = whole)
      /\ pc[c] \notin Applying /\ (Calm' => tree = whole)
  <2>1. pc[c] \notin Applying
    BY DEF Plan, Applying
  <2>2. Tears(Busy(c)) /\ UNCHANGED <<before, commits, faults>>
    BY DEF Plan
  <2> QED BY <1>1, <1>3, <2>1, <2>2, ReadsWhole, StaysCalm
<1>6. Undoes(r, k, T, Endorsed) /\ (Whole(tree) => Paired(r.files, k))
  BY <1>2, TransactionUndoes
<1>7. Closed(U, Endorsed)
  <2>1. \A x, j : Undoes(x, j, T, Endorsed) => Undoes(x, j, U, Endorsed)
    BY Monotone
  <2> QED BY <1>2, <1>6, <2>1 DEF Closed
<1>8. ~torn' => Mends(U)
  <2>1. \A j \in Cap : r.paths = Owned(j) => j = k
    BY <1>6, OwnedIs DEF Undoes, IsChange
  <2> QED BY <1>5, <1>6, <2>1 DEF Mends
<1>9. IsPlan(changes'[c], k, U, Endorsed)
  <2>1. Safe(tree, T, {}, Endorsed) /\ changes'[c] = InstallChanges(tree, k, v)
    BY <1>2, <1>3
  <2> QED BY <2>1, InstallChangesAre
<1>10. LocalOK(c)'
  BY <1>1, <1>3, <1>9, OwnedIs DEF LocalOK, InvFor, TypeOK, IsPlan
<1>11. Planned(c, U)'
  BY <1>3, <1>4, <1>9 DEF Planned, IsInstall
<1>12. Holds(c, U)' /\ pc'[c] \notin Applying
  BY <1>3, <1>11 DEF Holds, Applying
<1>13. orderly' => Fresh(c)'
  BY <1>3, <1>5 DEF Fresh
<1> QED BY <1>1, <1>3, <1>4, <1>5, <1>7, <1>8, <1>10, <1>12, <1>13, KeepsTree

\* The user approves what was planned.
LEMMA ApprovePreserves ==
  ASSUME IInv, NEW c \in Client, Approve(c)
  PROVE  IInv'
<1>1. PICK T : InvFor(T)
  BY DEF IInv
<1>2. /\ pc[c] = "ask" /\ pc'[c] = "stage" /\ OnlyMoves(c)
      /\ UNCHANGED <<command, changes, staged, base, work>>
      /\ UNCHANGED <<tree, applies, before, commits>>
  BY <1>1 DEF Approve, InvFor, TypeOK, OnlyMoves, PC, local
<1>3. /\ command[c] \in Command /\ Planned(c, T)
      /\ Closed(T, Endorsed) /\ (~torn => Mends(T))
  BY <1>1, <1>2 DEF InvFor, Traced, Holds
<1>4. Learns
  BY <1>1, <1>3 DEF Approve, Learns, InvFor, TypeOK, Planned, IsInstall, Command
<1>5. Endorsed \subseteq Endorsed'
  BY <1>4 DEF Learns, Endorsed
<1>6. Closed(T, Endorsed')
  <2>1. \A x, j : Undoes(x, j, T, Endorsed) => Undoes(x, j, T, Endorsed')
    BY <1>5, Monotone
  <2> QED BY <1>3, <2>1 DEF Closed
<1>7. LocalOK(c)'
  BY <1>1, <1>2 DEF LocalOK, InvFor, TypeOK
<1>8. Planned(c, T)'
  <2>1. SoundBut(changes[c].files, {command[c].cap}, Endorsed')
    BY <1>3, <1>5, Monotone DEF Planned, IsPlan
  <2> QED BY <1>2, <1>3, <2>1 DEF Planned, IsPlan, IsInstall
<1>9. IsApproved(c)'
  BY <1>2 DEF Approve, IsApproved
<1>10. Holds(c, T)' /\ pc[c] \notin Applying /\ pc'[c] \notin Applying
  BY <1>2, <1>3, <1>8, <1>9 DEF Holds, Applying
<1>11. Keeps /\ (Calm' => tree = whole)
  BY <1>1, <1>2, <1>10, NothingTears, StaysCalm
<1>12. ~torn' => Mends(T)
  BY <1>3, <1>11 DEF Keeps, Wears
<1>13. orderly' => Fresh(c)'
  BY <1>1, <1>2 DEF InvFor, InTurnSoFar, Fresh, applies
<1> QED BY <1>1, <1>2, <1>4, <1>6, <1>7, <1>10, <1>11, <1>12, <1>13, KeepsTree

\* The plan is applied to a copy of the tree.
LEMMA StagePreserves ==
  ASSUME IInv, NEW c \in Client, Stage(c)
  PROVE  IInv'
<1>1. PICK T : InvFor(T)
  BY DEF IInv
<1> DEFINE k == command[c].cap
           v == command[c].version
           files == changes[c].files
           u == Overlay(tree, changes[c])
<1>2. /\ pc[c] = "stage" /\ pc'[c] = "preflight" /\ OnlyMoves(c) /\ staged'[c] = u
      /\ UNCHANGED <<command, changes, base, work, tree, before, commits, faults>>
      /\ UNCHANGED <<approved, verified>> /\ Tears(Busy(c))
  BY <1>1 DEF Stage, InvFor, TypeOK, OnlyMoves, PC, endorse
<1>3. /\ Closed(T, Endorsed) /\ Safe(tree, T, {}, Endorsed)
      /\ command[c] \in Command /\ Planned(c, T) /\ IsApproved(c)
  BY <1>1, <1>2 DEF InvFor, Traced, Holds
<1>4. k \in Cap /\ v \in Version
  BY <1>3 DEF Command, Planned, IsInstall
<1>5. Endorsed' = Endorsed /\ Learns
  BY <1>1, <1>2 DEF Endorsed, Learns, InvFor, TypeOK
<1>6. /\ changes[c].paths = Owned(k) /\ DOMAIN files = Owned(k)
      /\ IsTree(files) /\ Records(files, T) /\ SoundBut(files, {k}, Endorsed)
  BY <1>3 DEF Planned, IsPlan
<1>7. IsTree(tree) /\ Records(tree, T) /\ SoundBut(tree, {k}, Endorsed)
  BY <1>3 DEF Safe, SoundBut
<1>8. /\ IsMap(u) /\ DOMAIN u \subseteq Path
      /\ \A p \in Owned(k) : Same(u, files, p)
      /\ \A p \in Path \ Owned(k) : Same(u, tree, p)
  BY <1>4, <1>6, <1>7, OverlayIs, OwnedIs DEF IsTree
<1> HIDE DEF u, k, v, files
<1>9. IsTree(u) /\ Records(u, T) /\ SoundBut(u, {k}, Endorsed)
  BY <1>4, <1>6, <1>7, <1>8, OwnedIs, Blend
<1>10. /\ Keeps /\ (~torn' => Whole(tree) /\ Mends(T)) /\ (orderly' => tree = whole /\ whole' = whole)
       /\ pc[c] \notin Applying /\ pc'[c] \notin Applying /\ (Calm' => tree = whole)
  <2>1. pc[c] \notin Applying /\ pc'[c] \notin Applying
    BY <1>2 DEF Applying
  <2> QED BY <1>1, <1>2, <2>1, ReadsWhole, StaysCalm
<1>11. /\ Safe(u, T, {k}, Endorsed) /\ (~torn' => Whole(u))
  <2>1. Whole(tree) => Whole(u)
    BY <1>4, <1>6, <1>8, OwnedIs DEF Whole, Paired, Same
  <2> QED BY <1>8, <1>9, <1>10, <2>1 DEF Safe
<1>12. Holds(c, T)'
  BY <1>2, <1>3, <1>5, <1>10, <1>11 DEF Holds, IsStaged, IsApproved, IsInstall, Planned, k
<1>13. LocalOK(c)'
  BY <1>1, <1>2, <1>9 DEF LocalOK, InvFor, TypeOK
<1>14. ASSUME orderly' PROVE Fresh(c)'
  <2>0. orderly /\ tree = whole /\ whole' = whole
    BY <1>10, <1>14 DEF Keeps, Wears
  <2>1. changes[c] = InstallChanges(tree, k, v) /\ PinsWhatIsThere(tree)
    BY <1>1, <1>2, <2>0 DEF InvFor, InTurnSoFar, Fresh, k, v
  <2>2. /\ files[Artifact(k)] = v /\ files[Transaction(k)] = RenderTransaction(tree, k)
        /\ Renders(files[Lock], tree, k, v)
    <3>1. Safe(tree, T, {}, Endorsed)
      BY <1>3
    <3>2. Carries(changes[c].files, tree, k, v)
      BY <1>4, <2>1, <3>1, InstallChangesAre
    <3> QED BY <3>2 DEF Carries, files
  <2>3. /\ Artifact(k) \in DOMAIN u /\ u[Artifact(k)] = v
        /\ Follows(u, tree, k)
        /\ Renders(Pinned(u), tree, k, v)
    BY <1>4, <1>6, <1>8, <2>2, OwnedIs DEF Same, Follows, Pinned
  <2>4. PinsWhatIsThere(u)
    <3>1. \A j \in Cap \ {k} : Same(u, tree, Artifact(j))
      BY <1>4, <1>8, OwnedIs
    <3>2. \A j \in Cap \ {k} : j \in DOMAIN Pinned(u) <=> j \in DOMAIN Pinned(tree)
      BY <2>3 DEF Renders
    <3>3. \A j \in Cap \ {k} : j \in DOMAIN Pinned(u) => Pinned(u)[j] = Pinned(tree)[j]
      BY <2>3 DEF Renders
    <3>4. k \in DOMAIN Pinned(u) /\ Pinned(u)[k].version = v
      BY <2>3 DEF Renders
    <3> QED BY <2>1, <2>3, <3>1, <3>2, <3>3, <3>4 DEF PinsWhatIsThere, Same
  <2> QED BY <1>2, <2>0, <2>3, <2>4 DEF Fresh, k, v
<1> QED BY <1>1, <1>2, <1>3, <1>5, <1>10, <1>12, <1>13, <1>14, KeepsTree

\* The copy says that the capability went through.
LEMMA InstalledIs ==
  ASSUME NEW s, IsTree(s), NEW k \in Cap, NEW v \in Version
  PROVE  LET u == Installed(s, k, v) IN
         /\ IsMap(u) /\ DOMAIN u \subseteq Path
         /\ Lock \in DOMAIN u /\ Renders(u[Lock], s, k, v) /\ u[Lock][k].preflight
         /\ Audit \in DOMAIN u /\ IsContent(Audit, u[Audit])
         /\ \A p \in Path \ {Lock, Audit} : Same(u, s, p)
<1> DEFINE lock == RenderLock(s, k, v, TRUE)
           log == AppendAudit(s, k, v, "installed")
           change == [paths |-> {Lock, Audit},
                      files |-> [p \in {Lock, Audit} |-> IF p = Lock THEN lock ELSE log]]
           u == Installed(s, k, v)
<1>1. Renders(lock, s, k, v) /\ lock[k].preflight
  BY RenderLockIs
<1>2. IsContent(Audit, log)
  BY AppendAuditIs
<1>3. u = Overlay(s, change)
  BY DEF Installed
<1> HIDE DEF lock, log
<1>4. /\ change.paths = {Lock, Audit} /\ DOMAIN change.files = {Lock, Audit}
      /\ change.files[Lock] = lock /\ change.files[Audit] = log
  BY PathsDiffer
<1> HIDE DEF change, u
<1>5. DOMAIN s \subseteq Path /\ {Lock, Audit} \subseteq Path
  BY DEF IsTree, Path
<1>6. /\ IsMap(u) /\ DOMAIN u \subseteq Path
      /\ \A p \in {Lock, Audit} : Same(u, change.files, p)
      /\ \A p \in Path \ {Lock, Audit} : Same(u, s, p)
  BY <1>3, <1>4, <1>5, OverlayIs
<1>7. Lock \in DOMAIN u /\ u[Lock] = lock /\ Audit \in DOMAIN u /\ u[Audit] = log
  BY <1>4, <1>6 DEF Same
<1> QED BY <1>1, <1>2, <1>6, <1>7 DEF u

\* The preflight passes, and the staged capability resolves.
LEMMA PreflightPreserves ==
  ASSUME IInv, NEW c \in Client, Preflight(c)
  PROVE  IInv'
<1>1. PICK T : InvFor(T)
  BY DEF IInv
<1> DEFINE k == command[c].cap
           v == command[c].version
           s == staged[c]
           u == Installed(s, k, v)
<1>2. /\ pc[c] = "preflight" /\ pc'[c] = "build" /\ OnlyMoves(c) /\ staged'[c] = u
      /\ UNCHANGED <<command, changes, base, work, tree, applies, before, commits>>
      /\ approved' = approved
  BY <1>1 DEF Preflight, InvFor, TypeOK, OnlyMoves, PC
<1>3. /\ Closed(T, Endorsed) /\ (~torn => Mends(T)) /\ IsStaged(c, T, {k}) /\ IsApproved(c)
      /\ command[c] \in Command
  BY <1>1, <1>2 DEF InvFor, Traced, Holds
<1>4. /\ k \in Cap /\ v \in Version /\ IsInstall(c)
      /\ Safe(s, T, {k}, Endorsed) /\ (~torn => Whole(s))
  BY <1>3 DEF Command, IsStaged, IsInstall
<1>5. verified' = verified \cup {<<k, v>>}
  BY DEF Preflight, PreflightGate
<1>6. Learns /\ <<k, v>> \in Endorsed' /\ Endorsed \subseteq Endorsed'
  BY <1>1, <1>2, <1>3, <1>4, <1>5 DEF Endorsed, Learns, InvFor, TypeOK, IsApproved
<1> HIDE DEF k, v, s, u
<1>7. /\ IsTree(s) /\ Records(s, T) /\ SoundBut(s, {k}, Endorsed)
  BY <1>4 DEF Safe
<1>8. /\ IsMap(u) /\ DOMAIN u \subseteq Path
      /\ Lock \in DOMAIN u /\ Renders(u[Lock], s, k, v) /\ u[Lock][k].preflight
      /\ Audit \in DOMAIN u /\ IsContent(Audit, u[Audit])
      /\ \A p \in Path \ {Lock, Audit} : Same(u, s, p)
  BY <1>4, <1>7, InstalledIs DEF u
<1>9. IsTree(u)
  BY <1>7, <1>8 DEF IsTree, Same, Renders
<1>10. Records(u, T)
  BY <1>7, <1>8, OwnedIs, PathsDiffer DEF Records, Same
<1>11. Whole(s) => Whole(u)
  BY <1>8, OwnedIs, PathsDiffer DEF Whole, Paired, Same
<1>12. Pinned(u) = u[Lock]
  BY <1>8 DEF Pinned
<1>13. SoundBut(u, {}, Endorsed')
  <2> SUFFICES ASSUME NEW j \in DOMAIN Pinned(u)
               PROVE  Pinned(u)[j].preflight /\ <<j, Pinned(u)[j].version>> \in Endorsed'
    BY DEF SoundBut
  <2>1. CASE j = k
    BY <1>6, <1>8, <1>12, <2>1 DEF Renders
  <2>2. CASE j # k
    <3>1. j \in DOMAIN Pinned(s) \ {k} /\ Pinned(u)[j] = Pinned(s)[j]
      BY <1>8, <1>12, <2>2 DEF Renders
    <3> QED BY <1>6, <1>7, <3>1 DEF SoundBut
  <2> QED BY <2>1, <2>2
<1>14. Safe(u, T, {}, Endorsed') /\ torn' = torn
  BY <1>2, <1>8, <1>9, <1>10, <1>13 DEF Safe, applies
<1>15. Holds(c, T)' /\ pc[c] \notin Applying /\ pc'[c] \notin Applying
  BY <1>2, <1>3, <1>4, <1>11, <1>14 DEF Holds, IsStaged, IsInstall, Applying
<1>16. LocalOK(c)'
  BY <1>1, <1>2, <1>9 DEF LocalOK, InvFor, TypeOK
<1>17. Closed(T, Endorsed')
  <2>1. \A x, j : Undoes(x, j, T, Endorsed) => Undoes(x, j, T, Endorsed')
    BY <1>6, Monotone
  <2> QED BY <1>3, <2>1 DEF Closed
<1>18. ASSUME orderly' PROVE Fresh(c)'
  <2>0. orderly /\ whole' = whole
    BY <1>2, <1>18 DEF applies
  <2>1. /\ Follows(s, whole, k) /\ PinsWhatIsThere(s)
        /\ Artifact(k) \in DOMAIN s /\ s[Artifact(k)] = v
    BY <1>1, <1>2, <2>0 DEF InvFor, InTurnSoFar, Fresh, k, v, s
  <2>2. \A j \in Cap : Same(u, s, Artifact(j)) /\ Same(u, s, Transaction(j))
    BY <1>8, OwnedIs, PathsDiffer
  <2>3. Follows(u, whole, k)
    <3>1. \A p \in Path \ Owned(k) : Same(u, s, p)
      BY <1>4, <1>8, OwnedIs
    <3>2. \A p \in Path \ Owned(k) : Same(whole, u, p)
      BY <2>1, <3>1 DEF Follows, Same
    <3> QED BY <1>4, <2>1, <2>2, <3>2 DEF Follows, Same
  <2>4. PinsWhatIsThere(u)
    <3>1. \A j \in Cap \ {k} : j \in DOMAIN Pinned(u) <=> j \in DOMAIN Pinned(s)
      BY <1>8, <1>12 DEF Renders
    <3>2. \A j \in Cap \ {k} : j \in DOMAIN Pinned(u) => Pinned(u)[j] = Pinned(s)[j]
      BY <1>8, <1>12 DEF Renders
    <3>3. k \in DOMAIN Pinned(u) /\ Pinned(u)[k].version = v
      BY <1>8, <1>12 DEF Renders
    <3> QED BY <2>1, <2>2, <3>1, <3>2, <3>3 DEF PinsWhatIsThere, Same
  <2>5. Artifact(k) \in DOMAIN u /\ u[Artifact(k)] = v
    BY <1>4, <2>1, <2>2 DEF Same
  <2> QED BY <1>2, <2>0, <2>3, <2>4, <2>5 DEF Fresh, k, v
<1>19. Keeps /\ (Calm' => tree = whole)
  BY <1>1, <1>2, <1>15, NothingTears, StaysCalm
<1> QED BY <1>1, <1>2, <1>3, <1>6, <1>14, <1>15, <1>16, <1>17, <1>18, <1>19, KeepsTree

\* _build_tree_commit.
LEMMA BuildCommitPreserves ==
  ASSUME IInv, NEW c \in Client, BuildCommit(c)
  PROVE  IInv'
<1>1. PICK T : InvFor(T)
  BY DEF IInv
<1> DEFINE S == {p \in Path : ~Same(tree, staged[c], p)}
           x == Excerpt(staged[c], S)
<1>2. /\ pc[c] = "build" /\ pc'[c] = "apply" /\ OnlyMoves(c)
      /\ base'[c] = tree /\ changes'[c] = x
      /\ UNCHANGED <<command, staged, work, tree, before, commits, faults>>
      /\ UNCHANGED <<approved, verified>> /\ Tears(Busy(c))
  BY <1>1 DEF BuildCommit, InvFor, TypeOK, OnlyMoves, PC, endorse
<1>3. /\ Closed(T, Endorsed) /\ IsStaged(c, T, {}) /\ command[c] \in Command
      /\ pc[c] \notin Applying /\ pc'[c] \notin Applying
  BY <1>1, <1>2 DEF InvFor, Traced, Holds, Safe, Applying
<1>4. Endorsed' = Endorsed /\ Learns
  BY <1>1, <1>2 DEF Endorsed, Learns, InvFor, TypeOK
<1>5. \A p \in Path \ S : Same(tree, staged[c], p)
  OBVIOUS
<1>6. /\ x.paths = S /\ DOMAIN x.files = DOMAIN staged[c] \cap S
      /\ \A p \in S : Same(x.files, staged[c], p)
  BY ExcerptIs
<1>7. S \in SUBSET Path
  OBVIOUS
<1> HIDE DEF S
<1>8. /\ Keeps /\ (~torn' => Whole(tree) /\ Mends(T)) /\ (orderly' => tree = whole /\ whole' = whole)
       /\ (Calm' => tree = whole)
  BY <1>1, <1>2, <1>3, ReadsWhole, StaysCalm
<1>9. IsStaged(c, T, {})'
  BY <1>2, <1>3, <1>4, <1>8 DEF IsStaged, IsInstall, Keeps, Wears
<1>10. Committing(c, T)'
  BY <1>2, <1>5, <1>7, <1>9, <1>8 DEF Committing
<1> HIDE DEF x
<1>11. LocalOK(c)'
  <2>1. IsTree(staged[c]) /\ IsTree(tree)
    BY <1>1, <1>3 DEF IsStaged, Safe, InvFor, TypeOK
  <2>2. IsTree(x.files)
    BY <1>6, <2>1 DEF IsTree, Same
  <2> QED BY <1>1, <1>2, <1>6, <1>7, <2>1, <2>2 DEF LocalOK, InvFor, TypeOK
<1>12. Holds(c, T)'
  BY <1>2, <1>3, <1>10 DEF Holds, Applying
<1>13. ASSUME orderly' PROVE Fresh(c)'
  <2>1. orderly /\ tree = whole /\ whole' = whole
    BY <1>13, <1>8 DEF Keeps, Wears
  <2> QED BY <1>1, <1>2, <1>3, <2>1 DEF InvFor, InTurnSoFar, Fresh, IsStaged, IsInstall
<1> QED BY <1>1, <1>2, <1>3, <1>4, <1>8, <1>11, <1>12, <1>13, KeepsTree

\* uninstall_command takes the recorded contents.
LEMMA PlanUninstallPreserves ==
  ASSUME IInv, NEW c \in Client, PlanUninstall(c)
  PROVE  IInv'
<1>1. PICK T : InvFor(T)
  BY DEF IInv
<1>2. PICK k \in Cap :
        /\ Transaction(k) \in DOMAIN tree
        /\ command' = [command EXCEPT ![c] = [kind |-> "uninstall", cap |-> k, version |-> None]]
        /\ changes' = [changes EXCEPT ![c] = tree[Transaction(k)]]
  BY DEF PlanUninstall
<1>3. /\ pc'[c] = "check" /\ OnlyMoves(c)
      /\ command'[c] = [kind |-> "uninstall", cap |-> k, version |-> None]
      /\ command'[c] \in Command
      /\ base'[c] = tree /\ changes'[c] = tree[Transaction(k)]
      /\ staged'[c] = staged[c] /\ work'[c] = work[c]
      /\ UNCHANGED <<tree, before, commits, faults>>
      /\ UNCHANGED <<approved, verified>> /\ Tears(Busy(c))
  <2>1. [kind |-> "uninstall", cap |-> k, version |-> None] \in Command
    BY DEF Command, Kind
  <2> QED BY <1>1, <1>2, <2>1 DEF PlanUninstall, InvFor, TypeOK, OnlyMoves, PC, endorse
<1>4. /\ Closed(T, Endorsed) /\ Records(tree, T) /\ IsTree(tree)
  BY <1>1 DEF InvFor, Traced, Safe
<1>5. Endorsed' = Endorsed /\ Learns
  BY <1>1, <1>3 DEF Endorsed, Learns, InvFor, TypeOK
<1>6. /\ Undoes(tree[Transaction(k)], k, T, Endorsed)
      /\ Mends(T) => Paired(tree[Transaction(k)].files, k)
  BY <1>2, <1>4, RecordUndoes
<1>7. pc[c] \notin Applying /\ pc'[c] \notin Applying
  BY <1>3 DEF PlanUninstall, Applying
<1>8. /\ Keeps /\ (~torn' => Mends(T)) /\ (orderly' => tree = whole /\ whole' = whole)
       /\ (Calm' => tree = whole)
  BY <1>1, <1>3, <1>7, ReadsWhole, StaysCalm
<1>9. Holds(c, T)'
  BY <1>3, <1>5, <1>6, <1>8 DEF Holds, Undoing, Applying
<1>10. LocalOK(c)'
  BY <1>1, <1>3, <1>4, <1>6, OwnedIs DEF LocalOK, InvFor, TypeOK, Undoes, IsChange
<1>11. orderly' => Fresh(c)'
  BY <1>2, <1>3, <1>8 DEF Fresh, IsInstall
<1> QED BY <1>1, <1>3, <1>4, <1>5, <1>7, <1>8, <1>9, <1>10, <1>11, KeepsTree

\* They are tried on a copy.
LEMMA CheckUninstallPreserves ==
  ASSUME IInv, NEW c \in Client, CheckUninstall(c)
  PROVE  IInv'
<1>1. PICK T : InvFor(T)
  BY DEF IInv
<1>2. /\ pc[c] = "check" /\ pc'[c] = "apply" /\ OnlyMoves(c)
      /\ UNCHANGED <<command, changes, staged, base, work, tree, applies, before, commits>>
      /\ UNCHANGED <<approved, verified>>
  BY <1>1 DEF CheckUninstall, InvFor, TypeOK, OnlyMoves, PC, endorse, local
<1>3. /\ Closed(T, Endorsed) /\ Undoing(c, T) /\ command[c] \in Command
      /\ ~torn => Mends(T)
  BY <1>1, <1>2 DEF InvFor, Traced, Holds
<1>4. Endorsed' = Endorsed /\ Learns
  BY <1>1, <1>2 DEF Endorsed, Learns, InvFor, TypeOK
<1>5. torn' = torn /\ orderly' = orderly /\ whole' = whole
  BY <1>2 DEF applies
<1>6. Holds(c, T)' /\ pc[c] \notin Applying /\ pc'[c] \notin Applying
  BY <1>2, <1>3, <1>4, <1>5 DEF Holds, Undoing, Applying
<1>7. LocalOK(c)'
  BY <1>1, <1>2 DEF LocalOK, InvFor, TypeOK
<1>8. orderly' => Fresh(c)'
  BY <1>1, <1>2, <1>3, <1>5 DEF InvFor, InTurnSoFar, Fresh, Undoing, IsInstall
<1>9. Keeps /\ (Calm' => tree = whole)
  BY <1>1, <1>2, <1>6, NothingTears, StaysCalm
<1> QED BY <1>1, <1>2, <1>3, <1>4, <1>5, <1>6, <1>7, <1>8, <1>9, KeepsTree

-----------------------------------------------------------------------------
(***************************************************************************)
(* apply_changeset.                                                        *)
(***************************************************************************)
\* A commit brings the copy, on its paths; an undo the recorded contents.
LEMMA CommitIsSafe ==
  ASSUME NEW T, NEW c \in Client, Safe(tree, T, {}, Endorsed), Committing(c, T), Unchanged(c)
  PROVE  /\ Safe(Overlay(tree, changes[c]), T, {}, Endorsed)
         /\ ~torn /\ Whole(tree) => Whole(Overlay(tree, changes[c]))
         /\ base[c] = tree => Overlay(tree, changes[c]) = staged[c]
<1> DEFINE s == staged[c]
           change == changes[c]
           u == Overlay(tree, change)
<1>1. PICK S \in SUBSET Path :
        change = Excerpt(s, S) /\ \A p \in Path \ S : Same(base[c], s, p)
  BY DEF Committing
<1>2. /\ change.paths = S /\ DOMAIN change.files = DOMAIN s \cap S
      /\ \A p \in S : Same(change.files, s, p)
  BY <1>1, ExcerptIs
<1>3. \A p \in S : Same(tree, base[c], p)
  BY <1>2 DEF Unchanged
<1>4. /\ IsMap(s) /\ IsTree(s) /\ Records(s, T) /\ SoundBut(s, {}, Endorsed)
      /\ ~torn => Whole(s) /\ Whole(base[c])
  BY DEF Committing, IsStaged, Safe
<1>5. /\ IsMap(tree) /\ IsTree(tree) /\ Records(tree, T) /\ SoundBut(tree, {}, Endorsed)
  BY DEF Safe
<1>6. DOMAIN tree \subseteq Path /\ DOMAIN s \subseteq Path /\ Lock \in Path
  BY <1>4, <1>5 DEF IsTree, Path
<1> HIDE DEF s, change, u
<1>7. /\ IsMap(u) /\ DOMAIN u \subseteq Path
      /\ \A p \in S : Same(u, change.files, p)
      /\ \A p \in Path \ S : Same(u, tree, p)
  BY <1>2, <1>6, OverlayIs DEF u
<1>8. \A p \in S : Same(u, s, p)
  BY <1>2, <1>7 DEF Same
<1>9. IsTree(u) /\ Records(u, T) /\ SoundBut(u, {}, Endorsed)
  BY <1>4, <1>5, <1>6, <1>7, <1>8, Blend
<1>10. ASSUME ~torn, Whole(tree), NEW k \in Cap PROVE Paired(u, k)
  <2>1. Artifact(k) \in Path /\ Transaction(k) \in Path
    BY OwnedIs
  <2>2. Paired(s, k) /\ Paired(base[c], k) /\ Paired(tree, k)
    BY <1>4, <1>10 DEF Whole
  <2> QED BY <1>1, <1>3, <1>7, <1>8, <2>1, <2>2 DEF Paired, Same
<1>11. Safe(u, T, {}, Endorsed)
  BY <1>7, <1>9 DEF Safe
<1>12. ASSUME base[c] = tree PROVE u = s
  <2>1. \A p \in Path : Same(u, s, p)
    BY <1>1, <1>7, <1>8, <1>12 DEF Same
  <2> QED BY <1>4, <1>6, <1>7, <2>1, SameTree
<1> QED BY <1>10, <1>11, <1>12 DEF Whole, s, change, u

LEMMA UndoIsSafe ==
  ASSUME NEW T, NEW c \in Client, Safe(tree, T, {}, Endorsed), Undoing(c, T),
         command[c].cap \in Cap
  PROVE  /\ Safe(Overlay(tree, changes[c]), T, {}, Endorsed)
         /\ ~torn /\ Whole(tree) => Whole(Overlay(tree, changes[c]))
<1> DEFINE k == command[c].cap
           change == changes[c]
           u == Overlay(tree, change)
<1>1. /\ change.paths = Owned(k) /\ DOMAIN change.files \subseteq Owned(k)
      /\ IsTree(change.files) /\ Records(change.files, T)
      /\ SoundBut(change.files, {}, Endorsed) /\ (~torn => Paired(change.files, k))
  BY DEF Undoing, Undoes, IsChange
<1>2. IsTree(tree) /\ Records(tree, T) /\ SoundBut(tree, {}, Endorsed)
  BY DEF Safe
<1>3. Owned(k) \subseteq Path /\ DOMAIN tree \subseteq Path /\ Lock \in Path
  BY <1>2, OwnedIs DEF IsTree
<1> HIDE DEF k, change, u
<1>4. /\ IsMap(u) /\ DOMAIN u \subseteq Path
      /\ \A p \in Owned(k) : Same(u, change.files, p)
      /\ \A p \in Path \ Owned(k) : Same(u, tree, p)
  BY <1>1, <1>3, OverlayIs DEF u
<1>5. IsTree(u) /\ Records(u, T) /\ SoundBut(u, {}, Endorsed)
  BY <1>1, <1>2, <1>3, <1>4, Blend
<1>6. ASSUME ~torn, Whole(tree), NEW j \in Cap PROVE Paired(u, j)
  <2>1. CASE j = k
    BY <1>1, <1>4, <1>6, <2>1, OwnedIs DEF Paired, Same
  <2>2. CASE j # k
    <3>1. Artifact(j) \in Path \ Owned(k) /\ Transaction(j) \in Path \ Owned(k)
      BY <2>2, OwnedIs DEF k
    <3> QED BY <1>4, <1>6, <3>1 DEF Whole, Paired, Same
  <2> QED BY <2>1, <2>2
<1> QED BY <1>4, <1>5, <1>6 DEF Safe, Whole, k, change, u

(***************************************************************************)
(* The transaction of the last step takes the tree back to before it.      *)
(***************************************************************************)
LEMMA UndoGoesBack ==
  ASSUME NEW t, NEW s, NEW k \in Cap, Follows(t, s, k),
         IsMap(s), DOMAIN s \subseteq Path, DOMAIN t \subseteq Path
  PROVE  Overlay(t, t[Transaction(k)]) = s
<1> DEFINE r == t[Transaction(k)]
           u == Overlay(t, r)
<1>1. /\ r.paths = Owned(k) /\ DOMAIN r.files = DOMAIN s \cap Owned(k)
      /\ \A p \in Owned(k) : Same(r.files, s, p)
  BY ExcerptIs DEF RenderTransaction, Follows
<1>2. Owned(k) \subseteq Path
  BY OwnedIs
<1> HIDE DEF r, u
<1>3. /\ IsMap(u) /\ DOMAIN u \subseteq Path
      /\ \A p \in Owned(k) : Same(u, r.files, p)
      /\ \A p \in Path \ Owned(k) : Same(u, t, p)
  BY <1>1, <1>2, OverlayIs DEF u
<1>4. \A p \in Path : Same(u, s, p)
  BY <1>1, <1>3 DEF Follows, Same
<1>5. u = s
  BY <1>3, <1>4, SameTree
<1> QED BY <1>5 DEF u, r

\* The stack of installs and updates in effect is a sequence with a last element.
LEMMA StackIs ==
  ASSUME NEW T, InvFor(T)
  PROVE  /\ Len(before) \in Nat /\ DOMAIN before = 1..Len(before)
         /\ before # <<>> => Len(before) > 0 /\ Last(before) = before[Len(before)]
BY LenProperties, EmptySeq DEF InvFor, Last

\* The changes of a command that may apply them, as a map.
LEMMA ChangesArePartial ==
  ASSUME NEW T, NEW c \in Client, command[c].cap \in Cap, Undoing(c, T) \/ Committing(c, T)
  PROVE  /\ changes[c].paths \subseteq Path
         /\ DOMAIN changes[c].files \subseteq changes[c].paths
         /\ Partial(changes[c].files, T)
<1>1. CASE Undoing(c, T)
  BY <1>1, OwnedIs DEF Undoing, Undoes, IsChange, Partial
<1>2. CASE Committing(c, T)
  <2> DEFINE s == staged[c]
             files == changes[c].files
  <2>1. PICK S \in SUBSET Path : changes[c] = Excerpt(s, S)
    BY <1>2 DEF Committing
  <2>2. /\ changes[c].paths = S /\ DOMAIN files = DOMAIN s \cap S
        /\ \A p \in S : Same(files, s, p)
    BY <2>1, ExcerptIs
  <2>3. IsTree(s) /\ Records(s, T) /\ SoundBut(s, {}, Endorsed)
    BY <1>2 DEF Committing, IsStaged, Safe
  <2> HIDE DEF files, s
  <2>4. IsTree(files) /\ Records(files, T)
    BY <2>2, <2>3 DEF IsTree, Records, Same
  <2>5. SoundBut(files, {}, Endorsed)
    <3>1. CASE Lock \in S
      BY <2>2, <2>3, <3>1, SamePinned DEF SoundBut
    <3>2. CASE Lock \notin S
      <4>1. Pinned(files) = <<>>
        BY <2>2, <3>2 DEF Pinned
      <4> QED BY <4>1 DEF SoundBut
    <3> QED BY <3>1, <3>2
  <2> QED BY <2>2, <2>4, <2>5 DEF Partial, files
<1> QED BY <1>1, <1>2

\* A file more, from a sound map, or a file less.
LEMMA PutIs ==
  ASSUME NEW T, NEW t, IsTree(t), Records(t, T), SoundBut(t, {}, Endorsed),
         NEW m, Partial(m, T), NEW p \in DOMAIN m
  PROVE  LET u == Put(t, p, m[p]) IN
         /\ Safe(u, T, {}, Endorsed) /\ DOMAIN u = DOMAIN t \cup {p} /\ p \in Path
         /\ Same(u, m, p) /\ \A q \in Path \ {p} : Same(u, t, q)
<1> DEFINE u == Put(t, p, m[p])
           S == {p}
<1>1. /\ DOMAIN u = DOMAIN t \cup {p} /\ u = [q \in DOMAIN u |-> u[q]]
      /\ \A q \in DOMAIN u : u[q] = IF q = p THEN m[p] ELSE t[q]
  BY Zenon DEF Put
<1> HIDE DEF u
<1>2. IsTree(m) /\ Records(m, T) /\ SoundBut(m, {}, Endorsed)
  BY DEF Partial
<1>3. Same(u, m, p) /\ \A q \in Path \ {p} : Same(u, t, q)
  BY <1>1 DEF Same
<1>4. DOMAIN u \subseteq Path /\ p \in Path /\ Lock \in Path
  BY <1>1, <1>2 DEF IsTree, Path
<1>5. /\ \A q \in S : Same(u, m, q)
      /\ \A q \in Path \ S : Same(u, t, q)
  BY <1>3
<1> HIDE DEF S
<1>6. IsTree(u) /\ Records(u, T) /\ SoundBut(u, {}, Endorsed)
  BY <1>2, <1>4, <1>5, Blend
<1>7. IsMap(u)
  BY <1>1 DEF IsMap
<1> QED BY <1>1, <1>3, <1>4, <1>6, <1>7 DEF Safe, u

LEMMA WithoutIs ==
  ASSUME NEW T, NEW t, IsTree(t), Records(t, T), SoundBut(t, {}, Endorsed), NEW p \in Path
  PROVE  LET u == Without(t, p) IN
         /\ Safe(u, T, {}, Endorsed) /\ DOMAIN u = DOMAIN t \ {p}
         /\ \A q \in Path \ {p} : Same(u, t, q)
<1> DEFINE u == Without(t, p)
           S == {p}
           none == <<>>
<1>1. /\ DOMAIN u = DOMAIN t \ {p} /\ u = [q \in DOMAIN u |-> u[q]]
      /\ \A q \in DOMAIN u : u[q] = t[q]
  <2>1. u = [q \in (DOMAIN t \cap (DOMAIN t \ {p})) |-> t[q]] \/ u = [q \in DOMAIN t \ {p} |-> t[q]]
    BY Zenon DEF Without, Restrict
  <2> QED BY <2>1
<1> HIDE DEF u
<1>2. IsTree(none) /\ Records(none, T) /\ SoundBut(none, {}, Endorsed)
  BY EmptyIsSafe DEF Safe
<1>3. /\ \A q \in S : Same(u, none, q)
      /\ \A q \in Path \ {p} : Same(u, t, q)
      /\ \A q \in Path \ S : Same(u, t, q)
  BY <1>1 DEF Same
<1> HIDE DEF S, none
<1>4. DOMAIN u \subseteq Path /\ Lock \in Path
  BY <1>1 DEF IsTree, Path
<1>5. IsTree(u) /\ Records(u, T) /\ SoundBut(u, {}, Endorsed)
  BY <1>2, <1>3, <1>4, Blend
<1>6. IsMap(u)
  BY <1>1 DEF IsMap
<1> QED BY <1>1, <1>3, <1>5, <1>6 DEF Safe, u

(***************************************************************************)
(* A step of an apply, from its first to its last but one.                 *)
(***************************************************************************)
LEMMA AppliesOn ==
  ASSUME NEW T, InvFor(T), NEW c \in Client, OnlyMoves(c), UNCHANGED endorse, Keeps,
         ~torn' => \A d \in Client \ {c} : pc[d] \notin Applying,
         pc'[c] \in Applying, Safe(tree', T, {}, Endorsed),
         LocalOK(c)', Holds(c, T)', orderly' => Fresh(c)'
  PROVE  IInv'
<1>1. Endorsed' = Endorsed /\ Learns
  BY DEF endorse, Endorsed, Learns, InvFor, TypeOK
<1>2. Safe(whole', T, {}, Endorsed') /\ Whole(whole') /\ Safe(tree', T, {}, Endorsed')
  <2>1. CASE torn'
    BY <1>1, <2>1, EmptyIsSafe DEF Keeps
  <2>2. CASE ~torn'
    BY <1>1, <2>2 DEF Keeps, InvFor, Traced
  <2> QED BY <1>1, <2>1, <2>2
<1>3. TypeOK'
  <2>1. \A d \in Client : LocalOK(d)'
    BY DEF InvFor, TypeOK, OnlyMoves, LocalOK
  <2>2. IsTree(tree') /\ IsTree(whole')
    BY <1>2 DEF Safe
  <2>3. \A i \in DOMAIN before' : before'[i].cap \in Cap /\ IsTree(before'[i].tree)
    BY DEF InvFor, TypeOK, Keeps
  <2> QED BY <1>1, <2>1, <2>2, <2>3, Zenon DEF TypeOK, LocalOK, OnlyMoves, Learns, Keeps, Wears
<1>4. (before \in Seq(Range(before)))'
  BY DEF InvFor, Keeps
<1>5. \A d \in Client : Holds(d, T)'
  <2> SUFFICES ASSUME NEW d \in Client \ {c} PROVE Holds(d, T)'
    OBVIOUS
  <2>1. Holds(d, T) /\ (torn => torn')
    BY DEF InvFor, Traced, Keeps, Wears
  <2> QED BY <1>1, <2>1, OthersHold
<1>6. Traced(T)'
  BY <1>1, <1>2, <1>5 DEF Traced, InvFor, Keeps, Wears
<1>7. OneAtATime'
  <2>1. ASSUME ~torn', NEW d \in Client, NEW e \in Client, pc'[d] \in Applying, pc'[e] \in Applying
        PROVE  d = e
    BY <2>1 DEF OnlyMoves
  <2>2. ~Calm' /\ (torn' => whole' = <<>>)
    BY DEF Calm, Keeps
  <2> QED BY <2>1, <2>2 DEF OneAtATime
<1>8. InTurnSoFar'
  <2> SUFFICES ASSUME orderly'
               PROVE  ~torn' /\ PinsWhatIsThere(whole') /\ Stacked' /\ \A d \in Client : Fresh(d)'
    BY DEF InTurnSoFar
  <2>1. /\ orderly /\ ~torn' /\ whole' = whole /\ before' = before
        /\ PinsWhatIsThere(whole) /\ Stacked /\ \A d \in Client : Fresh(d)
    BY DEF InvFor, InTurnSoFar, Keeps, Wears
  <2>2. Stacked'
    BY <2>1 DEF Stacked, After
  <2>3. ASSUME NEW d \in Client \ {c} PROVE Fresh(d)'
    BY <2>1 DEF Fresh, OnlyMoves, IsInstall
  <2> QED BY <2>1, <2>2, <2>3
<1> QED BY <1>3, <1>4, <1>6, <1>7, <1>8 DEF InvFor, IInv

\* _verify_before_digests.
LEMMA VerifyPreserves ==
  ASSUME IInv, NEW c \in Client, Verify(c)
  PROVE  IInv'
<1>1. PICK T : InvFor(T)
  BY DEF IInv
<1> DEFINE w == [rest |-> Mutable(c), at |-> None, backup |-> <<>>, written |-> {}]
<1>2. /\ pc[c] = "apply" /\ Unchanged(c) /\ pc'[c] = "out" /\ OnlyMoves(c)
      /\ work'[c] = w /\ staged'[c] = None /\ base'[c] = None
      /\ UNCHANGED <<tree, command, changes, endorse, before, faults>> /\ Tears(Busy(c))
  <2>1. /\ pc \in [Client -> PC] /\ command \in [Client -> Command \cup {None}]
        /\ DOMAIN changes = Client /\ DOMAIN staged = Client /\ DOMAIN base = Client
        /\ DOMAIN work = Client
    BY <1>1 DEF InvFor, TypeOK
  <2>2. /\ pc' = [pc EXCEPT ![c] = "out"] /\ work' = [work EXCEPT ![c] = w]
        /\ staged' = [staged EXCEPT ![c] = None] /\ base' = [base EXCEPT ![c] = None]
        /\ pc[c] = "apply" /\ Unchanged(c) /\ Tears(Busy(c))
        /\ UNCHANGED <<tree, command, changes, endorse, before, faults>>
    BY DEF Verify
  <2> HIDE DEF w
  <2>3. "out" \in PC
    BY DEF PC, Applying
  <2> QED BY <2>1, <2>2, <2>3 DEF OnlyMoves
<1>3. /\ command[c] \in Command /\ command[c].cap \in Cap
      /\ Undoing(c, T) \/ Committing(c, T)
      /\ Safe(tree, T, {}, Endorsed)
  BY <1>1, <1>2 DEF InvFor, Traced, Holds, Command
<1>4. Endorsed' = Endorsed /\ pc[c] \notin Applying /\ pc'[c] \in Applying
  BY <1>2 DEF endorse, Endorsed, Applying
<1>5. /\ changes[c].paths \subseteq Path /\ DOMAIN changes[c].files \subseteq changes[c].paths
      /\ Partial(changes[c].files, T)
  BY <1>3, ChangesArePartial
<1>6. Keeps /\ (~torn' => ~torn /\ Calm /\ tree = whole /\ whole' = whole)
  <2>1. commits' \in 0..MaxCommits
    <3>1. commits \in 0..MaxCommits /\ MaxCommits \in Nat
      BY <1>1, InstallAssumption DEF InvFor, TypeOK
    <3>2. /\ command[c].kind # "uninstall" => commits < MaxCommits
          /\ commits' = IF command[c].kind = "uninstall" THEN commits ELSE commits + 1
      BY DEF Verify
    <3> QED BY <3>1, <3>2
  <2>2. /\ torn \in BOOLEAN /\ orderly \in BOOLEAN /\ faults' \in 0..MaxFaults
        /\ torn' \in BOOLEAN /\ orderly' \in BOOLEAN
    BY <1>1, <1>2, Zenon DEF InvFor, TypeOK, Tears
  <2>3. orderly => ~torn
    BY <1>1 DEF InvFor, InTurnSoFar
  <2>4. /\ torn => torn'
        /\ orderly' => orderly /\ ~torn'
        /\ ~torn' => ~torn /\ ~Busy(c)
    BY <1>2, <2>3, Zenon DEF Tears
  <2>5. Keeps
    BY <1>2, <2>1, <2>2, <2>4, Zenon DEF Keeps, Wears, Tears
  <2>6. ~torn' => Calm
    BY <1>4, <2>4 DEF Calm, Busy
  <2>7. Calm => tree = whole
    BY <1>1 DEF InvFor, OneAtATime
  <2> QED BY <2>4, <2>5, <2>6, <2>7 DEF Keeps
<1>7. /\ DOMAIN w = {"rest", "at", "backup", "written"}
      /\ w.rest = Mutable(c) /\ w.at = None /\ w.backup = <<>> /\ w.written = {}
  OBVIOUS
<1> HIDE DEF w
<1>8. Mutable(c) \subseteq changes[c].paths
  BY DEF Mutable
<1>9. IsWork(w) /\ Partial(w.backup, T) /\ DOMAIN w.backup = {}
  <2>1. Partial(<<>>, T)
    BY EmptyIsSafe DEF Safe, Partial
  <2> QED BY <1>5, <1>7, <1>8, <2>1 DEF IsWork, Partial
<1>10. LocalOK(c)'
  BY <1>2, <1>5, <1>9 DEF LocalOK, Partial
<1>11. ASSUME ~torn' PROVE Midway(c)'
  BY <1>2, <1>6, <1>7, <1>9, <1>11 DEF Midway, Same
<1>12. ASSUME ~torn'
       PROVE  /\ Onward(c)' /\ Safe(Overlay(whole, changes[c]), T, {}, Endorsed)
              /\ Whole(Overlay(whole, changes[c]))
  <2>1. \A p \in changes[c].paths \ Mutable(c) : Same(tree, changes[c].files, p)
    BY DEF Mutable, Unchanged, Same, Verify
  <2>2. Onward(c)'
    BY <1>2, <1>7, <1>8, <1>9, <2>1 DEF Onward
  <2>3. Whole(tree)
    BY <1>1, <1>6, <1>12 DEF InvFor, Traced
  <2> QED BY <1>2, <1>3, <1>6, <1>12, <2>2, <2>3, CommitIsSafe, UndoIsSafe
<1>13. Swapping(c, T)'
  <2>1. Overlay(whole, changes[c])' = Overlay(whole', changes[c])
    BY <1>2 DEF Overlay
  <2> QED BY <1>2, <1>4, <1>5, <1>6, <1>9, <1>11, <1>12, <2>1 DEF Swapping, Partial
<1>14. Holds(c, T)'
  BY <1>2, <1>3, <1>13 DEF Holds
<1>15. ASSUME orderly' PROVE Fresh(c)'
  <2>1. /\ orderly /\ Fresh(c) /\ whole' = whole /\ tree = whole /\ base[c] = tree
    BY <1>1, <1>2, <1>6, <1>15 DEF Keeps, Wears, InvFor, InTurnSoFar, Fresh
  <2>2. CASE command[c].kind = "uninstall"
    BY <1>2, <2>1, <2>2 DEF Fresh
  <2>3. CASE command[c].kind # "uninstall"
    <3>1. Committing(c, T) /\ IsInstall(c)
      BY <1>3, <2>3 DEF Undoing, Committing, IsStaged
    <3>2. Overlay(whole, changes[c]) = staged[c]
      BY <1>2, <1>3, <2>1, <3>1, CommitIsSafe
    <3>3. /\ Follows(staged[c], whole, command[c].cap) /\ PinsWhatIsThere(staged[c])
      BY <1>2, <2>1, <3>1 DEF Fresh
    <3> QED BY <1>2, <2>1, <2>3, <3>2, <3>3 DEF Fresh
  <2> QED BY <2>2, <2>3
<1>16. ~torn' => \A d \in Client \ {c} : pc[d] \notin Applying
  BY <1>6 DEF Calm
<1> QED BY <1>1, <1>2, <1>3, <1>4, <1>6, <1>10, <1>14, <1>15, <1>16, AppliesOn

(***************************************************************************)
(* What a command under way in an apply has: one of its own at a time, but *)
(* for a torn project.                                                     *)
(***************************************************************************)
LEMMA ApplyingIs ==
  ASSUME NEW T, InvFor(T), NEW c \in Client, pc[c] \in Applying
  PROVE  /\ Swapping(c, T) /\ command[c] \in Command
         /\ IsTree(tree) /\ Records(tree, T) /\ SoundBut(tree, {}, Endorsed)
         /\ orderly => ~torn /\ Fresh(c)
         /\ ~torn => \A d \in Client \ {c} : pc[d] \notin Applying
<1>1. pc[c] # "idle"
  BY DEF Applying
<1>2. Swapping(c, T) /\ command[c] \in Command
  BY <1>1 DEF InvFor, Traced, Holds
<1>3. IsTree(tree) /\ Records(tree, T) /\ SoundBut(tree, {}, Endorsed)
  BY DEF InvFor, Traced, Safe
<1>4. orderly => ~torn /\ Fresh(c)
  BY DEF InvFor, InTurnSoFar
<1>5. ~torn => \A d \in Client \ {c} : pc[d] \notin Applying
  BY DEF InvFor, OneAtATime
<1> QED BY <1>2, <1>3, <1>4, <1>5

\* Its step, when it is one of its files.
LEMMA SwapStep ==
  ASSUME NEW T, InvFor(T), NEW c \in Client, pc[c] \in Applying, NEW q \in Applying, NEW w,
         pc' = [pc EXCEPT ![c] = q], IsWork(w), work'[c] = w, DOMAIN work' = Client,
         \A d \in Client \ {c} : work'[d] = work[d],
         UNCHANGED <<local, endorse, before, commits>>, Keeps,
         Safe(tree', T, {}, Endorsed), Partial(w.backup, T),
         q = "in" => w.at \in DOMAIN changes[c].files,
         ~torn' => Midway(c)',
         ~torn' /\ q # "rollback" => pc[c] # "rollback" /\ Onward(c)',
         q # "rollback" => pc[c] # "rollback"
  PROVE  IInv'
<1>1. /\ Swapping(c, T) /\ command[c] \in Command
      /\ orderly => ~torn /\ Fresh(c)
      /\ ~torn => \A d \in Client \ {c} : pc[d] \notin Applying
  BY ApplyingIs
<1>2. /\ pc \in [Client -> PC] /\ command \in [Client -> Command \cup {None}]
      /\ DOMAIN changes = Client /\ DOMAIN staged = Client /\ DOMAIN base = Client
      /\ DOMAIN work = Client
  BY DEF InvFor, TypeOK
<1>3. UNCHANGED <<command, changes, staged, base>>
  BY DEF local
<1>4. OnlyMoves(c) /\ pc'[c] = q /\ work'[c] = w
  BY <1>2, <1>3 DEF OnlyMoves, PC
<1>5. Endorsed' = Endorsed
  BY DEF endorse, Endorsed
<1>6. ~torn' => ~torn /\ whole' = whole
  BY DEF Keeps, Wears
<1>7. LocalOK(c)'
  BY <1>3, <1>4 DEF LocalOK, InvFor, TypeOK
<1>8. Swapping(c, T)'
  <2>1. /\ changes[c].paths \subseteq Path /\ DOMAIN changes[c].files \subseteq changes[c].paths
        /\ Partial(changes[c].files, T)
    BY <1>1 DEF Swapping
  <2>2. ASSUME ~torn', q # "rollback"
        PROVE  Safe(Overlay(whole, changes[c]), T, {}, Endorsed) /\ Whole(Overlay(whole, changes[c]))
    BY <1>1, <1>6, <2>2 DEF Swapping
  <2>3. Overlay(whole, changes[c])' = Overlay(whole', changes[c])
    BY <1>3 DEF Overlay
  <2> QED BY <1>3, <1>4, <1>5, <1>6, <2>1, <2>2, <2>3 DEF Swapping, Partial
<1>9. Holds(c, T)' /\ pc'[c] \in Applying
  <2>1. q \notin {"idle", "ask", "stage", "preflight", "build", "check", "apply"}
    BY DEF Applying
  <2> QED BY <1>1, <1>3, <1>4, <1>8, <2>1 DEF Holds
<1>10. ASSUME orderly' PROVE Fresh(c)'
  <2>1. /\ orderly /\ Fresh(c) /\ whole' = whole
    BY <1>1, <1>6, <1>10 DEF Keeps, Wears
  <2>2. Overlay(whole, changes[c])' = Overlay(whole, changes[c])
    BY <1>3, <2>1 DEF Overlay
  <2>3. q \in {"out", "in"} => pc[c] \in {"out", "in"}
    BY DEF Applying
  <2>4. q \notin {"ask", "stage", "preflight", "build", "check", "apply"}
    BY DEF Applying
  <2> QED BY <1>3, <1>4, <2>1, <2>2, <2>3, <2>4 DEF Fresh, IsInstall
<1>11. ~torn' => \A d \in Client \ {c} : pc[d] \notin Applying
  BY <1>1, <1>6
<1> QED BY <1>4, <1>7, <1>9, <1>10, <1>11, AppliesOn

\* A file is moved to the backup.
LEMMA SwapOutPreserves ==
  ASSUME IInv, NEW c \in Client, SwapOut(c)
  PROVE  IInv'
<1>1. PICK T : InvFor(T)
  BY DEF IInv
<1> DEFINE v == work[c]
           files == changes[c].files
<1>2. pc[c] = "out" /\ pc[c] \in Applying
  BY DEF SwapOut, Applying
<1>3. PICK p \in v.rest :
        /\ IF p \in DOMAIN tree
           THEN /\ tree' = Without(tree, p)
                /\ work' = [work EXCEPT ![c].backup = Put(@, p, tree[p]), ![c].at = p,
                                        ![c].rest = @ \ {p}]
           ELSE /\ tree' = tree
                /\ work' = [work EXCEPT ![c].at = p, ![c].rest = @ \ {p}]
        /\ pc' = IF p \in DOMAIN files THEN [pc EXCEPT ![c] = "in"] ELSE pc
  BY DEF SwapOut, Firsts
<1> DEFINE backup == IF p \in DOMAIN tree THEN Put(v.backup, p, tree[p]) ELSE v.backup
           w == [v EXCEPT !.backup = backup, !.at = p, !.rest = @ \ {p}]
           q == IF p \in DOMAIN files THEN "in" ELSE "out"
<1>4. /\ Swapping(c, T) /\ IsTree(tree) /\ Records(tree, T) /\ SoundBut(tree, {}, Endorsed)
      /\ DOMAIN work = Client /\ pc \in [Client -> PC]
  BY <1>1, <1>2, ApplyingIs DEF InvFor, TypeOK
<1>5. /\ DOMAIN v = {"rest", "at", "backup", "written"}
      /\ v.rest \subseteq Path /\ v.written \subseteq Path /\ IsTree(v.backup)
      /\ Partial(v.backup, T)
  BY <1>4 DEF Swapping, IsWork
<1>6. work' = [work EXCEPT ![c] = w] /\ pc' = [pc EXCEPT ![c] = q]
  <2>1. [pc EXCEPT ![c] = "out"] = pc
    BY <1>2, <1>4
  <2>2. CASE p \in DOMAIN tree
    BY <1>3, <1>4, <1>5, <2>1, <2>2
  <2>3. CASE p \notin DOMAIN tree
    <3>1. [v EXCEPT !.backup = v.backup, !.at = p, !.rest = @ \ {p}] = [v EXCEPT !.at = p, !.rest = @ \ {p}]
      BY <1>5
    <3>2. [work EXCEPT ![c].at = p, ![c].rest = @ \ {p}]
            = [work EXCEPT ![c] = [v EXCEPT !.at = p, !.rest = @ \ {p}]]
      BY <1>4
    <3> QED BY <1>3, <1>4, <2>1, <2>3, <3>1, <3>2
  <2> QED BY <2>2, <2>3
<1>7. /\ DOMAIN w = {"rest", "at", "backup", "written"} /\ w.rest = v.rest \ {p} /\ w.at = p
      /\ w.backup = backup /\ w.written = v.written
  BY <1>5
<1>8. /\ Safe(tree', T, {}, Endorsed) /\ DOMAIN tree' = DOMAIN tree \ {p} /\ p \in Path
      /\ \A r \in Path \ {p} : Same(tree', tree, r)
  <2>1. p \in Path
    BY <1>5
  <2>2. CASE p \in DOMAIN tree
    BY <1>3, <1>4, <2>1, <2>2, WithoutIs
  <2>3. CASE p \notin DOMAIN tree
    BY <1>1, <1>3, <2>1, <2>3 DEF InvFor, Traced, Same
  <2> QED BY <2>1, <2>2, <2>3
<1>9. /\ Partial(backup, T) /\ DOMAIN backup = DOMAIN v.backup \cup (DOMAIN tree \cap {p})
      /\ p \in DOMAIN tree => backup[p] = tree[p]
      /\ \A r \in Path \ {p} : Same(backup, v.backup, r)
  <2>1. Partial(tree, T)
    BY <1>4 DEF Partial
  <2>2. CASE p \in DOMAIN tree
    <3>1. backup = Put(v.backup, p, tree[p])
      BY <2>2
    <3> HIDE DEF backup
    <3>2. /\ Safe(backup, T, {}, Endorsed) /\ DOMAIN backup = DOMAIN v.backup \cup {p}
          /\ Same(backup, tree, p) /\ \A r \in Path \ {p} : Same(backup, v.backup, r)
      <4>1. IsTree(v.backup) /\ Records(v.backup, T) /\ SoundBut(v.backup, {}, Endorsed)
        BY <1>5 DEF Partial
      <4> HIDE DEF v
      <4>2. LET u == Put(v.backup, p, tree[p]) IN
            /\ Safe(u, T, {}, Endorsed) /\ DOMAIN u = DOMAIN v.backup \cup {p} /\ p \in Path
            /\ Same(u, tree, p) /\ \A r \in Path \ {p} : Same(u, v.backup, r)
        BY <2>1, <2>2, <4>1, PutIs, ZenonT(60)
      <4> QED BY <3>1, <4>2
    <3>3. Partial(backup, T)
      BY <3>2 DEF Safe, Partial
    <3>4. DOMAIN tree \cap {p} = {p} /\ backup[p] = tree[p]
      BY <2>2, <3>2 DEF Same
    <3> QED BY <3>2, <3>3, <3>4
  <2>3. CASE p \notin DOMAIN tree
    BY <1>5, <2>3 DEF Same
  <2> QED BY <2>2, <2>3
<1>10. /\ q \in {"in", "out"} /\ q \in Applying /\ (q = "in" => p \in DOMAIN files)
       /\ (q = "out" => p \notin DOMAIN files)
  BY DEF Applying
<1> HIDE DEF backup, w, q
<1>11. UNCHANGED <<local, applies, endorse, before, commits>> /\ Keeps
  BY <1>1, NothingTears DEF SwapOut
<1>12. IsWork(w)
  BY <1>5, <1>7, <1>8, <1>9 DEF IsWork, Partial
<1>13. /\ work'[c] = w /\ pc'[c] = q /\ torn' = torn /\ whole' = whole /\ changes' = changes
       /\ DOMAIN work' = Client /\ \A d \in Client \ {c} : work'[d] = work[d]
  BY <1>4, <1>6, <1>11 DEF applies, local
<1>14. ASSUME ~torn' PROVE Midway(c)' /\ Onward(c)'
  <2>1. Midway(c) /\ Onward(c)
    BY <1>2, <1>4, <1>13, <1>14 DEF Swapping
  <2>2. p \notin DOMAIN v.backup /\ p \notin v.written /\ Same(tree, whole, p)
    BY <1>3, <1>8, <2>1 DEF Midway, Onward
  <2>3. DOMAIN v.backup \subseteq Path /\ DOMAIN backup \subseteq Path
    BY <1>5, <1>9 DEF Partial, IsTree
  <2>4. Midway(c)'
    BY <1>5, <1>7, <1>8, <1>9, <1>13, <2>1, <2>2, <2>3 DEF Midway, Same
  <2>5. changes[c].paths \subseteq Path /\ DOMAIN files \subseteq changes[c].paths
    BY <1>4 DEF Swapping
  <2>6. Onward(c)'
    <3>1. /\ w.rest \cup w.written \cup DOMAIN w.backup \subseteq changes[c].paths
          /\ w.rest \cap (w.written \cup DOMAIN w.backup) = {}
      BY <1>3, <1>7, <1>9, <2>1 DEF Onward
    <3>2. ASSUME NEW r \in changes[c].paths \ w.rest
          PROVE  Same(tree', files, r) \/ (q = "in" /\ r = w.at)
      BY <1>2, <1>7, <1>8, <1>10, <2>1, <2>5 DEF Onward, Same
    <3>3. q = "in" => w.at \notin w.rest \cup w.written \cup DOMAIN tree'
      BY <1>7, <1>8, <2>2
    <3> QED BY <1>13, <3>1, <3>2, <3>3 DEF Onward
  <2> QED BY <2>4, <2>6
<1>15. Partial(w.backup, T) /\ (q = "in" => w.at \in DOMAIN changes[c].files)
  BY <1>7, <1>9, <1>10
<1> QED BY <1>1, <1>2, <1>6, <1>8, <1>10, <1>11, <1>12, <1>13, <1>14, <1>15, SwapStep

\* Its successor is put in its place.
LEMMA SwapInPreserves ==
  ASSUME IInv, NEW c \in Client, SwapIn(c)
  PROVE  IInv'
<1>1. PICK T : InvFor(T)
  BY DEF IInv
<1> DEFINE v == work[c]
           files == changes[c].files
           p == v.at
           w == [v EXCEPT !.written = @ \cup {p}]
<1>2. /\ pc[c] = "in" /\ pc[c] \in Applying /\ "out" \in Applying
      /\ tree' = Put(tree, p, files[p]) /\ pc' = [pc EXCEPT ![c] = "out"]
  BY DEF SwapIn, Applying
<1>4. /\ Swapping(c, T) /\ IsTree(tree) /\ Records(tree, T) /\ SoundBut(tree, {}, Endorsed)
      /\ DOMAIN work = Client /\ pc \in [Client -> PC]
  BY <1>1, <1>2, ApplyingIs DEF InvFor, TypeOK
<1>5. /\ DOMAIN v = {"rest", "at", "backup", "written"}
      /\ v.rest \subseteq Path /\ v.written \subseteq Path /\ IsTree(v.backup)
      /\ Partial(v.backup, T) /\ Partial(files, T) /\ p \in DOMAIN files
  BY <1>2, <1>4 DEF Swapping, IsWork
<1>6. work' = [work EXCEPT ![c] = w]
  BY <1>4 DEF SwapIn
<1>7. /\ DOMAIN w = {"rest", "at", "backup", "written"} /\ w.rest = v.rest /\ w.at = p
      /\ w.backup = v.backup /\ w.written = v.written \cup {p}
  BY <1>5
<1> HIDE DEF w
<1>8. /\ Safe(tree', T, {}, Endorsed) /\ DOMAIN tree' = DOMAIN tree \cup {p} /\ p \in Path
      /\ Same(tree', files, p) /\ \A r \in Path \ {p} : Same(tree', tree, r)
  <2>1. tree' = Put(tree, p, files[p])
    BY <1>2
  <2>2. p \in DOMAIN files /\ Partial(files, T)
    BY <1>5
  <2> HIDE DEF p, files
  <2>3. IsTree(tree) /\ Records(tree, T) /\ SoundBut(tree, {}, Endorsed)
    BY <1>4
  <2> QED BY <2>1, <2>2, <2>3, PutIs
<1>11. UNCHANGED <<local, applies, endorse, before, commits>> /\ Keeps
  BY <1>1, NothingTears DEF SwapIn
<1>12. IsWork(w)
  BY <1>5, <1>7, <1>8 DEF IsWork
<1>13. /\ work'[c] = w /\ pc'[c] = "out" /\ torn' = torn /\ whole' = whole /\ changes' = changes
       /\ DOMAIN work' = Client /\ \A d \in Client \ {c} : work'[d] = work[d]
  BY <1>2, <1>4, <1>6, <1>11 DEF applies, local
<1>14. ASSUME ~torn' PROVE Midway(c)' /\ Onward(c)'
  <2>1. Midway(c) /\ Onward(c)
    BY <1>2, <1>4, <1>13, <1>14 DEF Swapping
  <2>2. p \notin v.written /\ p \notin v.rest /\ p \notin DOMAIN tree
    BY <1>2, <2>1 DEF Onward
  <2>3. DOMAIN v.backup \subseteq Path
    BY <1>5 DEF IsTree
  <2>4. Midway(c)'
    BY <1>5, <1>7, <1>8, <1>13, <2>1, <2>2, <2>3 DEF Midway, Same
  <2>5. changes[c].paths \subseteq Path /\ DOMAIN files \subseteq changes[c].paths
    BY <1>4 DEF Swapping
  <2>6. Onward(c)'
    <3>1. /\ w.rest \cup w.written \cup DOMAIN w.backup \subseteq changes[c].paths
          /\ w.rest \cap (w.written \cup DOMAIN w.backup) = {}
      <4>1. p \notin DOMAIN v.backup \/ p \in DOMAIN v.backup
        OBVIOUS
      <4> QED BY <1>5, <1>7, <2>1, <2>2, <2>5 DEF Onward
    <3>2. ASSUME NEW r \in changes[c].paths \ w.rest
          PROVE  Same(tree', files, r)
      BY <1>7, <1>8, <2>1, <2>5 DEF Onward, Same
    <3> QED BY <1>13, <3>1, <3>2 DEF Onward
  <2> QED BY <2>4, <2>6
<1> QED BY <1>1, <1>2, <1>5, <1>7, <1>8, <1>11, <1>12, <1>13, <1>14, SwapStep

\* A call fails.
LEMMA FailApplyPreserves ==
  ASSUME IInv, NEW c \in Client, FailApply(c)
  PROVE  IInv'
<1>1. PICK T : InvFor(T)
  BY DEF IInv
<1>2. /\ pc[c] \in {"out", "in"} /\ pc[c] \in Applying /\ "rollback" \in Applying
      /\ pc' = [pc EXCEPT ![c] = "rollback"] /\ faults < MaxFaults /\ faults' = faults + 1
      /\ UNCHANGED <<tree, local, work, torn, whole, orderly, endorse, before, commits>>
  BY DEF FailApply, Applying
<1>3. /\ Swapping(c, T) /\ Safe(tree, T, {}, Endorsed) /\ DOMAIN work = Client
      /\ pc \in [Client -> PC]
  BY <1>1, <1>2, ApplyingIs DEF InvFor, TypeOK, Traced
<1>4. Keeps
  <2>1. /\ torn \in BOOLEAN /\ orderly \in BOOLEAN /\ commits \in 0..MaxCommits
        /\ (orderly => ~torn) /\ (torn => whole = <<>>)
    BY <1>1, Zenon DEF InvFor, TypeOK, InTurnSoFar, OneAtATime
  <2>2. faults' \in 0..MaxFaults
    BY <1>1, <1>2, InstallAssumption DEF InvFor, TypeOK
  <2> QED BY <1>2, <2>1, <2>2, Zenon DEF Keeps, Wears
<1>5. work' = work /\ pc'[c] = "rollback"
  BY <1>2, <1>3
<1>6. ~torn' => Midway(c)'
  BY <1>2, <1>3, <1>5 DEF Swapping, Midway
<1>7. IsWork(work[c]) /\ Partial(work[c].backup, T)
  BY <1>3 DEF Swapping
<1> QED BY <1>1, <1>2, <1>3, <1>4, <1>5, <1>6, <1>7, SwapStep

\* A call of the rollback works, or fails and tears the project.
LEMMA FaultyKeeps ==
  ASSUME NEW T, InvFor(T), NEW fails \in BOOLEAN, Faulty(fails), UNCHANGED <<before, commits>>
  PROVE  Keeps /\ (~torn' => ~fails)
<1>1. faults' \in 0..MaxFaults
  <2>1. faults \in 0..MaxFaults /\ MaxFaults \in Nat
    BY InstallAssumption DEF InvFor, TypeOK
  <2>2. CASE fails
    BY <2>1, <2>2 DEF Faulty
  <2>3. CASE ~fails
    BY <2>1, <2>3 DEF Faulty
  <2> QED BY <2>2, <2>3
<1>2. Tears(fails)
  BY DEF Faulty
<1> QED BY <1>1, <1>2, TearsKeeps

\* What was put in place is removed.
LEMMA UnlinkPreserves ==
  ASSUME IInv, NEW c \in Client, Unlink(c)
  PROVE  IInv'
<1>1. PICK T : InvFor(T)
  BY DEF IInv
<1> DEFINE v == work[c]
<1>2. pc[c] = "rollback" /\ pc[c] \in Applying
  BY DEF Unlink, Applying
<1>3. PICK p \in v.written, works \in BOOLEAN :
        /\ tree' = IF works THEN Without(tree, p) ELSE tree
        /\ work' = [work EXCEPT ![c].written = @ \ {p}]
        /\ Faulty(~works)
  BY DEF Unlink, Lasts
<1> DEFINE w == [v EXCEPT !.written = @ \ {p}]
<1>4. /\ Swapping(c, T) /\ Safe(tree, T, {}, Endorsed)
      /\ DOMAIN work = Client /\ pc \in [Client -> PC]
  BY <1>1, <1>2, ApplyingIs DEF InvFor, TypeOK, Traced
<1>5. /\ DOMAIN v = {"rest", "at", "backup", "written"}
      /\ v.rest \subseteq Path /\ v.written \subseteq Path /\ v.at \in Path \cup {None}
      /\ IsTree(v.backup) /\ Partial(v.backup, T) /\ p \in Path
  BY <1>3, <1>4 DEF Swapping, IsWork
<1>6. /\ DOMAIN w = {"rest", "at", "backup", "written"} /\ w.rest = v.rest /\ w.at = v.at
      /\ w.backup = v.backup /\ w.written = v.written \ {p}
  BY <1>5
<1>7. work'[c] = w /\ DOMAIN work' = Client /\ \A d \in Client \ {c} : work'[d] = work[d]
  BY <1>3, <1>4
<1> HIDE DEF w
<1>8. UNCHANGED <<local, endorse, before, commits>> /\ pc' = [pc EXCEPT ![c] = "rollback"]
  <2>1. pc' = pc /\ [pc EXCEPT ![c] = "rollback"] = pc
    BY <1>2, <1>4 DEF Unlink
  <2> QED BY <2>1 DEF Unlink
<1>9. Keeps /\ (~torn' => works /\ ~torn /\ whole' = whole)
  <2>1. (~works) \in BOOLEAN
    BY Zenon
  <2>2. Keeps /\ (~torn' => works)
    BY <1>1, <1>3, <1>8, <2>1, FaultyKeeps
  <2> QED BY <2>2 DEF Keeps, Wears
<1>10. /\ Safe(Without(tree, p), T, {}, Endorsed)
       /\ DOMAIN Without(tree, p) = DOMAIN tree \ {p}
       /\ \A q \in Path \ {p} : Same(Without(tree, p), tree, q)
  BY <1>4, <1>5, WithoutIs DEF Safe
<1>11. Safe(tree', T, {}, Endorsed)
  BY <1>3, <1>4, <1>10
<1>12. IsWork(w) /\ Partial(w.backup, T)
  BY <1>5, <1>6 DEF IsWork
<1>13. ASSUME ~torn' PROVE Midway(c)'
  <2>1. Midway(c) /\ tree' = Without(tree, p)
    BY <1>3, <1>4, <1>9, <1>13 DEF Swapping
  <2>2. DOMAIN v.backup \subseteq Path
    BY <1>5 DEF IsTree
  <2> QED BY <1>3, <1>5, <1>6, <1>7, <1>9, <1>10, <1>13, <2>1, <2>2 DEF Midway, Same
<1>14. "rollback" \in Applying
  BY DEF Applying
<1> QED BY <1>1, <1>2, <1>7, <1>8, <1>9, <1>11, <1>12, <1>13, <1>14, SwapStep

\* What was moved away is put back.
LEMMA RestorePreserves ==
  ASSUME IInv, NEW c \in Client, Restore(c)
  PROVE  IInv'
<1>1. PICK T : InvFor(T)
  BY DEF IInv
<1> DEFINE v == work[c]
<1>2. pc[c] = "rollback" /\ pc[c] \in Applying /\ v.written = {}
  BY DEF Restore, Applying
<1>3. PICK p \in DOMAIN v.backup, works \in BOOLEAN :
        /\ tree' = IF works THEN Put(tree, p, v.backup[p]) ELSE tree
        /\ work' = [work EXCEPT ![c].backup = Without(@, p)]
        /\ Faulty(~works)
  BY DEF Restore, Lasts
<1> DEFINE backup == Without(v.backup, p)
           w == [v EXCEPT !.backup = backup]
<1>4. /\ Swapping(c, T) /\ Safe(tree, T, {}, Endorsed)
      /\ DOMAIN work = Client /\ pc \in [Client -> PC]
  BY <1>1, <1>2, ApplyingIs DEF InvFor, TypeOK, Traced
<1>5. /\ DOMAIN v = {"rest", "at", "backup", "written"}
      /\ v.rest \subseteq Path /\ v.written \subseteq Path /\ v.at \in Path \cup {None}
      /\ IsTree(v.backup) /\ Partial(v.backup, T) /\ p \in Path
  BY <1>3, <1>4 DEF Swapping, IsWork, IsTree
<1>6. /\ DOMAIN w = {"rest", "at", "backup", "written"} /\ w.rest = v.rest /\ w.at = v.at
      /\ w.backup = backup /\ w.written = v.written
  BY <1>5
<1>7. work'[c] = w /\ DOMAIN work' = Client /\ \A d \in Client \ {c} : work'[d] = work[d]
  BY <1>3, <1>4
<1> HIDE DEF w
<1>8. UNCHANGED <<local, endorse, before, commits>> /\ pc' = [pc EXCEPT ![c] = "rollback"]
  <2>1. pc' = pc /\ [pc EXCEPT ![c] = "rollback"] = pc
    BY <1>2, <1>4 DEF Restore
  <2> QED BY <2>1 DEF Restore
<1>9. Keeps /\ (~torn' => works /\ ~torn /\ whole' = whole)
  <2>1. (~works) \in BOOLEAN
    BY Zenon
  <2>2. Keeps /\ (~torn' => works)
    BY <1>1, <1>3, <1>8, <2>1, FaultyKeeps
  <2> QED BY <2>2 DEF Keeps, Wears
<1>10. /\ Safe(backup, T, {}, Endorsed) /\ DOMAIN backup = DOMAIN v.backup \ {p}
       /\ \A q \in Path \ {p} : Same(backup, v.backup, q)
  BY <1>5, WithoutIs DEF Partial
<1> HIDE DEF backup
<1>11. /\ Safe(Put(tree, p, v.backup[p]), T, {}, Endorsed)
       /\ Same(Put(tree, p, v.backup[p]), v.backup, p)
       /\ \A q \in Path \ {p} : Same(Put(tree, p, v.backup[p]), tree, q)
  <2>1. IsTree(tree) /\ Records(tree, T) /\ SoundBut(tree, {}, Endorsed)
    BY <1>4 DEF Safe
  <2>2. Partial(v.backup, T) /\ p \in DOMAIN v.backup
    BY <1>3, <1>5
  <2> HIDE DEF v
  <2>3. LET u == Put(tree, p, v.backup[p]) IN
        /\ Safe(u, T, {}, Endorsed) /\ DOMAIN u = DOMAIN tree \cup {p} /\ p \in Path
        /\ Same(u, v.backup, p) /\ \A q \in Path \ {p} : Same(u, tree, q)
    BY <2>1, <2>2, PutIs, ZenonT(60)
  <2> QED BY <2>3
<1>12. Safe(tree', T, {}, Endorsed)
  BY <1>3, <1>4, <1>11
<1>13. IsWork(w) /\ Partial(w.backup, T)
  BY <1>5, <1>6, <1>10 DEF IsWork, Safe, Partial
<1>14. ASSUME ~torn' PROVE Midway(c)'
  <2>1. Midway(c) /\ tree' = Put(tree, p, v.backup[p])
    BY <1>3, <1>4, <1>9, <1>14 DEF Swapping
  <2>2. DOMAIN v.backup \subseteq Path
    BY <1>5 DEF IsTree
  <2> QED BY <1>2, <1>3, <1>5, <1>6, <1>7, <1>9, <1>10, <1>11, <1>14, <2>1, <2>2 DEF Midway, Same
<1>15. "rollback" \in Applying
  BY DEF Applying
<1> QED BY <1>1, <1>2, <1>7, <1>8, <1>9, <1>12, <1>13, <1>14, <1>15, SwapStep

-----------------------------------------------------------------------------
\* An apply that has nothing in place and nothing in its backup left no trace.
LEMMA UntouchedIsWhole ==
  ASSUME NEW T, InvFor(T), NEW c \in Client, pc[c] \in Applying, ~torn,
         work[c].written = {}, DOMAIN work[c].backup = {}
  PROVE  tree = whole
<1>1. Midway(c)
  BY ApplyingIs DEF Swapping
<1>2. \A p \in Path : Same(tree, whole, p)
  BY <1>1 DEF Midway
<1>3. /\ IsMap(tree) /\ DOMAIN tree \subseteq Path
      /\ IsMap(whole) /\ DOMAIN whole \subseteq Path
  BY DEF InvFor, Traced, Safe, IsTree
<1> QED BY <1>2, <1>3, SameTree

LEMMA LeaveMoves ==
  ASSUME NEW T, InvFor(T), NEW c \in Client, Leave(c)
  PROVE  OnlyMoves(c) /\ pc'[c] = "idle"
<1>1. /\ pc \in [Client -> PC] /\ command \in [Client -> Command \cup {None}]
      /\ DOMAIN changes = Client /\ DOMAIN staged = Client /\ DOMAIN base = Client
      /\ DOMAIN work = Client
  BY DEF InvFor, TypeOK
<1> QED BY <1>1 DEF Leave, OnlyMoves, PC

\* A command that stops where it has not touched the project.
LEMMA StopPreserves ==
  ASSUME IInv, NEW c \in Client, Refuse(c) \/ AlreadyInstalled(c)
  PROVE  IInv'
<1>1. /\ Leave(c) /\ pc[c] \notin Applying
      /\ UNCHANGED <<tree, applies, endorse, before, commits>>
  BY DEF Refuse, AlreadyInstalled, Applying
<1>2. ASSUME NEW T, InvFor(T) PROVE Keeps /\ (Calm' => tree = whole)
  BY <1>1, <1>2, LeaveMoves, NothingTears, StaysCalm
<1> QED BY <1>1, <1>2, LeavePreserves

LEMMA RolledBackPreserves ==
  ASSUME IInv, NEW c \in Client, RolledBack(c)
  PROVE  IInv'
<1>1. /\ Leave(c) /\ pc[c] \in Applying /\ work[c].written = {} /\ DOMAIN work[c].backup = {}
      /\ UNCHANGED <<tree, applies, endorse, before, commits>>
  BY DEF RolledBack, Applying
<1>2. ASSUME NEW T, InvFor(T) PROVE Keeps /\ (Calm' => tree = whole)
  <2>1. Keeps
    BY <1>1, <1>2, NothingTears
  <2>2. Calm' => ~torn
    BY <2>1 DEF Calm, Keeps, Wears
  <2> QED BY <1>1, <1>2, <2>1, <2>2, UntouchedIsWhole
<1> QED BY <1>1, <1>2, LeavePreserves

LEMMA ExitPreserves ==
  ASSUME IInv, NEW c \in Client, Exit(c)
  PROVE  IInv'
<1>1. /\ Leave(c) /\ Faulty(Touched(c)) /\ UNCHANGED <<tree, endorse, before, commits>>
  BY DEF Exit
<1>2. ASSUME NEW T, InvFor(T) PROVE Keeps /\ (Calm' => tree = whole)
  <2>1. Touched(c) \in BOOLEAN
    BY Zenon DEF Touched
  <2>2. Keeps /\ (~torn' => ~Touched(c))
    BY <1>1, <1>2, <2>1, FaultyKeeps
  <2>3. CASE pc[c] \notin Applying
    BY <1>1, <1>2, <2>2, <2>3, LeaveMoves, StaysCalm
  <2>4. CASE pc[c] \in Applying
    <3>1. Calm' => ~torn /\ ~Touched(c)
      BY <2>2 DEF Calm, Keeps, Wears
    <3>2. ~Touched(c) => work[c].written = {} /\ DOMAIN work[c].backup = {}
      BY <2>4 DEF Touched
    <3> QED BY <1>2, <2>2, <2>4, <3>1, <3>2, UntouchedIsWhole
  <2> QED BY <2>3, <2>4
<1> QED BY <1>1, <1>2, LeavePreserves

-----------------------------------------------------------------------------
(***************************************************************************)
(* All files are in place: the project is as the changes make it.          *)
(***************************************************************************)
LEMMA FinishedIs ==
  ASSUME NEW T, InvFor(T), NEW c \in Client, Finish(c), ~torn
  PROVE  /\ tree = Overlay(whole, changes[c]) /\ Whole(tree) /\ whole' = tree
         /\ \A d \in Client \ {c} : pc[d] \notin Applying
<1>1. pc[c] = "out" /\ pc[c] \in Applying /\ work[c].rest = {} /\ whole' = tree
  BY DEF Finish, Applying
<1>2. Swapping(c, T) /\ \A d \in Client \ {c} : pc[d] \notin Applying
  BY <1>1, ApplyingIs
<1>3. /\ Midway(c) /\ Onward(c) /\ Whole(Overlay(whole, changes[c]))
      /\ changes[c].paths \subseteq Path /\ DOMAIN changes[c].files \subseteq changes[c].paths
  BY <1>1, <1>2 DEF Swapping
<1> DEFINE u == Overlay(whole, changes[c])
<1>4. /\ IsMap(tree) /\ DOMAIN tree \subseteq Path
      /\ IsMap(whole) /\ DOMAIN whole \subseteq Path
  BY DEF InvFor, Traced, Safe, IsTree
<1>5. /\ IsMap(u) /\ DOMAIN u \subseteq Path
      /\ \A p \in changes[c].paths : Same(u, changes[c].files, p)
      /\ \A p \in Path \ changes[c].paths : Same(u, whole, p)
  BY <1>3, <1>4, OverlayIs
<1> HIDE DEF u
<1>6. \A p \in changes[c].paths : Same(tree, changes[c].files, p)
  BY <1>1, <1>3 DEF Onward
<1>7. \A p \in Path \ changes[c].paths : Same(tree, whole, p)
  BY <1>3 DEF Midway, Onward
<1>8. \A p \in Path : Same(tree, u, p)
  BY <1>5, <1>6, <1>7 DEF Same
<1>9. tree = u
  BY <1>4, <1>5, <1>8, SameTree
<1> QED BY <1>1, <1>2, <1>3, <1>9 DEF u

\* What an apply does in turn: no other command is under way.
LEMMA FinishedAlone ==
  ASSUME NEW T, InvFor(T), NEW c \in Client, Finish(c), orderly'
  PROVE  /\ \A d \in Client \ {c} : pc[d] = "idle"
         /\ orderly /\ InTurn(c) /\ PinsWhatIsThere(whole) /\ Stacked
         /\ pc[c] = "out" /\ Fresh(c) /\ ~torn
         /\ tree = Overlay(whole, changes[c]) /\ whole' = tree
         /\ before' = IF command[c].kind = "uninstall" THEN Front(before)
                      ELSE Append(before, [cap |-> command[c].cap, tree |-> whole])
<1>1. orderly /\ Others(c) = {} /\ InTurn(c) /\ pc[c] = "out"
  BY DEF Finish
<1>2. \A d \in Client \ {c} : pc[d] = "idle"
  BY <1>1 DEF Others
<1>3. PinsWhatIsThere(whole) /\ Stacked /\ Fresh(c) /\ ~torn
  BY <1>1 DEF InvFor, InTurnSoFar
<1>4. before' = IF command[c].kind = "uninstall" THEN Front(before)
                ELSE Append(before, [cap |-> command[c].cap, tree |-> whole])
  BY DEF Finish
<1> QED BY <1>1, <1>2, <1>3, <1>4, FinishedIs

\* In turn, an uninstall leaves the tree that the last step began with.
LEMMA UndoneIs ==
  ASSUME NEW T, InvFor(T), NEW c \in Client, Finish(c), orderly',
         command[c].kind = "uninstall"
  PROVE  Len(before) \in Nat \ {0} /\ tree = before[Len(before)].tree
<1> DEFINE k == command[c].cap
           n == Len(before)
           s == before[n].tree
<1>1. /\ InTurn(c) /\ Stacked /\ Fresh(c) /\ pc[c] = "out"
      /\ tree = Overlay(whole, changes[c])
  BY FinishedAlone
<1>2. /\ Transaction(k) \in DOMAIN whole /\ changes[c] = whole[Transaction(k)]
  BY <1>1 DEF Fresh
<1>3. before # <<>> /\ Last(before).cap = k
  BY <1>1 DEF InTurn
<1>4. n \in Nat \ {0} /\ before[n].cap = k
  BY <1>3, StackIs
<1>5. n \in 1..n
  BY <1>4
<1>6. IsMap(s) /\ IsTree(s) /\ k \in Cap /\ Follows(After(n), s, k)
  BY <1>1, <1>4, <1>5 DEF Stacked
<1>7. After(n) = whole
  BY <1>4 DEF After
<1>8. DOMAIN whole \subseteq Path /\ DOMAIN s \subseteq Path
  BY <1>6 DEF InvFor, TypeOK, IsTree
<1> HIDE DEF s, k, n
<1>9. Overlay(whole, whole[Transaction(k)]) = s
  BY <1>6, <1>7, <1>8, UndoGoesBack
<1> QED BY <1>1, <1>2, <1>4, <1>9 DEF n, s

\* In turn, an install or an update leaves a tree that pins what is there.
LEMMA CommittedIs ==
  ASSUME NEW T, InvFor(T), NEW c \in Client, Finish(c), orderly',
         command[c].kind # "uninstall"
  PROVE  /\ command[c].cap \in Cap
         /\ Follows(tree, whole, command[c].cap) /\ PinsWhatIsThere(tree)
<1>1. Fresh(c) /\ pc[c] = "out" /\ tree = Overlay(whole, changes[c])
  BY FinishedAlone
<1>2. command[c].cap \in Cap
  BY <1>1, ApplyingIs DEF Command, Applying
<1> QED BY <1>1, <1>2 DEF Fresh

\* Every tree on the stack is the one that the next step of it began with.
LEMMA PushKeepsStack ==
  ASSUME NEW T, InvFor(T), NEW c \in Client, Finish(c), orderly',
         command[c].kind # "uninstall"
  PROVE  Stacked' /\ (before \in Seq(Range(before)))'
<1> DEFINE k == command[c].cap
           top == [cap |-> k, tree |-> whole]
           Trees == Range(before) \cup {top}
<1>0. PICK n \in Nat : n = Len(before)
  BY StackIs
<1>1. /\ before' = Append(before, top) /\ Stacked /\ PinsWhatIsThere(whole)
      /\ whole' = tree
  BY FinishedAlone
<1>2. k \in Cap /\ Follows(tree, whole, k)
  BY CommittedIs
<1>3. IsMap(whole) /\ IsTree(whole)
  BY DEF InvFor, Traced, Safe
<1>4. top.cap = k /\ top.tree = whole
  OBVIOUS
<1> HIDE DEF k, top
<1>5. n \in Nat /\ before \in Seq(Trees)
  BY <1>0, StackIs, SeqMonotonic DEF InvFor
<1>6. /\ before' \in Seq(Trees) /\ Len(before') = n + 1
      /\ \A i \in 1..n : before'[i] = before[i]
      /\ before'[n + 1] = top
  BY <1>0, <1>1, <1>5, AppendProperties
<1>7. (before \in Seq(Range(before)))'
  BY <1>6, SeqOfRange
<1>8. ASSUME NEW i \in 1..n
      PROVE  before'[i] = before[i] /\ After(i)' = After(i)
  <2>1. CASE i < n
    <3>1. i + 1 \in 1..n
      BY <1>5, <2>1
    <3> QED BY <1>0, <1>5, <1>6, <2>1, <3>1 DEF After
  <2>2. CASE i = n
    BY <1>0, <1>4, <1>5, <1>6, <2>2 DEF After
  <2> QED BY <1>5, <2>1, <2>2
<1>9. before'[n + 1].tree = whole /\ before'[n + 1].cap = k /\ After(n + 1)' = tree
  BY <1>1, <1>4, <1>5, <1>6 DEF After
<1>10. \A i \in 1..n :
         LET s == before'[i].tree IN
         /\ before'[i].cap \in Cap
         /\ IsMap(s) /\ IsTree(s) /\ PinsWhatIsThere(s)
         /\ Follows(After(i)', s, before'[i].cap)
  BY <1>0, <1>1, <1>8 DEF Stacked
<1>11. \A i \in 1..Len(before') : i \in 1..n \/ i = n + 1
  BY <1>5, <1>6
<1>12. \A i \in 1..Len(before') :
         LET s == before'[i].tree IN
         /\ before'[i].cap \in Cap
         /\ IsMap(s) /\ IsTree(s) /\ PinsWhatIsThere(s)
         /\ Follows(After(i)', s, before'[i].cap)
  BY <1>1, <1>2, <1>3, <1>9, <1>10, <1>11
<1> QED BY <1>7, <1>12 DEF Stacked

LEMMA PopKeepsStack ==
  ASSUME NEW T, InvFor(T), NEW c \in Client, Finish(c), orderly',
         command[c].kind = "uninstall"
  PROVE  Stacked' /\ (before \in Seq(Range(before)))' /\ PinsWhatIsThere(tree)
<1> DEFINE n == Len(before)
<1>1. before' = Front(before) /\ Stacked /\ whole' = tree
  BY FinishedAlone
<1>2. n \in Nat \ {0} /\ whole' = before[n].tree
  BY <1>1, UndoneIs
<1>3. \A i \in 1..n : before[i] \in Range(before)
  BY ElementOfSeq DEF InvFor
<1>4. before' = SubSeq(before, 1, n - 1)
  BY <1>1 DEF Front
<1>5. /\ before' \in Seq(Range(before)) /\ Len(before') = n - 1
      /\ \A i \in 1..(n - 1) : before'[i] = before[i]
  <2>1. \A i \in 1..(n - 1) : before[i] \in Range(before)
    BY <1>2, <1>3
  <2> HIDE DEF n
  <2>2. 1 \in Int /\ n - 1 \in Int
    BY <1>2
  <2>3. /\ before' \in Seq(Range(before))
        /\ Len(before') = IF 1 <= n - 1 THEN (n - 1) - 1 + 1 ELSE 0
        /\ \A i \in 1..((n - 1) - 1 + 1) : before'[i] = before[1 + i - 1]
    BY <1>4, <2>1, <2>2, SubSeqProperties
  <2> QED BY <1>2, <2>3
<1>6. (before \in Seq(Range(before)))'
  BY <1>5, SeqOfRange
<1>7. PinsWhatIsThere(tree)
  BY <1>1, <1>2 DEF Stacked
<1> HIDE DEF n
<1>8. ASSUME NEW i \in 1..(n - 1)
      PROVE  before'[i] = before[i] /\ After(i)' = After(i)
  <2>1. CASE i < n - 1
    <3>1. i + 1 \in 1..(n - 1)
      BY <1>2, <2>1
    <3> QED BY <1>2, <1>5, <2>1, <3>1 DEF After, n
  <2>2. CASE i = n - 1
    BY <1>2, <1>5, <2>2 DEF After, n
  <2> QED BY <1>2, <2>1, <2>2
<1>9. \A i \in 1..(n - 1) : i \in 1..n
  BY <1>2
<1>10. \A i \in 1..Len(before') :
         LET s == before'[i].tree IN
         /\ before'[i].cap \in Cap
         /\ IsMap(s) /\ IsTree(s) /\ PinsWhatIsThere(s)
         /\ Follows(After(i)', s, before'[i].cap)
  BY <1>1, <1>5, <1>8, <1>9 DEF Stacked, n
<1> QED BY <1>6, <1>7, <1>10 DEF Stacked

\* The command returns.
LEMMA FinishPreserves ==
  ASSUME IInv, NEW c \in Client, Finish(c)
  PROVE  IInv'
<1>1. PICK T : InvFor(T)
  BY DEF IInv
<1>2. /\ OnlyMoves(c) /\ pc'[c] = "idle"
      /\ changes'[c] = None /\ staged'[c] = None /\ base'[c] = None /\ work'[c] = None
      /\ UNCHANGED <<tree, torn, faults, endorse, commits>>
  BY <1>1, LeaveMoves DEF Finish, Leave, InvFor, TypeOK
<1>3. Endorsed' = Endorsed /\ Learns
  BY <1>1, <1>2 DEF endorse, Endorsed, Learns, InvFor, TypeOK
<1>4. /\ Safe(tree', T, {}, Endorsed') /\ Safe(whole', T, {}, Endorsed') /\ Whole(whole')
      /\ (torn => whole' = <<>>) /\ (~torn => whole' = tree)
  <2>1. Safe(tree, T, {}, Endorsed)
    BY <1>1 DEF InvFor, Traced
  <2>2. CASE torn
    BY <1>2, <1>3, <2>1, <2>2, EmptyIsSafe DEF Finish
  <2>3. CASE ~torn
    BY <1>1, <1>2, <1>3, <2>1, <2>3, FinishedIs
  <2> QED BY <2>2, <2>3
<1>5. Holds(c, T)' /\ Fresh(c)' /\ LocalOK(c)'
  BY <1>2 DEF Holds, Fresh, LocalOK, Applying
<1>6. Traced(T)'
  <2>1. ASSUME NEW d \in Client \ {c} PROVE Holds(d, T)'
    <3>1. ~torn' => pc[d] \notin Applying
      BY <1>1, <1>2, FinishedIs
    <3>2. Holds(d, T) /\ (torn => torn')
      BY <1>1, <1>2 DEF InvFor, Traced
    <3> QED BY <1>2, <1>3, <3>1, <3>2, OthersHold
  <2>2. Closed(T, Endorsed') /\ (~torn' => Mends(T))
    BY <1>1, <1>2, <1>3 DEF InvFor, Traced
  <2> QED BY <1>4, <1>5, <2>1, <2>2 DEF Traced
<1>7. OneAtATime'
  <2>1. ASSUME ~torn', NEW d \in Client, pc'[d] \in Applying PROVE FALSE
    <3>1. d # c
      BY <1>2, <2>1 DEF Applying
    <3> QED BY <1>1, <1>2, <2>1, <3>1, FinishedIs DEF OnlyMoves
  <2>2. (Calm' => tree' = whole') /\ (torn' => whole' = <<>>)
    BY <1>2, <1>4 DEF Calm
  <2> QED BY <2>1, <2>2 DEF OneAtATime
<1>8. ASSUME orderly'
      PROVE  InTurnSoFar' /\ (before \in Seq(Range(before)))'
  <2>1. \A d \in Client : Fresh(d)'
    <3>1. \A d \in Client \ {c} : pc'[d] = "idle"
      BY <1>1, <1>2, <1>8, FinishedAlone DEF OnlyMoves
    <3> QED BY <1>5, <3>1 DEF Fresh
  <2>2. Stacked' /\ (before \in Seq(Range(before)))' /\ PinsWhatIsThere(tree)
    BY <1>1, <1>8, PushKeepsStack, PopKeepsStack, CommittedIs
  <2>3. ~torn' /\ whole' = tree
    BY <1>1, <1>2, <1>8, FinishedAlone
  <2> QED BY <2>1, <2>2, <2>3 DEF InTurnSoFar
<1>9. ASSUME ~orderly'
      PROVE  InTurnSoFar' /\ (before \in Seq(Range(before)))'
  <2>1. before' = <<>>
    BY <1>9 DEF Finish
  <2>2. (before \in Seq(Range(before)))'
    BY <2>1, EmptySeq
  <2> QED BY <1>9, <2>2 DEF InTurnSoFar
<1>10. orderly' \in BOOLEAN
  BY Zenon DEF Finish
<1>11. \A i \in DOMAIN before' : before'[i].cap \in Cap /\ IsTree(before'[i].tree)
  <2>1. CASE orderly'
    <3>1. Stacked' /\ DOMAIN before' = 1..Len(before')
      BY <1>8, <2>1, LenProperties DEF InTurnSoFar
    <3> QED BY <3>1 DEF Stacked
  <2>2. CASE ~orderly'
    <3>1. before' = <<>>
      BY <2>2 DEF Finish
    <3> QED BY <3>1
  <2> QED BY <2>1, <2>2
<1>12. TypeOK'
  <2>1. /\ pc' \in [Client -> PC] /\ command' \in [Client -> Command \cup {None}]
        /\ DOMAIN changes' = Client /\ DOMAIN staged' = Client /\ DOMAIN base' = Client
        /\ DOMAIN work' = Client
    BY <1>2 DEF OnlyMoves
  <2>2. \A d \in Client : LocalOK(d)'
    BY <1>1, <1>2, <1>5 DEF InvFor, TypeOK, LocalOK, OnlyMoves
  <2>3. IsTree(tree') /\ IsTree(whole')
    BY <1>4 DEF Safe
  <2>4. (approved \subseteq Cap \X Version /\ verified \subseteq Cap \X Version)'
    BY <1>3 DEF Learns
  <2>5. torn' \in BOOLEAN /\ commits' \in 0..MaxCommits /\ faults' \in 0..MaxFaults
    BY <1>1, <1>2, Zenon DEF InvFor, TypeOK
  <2> QED BY <1>10, <1>11, <2>1, <2>2, <2>3, <2>4, <2>5, Zenon DEF TypeOK, LocalOK
<1>13. InTurnSoFar' /\ (before \in Seq(Range(before)))'
  BY <1>8, <1>9
<1> QED BY <1>6, <1>7, <1>12, <1>13 DEF InvFor, IInv

-----------------------------------------------------------------------------
\* An empty project has nothing to be wrong about.
LEMMA InitEstablishes ==
  ASSUME Init
  PROVE  IInv
<1>1. /\ tree = <<>> /\ whole = <<>> /\ before = <<>> /\ ~torn
      /\ \A c \in Client : pc[c] = "idle"
  BY DEF Init
<1>2. /\ Safe(tree, {}, {}, Endorsed) /\ IsTree(tree)
      /\ Whole(whole) /\ PinsWhatIsThere(whole)
  BY <1>1, EmptyIsSafe DEF Safe
<1>3. TypeOK
  <2>1. commits \in 0..MaxCommits /\ faults \in 0..MaxFaults
    BY InstallAssumption DEF Init
  <2>2. torn \in BOOLEAN /\ orderly \in BOOLEAN
    BY Zenon DEF Init
  <2>3. /\ pc \in [Client -> PC] /\ command \in [Client -> Command \cup {None}]
        /\ DOMAIN changes = Client /\ DOMAIN staged = Client /\ DOMAIN base = Client
        /\ DOMAIN work = Client
        /\ \A c \in Client : LocalOK(c)
    BY DEF Init, PC, LocalOK
  <2>4. approved \subseteq Cap \X Version /\ verified \subseteq Cap \X Version
    BY DEF Init
  <2>5. DOMAIN before = {} /\ IsTree(whole)
    BY <1>1, <1>2
  <2> QED BY <1>2, <2>1, <2>2, <2>3, <2>4, <2>5, Zenon DEF TypeOK, LocalOK
<1>4. before \in Seq(Range(before))
  BY <1>1, EmptySeq
<1>5. Traced({})
  <2>1. \A c \in Client : Holds(c, {})
    BY <1>1 DEF Holds, Applying
  <2> QED BY <1>1, <1>2, <2>1 DEF Traced, Closed, Mends
<1>6. OneAtATime
  BY <1>1 DEF OneAtATime, Applying
<1>7. InTurnSoFar
  <2>1. Stacked
    BY <1>1 DEF Stacked
  <2>2. \A c \in Client : Fresh(c)
    BY <1>1 DEF Fresh
  <2> QED BY <1>1, <1>2, <2>1, <2>2 DEF InTurnSoFar
<1> QED BY <1>3, <1>4, <1>5, <1>6, <1>7 DEF InvFor, IInv

\* Every step of a command keeps the invariant.
LEMMA StepPreserves ==
  ASSUME IInv, Next
  PROVE  IInv'
<1>1. PICK c \in Client :
        \/ PlanInstall(c) \/ PlanUpdate(c) \/ Approve(c) \/ Refuse(c)
        \/ AlreadyInstalled(c) \/ Stage(c) \/ Preflight(c) \/ BuildCommit(c)
        \/ PlanUninstall(c) \/ CheckUninstall(c)
        \/ Verify(c) \/ SwapOut(c) \/ SwapIn(c) \/ Finish(c)
        \/ FailApply(c) \/ Unlink(c) \/ Restore(c) \/ RolledBack(c) \/ Exit(c)
  BY DEF Next
<1>2. CASE PlanInstall(c)
  BY <1>2, PlanPreserves DEF PlanInstall
<1>3. CASE PlanUpdate(c)
  BY <1>3, PlanPreserves DEF PlanUpdate
<1>4. CASE Approve(c)
  BY <1>4, ApprovePreserves
<1>5. CASE Refuse(c) \/ AlreadyInstalled(c)
  BY <1>5, StopPreserves
<1>6. CASE Stage(c)
  BY <1>6, StagePreserves
<1>7. CASE Preflight(c)
  BY <1>7, PreflightPreserves
<1>8. CASE BuildCommit(c)
  BY <1>8, BuildCommitPreserves
<1>9. CASE PlanUninstall(c)
  BY <1>9, PlanUninstallPreserves
<1>10. CASE CheckUninstall(c)
  BY <1>10, CheckUninstallPreserves
<1>11. CASE Verify(c)
  BY <1>11, VerifyPreserves
<1>12. CASE SwapOut(c)
  BY <1>12, SwapOutPreserves
<1>13. CASE SwapIn(c)
  BY <1>13, SwapInPreserves
<1>14. CASE Finish(c)
  BY <1>14, FinishPreserves
<1>15. CASE FailApply(c)
  BY <1>15, FailApplyPreserves
<1>16. CASE Unlink(c)
  BY <1>16, UnlinkPreserves
<1>17. CASE Restore(c)
  BY <1>17, RestorePreserves
<1>18. CASE RolledBack(c)
  BY <1>18, RolledBackPreserves
<1>19. CASE Exit(c)
  BY <1>19, ExitPreserves
<1> QED BY <1>1, <1>2, <1>3, <1>4, <1>5, <1>6, <1>7, <1>8, <1>9, <1>10, <1>11, <1>12,
           <1>13, <1>14, <1>15, <1>16, <1>17, <1>18, <1>19

\* No step at all changes nothing.
LEMMA StutterPreserves ==
  ASSUME IInv, UNCHANGED vars
  PROVE  IInv'
<1>1. PICK T : InvFor(T)
  BY DEF IInv
<1>2. UNCHANGED <<tree, pc, command, changes, staged, base, work, whole, approved, verified,
                  before, commits, faults>>
  BY DEF vars, local, applies, endorse
<1>3. (orderly' <=> orderly) /\ (torn' <=> torn)
  BY DEF vars, applies
<1>4. TypeOK'
  BY <1>1, <1>2, Zenon DEF InvFor, TypeOK, vars, applies
<1>5. Traced(T)'
  <2>1. Endorsed' = Endorsed
    BY <1>2 DEF Endorsed
  <2>2. ASSUME NEW c \in Client, Holds(c, T) PROVE Holds(c, T)'
    <3>1. Swapping(c, T) => Swapping(c, T)'
      BY <1>2, <1>3, <2>1, SwappingStays
    <3> QED BY <1>2, <1>3, <2>1, <2>2, <3>1
            DEF Holds, Planned, IsStaged, IsApproved, Undoing, Committing, IsInstall
  <2> QED BY <1>1, <1>2, <1>3, <2>1, <2>2 DEF InvFor, Traced
<1>6. OneAtATime'
  BY <1>1, <1>2, <1>3 DEF InvFor, OneAtATime, Calm
<1>7. InTurnSoFar'
  BY <1>1, <1>2, <1>3 DEF InvFor, InTurnSoFar, Stacked, After, Fresh, IsInstall
<1>8. (before \in Seq(Range(before)))'
  BY <1>1, <1>2 DEF InvFor
<1> QED BY <1>4, <1>5, <1>6, <1>7, <1>8 DEF InvFor, IInv

\* The invariant, in every state.
LEMMA Invariance == Spec => []IInv
<1>1. Init => IInv
  BY InitEstablishes
<1>2. IInv /\ [Next]_vars => IInv'
  BY StepPreserves, StutterPreserves
<1> QED BY <1>1, <1>2, PTL DEF Spec

(***************************************************************************)
(* The variables have their types.                                         *)
(***************************************************************************)
THEOREM TypeCorrect == Spec => []TypeOK
<1>1. IInv => TypeOK
  BY DEF IInv, InvFor
<1> QED BY <1>1, Invariance, PTL

(***************************************************************************)
(* However installs, updates and uninstalls overlap, are undone out of     *)
(* turn, fail, are rolled back or are left half way, the lock pins only    *)
(* packages that a user approved and that went through a preflight, after  *)
(* every call of every apply (execute_install, uninstall_command,          *)
(* apply_changeset).                                                       *)
(***************************************************************************)
THEOREM PinnedOnlyIfEndorsed == Spec => []PinnedIsApprovedAndVerified
<1>1. IInv => PinnedIsApprovedAndVerified
  <2> SUFFICES ASSUME NEW T, InvFor(T)
               PROVE  PinnedIsApprovedAndVerified
    BY DEF IInv
  <2>1. SoundBut(tree, {}, Endorsed)
    BY DEF InvFor, Traced, Safe
  <2> QED BY <2>1 DEF SoundBut, PinnedIsApprovedAndVerified, Endorsed
<1> QED BY <1>1, Invariance, PTL

(***************************************************************************)
(* Between applies, an artifact is there if and only if the record is that *)
(* takes it out again, unless an apply was left half way or met in its     *)
(* middle; and as long as commands neither overlapped, nor were undone out *)
(* of turn, nor torn, the lock pins just what is installed                 *)
(* (_build_tree_commit, _render_transaction, apply_changeset, _rollback).  *)
(***************************************************************************)
THEOREM Recorded == Spec => []InstalledIsRecorded
<1>1. IInv => InstalledIsRecorded
  <2> SUFFICES ASSUME NEW T, InvFor(T), \A c \in Client : pc[c] \notin Applying
               PROVE  /\ ~torn => \A k \in Cap : Paired(tree, k)
                      /\ orderly => PinsWhatIsThere(tree)
    BY DEF IInv, InstalledIsRecorded, Paired
  <2>1. ~torn => tree = whole /\ Whole(whole)
    BY DEF InvFor, OneAtATime, Calm, Traced
  <2>2. orderly => ~torn /\ PinsWhatIsThere(whole)
    BY DEF InvFor, InTurnSoFar
  <2> QED BY <2>1, <2>2 DEF Whole
<1> QED BY <1>1, Invariance, PTL

\* Only the end of an apply changes what is in effect.
LEMMA OnlyFinishCounts ==
  ASSUME Next, before' # before
  PROVE  \E d \in Client : Finish(d)
<1>1. PICK d \in Client :
        \/ PlanInstall(d) \/ PlanUpdate(d) \/ Approve(d) \/ Refuse(d)
        \/ AlreadyInstalled(d) \/ Stage(d) \/ Preflight(d) \/ BuildCommit(d)
        \/ PlanUninstall(d) \/ CheckUninstall(d)
        \/ Verify(d) \/ SwapOut(d) \/ SwapIn(d) \/ Finish(d)
        \/ FailApply(d) \/ Unlink(d) \/ Restore(d) \/ RolledBack(d) \/ Exit(d)
  BY DEF Next
<1> QED BY <1>1 DEF PlanInstall, PlanUpdate, Plan, Approve, Refuse, AlreadyInstalled, Stage,
     Preflight, BuildCommit, PlanUninstall, CheckUninstall, Verify, SwapOut, SwapIn, FailApply,
     Unlink, Restore, RolledBack, Exit

(***************************************************************************)
(* An uninstall in turn leaves exactly the tree that its install found, at *)
(* any depth of nesting and with any applies failed and rolled back in     *)
(* between (uninstall_command; the round trip of                           *)
(* tests/commands/test_uninstall.py).                                      *)
(***************************************************************************)
THEOREM UndoneInTurn == Spec => RoundTrip
<1> DEFINE Back(c) ==
      before' # before /\ orderly' /\ pc[c] = "out" /\ command[c].kind = "uninstall"
        => tree' = Last(before).tree
<1>1. ASSUME IInv, Next, NEW c \in Client PROVE Back(c)
  <2> SUFFICES ASSUME before' # before, orderly', pc[c] = "out", command[c].kind = "uninstall"
               PROVE  tree' = Last(before).tree
    OBVIOUS
  <2>1. PICK T : InvFor(T)
    BY <1>1 DEF IInv
  <2>2. PICK d \in Client : Finish(d)
    BY <1>1, OnlyFinishCounts
  <2>3. d = c
    BY <2>1, <2>2, FinishedAlone
  <2>4. Len(before) \in Nat \ {0} /\ tree' = before[Len(before)].tree
    BY <2>1, <2>2, <2>3, UndoneIs DEF Finish
  <2> QED BY <2>1, <2>4, StackIs, EmptySeq DEF Last
<1>2. IInv /\ [Next]_vars => [\A c \in Client : Back(c)]_vars
  BY <1>1
<1> QED BY <1>2, Invariance, PTL DEF Spec, RoundTrip
=============================================================================
