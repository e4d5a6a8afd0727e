---------------------------- MODULE AtomicApply ----------------------------
(***************************************************************************)
(* What apply_changeset (materialize/writer.py) promises of the project    *)
(* tree, without its stage and backup directories: from the moment the     *)
(* reviewed digests are being verified until the call ends, the files it   *)
(* is responsible for change in one step, at the end, to what the          *)
(* changeset asks for or not at all.  Files another program writes during  *)
(* the call, after they were verified, are raced: no promise covers them.  *)
(*                                                                         *)
(* Two ends are weaker, and are told apart from the good ones: a rollback  *)
(* that reports its own errors, and a process that dies.  Even then a file *)
(* holds its old content, its new content, or is missing; never a mixture  *)
(* and never somebody else's content.                                      *)
(***************************************************************************)
CONSTANTS Op, Content, Absent

VARIABLES before, after, tree, raced, outcome

Value == Content \cup {Absent}

Changed == {i \in Op : before[i] # after[i]}

Init ==
    /\ before \in [Op -> Value]
    /\ after \in [Op -> Value]
    /\ tree \in [Op -> Value]
    /\ raced = {}
    /\ outcome = "pending"

\* Another program writes (or removes) one of the files.
Edit ==
    /\ outcome = "pending"
    /\ \E i \in Op :
        /\ \E c \in Value : tree' = [tree EXCEPT ![i] = c]
        /\ raced' \in {raced, raced \cup {i}}
    /\ UNCHANGED <<before, after, outcome>>

\* Every file that was not raced held its reviewed content, and now holds its new one.
Apply ==
    /\ outcome = "pending"
    /\ \A i \in Op \ raced : tree[i] = before[i]
    /\ tree' \in [Op -> Value]
    /\ \A i \in Op \ raced : tree'[i] = after[i]
    /\ outcome' = "applied"
    /\ UNCHANGED <<before, after, raced>>

\* The call fails and leaves every file that was not raced as it found it.
Restore ==
    /\ outcome = "pending"
    /\ tree' \in [Op -> Value]
    /\ \A i \in Op \ raced : tree'[i] = tree[i]
    /\ outcome' = "restored"
    /\ UNCHANGED <<before, after, raced>>

Torn ==
    /\ outcome = "pending"
    /\ tree' \in [Op -> Value]
    /\ \A i \in Op \ raced : tree'[i] \in {tree[i], after[i], Absent}
    /\ UNCHANGED <<before, after, raced>>

\* The rollback met errors of its own, and says so.
ReportIncomplete == Torn /\ outcome' = "incomplete"

\* The process dies.
Die == Torn /\ outcome' = "died"

Next == Edit \/ Apply \/ Restore \/ ReportIncomplete \/ Die

vars == <<before, after, tree, raced, outcome>>

Spec == Init /\ [][Next]_vars
=============================================================================
