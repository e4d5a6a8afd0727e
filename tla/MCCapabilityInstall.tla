------------------------ MODULE MCCapabilityInstall ------------------------
(***************************************************************************)
(* Installs and uninstalls of two capabilities.  The state space of all    *)
(* that can go wrong together is too large; each behaviour keeps to one    *)
(* scope, which Init chooses:                                              *)
(*   - Alone: one command after the other, two versions and updates, with  *)
(*     calls of an apply that fail or are killed;                          *)
(*   - Overlapping: two commands at a time, none failing;                  *)
(*   - Tearing: two commands at a time, one apply of an install, and calls *)
(*     that fail or are killed.                                            *)
(* A scope only takes steps away from Next: it bounds what a new command   *)
(* may be, how many commands are under way, and the two counters.          *)
(* Clients are interchangeable, and so are capabilities.                   *)
(***************************************************************************)
EXTENDS CapabilityInstall, TLC

VARIABLE scope

Alone       == [overlap |-> FALSE, version |-> 2, commits |-> 3, faults |-> 1]
Overlapping == [overlap |-> TRUE,  version |-> 1, commits |-> 2, faults |-> 0]
Tearing     == [overlap |-> TRUE,  version |-> 1, commits |-> 1, faults |-> 2]

MCInit == Init /\ scope \in {Alone, Overlapping, Tearing}

Starts(c) == pc[c] = "idle" /\ pc'[c] # "idle"

InScope ==
  /\ commits' <= scope.commits /\ faults' <= scope.faults
  /\ \A c \in Client : Starts(c) =>
       /\ scope.overlap \/ Others(c) = {}
       /\ command'[c].kind # "uninstall" =>
            commits < scope.commits /\ command'[c].version <= scope.version

MCNext == Next /\ InScope /\ UNCHANGED scope

MCSpec == MCInit /\ [][MCNext]_<<vars, scope>>

Symmetry == Permutations(Client) \cup Permutations(Cap)
=============================================================================
