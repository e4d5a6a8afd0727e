---------------------------- MODULE MCTaskRunner ----------------------------
(***************************************************************************)
(* The task can be classified as a small bug fix, a feature or a sensitive *)
(* change, which gives a fast, a standard and a rigorous plan; the inputs  *)
(* of the context have two versions.                                       *)
(***************************************************************************)
EXTENDS TaskRunner

Signals(scenario, data, operations) ==
  [scenario |-> scenario, scope |-> "local", data |-> data,
   reversibility |-> "reversible", operations |-> operations]

MCPlans ==
  {PhaseIds(Validated(Classify(s), Low)) :
     s \in {Signals("exploration", "public", {"read-project"}),
            Signals("feature", "internal", {"write-project"}),
            Signals("security", "sensitive", {"modify-security"})}}
=============================================================================
