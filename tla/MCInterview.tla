---------------------------- MODULE MCInterview ----------------------------
(***************************************************************************)
(* Two invocations share an interview of three questions: one of no field *)
(* and no permission, one of a permission, and one of a field, with a      *)
(* recommended default.  One more permission has no question here, and one *)
(* decision can have none; the model decides everything alike.  A text     *)
(* grants or it hedges (it denies and allows at once).                     *)
(***************************************************************************)
EXTENDS Interview, TLC

MCReading ==
  [t \in Text |-> [uncertain |-> FALSE, denied |-> t = "hedge", allowed |-> TRUE]]
MCTyped == [q \in Question |-> IF q = 2 THEN Text ELSE {"grant"}]
MCDefault == [q \in Question |-> IF q = 3 THEN "grant" ELSE None]
MCJudgement == {[d \in Decisions |-> g] : g \in Tri}

Symmetry == Permutations(Process)
=============================================================================
