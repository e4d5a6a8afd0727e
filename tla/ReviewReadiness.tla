--------------------------- MODULE ReviewReadiness ---------------------------
(***************************************************************************)
(* When a plan may go to review (recommendation/readiness.py) and which    *)
(* decisions of the user count for that (commands/init.py).                *)
(*                                                                         *)
(* Decisions are a function from requirements, and Every for all of them, to *)
(* what was decided.  Remote decisions go by the reference of a candidate. *)
(***************************************************************************)
EXTENDS Naturals, FiniteSets

CONSTANT Every   \* the requirement "*"

Decision == {"accept", "reject", "defer"}

\* {**g, **f}
Over(f, g) == [x \in DOMAIN f \cup DOMAIN g |-> IF x \in DOMAIN f THEN f[x] ELSE g[x]]

(***************************************************************************)
(* The decisions in force: those of this call over those of the project.   *)
(***************************************************************************)
Effective(saved, asked) == Over(asked, saved)

(***************************************************************************)
(* _requirement_candidate_decisions.  A decision on a candidate is one on  *)
(* every requirement it provides, over what was said of the requirement;   *)
(* of two candidates the later decision stands, one of this call being     *)
(* later than one the project has.                                         *)
(***************************************************************************)
Later(asked, ref1, ref2) ==
  IF (ref1 \in DOMAIN asked) = (ref2 \in DOMAIN asked) THEN ref1 >= ref2
  ELSE ref1 \in DOMAIN asked

CandidateDecisions(decided, asked, saved, candidates) ==
  LET effective == Effective(saved, asked)
      provided  == UNION {c.provides : c \in candidates}
      refs(r)   == {c.ref : c \in {d \in candidates : r \in d.provides}} \cap DOMAIN effective
      lastOf(r) == CHOOSE ref \in refs(r) : \A other \in refs(r) :
                     Later([x \in DOMAIN asked \ DOMAIN saved |-> 0], ref, other)
      remote    == [r \in {p \in provided : refs(p) # {}} |-> effective[lastOf(r)]]
      default   == [r \in {p \in provided : Every \in DOMAIN decided} |-> decided[Every]]
  IN  Over(remote, Over(decided, default))

(***************************************************************************)
(* evaluate_review_readiness.                                              *)
(***************************************************************************)
Readiness(ready, next, blocking) == [ready |-> ready, next |-> next, blocking |-> blocking]

\* (mutant) A requirement nobody spoke of counts as deferred.
DeferredByDefault(decisions, r) ==
  IF r \in DOMAIN decisions THEN decisions[r]
  ELSE IF Every \in DOMAIN decisions THEN decisions[Every] ELSE "defer"
DecisionFor(decisions, r) ==
  IF r \in DOMAIN decisions THEN decisions[r]
  ELSE IF Every \in DOMAIN decisions THEN decisions[Every] ELSE "none"

Evaluated(required, recommended, status, decisions, unknown) ==
  LET for(r)       == DecisionFor(decisions, r)
      gaps         == required \cup recommended
      is(r, s)     == r \in DOMAIN status /\ status[r] = s
      unresolved   == {r \in required : for(r) \notin Decision}
      notRequested == {r \in gaps : is(r, "not-requested") /\ for(r) \notin {"reject", "defer"}}
      undecided    == {r \in gaps : is(r, "candidates-found") /\ for(r) \notin Decision}
  IN  CASE unresolved \cup notRequested # {} ->
             Readiness(FALSE, "request-discovery-decision", unresolved \cup notRequested)
        [] unresolved \cup notRequested = {} /\ undecided # {} ->
             Readiness(FALSE, "request-candidate-decision", undecided)
        [] unresolved \cup notRequested = {} /\ undecided = {} ->
             Readiness(~unknown, IF unknown THEN "request-permission-decision"
                                 ELSE "review-installation", {})

(***************************************************************************)
(* _review_readiness.  requirements are those of the packs and markers:    *)
(* a gap they do not know, one of a mandatory pack, counts as recommended. *)
(* The network policy matters once a candidate is accepted.  A candidate   *)
(* that several reports have counts as the last of them has it, which is   *)
(* how candidates has it.                                                  *)
(***************************************************************************)
ReviewReady(requirements, gaps, reports, candidates, blueprint, asked, saved, supplied) ==
  LET decisions == Over(supplied, CandidateDecisions(blueprint.decided, asked, saved, candidates))
      required  == {r \in gaps : \E q \in requirements : q.capability = r /\ q.strength = "required"}
      accepting == \E r \in gaps : DecisionFor(decisions, r) = "accept"
  IN  Evaluated(required, gaps \ required, [r \in DOMAIN reports |-> reports[r].status],
                decisions, blueprint.network = "unknown" /\ accepting)
=============================================================================
