---------------------------- MODULE RemoteRanking ----------------------------
(***************************************************************************)
(* Remote candidates: the hard limits they pass and the scores that order  *)
(* them (remote/scoring.py, remote/models.py).                             *)
(*                                                                         *)
(* A candidate is [ref, name, kind, provides, publisher, tier, level,      *)
(* vouched, repo, words, stars, adoption, archived, official]:             *)
(*   level    the permission level of its provenance, None without one;    *)
(*   vouched  what that provenance verifies: "publisher", "digest";        *)
(*   words    the permissions it declares;                                 *)
(*   repo     the repository that identifies it over the sources, or None. *)
(* A ref and a name are numbers, their places in the alphabet.             *)
(***************************************************************************)
EXTENDS Inventory, Integers, Sequences, SequencesExt, FiniteSetsExt

Risks  == {"low", "medium", "high", "critical"}
Levels == 0..4
Blocked == 4

PermissionCeiling == [low |-> 1, medium |-> 2, high |-> 3, critical |-> 3]

SourceTrust ==
  [official |-> 60, verified |-> 50, community |-> 30, general_search |-> 10]

(***************************************************************************)
(* Without provenance no limit is applied to a candidate.                  *)
(***************************************************************************)
Evidence(platforms, facts, maintenance, adoption, flags) ==
  [platforms |-> platforms, facts |-> facts, maintenance |-> maintenance,
   adoption |-> adoption, flags |-> flags]

NoEvidence == Evidence({}, 0, 0, 0, {})

EvidenceOf(c, evidence) == IF c.ref \in DOMAIN evidence THEN evidence[c.ref] ELSE NoEvidence

WithinLimits(c, ev, blueprint) ==
  /\ ev.platforms # {} => ev.platforms \cap blueprint.platforms # {}
  /\ c.level # None => c.level # Blocked /\ c.level <= PermissionCeiling[blueprint.risk]

-----------------------------------------------------------------------------
(***************************************************************************)
(* The scores, and a total in integers: round (half to even) of a weighted *)
(* mean in hundredths.  Popularity is 20 log10(n + 1), rounded; the bound  *)
(* on n is the domain of its table.                                        *)
(***************************************************************************)
Popularity == <<6, 10, 12, 14, 16, 17, 18, 19, 20>>

RiskWeights ==
  { <<25, {"execute-command", "command-execution"}>>, <<30, {"credentials", "credential-access"}>>,
    <<25, {"network-write", "external-write"}>>, <<20, {"hook-installation", "install-hook"}>> }

Fit(c, ev, requirement) ==
  (IF requirement \in c.provides THEN 70 ELSE 0) + (IF ev.platforms # {} THEN 10 ELSE 0)
    + Min({20, 5 * ev.facts})

Trust(c, ev) ==
  SourceTrust[c.tier] + (IF "publisher" \in c.vouched THEN 20 ELSE 0)
    + (IF "digest" \in c.vouched THEN 10 ELSE 0) + Min({10, ev.maintenance \div 10})

Risk(c, ev) ==
  LET hit == {w \in RiskWeights : w[2] \cap (c.words \cup ev.flags) # {}}
  IN  MapThenSumSet(LAMBDA w : w[1], hit)

RoundHundredths(n) ==
  LET q == n \div 100
      r == n % 100
  IN  IF r > 50 \/ (r = 50 /\ q % 2 = 1) THEN q + 1 ELSE q

Ranked(c, ev, requirement) ==
  LET fit     == Fit(c, ev, requirement)
      trust   == Trust(c, ev)
      risk    == Risk(c, ev)
      raw     == Max({c.stars + c.adoption, ev.adoption})
      popular == IF raw = 0 THEN 0 ELSE Popularity[raw]
  IN  [candidate |-> c, fit |-> fit, trust |-> trust, risk |-> risk,
       total |-> RoundHundredths(35 * fit + 25 * trust + 20 * (100 - risk)
                                   + 10 * Min({100, ev.maintenance}) + 10 * popular)]

Outranks(a, b) ==
  LET before(x, y, rest) == x > y \/ (x = y /\ rest)
  IN  before(a.total, b.total,
        before(a.fit, b.fit,
          before(a.trust, b.trust,
            before(-a.risk, -b.risk, a.candidate.ref <= b.candidate.ref))))

(***************************************************************************)
(* rank_multi_source_candidates.                                           *)
(***************************************************************************)
RankMultiSource(candidates, requirement, blueprint, evidence) ==
  LET eligible == {c \in candidates : WithinLimits(c, EvidenceOf(c, evidence), blueprint)}
  IN  SetToSortSeq({Ranked(c, EvidenceOf(c, evidence), requirement) : c \in eligible}, Outranks)
=============================================================================
