---------------------------- MODULE PracticePacks ----------------------------
(***************************************************************************)
(* What a project needs: the practice packs (practices/), evaluated over   *)
(* the facts of a project, with the confirmed calibrations and the packs   *)
(* that an organization makes mandatory.                                   *)
(*                                                                         *)
(* A fact is the set of words of its value; the value of a field of        *)
(* Plural is a list, and no string equals it.                              *)
(***************************************************************************)
EXTENDS Naturals, Sequences, FiniteSets, SequencesExt, FiniteSetsExt

CONSTANTS
  Packs,       \* pack id |-> [match, requirements, exceptions, conflicts]
  PackOrder,   \* the pack ids in alphabetical order
  Plural       \* the fields that hold a list

PackIds == ToSet(PackOrder)

Strength == <<"optional", "recommended", "required">>
Rank(s) == CHOOSE i \in DOMAIN Strength : Strength[i] = s
Strongest(ss) == Strength[Max({Rank(s) : s \in ss})]

(***************************************************************************)
(* Every requirement that an exception suppresses is one of its pack, and  *)
(* requirement ids are unique in a pack.                                   *)
(***************************************************************************)
PackIsValid(p) ==
  /\ \A r1, r2 \in p.requirements : r1.id = r2.id => r1 = r2
  /\ \A x \in p.exceptions : x.suppress \subseteq {r.id : r \in p.requirements}

ASSUME PacksAreValid == DOMAIN Packs = PackIds /\ \A p \in PackIds : PackIsValid(Packs[p])

-----------------------------------------------------------------------------
ConditionMatches(c, facts) ==
  LET present == c.field \in DOMAIN facts
      single  == c.field \notin Plural
  IN  CASE c.operator = "exists"   -> present = c.value
        [] c.operator = "equals"   -> present /\ single /\ facts[c.field] = {c.value}
        [] c.operator = "contains" -> present /\ c.value \in facts[c.field]
        [] c.operator = "in"       -> present /\ single
                                      /\ \E v \in c.value : facts[c.field] = {v}

Matches(rule, facts) ==
  /\ \A c \in rule.all_of : ConditionMatches(c, facts)
  /\ rule.any_of # {} => \E c \in rule.any_of : ConditionMatches(c, facts)
  /\ \A c \in rule.none_of : ~ConditionMatches(c, facts)

(***************************************************************************)
(* _project_facts: constraints over preferences over the fields of the     *)
(* blueprint; what the repository shows only fills in.                     *)
(***************************************************************************)
ProjectFacts(blueprint, repository) ==
  blueprint.constraints @@ blueprint.preferences
    @@ [lifecycle_stage |-> {blueprint.lifecycle}, risk_level |-> {blueprint.risk},
        target_platforms |-> blueprint.platforms, project_name |-> {"project"}]
    @@ repository

(***************************************************************************)
(* _with_scale_facts replaces what the inspection said of the size.        *)
(***************************************************************************)
ScaleFacts(repository, manifests, workspaces) ==
  LET monorepo == workspaces \/ manifests >= 3
  IN  [is_monorepo     |-> {IF monorepo THEN "true" ELSE "false"},
       repository_size |-> {IF monorepo /\ manifests >= 3 THEN "large" ELSE "small"}] @@ repository

-----------------------------------------------------------------------------
(***************************************************************************)
(* _apply_pack_conflicts: the directives of the applicable packs, by pack  *)
(* id; a directive between packs of which one is gone does nothing.        *)
(***************************************************************************)
Conflict == "conflict"

Directives(applicable) ==
  FlattenSeq([i \in DOMAIN PackOrder |->
    IF PackOrder[i] \in applicable
    THEN [j \in DOMAIN Packs[PackOrder[i]].conflicts |->
            [source |-> PackOrder[i]] @@ Packs[PackOrder[i]].conflicts[j]]
    ELSE <<>>])

ApplyConflicts(applicable) ==
  LET Settle(selected, d) ==
        IF Conflict \in selected \/ {d.source, d.target} \ selected # {} THEN selected
        ELSE CASE d.resolution = "error"        -> {Conflict}
               [] d.resolution = "prefer-self"  -> selected \ {d.target}
               [] d.resolution = "prefer-other" -> selected \ {d.source}
  IN  FoldLeft(Settle, applicable, Directives(applicable))

Contributions(p, facts) ==
  LET suppressed == UNION {x.suppress : x \in {y \in Packs[p].exceptions : Matches(y.when, facts)}}
  IN  {r \in Packs[p].requirements : r.id \notin suppressed}

Requirement(capability, strength, packs) ==
  [capability |-> capability, strength |-> strength, packs |-> packs]

(***************************************************************************)
(* evaluate_practice_packs: the set of its requirements, empty when it     *)
(* raises because two packs conflict and no resolution is declared.        *)
(* overrides are the confirmed calibrations (load_confirmed_overrides):    *)
(* capability |-> strength, whatever the packs say.                        *)
(***************************************************************************)
Merge(capability, contributed, overrides) ==
  Requirement(capability,
              IF capability \in DOMAIN overrides THEN overrides[capability]
              ELSE Strongest({c[2].strength : c \in contributed}),
              {c[1] : c \in contributed})

Evaluate(facts, overrides) ==
  LET selected    == ApplyConflicts({p \in PackIds : Matches(Packs[p].match, facts)})
      contributed == UNION {{<<p, r>> : r \in Contributions(p, facts)} : p \in selected \cap PackIds}
      Of(c)       == {x \in contributed : x[2].capability = c}
  IN  IF Conflict \in selected THEN {}
      ELSE {{Merge(c, Of(c), overrides) : c \in {x[2].capability : x \in contributed}}}

-----------------------------------------------------------------------------
(***************************************************************************)
(* _marker_requirements: what a marker file of the project shows it uses.  *)
(***************************************************************************)
Discoverable == {"analysis.code-relationships", "cross-session-memory"}

MarkerRequirements(inventory) ==
  LET shown == UNION {m.provides : m \in {n \in inventory.capabilities : n.adapter = "project-marker"}}
  IN  {Requirement(c, "recommended", {"project-local-discovery"}) : c \in shown \cap Discoverable}

(***************************************************************************)
(* _with_mandatory_practice_packs: every requirement of a mandatory pack,  *)
(* whatever the project matches, excepts or overrides; the stronger of two *)
(* strengths stays.                                                        *)
(***************************************************************************)
WithMandatory(requirements, mandatory) ==
  LET all   == requirements \cup UNION {{Requirement(r.capability, r.strength, {p}) :
                                          r \in Packs[p].requirements} : p \in mandatory}
      Of(c) == {r \in all : r.capability = c}
  IN  {Requirement(c, Strongest({r.strength : r \in Of(c)}), UNION {r.packs : r \in Of(c)}) :
         c \in {r.capability : r \in all}}
=============================================================================
