---------------------------- MODULE LocalResolver ----------------------------
(***************************************************************************)
(* The choice of a provider for every requirement (resolver/local.py): the *)
(* hard limits (resolver/policy.py, policy/org.py), the value in context   *)
(* (recommendation/context.py), the scores (resolver/scoring.py), and for  *)
(* a gap what is recommended to fill it.                                   *)
(***************************************************************************)
EXTENDS PracticePacks, RemoteDiscovery

CONSTANTS
  CodeGraph,   \* the name of a provider that contains "codegraph"
  Defaults     \* capability |-> the defaults for a gap, in order

(***************************************************************************)
(* An organization policy (None when there is no file): approved and       *)
(* blocked capabilities and publishers, an empty set of approved ones      *)
(* approving all; the permissions and the level allowed; mandatory packs.  *)
(* An id is an Identity, or <<"ref", ref>> and <<"name", name>>.           *)
(***************************************************************************)
DefaultPermissions == {"read-project", "write-project", "execute-command"}

Approves(approved, ids) == approved = {} \/ ids \cap approved # {}

Permitted(m, blueprint, policy) ==
  /\ policy # None =>
       /\ Identity(m) \notin policy.blocked
       /\ Approves(policy.approved, {Identity(m)})
       /\ m.permissions \subseteq policy.permissions
  /\ m.permissions \subseteq DefaultPermissions
  /\ m.compat # None => m.compat \in blueprint.platforms

RemotePermitted(c, policy) ==
  policy # None =>
    /\ {<<"ref", c.ref>>, <<"name", c.name>>} \cap policy.blocked = {}
    /\ Approves(policy.approved, {<<"ref", c.ref>>, <<"name", c.name>>})
    /\ c.publisher \notin policy.blockedPublishers
    /\ c.publisher # None => Approves(policy.publishers, {c.publisher})
    /\ (IF c.level = None THEN Blocked ELSE c.level) <= policy.level

-----------------------------------------------------------------------------
(***************************************************************************)
(* The value of a provider that is worth its cost only in some projects.   *)
(***************************************************************************)
Fact(facts, key) == IF key \in DOMAIN facts THEN facts[key] ELSE {}
Count(facts, key) == IF key \in DOMAIN facts THEN CHOOSE n \in facts[key] : TRUE ELSE None

Yes == {"true", "yes", "allow", "allowed"}
No  == {"false", "no", "deny", "denied"}

CodeGraphValue(facts) ==
  LET if(test, points) == IF test THEN points ELSE 0
      modules   == Count(facts, "module_count")
      languages == Count(facts, "language_count")
      changes   == Fact(facts, "cross_module_changes")
  IN  if(Fact(facts, "repository_size") = {"large"} /\ Fact(facts, "is_monorepo") = {"true"}, 6)
        + (IF modules = None THEN 0 ELSE if(modules >= 20, 3) - if(modules < 5, 2))
        + (IF languages = None THEN 0 ELSE if(languages >= 2, 2) - if(languages = 1, 1))
        + if(changes = {"frequent"}, 4) - if(changes = {"rare"}, 1)
        - if(Fact(facts, "local_symbol_index") \cap Yes # {}, 5)

MemoryValue(blueprint) ==
  LET wish == Fact(blueprint.preferences, "memory.persistence")
  IN  IF wish \cap No # {} THEN -20
      ELSE IF blueprint.lifecycle = "exploration" THEN -8
      ELSE IF wish \cap Yes # {} THEN 6 ELSE 0

BrowserValue(blueprint) ==
  LET wish == Fact(blueprint.preferences, "browser.interactive-debugging")
  IN  IF wish \cap Yes # {} THEN 10 ELSE IF wish \cap No # {} THEN -2 ELSE 0

IsCodeGraph(m) == m.name = CodeGraph
IsMemory(m)    == "cross-session-memory" \in m.provides

ContextValue(m, capability, blueprint, facts) ==
  CASE IsCodeGraph(m) -> CodeGraphValue(facts)
    [] ~IsCodeGraph(m) /\ IsMemory(m) -> MemoryValue(blueprint)
    [] ~IsCodeGraph(m) /\ ~IsMemory(m) /\ capability = "browser.validation" /\ m.kind = "mcp" ->
         BrowserValue(blueprint)
    [] OTHER -> 0

Ineligible(m, capability, blueprint, facts) ==
  \/ IsCodeGraph(m) /\ CodeGraphValue(facts) < 6
  \/ IsMemory(m) /\ ~IsCodeGraph(m) /\ MemoryValue(blueprint) <= 0

-----------------------------------------------------------------------------
PermissionCost ==
  ("read-project" :> 1) @@ ("execute-command" :> 3) @@ ("write-project" :> 6)
    @@ ("read-user-config" :> 8) @@ ("network" :> 12)

KindBonus == [cli |-> 2, product |-> 2, skill |-> 1, mcp |-> 0, memory |-> 0, plugin |-> 0, hook |-> -1]

\* The prefixes of identities in alphabetical order.
Kinds == <<"cli", "hook", "mcp", "memory", "plugin", "product", "skill">>

Costs(permissions) == MapThenSumSet(LAMBDA p : PermissionCost[p], permissions)

LocalScore(m) ==
  40 + (IF m.verified THEN 30 ELSE 0) + KindBonus[m.kind] + Max({0, 30 - Costs(m.permissions)})

Wins(m, n, value) ==
  LET prefix(x) == CHOOSE i \in DOMAIN Kinds : Kinds[i] = x.kind
      score(x)  == LocalScore(x) + value[x]
      needs(x)  == Cardinality(x.permissions)
  IN  \/ score(m) > score(n)
      \/ score(m) = score(n) /\ needs(m) < needs(n)
      \/ /\ score(m) = score(n) /\ needs(m) = needs(n)
         /\ prefix(m) < prefix(n) \/ (prefix(m) = prefix(n) /\ m.name <= n.name)

-----------------------------------------------------------------------------
(***************************************************************************)
(* _gap_recommendation: the defaults of the capability, then the remote    *)
(* candidates; a candidate named as a default takes its place, and of two  *)
(* candidates with one name the later in order stands.  A capability       *)
(* without defaults gets no recommendation at all.                         *)
(***************************************************************************)
Default(name) == [source |-> "default", name |-> name, candidate |-> None]
Remote(c)     == [source |-> "remote", name |-> c.name, candidate |-> c]

KindOrder == ("cli-tool" :> 0) @@ ("agent-skill" :> 1) @@ ("plugin" :> 1) @@ ("mcp-server" :> 2)

Preferred(a, b) ==
  LET level(c) == IF c.level = None THEN Blocked ELSE c.level
      key(c)   == 10 * KindOrder[c.kind] + level(c)
  IN  key(a) < key(b) \/ (key(a) = key(b) /\ a.ref < b.ref)

EligibleRemote(requirement, found, suppressed, policy) ==
  {c \in found.candidates : /\ requirement.capability \in c.provides
                            /\ c.ref \notin suppressed
                            /\ RemotePermitted(c, policy)}

Recommended(requirement, blueprint, found, suppressed, policy) ==
  LET capability == requirement.capability
      declined == {c.name : c \in {d \in found.candidates : capability \in d.provides
                                                             /\ d.ref \in suppressed}}
      kept     == SelectSeq(Defaults[capability], LAMBDA n : n \notin declined)
      ranked   == RankMultiSource(EligibleRemote(requirement, found, suppressed, policy),
                                  capability, blueprint, found.evidence)
      ordered  == SetToSortSeq({ranked[i].candidate : i \in DOMAIN ranked}, Preferred)
      names    == {ordered[i].name : i \in DOMAIN ordered}
      ByName(n) == SelectLastInSeq(ordered, LAMBDA c : c.name = n)
  IN  IF capability \notin DOMAIN Defaults THEN <<>>
      ELSE IF found.candidates = {}
      THEN [i \in DOMAIN Defaults[capability] |-> Default(Defaults[capability][i])]
      ELSE [i \in DOMAIN kept |->
              IF kept[i] \in names THEN Remote(ordered[ByName(kept[i])]) ELSE Default(kept[i])]
             \o [i \in DOMAIN SelectSeq(ordered, LAMBDA c : c.name \notin ToSet(kept)) |->
                   Remote(SelectSeq(ordered, LAMBDA c : c.name \notin ToSet(kept))[i])]

(***************************************************************************)
(* _resolve_requirement and resolve_local_capabilities.  A resolution has  *)
(* the provider selected (a set of at most one), those rejected and those  *)
(* deferred; without a selection the requirement is a gap, unless all its  *)
(* providers are deferred.                                                 *)
(***************************************************************************)
ResolveRequirement(requirement, inventory, blueprint, facts, found, suppressed, policy) ==
  LET capability == requirement.capability
      matching   == {m \in inventory.capabilities : capability \in m.provides}
      permitted  == {m \in matching : Permitted(m, blueprint, policy)}
      ineligible == {m \in permitted : Ineligible(m, capability, blueprint, facts)}
      eligible   == permitted \ ineligible
      deferred   == {m \in ineligible : IsMemory(m)}
      value      == [m \in eligible |-> ContextValue(m, capability, blueprint, facts)]
      best       == {m \in eligible : \A n \in eligible : Wins(m, n, value)}
      gap        == eligible = {} /\ (matching = {} \/ matching # deferred)
  IN  [requirement |-> requirement, selected |-> best, deferred |-> deferred,
       rejected |-> matching \ (best \cup deferred), gap |-> gap,
       offers |-> IF gap THEN Recommended(requirement, blueprint, found, suppressed, policy)
                  ELSE <<>>]

ResolveLocal(requirements, inventory, blueprint, facts, found, suppressed, policy) ==
  LET mandatory == IF policy = None THEN {} ELSE policy.mandatory
  IN  {ResolveRequirement(r, inventory, blueprint, facts, found, suppressed, policy) :
         r \in WithMandatory(requirements, mandatory)}
=============================================================================
