-------------------------- MODULE MCProjectPlanning --------------------------
(***************************************************************************)
(* Four packs with two conflicts, an exception and an override;            *)
(* three blueprints, one of which makes two packs conflict; a machine with *)
(* two skills and a marker, edited into one with a changed skill that now  *)
(* meets two needs, a new one and entries that are broken, unverified or   *)
(* unreadable; live search under an organization policy, or a snapshot     *)
(* without one; sources that hold duplicates, forks, archived and malformed*)
(* records, and fail with a page only, by a limit, all, or for one query.  *)
(***************************************************************************)
EXTENDS ProjectPlanning

MCCapabilities == <<"cross-session-memory", "design", "gates", "scan">>

-----------------------------------------------------------------------------
Is(field, operator, value) == [field |-> field, operator |-> operator, value |-> value]
All(cs)  == [all_of |-> cs, any_of |-> {}, none_of |-> {}]
Need(id, capability, strength) == [id |-> id, capability |-> capability, strength |-> strength]

MCPackOrder == <<"base", "legacy", "prototype", "secure">>
MCPlural    == {"target_platforms"}
MCPacks ==
  [base |->
     [match |-> All({Is("project_name", "exists", TRUE)}),
      requirements |-> {Need("b1", "gates", "required"), Need("b2", "design", "recommended")},
      exceptions |-> {}, conflicts |-> <<>>],
   legacy |->
     [match |-> [All({}) EXCEPT !.any_of = {Is("target_platforms", "contains", "claude")}],
      requirements |-> {Need("l1", "scan", "optional")},
      exceptions |-> {}, conflicts |-> <<[target |-> "secure", resolution |-> "error"]>>],
   prototype |->
     [match |-> [All({Is("lifecycle_stage", "equals", "exploration")})
                   EXCEPT !.none_of = {Is("is_monorepo", "equals", "true")}],
      requirements |-> {Need("p1", "design", "optional")},
      exceptions |-> {}, conflicts |-> <<>>],
   secure |->
     [match |-> All({Is("risk_level", "in", {"high", "critical"})}),
      requirements |-> {Need("s1", "scan", "required"), Need("s2", "design", "required")},
      exceptions |->
        {[when |-> All({Is("lifecycle_stage", "equals", "exploration"),
                        Is("network_access", "equals", "false")}),
          suppress |-> {"s1"}]},
      conflicts |-> <<[target |-> "prototype", resolution |-> "prefer-self"]>>]]

BP(risk, lifecycle, platforms, preferences, constraints, decided, leads, network) ==
  [risk |-> risk, lifecycle |-> lifecycle, platforms |-> platforms,
   preferences |-> preferences, constraints |-> constraints, decided |-> decided,
   leads |-> leads, network |-> network]

None0 == [x \in {} |-> {}]

MCBlueprints ==
  {BP("medium", "active-development", {"codex"}, [x \in {"memory.persistence"} |-> {"yes"}],
      None0, None0, <<>>, "unknown"),
   BP("high", "exploration", {"codex"}, None0, [network_access |-> {"false"}], None0,
      <<"lead">>, "denied"),
   BP("critical", "production", {"claude"}, None0, None0, None0, <<>>, "allowed")}

-----------------------------------------------------------------------------
Entry(adapter, name, at, scope, provides, words, flaws, content) ==
  [adapter |-> adapter, name |-> name, at |-> <<scope, at>>, scope |-> scope,
   provides |-> provides, words |-> words, flaws |-> flaws,
   compat |-> "claude", content |-> content]

Skill(name, scope, provides, flaws, content) ==
  Entry("agent-skill", name, name, scope, provides, {"read", "bash"}, flaws, content)

MCTaxonomy == [n \in 1..9 |-> IF n = 4 THEN {"gates"} ELSE {}]

Tools ==
  {Entry("cli-tool", 4, 4, "system", {}, {"execute-command"}, {"missing"}, 40),
   Entry("codex-plugin", 5, 5, "user", {"scan"}, {}, {}, 50),
   Entry("codex-mcp", 6, 6, "user", {"design"}, {"url"}, {}, 60),
   Entry("codex-hook", 7, 7, "user", {}, {"command", "network"}, {}, 70),
   Entry("agent-skill", 8, 8, "user", {"design"}, {}, {"no-name"}, 80)}

MCDisks ==
  {{Skill(1, "user", {"gates"}, {}, 10), Skill(2, "user", {"design"}, {}, 20),
    Entry("project-marker", 9, 9, "project", {"cross-session-memory"}, {}, {}, 90)},
   {Skill(1, "user", {"gates", "design"}, {}, 13),
    Skill(3, "user", {"scan"}, {"secret-dependency"}, 30)} \cup Tools}

-----------------------------------------------------------------------------
Candidate(ref, name, kind, provides, publisher, tier, level, repo, found, about) ==
  [ref |-> ref, name |-> name, kind |-> kind, provides |-> provides, publisher |-> publisher,
   tier |-> tier, level |-> level, vouched |-> {}, repo |-> repo, words |-> {"execute-command"},
   stars |-> 2, adoption |-> 1, archived |-> FALSE, official |-> tier = "official",
   found |-> found, about |-> about, fork |-> FALSE, malformed |-> FALSE]

MCSources == <<"mcp-registry", "skills.sh", "github", "organization">>
MCCatalogue ==
  ("mcp-registry" :>
     {Candidate(1, 11, "mcp-server", {}, "ann", "official", None, "R1", {"scan", "gates"}, {"scan", "gates"})})
  @@ ("skills.sh" :>
     {Candidate(2, 12, "agent-skill", {}, "bob", "community", None, "R2", {"gates"}, {"gates"}),
      Candidate(3, 13, "agent-skill", {}, "bob", "community", None, "R3", {"design"}, {})})
  @@ ("github" :>
     {[Candidate(4, 14, "cli-tool", {}, "bob", "community", None, "R2", {"gates"}, {"gates"})
         EXCEPT !.archived = TRUE],
      [Candidate(5, 15, "plugin", {}, "cat", "community", None, "R5", {"design"}, {"design"})
         EXCEPT !.fork = TRUE],
      Candidate(6, 16, "cli-tool", {}, "cat", "community", None, "R6", {"scan lead"}, {"scan lead"})})
  @@ ("organization" :>
     {Candidate(7, 11, "cli-tool", {"scan"}, "org", "official", 3, None, {"scan"}, {}),
      Candidate(8, 17, "agent-skill", {"gates"}, "org", "verified", 2, None, {"gates"}, {}),
      [Candidate(9, 18, "plugin", {"scan"}, "org", "official", 4, None, {"scan lead"}, {})
         EXCEPT !.malformed = TRUE]})

MCLeadQuery == [x \in {"cross-session-memory", "design", "gates", "scan"} \X {"lead"} |-> "scan lead"]

Weather(failing, how) ==
  [x \in {"mcp-registry", "skills.sh", "github", "organization"} \X BOOLEAN |->
     IF x[1] \in failing THEN how ELSE "up"]

MCWeathers ==
  {[x \in {"mcp-registry", "skills.sh", "github", "organization"} \X BOOLEAN |->
      CASE x[1] = "skills.sh" -> "page-only" [] x[1] = "github" -> "limited" [] OTHER -> "up"],
   Weather({"mcp-registry", "skills.sh", "github", "organization"}, "unauthorized"),
   [x \in {"mcp-registry", "skills.sh", "github", "organization"} \X BOOLEAN |->
      IF x[2] = (x[1] = "github") THEN "up" ELSE "down"]}

MCDefaults == ("gates" :> <<14, 21>>) @@ ("scan" :> <<11, 22>>)

-----------------------------------------------------------------------------
Strict ==
  [blocked |-> {<<"name", 12>>, <<"skill", 2>>}, approved |-> {},
   permissions |-> Permission \ {"network"}, blockedPublishers |-> {"ann"}, publishers |-> {},
   level |-> 3, mandatory |-> {"secure"}]

NoSnapshotFile == [candidates |-> {}, evidence |-> <<>>]

StoredCandidate ==
  [f \in CandidateFields |->
     Candidate(8, 17, "agent-skill", {"gates"}, "org", "verified", 2, None, {}, {})[f]]

MCWorlds ==
  {[policy |-> Strict, snapshot |-> NoSnapshotFile],
   [policy |-> None, snapshot |->
      [candidates |-> {StoredCandidate},
       evidence |-> (8 :> Evidence({"codex"}, 1, 30, 4, {"network-write"}))]]}

MCRepository == ("module_count" :> {12}) @@ ("is_monorepo" :> {"true"})
MCOverrides  == ("design" :> "optional")
MCSupplies   == {<<>>, ("gates" :> "accept") @@ (Every :> "defer")}
MCAsks       == {<<>>, (1 :> "accept") @@ (8 :> "reject")}
MCBreakable  == {"agent-skill"}
=============================================================================
