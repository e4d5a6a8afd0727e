------------------------------ MODULE Inventory ------------------------------
(***************************************************************************)
(* What a scan makes of the capabilities on a machine: the adapters of     *)
(* inventory/adapters, which turn a file or a configuration entry into a   *)
(* manifest, and InventoryService.scan (inventory/service.py), which       *)
(* contains their failures and settles two manifests with one identity.    *)
(*                                                                         *)
(* An entry is what a locator holds:                                       *)
(*   adapter, name, at (the locator), scope;                               *)
(*   provides   the abstract capabilities it declares;                     *)
(*   words      the tools or permissions it declares;                      *)
(*   flaws      what is wrong with it;                                     *)
(*   compat     the platform it is declared for, or None;                  *)
(*   content    its bytes: entries with one content have one digest.       *)
(* A name is a number, its place in the alphabet.  A description, which    *)
(* stands in for missing capabilities, is never the name of one.           *)
(***************************************************************************)
EXTENDS Naturals, FiniteSets, TLC

CONSTANTS
  None,          \* no value
  Taxonomy,      \* the capabilities known for the name of a provider
  Generated      \* names of the skills that vibe itself writes

Permission ==
  {"read-project", "write-project", "execute-command", "read-user-config", "network"}

(***************************************************************************)
(* A manifest.  The identity capability_id is the kind's prefix and name.  *)
(***************************************************************************)
Manifest(e, kind, provides, permissions, verified) ==
  [kind |-> kind, name |-> e.name, scope |-> e.scope, at |-> e.at, adapter |-> e.adapter,
   provides |-> provides, permissions |-> permissions, verified |-> verified,
   compat |-> IF e.adapter = "codex-plugin" THEN e.compat ELSE None, content |-> e.content]

Identity(m) == <<m.kind, m.name>>

Known(e) == IF e.provides # {} THEN e.provides ELSE Taxonomy[e.name]

\* What the adapters discover.
Adapters == {"agent-skill", "cli-tool", "codex-hook", "codex-mcp", "codex-plugin", "project-marker"}

IsEntry(e) ==
  /\ DOMAIN e = {"adapter", "name", "at", "scope", "provides", "words", "flaws", "compat", "content"}
  /\ e.adapter \in Adapters

-----------------------------------------------------------------------------
(***************************************************************************)
(* The scan of an entry by its adapter: the set of its manifest, empty     *)
(* when the scan raises.                                                   *)
(*                                                                         *)
(* A skill without readable frontmatter, name and description raises; a    *)
(* problem of its metadata, of a file it links to, of its directory or of  *)
(* a tool it requires leaves it unverified.                                *)
(***************************************************************************)
SkillFatal == {"unreadable", "no-frontmatter", "no-name", "no-description"}

MetadataProblem == {"symlink-metadata", "invalid-metadata"}

DependencyProblem ==
  {"secret-dependency", "symlink-dependency", "outside-dependency", "missing-dependency",
   "unreadable-dependency", "undecodable-dependency"}

SkillProblem == {"other-directory", "missing-tool"} \cup MetadataProblem \cup DependencyProblem

ToolPermission ==
  [t \in {"read", "grep", "glob"} |-> "read-project"] @@
  [t \in {"write", "edit"} |-> "write-project"] @@
  [t \in {"bash", "shell", "powershell", "cmd"} |-> "execute-command"] @@
  [t \in {"webfetch", "websearch", "network"} |-> "network"]

AgentSkill(e) ==
  IF e.flaws \cap SkillFatal # {} THEN {}
  ELSE {Manifest(e, "skill", e.provides,
                 {ToolPermission[t] : t \in e.words \cap DOMAIN ToolPermission},
                 e.flaws \cap SkillProblem = {})}

(***************************************************************************)
(* skill_bundle_files reads a skill again and refuses an unverified one.   *)
(***************************************************************************)
Bundle(e) == {m.content : m \in {n \in AgentSkill(e) : n.verified}}

(***************************************************************************)
(* A configured command line tool is always reported; a missing executable *)
(* or a probe without a version leaves it unverified.                      *)
(***************************************************************************)
CliTool(e) == {Manifest(e, "cli", Known(e), e.words \cap Permission, e.flaws = {})}

(***************************************************************************)
(* A hook's capabilities are its triggers, none of which is required by    *)
(* name.  It is unverified when malformed or over broad.                   *)
(***************************************************************************)
OverBroad == {"network", "write-project"}

CodexHook(e) ==
  LET permissions == (e.words \cap Permission)
                       \cup {"execute-command" : c \in e.words \cap {"command"}}
  IN  IF e.flaws \cap {"unreadable", "no-hooks", "no-plugin"} # {} THEN {}
      ELSE {Manifest(e, "hook", {}, permissions,
                     "malformed" \notin e.flaws /\ permissions \cap OverBroad = {})}

(***************************************************************************)
(* An MCP server of the Codex configuration runs a command or has a url.   *)
(***************************************************************************)
CodexMcp(e) ==
  IF "not-a-table" \in e.flaws THEN {}
  ELSE {Manifest(e, "mcp", Known(e),
                 IF "command" \in e.words THEN {"execute-command"}
                 ELSE IF "url" \in e.words THEN {"network"} ELSE {},
                 IF "command" \in e.words THEN "missing-command" \notin e.flaws
                 ELSE "url" \in e.words)}

CodexPlugin(e) ==
  IF e.flaws \cap {"unreadable", "no-name", "no-description"} # {} THEN {}
  ELSE {Manifest(e, "plugin", e.provides, {}, "missing-hook" \notin e.flaws)}

(***************************************************************************)
(* _ProjectMarkerAdapter: the two marker files of the project root.        *)
(***************************************************************************)
ProjectMarker(e) ==
  IF "unreadable" \in e.flaws THEN {}
  ELSE {Manifest(e, IF "cross-session-memory" \in e.provides THEN "memory" ELSE "product",
                 e.provides, {"read-project"}, TRUE)}

Scanned(e) ==
  CASE e.adapter = "agent-skill"    -> AgentSkill(e)
    [] e.adapter = "cli-tool"       -> CliTool(e)
    [] e.adapter = "codex-hook"     -> CodexHook(e)
    [] e.adapter = "codex-mcp"      -> CodexMcp(e)
    [] e.adapter = "codex-plugin"   -> CodexPlugin(e)
    [] e.adapter = "project-marker" -> ProjectMarker(e)

(***************************************************************************)
(* _project_inventory and the discover methods: the skills vibe writes are *)
(* left out; command line tools and MCP servers are looked at only when    *)
(* the user has a Codex configuration.                                     *)
(***************************************************************************)
Discovered(disk, configured) ==
  {e \in disk :
     /\ e.adapter = "agent-skill" => e.name \notin Generated
     /\ e.adapter \in {"cli-tool", "codex-mcp"} => configured}

-----------------------------------------------------------------------------
(***************************************************************************)
(* InventoryService.scan.  Manifests with one identity are accepted only   *)
(* when a single project copy shadows user copies that do the same.        *)
(***************************************************************************)
\* (mutant) Copies in different scopes are different.
FunctionalInScope(m) == m
Functional(m) ==
  [kind |-> m.kind, name |-> m.name, provides |-> m.provides,
   permissions |-> m.permissions, verified |-> m.verified, content |-> m.content]

\* (mutant) The project copy always wins, whatever the others contain.
ShadowByScope(candidates) ==
  LET project == {m \in candidates : m.scope = "project"}
  IN  IF Cardinality(project) = 1 /\ \E m \in candidates : m.scope = "user"
      THEN project ELSE {}
IdenticalProjectShadow(candidates) ==
  LET project == {m \in candidates : m.scope = "project"}
  IN  IF /\ Cardinality(project) = 1
         /\ \E m \in candidates : m.scope = "user"
         /\ Cardinality({Functional(m) : m \in candidates}) = 1
      THEN project ELSE {}

Accepted(candidates) ==
  IF Cardinality(candidates) = 1 THEN candidates ELSE IdenticalProjectShadow(candidates)

Failure(code, about) == [code |-> code, about |-> about]

(***************************************************************************)
(* broken: the adapters whose discover raises.                             *)
(***************************************************************************)
Scan(disk, broken) ==
  LET found     == {e \in disk : e.adapter \notin broken}
      results   == [e \in found |-> Scanned(e)]
      manifests == UNION {results[e] : e \in found}
      groups    == {{m \in manifests : Identity(m) = i} : i \in {Identity(m) : m \in manifests}}
  IN  [capabilities |-> UNION {Accepted(g) : g \in groups},
       diagnostics  |->
         {Failure("adapter_discovery_failed", <<a>>) : a \in broken}
           \cup {Failure("adapter_scan_failed", e.at) : e \in {f \in found : results[f] = {}}}
           \cup {Failure("duplicate_capability_id", Identity(CHOOSE m \in g : TRUE)) :
                   g \in {h \in groups : Accepted(h) = {}}}]
=============================================================================
