------------------------- MODULE InitCommandProofs -------------------------
(***************************************************************************)
(* Proofs about commands/init.py, for any values of the constants: about   *)
(* what its calls decide (ProjectPlanning) and about the run they share    *)
(* (InitCommand).                                                          *)
(*                                                                         *)
(* ProjectPlanning.  The plan in hand is always made from the scan of its  *)
(* call and from the blueprint as it now stands, so that what is said of   *)
(* every plan holds after any search and revision.  A skill that is bound  *)
(* was alone with its identity in that scan; the copy therefore shadows it *)
(* and nothing else, and the inventory after binding mirrors the one       *)
(* before: each has the like of every manifest of the other, and no part of*)
(* the resolver tells like manifests apart.                                *)
(*                                                                         *)
(* InitCommand.  The row moves one stage at a time and never back, and     *)
(* APPLY is stored before anything is built, so that one invocation at most*)
(* is ever past it, however many there are.  What an invocation that works *)
(* alone holds in its local variables is what the row says; that is where  *)
(* two invocations that overlap part from it, and so the last two theorems *)
(* are about the others.                                                   *)
(***************************************************************************)
EXTENDS InitCommand, ProjectPlanning, FiniteSetTheorems, TLAPS

-----------------------------------------------------------------------------
(***************************************************************************)
(* The manifests that the scans of the working adapters return.            *)
(***************************************************************************)
ManifestsOf(S, broken) == UNION {Scanned(e) : e \in {f \in S : f.adapter \notin broken}}

(***************************************************************************)
(* Those with the identity of one of them.                                 *)
(***************************************************************************)
Twins(x, M) == {m \in M : Identity(m) = Identity(x)}

(***************************************************************************)
(* A finite set of entries.                                                *)
(***************************************************************************)
Real(S) == IsFiniteSet(S) /\ \A e \in S : IsEntry(e)

(***************************************************************************)
(* What every adapter copies from an entry into its manifest.              *)
(***************************************************************************)
IsManifestOf(m, e) ==
  /\ DOMAIN m = {"kind", "name", "scope", "at", "adapter", "provides", "permissions", "verified",
                 "compat", "content"}
  /\ m.name = e.name /\ m.scope = e.scope /\ m.at = e.at /\ m.adapter = e.adapter
  /\ m.content = e.content

(***************************************************************************)
(* Manifest does so, whatever kind, capabilities and permissions it is     *)
(* given.                                                                  *)
(***************************************************************************)
LEMMA ManifestIs ==
  ASSUME NEW e, NEW kind, NEW provides, NEW permissions, NEW verified
  PROVE  IsManifestOf(Manifest(e, kind, provides, permissions, verified), e)
BY DEF IsManifestOf, Manifest

(***************************************************************************)
(* The scan of an entry returns one manifest, of that entry, or raises:    *)
(* every adapter under inventory/adapters.                                 *)
(***************************************************************************)
LEMMA OneManifest ==
  ASSUME NEW e, IsEntry(e)
  PROVE  /\ \A m \in Scanned(e) : IsManifestOf(m, e)
         /\ Scanned(e) = {} \/ \E m : Scanned(e) = {m}
<1>1. CASE e.adapter = "agent-skill"
  <2>1. Scanned(e) = AgentSkill(e)
    BY <1>1 DEF Scanned
  <2> QED BY <2>1, ManifestIs DEF AgentSkill
<1>2. CASE e.adapter = "cli-tool"
  <2>1. Scanned(e) = CliTool(e)
    BY <1>2 DEF Scanned
  <2> QED BY <2>1, ManifestIs DEF CliTool
<1>3. CASE e.adapter = "codex-hook"
  <2> DEFINE needs == (e.words \cap Permission)
                        \cup {"execute-command" : c \in e.words \cap {"command"}}
             sound == "malformed" \notin e.flaws /\ needs \cap OverBroad = {}
             it    == Manifest(e, "hook", {}, needs, sound)
  <2>1. Scanned(e) = CodexHook(e)
    BY <1>3 DEF Scanned
  <2>2. CodexHook(e) = {} \/ CodexHook(e) = {it}
    BY Zenon DEF CodexHook
  <2>3. IsManifestOf(it, e)
    BY ManifestIs
  <2> HIDE DEF it
  <2> QED BY <2>1, <2>2, <2>3
<1>4. CASE e.adapter = "codex-mcp"
  <2>1. Scanned(e) = CodexMcp(e)
    BY <1>4 DEF Scanned
  <2> QED BY <2>1, ManifestIs DEF CodexMcp
<1>5. CASE e.adapter = "codex-plugin"
  <2>1. Scanned(e) = CodexPlugin(e)
    BY <1>5 DEF Scanned
  <2> QED BY <2>1, ManifestIs DEF CodexPlugin
<1>6. CASE e.adapter = "project-marker"
  <2>1. Scanned(e) = ProjectMarker(e)
    BY <1>6 DEF Scanned
  <2> QED BY <2>1, ManifestIs DEF ProjectMarker
<1> QED BY <1>1, <1>2, <1>3, <1>4, <1>5, <1>6 DEF IsEntry, Adapters

(***************************************************************************)
(* A scan of finitely many entries returns finitely many manifests.        *)
(***************************************************************************)
LEMMA FiniteManifests ==
  ASSUME NEW S, Real(S), NEW broken
  PROVE  IsFiniteSet(ManifestsOf(S, broken))
<1> DEFINE F == {f \in S : f.adapter \notin broken}
           R == {Scanned(e) : e \in F}
           g == [e \in F |-> Scanned(e)]
<1>1. IsFiniteSet(F)
  <2>1. F \in SUBSET S  OBVIOUS
  <2> QED BY <2>1, FS_Subset DEF Real
<1>2. g \in Surjection(F, R)
  BY DEF Surjection
<1>3. IsFiniteSet(R)
  BY <1>1, <1>2, FS_Surjection
<1>4. \A T \in R : IsFiniteSet(T)
  <2> SUFFICES ASSUME NEW e \in F PROVE IsFiniteSet(Scanned(e))  OBVIOUS
  <2>1. IsEntry(e)  BY DEF Real
  <2>2. CASE Scanned(e) = {}
    BY <2>2, FS_EmptySet
  <2>3. CASE \E m : Scanned(e) = {m}
    BY <2>3, FS_Singleton
  <2> QED BY <2>1, <2>2, <2>3, OneManifest
<1>5. IsFiniteSet(UNION R)
  BY <1>3, <1>4, FS_UNION
<1> QED BY <1>5 DEF ManifestsOf

(***************************************************************************)
(* When InventoryService.scan accepts a manifest of a group with one       *)
(* identity: it is alone, or it is the only project copy, a user copy is   *)
(* there, and all of them do the same.                                     *)
(***************************************************************************)
LEMMA AcceptedMeans ==
  ASSUME NEW G, IsFiniteSet(G), NEW x
  PROVE  x \in Accepted(G) <=>
           /\ x \in G
           /\ \/ G = {x}
              \/ /\ x.scope = "project"
                 /\ \A m \in G : m.scope = "project" => m = x
                 /\ \E m \in G : m.scope = "user"
                 /\ \A m \in G : Functional(m) = Functional(x)
<1> DEFINE P == {m \in G : m.scope = "project"}
           L == {Functional(m) : m \in G}
           h == [m \in G |-> Functional(m)]
<1>1. Cardinality(G) = 1 <=> \E y : G = {y}
  BY FS_Singleton
<1>2. Cardinality(P) = 1 <=> \E y : P = {y}
  <2>1. P \in SUBSET G  OBVIOUS
  <2>2. IsFiniteSet(P)  BY <2>1, FS_Subset
  <2> QED BY <2>2, FS_Singleton
<1>3. Cardinality(L) = 1 <=> \E y : L = {y}
  <2>1. h \in Surjection(G, L)  BY DEF Surjection
  <2>2. IsFiniteSet(L)  BY <2>1, FS_Surjection
  <2> QED BY <2>2, FS_Singleton
<1>4. IdenticalProjectShadow(G) =
        IF (\E y : P = {y}) /\ (\E m \in G : m.scope = "user") /\ (\E y : L = {y}) THEN P ELSE {}
  BY <1>2, <1>3 DEF IdenticalProjectShadow
<1>5. CASE \E y : G = {y}
  BY <1>5, <1>1 DEF Accepted
<1>6. CASE ~\E y : G = {y}
  <2>1. Accepted(G) = IdenticalProjectShadow(G)
    BY <1>6, <1>1 DEF Accepted
  <2>2. ASSUME x \in P
        PROVE  /\ (\E y : P = {y}) <=> \A m \in G : m.scope = "project" => m = x
               /\ (\E y : L = {y}) <=> \A m \in G : Functional(m) = Functional(x)
    BY <2>2
  <2>3. CASE x \in P
    <3> HIDE DEF L
    <3> QED BY <2>1, <2>2, <2>3, <1>4, <1>6
  <2>4. CASE x \notin P
    <3> HIDE DEF L
    <3> QED BY <2>1, <2>4, <1>4, <1>6
  <2> QED BY <2>3, <2>4
<1> QED BY <1>5, <1>6

(***************************************************************************)
(* The scan, group by group: what is accepted, and which diagnostics there *)
(* are.                                                                    *)
(***************************************************************************)
LEMMA ScanMeans ==
  ASSUME NEW S, NEW broken
  PROVE  LET M == ManifestsOf(S, broken)
             scan == Scan(S, broken)
         IN  /\ \A x : x \in scan.capabilities <=> x \in M /\ x \in Accepted(Twins(x, M))
             /\ \A a \in broken : Failure("adapter_discovery_failed", <<a>>) \in scan.diagnostics
             /\ \A e \in S : e.adapter \notin broken /\ Scanned(e) = {} =>
                  Failure("adapter_scan_failed", e.at) \in scan.diagnostics
             /\ \A x \in M : Accepted(Twins(x, M)) = {} =>
                  Failure("duplicate_capability_id", Identity(x)) \in scan.diagnostics
             /\ {d.about : d \in {f \in scan.diagnostics : f.code = "adapter_discovery_failed"}}
                  = {<<a>> : a \in broken}
<1> DEFINE M       == ManifestsOf(S, broken)
           found   == {e \in S : e.adapter \notin broken}
           results == [e \in found |-> Scanned(e)]
           groups  == {{m \in M : Identity(m) = i} : i \in {Identity(m) : m \in M}}
           caps    == UNION {Accepted(g) : g \in groups}
           D1      == {Failure("adapter_discovery_failed", <<a>>) : a \in broken}
           D2      == {Failure("adapter_scan_failed", e.at) : e \in {f \in found : results[f] = {}}}
           D3      == {Failure("duplicate_capability_id", Identity(CHOOSE m \in g : TRUE)) :
                         g \in {h \in groups : Accepted(h) = {}}}
<1>1. UNION {results[e] : e \in found} = M
  BY DEF ManifestsOf
<1>2. Scan(S, broken) = [capabilities |-> caps, diagnostics |-> D1 \cup D2 \cup D3]
  BY <1>1, Zenon DEF Scan
<1>3. groups = {Twins(x, M) : x \in M}
  BY DEF Twins
<1>4. \A x : x \in caps <=> x \in M /\ x \in Accepted(Twins(x, M))
  <2>1. ASSUME NEW G, NEW x, x \in Accepted(G) PROVE x \in G
    BY <2>1 DEF Accepted, IdenticalProjectShadow
  <2>2. ASSUME NEW x, NEW y \in M, x \in Accepted(Twins(y, M))
        PROVE  x \in M /\ Twins(y, M) = Twins(x, M)
    BY <2>2, <2>1 DEF Twins
  <2> QED BY <1>3, <2>2
<1>5. \A x \in M : Accepted(Twins(x, M)) = {} =>
        Failure("duplicate_capability_id", Identity(x)) \in D3
  <2> SUFFICES ASSUME NEW x \in M, Accepted(Twins(x, M)) = {}
               PROVE  Failure("duplicate_capability_id", Identity(x)) \in D3
    OBVIOUS
  <2>1. Twins(x, M) \in {h \in groups : Accepted(h) = {}}
    BY <1>3
  <2>2. Identity(CHOOSE m \in Twins(x, M) : TRUE) = Identity(x)
    <3>1. x \in Twins(x, M)  BY DEF Twins
    <3>2. (CHOOSE m \in Twins(x, M) : TRUE) \in Twins(x, M)  BY <3>1
    <3> QED BY <3>2 DEF Twins
  <2> HIDE DEF groups
  <2> QED BY <2>1, <2>2
<1>6. \A e \in S : e.adapter \notin broken /\ Scanned(e) = {} =>
        Failure("adapter_scan_failed", e.at) \in D2
  OBVIOUS
<1>7. {d.about : d \in {f \in D1 \cup D2 \cup D3 : f.code = "adapter_discovery_failed"}}
        = {<<a>> : a \in broken}
  <2>1. \A d \in D2 \cup D3 : d.code # "adapter_discovery_failed"
    <3> HIDE DEF groups, results
    <3> QED BY DEF Failure
  <2>2. \A d \in D1 : d.code = "adapter_discovery_failed" /\ \E a \in broken : d.about = <<a>>
    BY DEF Failure
  <2>3. \A a \in broken : \E d \in D1 : d.about = <<a>>
    <3> SUFFICES ASSUME NEW a \in broken PROVE \E d \in D1 : d.about = <<a>>
      OBVIOUS
    <3>1. Failure("adapter_discovery_failed", <<a>>) \in D1  OBVIOUS
    <3>2. Failure("adapter_discovery_failed", <<a>>).about = <<a>>  BY DEF Failure
    <3> HIDE DEF D1
    <3> QED BY <3>1, <3>2
  <2> HIDE DEF D1, D2, D3
  <2> QED BY <2>1, <2>2, <2>3
<1> HIDE DEF M, caps, D1, D2, D3
<1>8. /\ Scan(S, broken).capabilities = caps
      /\ Scan(S, broken).diagnostics = D1 \cup D2 \cup D3
  BY <1>2
<1>9. \A a \in broken : Failure("adapter_discovery_failed", <<a>>) \in D1
  BY DEF D1
<1> QED BY <1>4, <1>5, <1>6, <1>7, <1>8, <1>9 DEF M

(***************************************************************************)
(* An entry is in the inventory, shadowed there by an equal project copy,  *)
(* or the subject of a diagnostic.                                         *)
(***************************************************************************)
AccountedFor(e, inventory) ==
  \/ \E m \in inventory.capabilities :
       \/ m.at = e.at
       \/ m.name = e.name /\ m.scope = "project" /\ e.scope # "project" /\ m.content = e.content
  \/ \E d \in inventory.diagnostics :
       \/ d.code = "adapter_discovery_failed" /\ d.about = <<e.adapter>>
       \/ d.code = "adapter_scan_failed" /\ d.about = e.at
       \/ d.code = "duplicate_capability_id" /\ d.about \in {Identity(m) : m \in Scanned(e)}

(***************************************************************************)
(* InventoryService.scan accounts for every entry, whichever adapters fail.*)
(***************************************************************************)
LEMMA ScanLosesNothing ==
  ASSUME NEW S, Real(S), NEW broken, NEW e \in S
  PROVE  AccountedFor(e, Scan(S, broken))
<1> DEFINE M    == ManifestsOf(S, broken)
           scan == Scan(S, broken)
<1>1. CASE e.adapter \in broken
  <2>1. Failure("adapter_discovery_failed", <<e.adapter>>) \in scan.diagnostics
    BY <1>1, ScanMeans
  <2> QED BY <2>1 DEF AccountedFor, Failure
<1>2. CASE e.adapter \notin broken /\ Scanned(e) = {}
  <2>1. Failure("adapter_scan_failed", e.at) \in scan.diagnostics
    BY <1>2, ScanMeans
  <2> QED BY <2>1 DEF AccountedFor, Failure
<1>3. CASE e.adapter \notin broken /\ Scanned(e) # {}
  <2>1. PICK m \in Scanned(e) : TRUE
    BY <1>3
  <2>2. m \in M /\ m \in Twins(m, M)
    BY <1>3, <2>1 DEF ManifestsOf, Twins
  <2>3. IsManifestOf(m, e)
    BY <2>1, OneManifest DEF Real
  <2>4. CASE Accepted(Twins(m, M)) = {}
    <3>1. Failure("duplicate_capability_id", Identity(m)) \in scan.diagnostics
      BY <2>2, <2>4, ScanMeans
    <3>2. Identity(m) \in {Identity(n) : n \in Scanned(e)}
      BY <2>1
    <3> QED BY <3>1, <3>2 DEF AccountedFor, Failure
  <2>5. CASE Accepted(Twins(m, M)) # {}
    <3>1. PICK x : x \in Accepted(Twins(m, M))
      BY <2>5
    <3>2. IsFiniteSet(Twins(m, M))
      <4>1. Twins(m, M) \in SUBSET M  BY DEF Twins
      <4> QED BY <4>1, FiniteManifests, FS_Subset
    <3>3. /\ x \in Twins(m, M)
          /\ \/ Twins(m, M) = {x}
             \/ /\ x.scope = "project"
                /\ \A n \in Twins(m, M) : n.scope = "project" => n = x
                /\ \A n \in Twins(m, M) : Functional(n) = Functional(x)
      BY <3>1, <3>2, AcceptedMeans
    <3>4. x \in M /\ Twins(x, M) = Twins(m, M)
      BY <3>3 DEF Twins
    <3>5. x \in scan.capabilities
      BY <3>1, <3>4, ScanMeans
    <3>6. x = m \/ (x.scope = "project" /\ m.scope # "project" /\ Functional(m) = Functional(x))
      BY <2>2, <3>3
    <3>7. x.at = e.at \/ (x.name = e.name /\ x.scope = "project" /\ e.scope # "project"
                           /\ x.content = e.content)
      <4>1. Functional(m) = Functional(x) => m.name = x.name /\ m.content = x.content
        BY DEF Functional
      <4> QED BY <3>6, <4>1, <2>3 DEF IsManifestOf
    <3> QED BY <3>5, <3>7 DEF AccountedFor
  <2> QED BY <2>4, <2>5
<1> QED BY <1>1, <1>2, <1>3

(***************************************************************************)
(* Two manifests that no part of the resolver tells apart: scope, locator  *)
(* and content are all that may differ.                                    *)
(***************************************************************************)
Alike(m, n) ==
  /\ m.kind = n.kind /\ m.name = n.name /\ m.adapter = n.adapter /\ m.compat = n.compat
  /\ m.provides = n.provides /\ m.permissions = n.permissions /\ m.verified = n.verified

(***************************************************************************)
(* Each of two sets has the like of every manifest of the other.           *)
(***************************************************************************)
Mirrors(S, T) ==
  /\ \A m \in S : \E n \in T : Alike(m, n)
  /\ \A n \in T : \E m \in S : Alike(m, n)

(***************************************************************************)
(* Alikeness has no direction.                                             *)
(***************************************************************************)
LEMMA AlikeIsSymmetric ==
  ASSUME NEW m, NEW n, Alike(m, n)
  PROVE  Alike(n, m)
BY DEF Alike

(***************************************************************************)
(* The ranking (_ranking_key) treats alike manifests the same.             *)
(***************************************************************************)
LEMMA WinsAlike ==
  ASSUME NEW m, NEW n, NEW x, NEW y, NEW v, NEW w,
         Alike(m, x), Alike(n, y), v[m] = w[x], v[n] = w[y]
  PROVE  Wins(m, n, v) <=> Wins(x, y, w)
<1> DEFINE prefix(z) == CHOOSE i \in DOMAIN Kinds : Kinds[i] = z.kind
<1>1. LocalScore(m) = LocalScore(x) /\ LocalScore(n) = LocalScore(y)
  BY DEF LocalScore, Alike
<1>2. prefix(m) = prefix(x) /\ prefix(n) = prefix(y)
  BY DEF Alike
<1>3. /\ m.permissions = x.permissions /\ n.permissions = y.permissions
      /\ m.name = x.name /\ n.name = y.name
  BY DEF Alike
<1> HIDE DEF prefix
<1>4. ASSUME NEW a, NEW b, NEW u
      PROVE Wins(a, b, u) <=>
             \/ LocalScore(a) + u[a] > LocalScore(b) + u[b]
             \/ /\ LocalScore(a) + u[a] = LocalScore(b) + u[b]
                /\ Cardinality(a.permissions) < Cardinality(b.permissions)
             \/ /\ LocalScore(a) + u[a] = LocalScore(b) + u[b]
                /\ Cardinality(a.permissions) = Cardinality(b.permissions)
                /\ prefix(a) < prefix(b) \/ (prefix(a) = prefix(b) /\ a.name <= b.name)
  BY DEF Wins, prefix
<1> QED BY <1>1, <1>2, <1>3, <1>4

(***************************************************************************)
(* So do the value in context, the eligibility and the hard limits.        *)
(***************************************************************************)
LEMMA ValueAlike ==
  ASSUME NEW m, NEW n, Alike(m, n), NEW c, NEW blueprint, NEW facts, NEW policy
  PROVE  /\ ContextValue(m, c, blueprint, facts) = ContextValue(n, c, blueprint, facts)
         /\ Ineligible(m, c, blueprint, facts) <=> Ineligible(n, c, blueprint, facts)
         /\ Permitted(m, blueprint, policy) <=> Permitted(n, blueprint, policy)
<1>1. ContextValue(m, c, blueprint, facts) = ContextValue(n, c, blueprint, facts)
  BY DEF Alike, ContextValue, IsCodeGraph, IsMemory
<1>2. Ineligible(m, c, blueprint, facts) <=> Ineligible(n, c, blueprint, facts)
  BY DEF Alike, Ineligible, IsCodeGraph, IsMemory
<1>3. Permitted(m, blueprint, policy) <=> Permitted(n, blueprint, policy)
  BY DEF Alike, Permitted, Identity
<1> QED BY <1>1, <1>2, <1>3

(***************************************************************************)
(* The providers of S that are eligible for a requirement, and the best of *)
(* them.                                                                   *)
(***************************************************************************)
Candidates(r, S, blueprint, facts, policy) ==
  {m \in S : /\ r.capability \in m.provides
             /\ Permitted(m, blueprint, policy)
             /\ ~Ineligible(m, r.capability, blueprint, facts)}

Best(r, S, blueprint, facts, policy) ==
  LET eligible == Candidates(r, S, blueprint, facts, policy)
      value    == [m \in eligible |-> ContextValue(m, r.capability, blueprint, facts)]
  IN  {m \in eligible : \A n \in eligible : Wins(m, n, value)}

(***************************************************************************)
(* _resolve_requirement selects the best, and nothing for a gap.           *)
(***************************************************************************)
LEMMA SelectedIsBest ==
  ASSUME NEW r, NEW inventory, NEW blueprint, NEW facts, NEW found, NEW suppressed, NEW policy
  PROVE  LET x == ResolveRequirement(r, inventory, blueprint, facts, found, suppressed, policy)
         IN  /\ x.requirement = r
             /\ x.selected = Best(r, inventory.capabilities, blueprint, facts, policy)
             /\ x.gap => x.selected = {}
<1> DEFINE capability == r.capability
           matching   == {m \in inventory.capabilities : capability \in m.provides}
           permitted  == {m \in matching : Permitted(m, blueprint, policy)}
           ineligible == {m \in permitted : Ineligible(m, capability, blueprint, facts)}
           eligible   == permitted \ ineligible
           value      == [m \in eligible |-> ContextValue(m, capability, blueprint, facts)]
           best       == {m \in eligible : \A n \in eligible : Wins(m, n, value)}
           deferred   == {m \in ineligible : IsMemory(m)}
           gap        == eligible = {} /\ (matching = {} \/ matching # deferred)
           x          == ResolveRequirement(r, inventory, blueprint, facts, found, suppressed, policy)
<1>1. /\ x.requirement = r /\ x.selected = best /\ x.gap = gap
  BY DEF ResolveRequirement
<1>2. eligible = Candidates(r, inventory.capabilities, blueprint, facts, policy)
  BY DEF Candidates
<1>3. best = Best(r, inventory.capabilities, blueprint, facts, policy)
  BY <1>2 DEF Best
<1>4. gap => best = {}
  OBVIOUS
<1> QED BY <1>1, <1>3, <1>4

(***************************************************************************)
(* In two sets that mirror each other the best are alike.                  *)
(***************************************************************************)
LEMMA BestAlike ==
  ASSUME NEW r, NEW S, NEW T, Mirrors(S, T), NEW blueprint, NEW facts, NEW policy,
         NEW m \in Best(r, S, blueprint, facts, policy)
  PROVE  \E n \in Best(r, T, blueprint, facts, policy) : Alike(m, n)
<1> DEFINE E == Candidates(r, S, blueprint, facts, policy)
           F == Candidates(r, T, blueprint, facts, policy)
           v == [z \in E |-> ContextValue(z, r.capability, blueprint, facts)]
           w == [z \in F |-> ContextValue(z, r.capability, blueprint, facts)]
<1>1. ASSUME NEW x, NEW y, Alike(x, y)
      PROVE  /\ x \in E /\ y \in T => y \in F
             /\ y \in F /\ x \in S => x \in E
             /\ x \in E /\ y \in F => v[x] = w[y]
  <2>1. x.provides = y.provides
    BY <1>1 DEF Alike
  <2> QED BY <2>1, <1>1, ValueAlike DEF Candidates
<1>2. m \in E /\ \A z \in E : Wins(m, z, v)
  BY DEF Best
<1>3. PICK n \in T : Alike(m, n)
  BY <1>2 DEF Mirrors, Candidates
<1>4. n \in F
  BY <1>1, <1>2, <1>3
<1>5. ASSUME NEW y \in F PROVE Wins(n, y, w)
  <2>1. PICK x \in S : Alike(x, y)
    BY DEF Mirrors, Candidates
  <2>2. x \in E /\ v[x] = w[y]
    BY <2>1, <1>1
  <2>3. Wins(m, x, v)
    BY <2>2, <1>2
  <2>4. v[m] = w[n]
    BY <1>1, <1>2, <1>3, <1>4
  <2> HIDE DEF v, w, E, F
  <2> QED BY <2>1, <2>2, <2>3, <2>4, <1>3, WinsAlike
<1>6. n \in Best(r, T, blueprint, facts, policy)
  BY <1>4, <1>5 DEF Best
<1> QED BY <1>3, <1>6

(***************************************************************************)
(* The facts and the mandatory packs that every plan is made with.         *)
(***************************************************************************)
Profiled == ScaleFacts(Repository, Manifests, FALSE)

Mandatory(policy) == IF policy = None THEN {} ELSE policy.mandatory

(***************************************************************************)
(* A plan is made from an inventory and a blueprint under a policy,        *)
(* whatever was found by then and whatever is suppressed.                  *)
(***************************************************************************)
MadeFrom(p, inventory, blueprint, policy) ==
  \E rs \in Evaluate(ProjectFacts(blueprint, Profiled), Overrides) : \E found, suppressed :
     p = Plan(rs \cup MarkerRequirements(inventory),
              ResolveLocal(rs \cup MarkerRequirements(inventory), inventory, blueprint, Profiled,
                           found, suppressed, policy))

(***************************************************************************)
(* What build_project_plan returns is made from its inventory and          *)
(* blueprint.                                                              *)
(***************************************************************************)
LEMMA BuiltIsMade ==
  ASSUME NEW inventory, NEW blueprint, NEW found, NEW suppressed,
         NEW p \in BuildPlan(inventory, blueprint, found, suppressed)
  PROVE  MadeFrom(p, inventory, blueprint, world.policy)
BY DEF BuildPlan, MadeFrom, Profiled

(***************************************************************************)
(* The packs give one set of requirements at most.                         *)
(***************************************************************************)
LEMMA OneSetOfRequirements ==
  ASSUME NEW facts, NEW overrides,
         NEW rs \in Evaluate(facts, overrides), NEW ss \in Evaluate(facts, overrides)
  PROVE  rs = ss
<1>1. \E X : Evaluate(facts, overrides) \in {{}, {X}}
  BY DEF Evaluate
<1> QED BY <1>1

(***************************************************************************)
(* The requirements that are resolved.                                     *)
(***************************************************************************)
Needed(rs, inventory, policy) ==
  WithMandatory(rs \cup MarkerRequirements(inventory), Mandatory(policy))

(***************************************************************************)
(* A plan has a resolution for every requirement and for nothing else, with*)
(* the best provider.                                                      *)
(***************************************************************************)
LEMMA MadeResolutions ==
  ASSUME NEW p, NEW inventory, NEW blueprint, NEW policy,
         MadeFrom(p, inventory, blueprint, policy)
  PROVE  \E rs \in Evaluate(ProjectFacts(blueprint, Profiled), Overrides) :
           /\ \A r \in Needed(rs, inventory, policy) : \E x \in p.resolutions :
                /\ x.requirement = r
                /\ x.selected = Best(r, inventory.capabilities, blueprint, Profiled, policy)
           /\ \A x \in p.resolutions :
                /\ x.requirement \in Needed(rs, inventory, policy)
                /\ x.selected = Best(x.requirement, inventory.capabilities, blueprint, Profiled,
                                     policy)
                /\ x.gap => x.selected = {}
<1>1. PICK rs \in Evaluate(ProjectFacts(blueprint, Profiled), Overrides) : \E found, suppressed :
        p = Plan(rs \cup MarkerRequirements(inventory),
              ResolveLocal(rs \cup MarkerRequirements(inventory), inventory, blueprint, Profiled,
                           found, suppressed, policy))
  BY DEF MadeFrom
<1>0. PICK found, suppressed :
        p = Plan(rs \cup MarkerRequirements(inventory),
              ResolveLocal(rs \cup MarkerRequirements(inventory), inventory, blueprint, Profiled,
                           found, suppressed, policy))
  BY <1>1
<1> DEFINE R    == Needed(rs, inventory, policy)
           X(r) == ResolveRequirement(r, inventory, blueprint, Profiled, found, suppressed, policy)
<1>2. p.resolutions = {X(r) : r \in R}
  BY <1>0 DEF Plan, ResolveLocal, Mandatory, Needed
<1>3. ASSUME NEW r
      PROVE  /\ X(r).requirement = r
             /\ X(r).selected = Best(r, inventory.capabilities, blueprint, Profiled, policy)
             /\ X(r).gap => X(r).selected = {}
  BY SelectedIsBest
<1> HIDE DEF R, X
<1>4. /\ \A r \in R : \E x \in p.resolutions :
           /\ x.requirement = r
           /\ x.selected = Best(r, inventory.capabilities, blueprint, Profiled, policy)
      /\ \A x \in p.resolutions :
           /\ x.requirement \in R
           /\ x.selected = Best(x.requirement, inventory.capabilities, blueprint, Profiled, policy)
           /\ x.gap => x.selected = {}
  BY <1>2, <1>3
<1> QED BY <1>4 DEF R

(***************************************************************************)
(* What a plan selects was found in the scan, provides what it was selected*)
(* for, and is within the hard limits; a gap has no provider.              *)
(***************************************************************************)
Grounded(p, inventory, blueprint, policy) ==
  \A x \in p.resolutions :
    /\ x.gap => x.selected = {}
    /\ \A m \in x.selected : /\ m \in inventory.capabilities
                             /\ x.requirement.capability \in m.provides
                             /\ Permitted(m, blueprint, policy)

(***************************************************************************)
(* Every plan is grounded in what it was made from.                        *)
(***************************************************************************)
LEMMA MadeIsGrounded ==
  ASSUME NEW p, NEW inventory, NEW blueprint, NEW policy,
         MadeFrom(p, inventory, blueprint, policy)
  PROVE  Grounded(p, inventory, blueprint, policy)
<1>1. \A x \in p.resolutions :
        /\ x.gap => x.selected = {}
        /\ x.selected = Best(x.requirement, inventory.capabilities, blueprint, Profiled, policy)
  BY MadeResolutions
<1>2. \A r : \A m \in Best(r, inventory.capabilities, blueprint, Profiled, policy) :
        /\ m \in inventory.capabilities
        /\ r.capability \in m.provides
        /\ Permitted(m, blueprint, policy)
  BY DEF Best, Candidates
<1> QED BY <1>1, <1>2 DEF Grounded

(***************************************************************************)
(* Inventories that mirror each other show the same marker requirements.   *)
(***************************************************************************)
LEMMA MarkersAlike ==
  ASSUME NEW i, NEW j, Mirrors(i.capabilities, j.capabilities)
  PROVE  MarkerRequirements(i) = MarkerRequirements(j)
<1> DEFINE shown(k) ==
      UNION {m.provides : m \in {n \in k.capabilities : n.adapter = "project-marker"}}
<1>1. \A c : c \in shown(i) <=> c \in shown(j)
  <2>1. ASSUME NEW a, NEW b, Mirrors(a.capabilities, b.capabilities), NEW c \in shown(a)
        PROVE  c \in shown(b)
    <3>1. PICK m \in a.capabilities : m.adapter = "project-marker" /\ c \in m.provides
      OBVIOUS
    <3>2. PICK n \in b.capabilities : Alike(m, n)
      BY <2>1 DEF Mirrors
    <3> QED BY <3>1, <3>2 DEF Alike
  <2>2. Mirrors(j.capabilities, i.capabilities)
    BY AlikeIsSymmetric DEF Mirrors
  <2> QED BY <2>1, <2>2
<1>2. shown(i) = shown(j)
  BY <1>1
<1> HIDE DEF shown
<1> QED BY <1>2 DEF MarkerRequirements, shown

(***************************************************************************)
(* Plans for one blueprint from inventories that mirror each other choose  *)
(* the same identities.                                                    *)
(***************************************************************************)
LEMMA ChosenAlike ==
  ASSUME NEW p, NEW q, NEW i, NEW j, NEW blueprint, NEW policy,
         MadeFrom(p, i, blueprint, policy), MadeFrom(q, j, blueprint, policy),
         Mirrors(i.capabilities, j.capabilities)
  PROVE  Chosen(Selections(p)) \subseteq Chosen(Selections(q))
<1> DEFINE E == Evaluate(ProjectFacts(blueprint, Profiled), Overrides)
           R(rs, k) == Needed(rs, k, policy)
           B(r, k)  == Best(r, k.capabilities, blueprint, Profiled, policy)
<1>1. PICK rs \in E : \A x \in p.resolutions :
        x.requirement \in R(rs, i) /\ x.selected = B(x.requirement, i)
  BY MadeResolutions
<1>2. PICK ss \in E : \A r \in R(ss, j) :
        \E y \in q.resolutions : y.requirement = r /\ y.selected = B(r, j)
  BY MadeResolutions
<1>3. R(rs, i) = R(ss, j)
  <2>1. rs = ss  BY OneSetOfRequirements
  <2> QED BY <2>1, MarkersAlike DEF Needed
<1>4. ASSUME NEW c \in Chosen(Selections(p)) PROVE c \in Chosen(Selections(q))
  <2>1. PICK x \in p.resolutions :
          \E m \in x.selected : c = <<x.requirement.capability, Identity(m)>>
    BY DEF Chosen, Selections
  <2>0. PICK m \in x.selected : c = <<x.requirement.capability, Identity(m)>>
    BY <2>1
  <2>2. PICK y \in q.resolutions : y.requirement = x.requirement /\ y.selected = B(x.requirement, j)
    BY <1>1, <1>2, <1>3
  <2>3. PICK n \in y.selected : Alike(m, n)
    <3>1. m \in B(x.requirement, i)  BY <1>1
    <3> QED BY <3>1, <2>2, BestAlike
  <2>4. c = <<y.requirement.capability, Identity(n)>>
    BY <2>0, <2>2, <2>3 DEF Alike, Identity
  <2>5. <<y.requirement.capability, n>> \in Selections(q)
    BY DEF Selections
  <2> QED BY <2>4, <2>5 DEF Chosen
<1> QED BY <1>4

(***************************************************************************)
(* A locator names one entry.                                              *)
(***************************************************************************)
Located(D) == \A e, f \in D : e.at = f.at => e = f

(***************************************************************************)
(* What the project has of bound skills.                                   *)
(***************************************************************************)
IsCopy(c) == IsEntry(c) /\ c.adapter = "agent-skill" /\ c.scope = "project"

Copies(C) == IsFiniteSet(C) /\ \A c \in C : IsCopy(c)

(***************************************************************************)
(* The project copies once the entries of E are bound.                     *)
(***************************************************************************)
WithBound(C, E) ==
  {c \in C : c.name \notin {e.name : e \in E}} \cup {ProjectCopy(e) : e \in E}

(***************************************************************************)
(* The copy of a skill is read like the skill, as one of the project:      *)
(* alike, and functionally identical (_functional_manifest).               *)
(***************************************************************************)
LEMMA CopyOfSkill ==
  ASSUME NEW e, IsEntry(e), e.adapter = "agent-skill"
  PROVE  /\ IsCopy(ProjectCopy(e))
         /\ ProjectCopy(e).name = e.name
         /\ \A m \in Scanned(e) : m.kind = "skill"
         /\ \A m \in Scanned(e) : \E n \in Scanned(ProjectCopy(e)) :
              Alike(m, n) /\ n.scope = "project" /\ Functional(n) = Functional(m)
         /\ \A n \in Scanned(ProjectCopy(e)) : \E m \in Scanned(e) :
              Alike(m, n) /\ n.scope = "project" /\ Functional(n) = Functional(m)
<1> DEFINE c == ProjectCopy(e)
           needs == {ToolPermission[t] : t \in e.words \cap DOMAIN ToolPermission}
           sound == e.flaws \cap SkillProblem = {}
           It(x) == Manifest(x, "skill", e.provides, needs, sound)
<1>1. /\ DOMAIN c = DOMAIN e /\ c.adapter = e.adapter /\ c.name = e.name /\ c.scope = "project"
      /\ c.words = e.words /\ c.flaws = e.flaws /\ c.provides = e.provides
      /\ c.content = e.content /\ c.compat = e.compat
  BY DEF ProjectCopy, IsEntry
<1>2. IsCopy(c)
  BY <1>1 DEF IsCopy, IsEntry
<1> HIDE DEF c
<1>3. /\ Scanned(e) = IF e.flaws \cap SkillFatal # {} THEN {} ELSE {It(e)}
      /\ Scanned(c) = IF e.flaws \cap SkillFatal # {} THEN {} ELSE {It(c)}
  <2>1. Scanned(e) = AgentSkill(e) /\ Scanned(c) = AgentSkill(c)
    BY <1>1 DEF Scanned
  <2> QED BY <2>1, <1>1, ZenonT(60) DEF AgentSkill
<1> HIDE DEF needs, sound
<1>4. Alike(It(e), It(c)) /\ It(c).scope = "project" /\ Functional(It(c)) = Functional(It(e))
        /\ It(e).kind = "skill"
  BY <1>1 DEF Alike, Functional, Manifest
<1> HIDE DEF It
<1> QED BY <1>1, <1>2, <1>3, <1>4 DEF c

(***************************************************************************)
(* What is discovered on a disk and in the project is a finite set of      *)
(* entries.                                                                *)
(***************************************************************************)
LEMMA FiniteDiscovered ==
  ASSUME NEW D, NEW C, Real(D), Copies(C)
  PROVE  Real(Discovered(D \cup C, TRUE))
<1>1. IsFiniteSet(D \cup C)
  BY FS_Union DEF Real, Copies
<1>2. Discovered(D \cup C, TRUE) \in SUBSET (D \cup C)
  BY DEF Discovered
<1>3. \A e \in D \cup C : IsEntry(e)
  BY DEF Real, Copies, IsCopy
<1> QED BY <1>1, <1>2, <1>3, FS_Subset DEF Real

(***************************************************************************)
(* Binding skills leaves project copies of skills.                         *)
(***************************************************************************)
LEMMA CopiesStay ==
  ASSUME NEW C, Copies(C), NEW E, Real(E), \A e \in E : e.adapter = "agent-skill"
  PROVE  Copies(WithBound(C, E))
<1> DEFINE K == {c \in C : c.name \notin {e.name : e \in E}}
           P == {ProjectCopy(e) : e \in E}
           g == [e \in E |-> ProjectCopy(e)]
<1>1. IsFiniteSet(K)
  <2>1. K \in SUBSET C  OBVIOUS
  <2> QED BY <2>1, FS_Subset DEF Copies
<1>2. IsFiniteSet(P)
  <2>1. g \in Surjection(E, P)  BY DEF Surjection
  <2> QED BY <2>1, FS_Surjection DEF Real
<1>3. \A c \in P : IsCopy(c)
  BY CopyOfSkill DEF Real
<1>4. \A c \in K : IsCopy(c)
  BY DEF Copies
<1>5. IsFiniteSet(K \cup P)
  BY <1>1, <1>2, FS_Union
<1> QED BY <1>3, <1>4, <1>5 DEF Copies, WithBound

(***************************************************************************)
(* Binding skills that a scan accepted leaves an inventory that mirrors the*)
(* one before, whatever else is on the disk: each bound skill was alone    *)
(* with its identity, so that its copy shadows it and nothing else         *)
(* (_identical_project_shadow), and a copy it replaces had been no part of *)
(* the inventory.                                                          *)
(***************************************************************************)
LEMMA BindingMirrors ==
  ASSUME NEW D, Real(D), Located(D), NEW C, Copies(C), NEW broken,
         NEW B, NEW E, E \subseteq D,
         \A m \in B : /\ m \in Scan(Discovered(D \cup C, TRUE), broken).capabilities
                      /\ m.adapter = "agent-skill" /\ m.scope = "user"
                      /\ \E e \in E : e.at = m.at,
         \A e \in E : \E m \in B : e.at = m.at
  PROVE  /\ Copies(WithBound(C, E))
         /\ Mirrors(Scan(Discovered(D \cup C, TRUE), broken).capabilities,
                    Scan(Discovered(D \cup WithBound(C, E), TRUE), broken).capabilities)
<1> DEFINE S0 == Discovered(D \cup C, TRUE)
           S1 == Discovered(D \cup WithBound(C, E), TRUE)
           M0 == ManifestsOf(S0, broken)
           M1 == ManifestsOf(S1, broken)
           caps0 == Scan(S0, broken).capabilities
           caps1 == Scan(S1, broken).capabilities
<1>1. /\ IsFiniteSet(M0)
      /\ \A x : x \in caps0 <=> x \in M0 /\ x \in Accepted(Twins(x, M0))
  BY FiniteDiscovered, FiniteManifests, ScanMeans
<1>2. ASSUME NEW m \in B
      PROVE  /\ m \in M0 /\ Twins(m, M0) = {m}
             /\ \E e \in E : /\ Scanned(e) = {m} /\ e.at = m.at /\ e \in S0
                             /\ e.adapter = "agent-skill" /\ e.adapter \notin broken
  <2>1. m \in M0 /\ m \in Accepted(Twins(m, M0)) /\ m.scope = "user" /\ m.adapter = "agent-skill"
    BY <1>1
  <2>2. IsFiniteSet(Twins(m, M0))
    <3>1. Twins(m, M0) \in SUBSET M0  BY DEF Twins
    <3> QED BY <3>1, <1>1, FS_Subset
  <2>3. Twins(m, M0) = {m}
    <3>1. m.scope # "project"  BY <2>1
    <3> HIDE DEF M0
    <3> QED BY <2>1, <2>2, <3>1, AcceptedMeans
  <2>4. PICK f \in S0 : f.adapter \notin broken /\ m \in Scanned(f)
    BY <2>1 DEF ManifestsOf
  <2>5. IsEntry(f)
    BY FiniteDiscovered DEF Real
  <2>6. Scanned(f) = {m} /\ f.at = m.at /\ f.scope = "user" /\ f.adapter = "agent-skill"
    BY <2>1, <2>4, <2>5, OneManifest DEF IsManifestOf
  <2>7. f \in D
    BY <2>6 DEF Discovered, Copies, IsCopy
  <2>8. PICK e \in E : e.at = m.at
    OBVIOUS
  <2>9. e = f
    BY <2>6, <2>7, <2>8 DEF Located
  <2> QED BY <2>1, <2>3, <2>4, <2>6, <2>9
<1>3. ASSUME NEW e \in E
      PROVE  /\ e \in S0 /\ e.adapter = "agent-skill" /\ e.adapter \notin broken /\ IsEntry(e)
             /\ \E m \in B : Scanned(e) = {m}
  <2>1. PICK m \in B : e.at = m.at
    OBVIOUS
  <2>2. PICK f \in E : /\ Scanned(f) = {m} /\ f.at = m.at /\ f \in S0
                       /\ f.adapter = "agent-skill" /\ f.adapter \notin broken
    BY <1>2
  <2>3. e = f
    BY <2>1, <2>2 DEF Located
  <2> QED BY <2>2, <2>3 DEF Real
<1>4. Copies(WithBound(C, E))
  <2>1. Real(E)
    <3>1. E \in SUBSET D  OBVIOUS
    <3> QED BY <3>1, FS_Subset DEF Real
  <2> QED BY <2>1, <1>3, CopiesStay
<1>5. /\ IsFiniteSet(M1)
      /\ \A x : x \in caps1 <=> x \in M1 /\ x \in Accepted(Twins(x, M1))
  BY <1>4, FiniteDiscovered, FiniteManifests, ScanMeans
<1>6. ASSUME NEW n \in M0 PROVE n \in M1
  <2>1. PICK f \in S0 : f.adapter \notin broken /\ n \in Scanned(f)
    BY DEF ManifestsOf
  <2>2. f \in S1
    <3>1. CASE f \in D
      BY <3>1 DEF Discovered
    <3>2. CASE f \in C /\ f.name \notin {e.name : e \in E}
      BY <3>2 DEF Discovered, WithBound
    <3>3. ASSUME f \in C, NEW e \in E, f.name = e.name PROVE FALSE
      <4>1. PICK m \in B : Scanned(e) = {m}
        BY <1>3
      <4>2. /\ IsEntry(e) /\ e.adapter = "agent-skill"
            /\ IsEntry(f) /\ f.adapter = "agent-skill" /\ f.scope = "project"
        BY <1>3, <3>3 DEF Copies, IsCopy
      <4>3. n.kind = "skill" /\ m.kind = "skill"
        BY <4>1, <4>2, <2>1, CopyOfSkill
      <4>4. n.name = f.name /\ m.name = e.name /\ n.scope = "project"
        BY <4>1, <4>2, <2>1, OneManifest DEF IsManifestOf
      <4>5. n \in Twins(m, M0)
        BY <4>3, <4>4, <3>3 DEF Twins, Identity
      <4>6. n = m /\ m.scope = "user"
        BY <4>5, <1>2
      <4> QED BY <4>4, <4>6
    <3> QED BY <3>1, <3>2, <3>3 DEF Discovered
  <2> QED BY <2>1, <2>2 DEF ManifestsOf
<1>7. ASSUME NEW n \in M1, n \notin M0
      PROVE  \E e \in E : n \in Scanned(ProjectCopy(e))
  <2>1. PICK f \in S1 : f.adapter \notin broken /\ n \in Scanned(f)
    BY DEF ManifestsOf
  <2>2. f \notin S0
    BY <2>1, <1>7 DEF ManifestsOf
  <2>3. f \in {ProjectCopy(e) : e \in E}
    BY <2>2 DEF Discovered, WithBound
  <2> QED BY <2>1, <2>3
<1>8. ASSUME NEW e \in E, NEW n \in Scanned(ProjectCopy(e))
      PROVE  /\ n \in M1 /\ Scanned(ProjectCopy(e)) = {n}
             /\ \E m \in B : /\ Scanned(e) = {m} /\ Alike(m, n) /\ Identity(n) = Identity(m)
                             /\ n.scope = "project" /\ Functional(n) = Functional(m)
  <2>1. PICK m \in B : Scanned(e) = {m}
    BY <1>3
  <2>2. e \in S0 /\ IsEntry(e) /\ e.adapter = "agent-skill" /\ e.adapter \notin broken
    BY <1>3
  <2>3. Alike(m, n) /\ n.scope = "project" /\ Functional(n) = Functional(m)
    BY <2>1, <2>2, CopyOfSkill
  <2>4. /\ IsEntry(ProjectCopy(e)) /\ ProjectCopy(e).adapter = "agent-skill"
        /\ ProjectCopy(e).name = e.name
    BY <2>2, CopyOfSkill DEF IsCopy
  <2>5. ProjectCopy(e) \in S1
    BY <2>2, <2>4 DEF Discovered, WithBound
  <2>6. n \in M1
    BY <2>2, <2>4, <2>5 DEF ManifestsOf
  <2>7. Scanned(ProjectCopy(e)) = {n}
    BY <2>4, OneManifest
  <2> QED BY <2>1, <2>3, <2>6, <2>7 DEF Alike, Identity
<1>9. ASSUME NEW e \in E, NEW m \in B, Scanned(e) = {m}, NEW n \in Scanned(ProjectCopy(e))
      PROVE  n \in caps1
  <2>1. /\ n \in M1 /\ Scanned(ProjectCopy(e)) = {n} /\ Identity(n) = Identity(m)
        /\ n.scope = "project" /\ Functional(n) = Functional(m)
    BY <1>8, <1>9
  <2>2. m \in M1 /\ m.scope = "user"
    BY <1>2, <1>6
  <2>3. ASSUME NEW y \in M1, Identity(y) = Identity(m) PROVE y \in {m, n}
    <3>1. CASE y \in M0
      BY <3>1, <2>3, <1>2 DEF Twins
    <3>2. CASE y \notin M0
      <4>1. PICK f \in E : y \in Scanned(ProjectCopy(f))
        BY <3>2, <1>7
      <4>2. PICK k \in B : Scanned(f) = {k} /\ Identity(y) = Identity(k)
        BY <4>1, <1>8
      <4>3. k = m
        <5>1. k \in Twins(m, M0)
          BY <4>2, <2>3, <1>2 DEF Twins
        <5>2. Twins(m, M0) = {m}  BY <1>2
        <5> HIDE DEF M0
        <5> QED BY <5>1, <5>2
      <4>4. m.at = e.at
        <5>1. IsEntry(e) /\ m \in Scanned(e)  BY <1>3, <1>9
        <5> QED BY <5>1, OneManifest DEF IsManifestOf
      <4>5. m.at = f.at
        <5>1. IsEntry(f) /\ m \in Scanned(f)  BY <1>3, <4>2, <4>3
        <5> QED BY <5>1, OneManifest DEF IsManifestOf
      <4>6. f = e
        <5>1. e \in D /\ f \in D /\ e.at = f.at  BY <4>4, <4>5
        <5> QED BY <5>1 DEF Located
      <4> QED BY <4>1, <4>6, <2>1
    <3> QED BY <3>1, <3>2
  <2>4. Twins(n, M1) = {m, n}
    BY <2>1, <2>2, <2>3 DEF Twins
  <2>5. IsFiniteSet(Twins(n, M1))
    <3>1. Twins(n, M1) \in SUBSET M1  BY DEF Twins
    <3> QED BY <3>1, <1>5, FS_Subset
  <2>6. n \in Accepted(Twins(n, M1))
    <3>1. m.scope # "project"  BY <2>2
    <3> HIDE DEF M0, M1, caps0, caps1
    <3> QED BY <2>1, <2>2, <2>4, <2>5, <3>1, AcceptedMeans
  <2> QED BY <2>1, <2>6, <1>5
<1>10. ASSUME NEW x \in M0, x \notin B PROVE Twins(x, M1) = Twins(x, M0)
  <2>1. ASSUME NEW y \in M1, y \notin M0 PROVE Identity(y) # Identity(x)
    <3>1. PICK e \in E : y \in Scanned(ProjectCopy(e))
      BY <2>1, <1>7
    <3>2. PICK m \in B : Identity(y) = Identity(m)
      BY <3>1, <1>8
    <3>3. Twins(m, M0) = {m}
      BY <1>2
    <3> QED BY <3>2, <3>3, <1>10 DEF Twins
  <2> QED BY <2>1, <1>6 DEF Twins
<1>11. ASSUME NEW x \in caps0 PROVE \E y \in caps1 : Alike(x, y)
  <2>1. CASE x \in B
    <3>1. PICK e \in E : Scanned(e) = {x} /\ e.adapter = "agent-skill"
      BY <2>1, <1>2
    <3>2. PICK n \in Scanned(ProjectCopy(e)) : Alike(x, n)
      BY <3>1, <1>3, CopyOfSkill
    <3> QED BY <2>1, <3>1, <3>2, <1>9
  <2>2. CASE x \notin B
    <3>1. x \in caps1
      BY <2>2, <1>1, <1>5, <1>6, <1>10
    <3> QED BY <3>1 DEF Alike
  <2> QED BY <2>1, <2>2
<1>12. ASSUME NEW y \in caps1 PROVE \E x \in caps0 : Alike(x, y)
  <2>1. y \in M1 /\ y \in Accepted(Twins(y, M1))
    BY <1>5
  <2>2. CASE y \notin M0
    <3>1. PICK e \in E : y \in Scanned(ProjectCopy(e))
      BY <2>1, <2>2, <1>7
    <3>2. PICK m \in B : Alike(m, y)
      BY <3>1, <1>8
    <3> QED BY <3>2
  <2>3. CASE y \in B
    BY <2>3 DEF Alike
  <2>4. CASE y \in M0 /\ y \notin B
    <3>1. y \in caps0
      BY <2>1, <2>4, <1>1, <1>10
    <3> QED BY <3>1 DEF Alike
  <2> QED BY <2>2, <2>3, <2>4
<1> QED BY <1>4, <1>11, <1>12 DEF Mirrors

(***************************************************************************)
(* The shape of a running call and of the checkpoint.                      *)
(***************************************************************************)
RunFields ==
  {"step", "seen", "inventory", "answers", "asked", "mode", "blueprint", "plan", "found",
   "weather", "supplied"}

Steps == {"planned", "searched", "revised", "review", "model-review"}

Machine == disk \in Disks /\ Copies(copies)

IsCheckpoint(c) == DOMAIN c = {"stage", "blueprint"} /\ c.stage \in {"recommend", "review"}

(***************************************************************************)
(* The checkpoint is one, and a running call works on the blueprint it has.*)
(***************************************************************************)
Stored == cp # None => IsCheckpoint(cp)

Running ==
  run # None =>
    /\ DOMAIN run = RunFields /\ run.step \in Steps
    /\ IsCheckpoint(cp) /\ cp.blueprint = run.blueprint

(***************************************************************************)
(* The plan in hand is made from the scan of this call and from the        *)
(* blueprint as it now stands.                                             *)
(***************************************************************************)
PlanIsCurrent ==
  run # None =>
    /\ Real(run.seen) /\ \E broken : run.inventory = Scan(run.seen, broken)
    /\ MadeFrom(run.plan, run.inventory, run.blueprint, world.policy)

(***************************************************************************)
(* Until the disk is edited the scan of a call is current.                 *)
(***************************************************************************)
SeenIsCurrent ==
  run # None /\ settled # None => run.seen = Discovered(disk \cup copies, TRUE)

(***************************************************************************)
(* What the last applied call selected is the selection of a plan whose    *)
(* inventory what is now on disk and in the project mirrors.               *)
(***************************************************************************)
Holds(s, D, C, policy) ==
  s # None /\ s.current =>
    \E before, broken, p :
      /\ s.broken = {<<a>> : a \in broken}
      /\ MadeFrom(p, before, s.blueprint, policy)
      /\ s.chosen = Selections(p)
      /\ Mirrors(before.capabilities, Scan(Discovered(D \cup C, TRUE), broken).capabilities)

SettledHolds == Holds(settled, disk, copies, world.policy)

(***************************************************************************)
(* The inductive invariant.                                                *)
(***************************************************************************)
PlanningInv ==
  Machine /\ Stored /\ Running /\ PlanIsCurrent /\ SeenIsCurrent /\ SettledHolds /\ BoundAsScanned

(***************************************************************************)
(* It holds before the first call.                                         *)
(***************************************************************************)
LEMMA PlanningInitHolds ==
  ASSUME PlanningInit
  PROVE  PlanningInv
<1>1. Copies({})
  BY FS_EmptySet DEF Copies
<1> QED BY <1>1 DEF PlanningInit, PlanningInv, Machine, Stored, Running, PlanIsCurrent,
             SeenIsCurrent, SettledHolds, Holds, BoundAsScanned

(***************************************************************************)
(* An edit leaves the plan of a running call to the scan it was made from. *)
(***************************************************************************)
LEMMA EditHolds ==
  ASSUME PlanningInv, Edit
  PROVE  PlanningInv'
<1>1. /\ disk' \in Disks /\ settled' = None
      /\ copies' = copies /\ cp' = cp /\ run' = run /\ bindings' = bindings /\ world' = world
  BY DEF Edit
<1>2. PlanIsCurrent'
  BY <1>1 DEF PlanningInv, PlanIsCurrent
<1> QED BY <1>1, <1>2 DEF PlanningInv, Machine, Stored, Running, SeenIsCurrent, SettledHolds, Holds,
             BoundAsScanned

(***************************************************************************)
(* A call scans, and plans for the blueprint it saves.                     *)
(***************************************************************************)
LEMMA StartHolds ==
  ASSUME PlanningInv, Start
  PROVE  PlanningInv'
<1>1. /\ disk' = disk /\ copies' = copies /\ settled' = settled /\ bindings' = bindings
      /\ world' = world /\ run = None
  BY DEF Start
<1>2. PICK given \in Blueprints \cup {None}, asked \in Asks,
           way \in {"denied", "offline", "live"}, broken \in SUBSET Breakable :
        /\ cp = None => given # None
        /\ LET there     == Discovered(disk \cup copies, TRUE)
               inventory == Scan(there, broken)
               blueprint == IF cp = None THEN given ELSE cp.blueprint
               plans     == BuildPlan(inventory, blueprint, Nothing, Suppressed(asked))
           IN  /\ run' = IF plans = {} THEN None
                         ELSE [step |-> "planned", seen |-> there, inventory |-> inventory,
                               answers |-> given, asked |-> asked, mode |-> way,
                               blueprint |-> blueprint, plan |-> CHOOSE p \in plans : TRUE,
                               found |-> Nothing, weather |-> None, supplied |-> <<>>]
               /\ cp' = IF cp = None
                        THEN [stage |-> "recommend", blueprint |-> blueprint] ELSE cp
  BY DEF Start
<1> DEFINE there     == Discovered(disk \cup copies, TRUE)
           inventory == Scan(there, broken)
           blueprint == IF cp = None THEN given ELSE cp.blueprint
           plans     == BuildPlan(inventory, blueprint, Nothing, Suppressed(asked))
           plan      == CHOOSE p \in plans : TRUE
           found     == Nothing
<1> HIDE DEF found
<1>3. /\ run' = IF plans = {} THEN None
                ELSE [step |-> "planned", seen |-> there, inventory |-> inventory,
                      answers |-> given, asked |-> asked, mode |-> way,
                      blueprint |-> blueprint, plan |-> plan,
                      found |-> found, weather |-> None, supplied |-> <<>>]
      /\ cp' = IF cp = None THEN [stage |-> "recommend", blueprint |-> blueprint] ELSE cp
  BY <1>2, ZenonT(60) DEF found
<1>4. plans # {} => MadeFrom(plan, inventory, blueprint, world.policy)
  BY BuiltIsMade
<1>5. Real(there)
  BY FiniteDiscovered, DisksAreReal DEF PlanningInv, Machine, Real
<1> HIDE DEF there, inventory, plans, plan
<1>6. Machine' /\ BoundAsScanned'
  BY <1>1 DEF PlanningInv, Machine, BoundAsScanned
<1>7. SettledHolds'
  BY <1>1 DEF PlanningInv, SettledHolds, Holds
<1>8. Stored' /\ Running'
  BY <1>3 DEF PlanningInv, Stored, Running, RunFields, Steps, IsCheckpoint
<1>9. run' # None => /\ run'.plan = plan /\ run'.inventory = inventory /\ run'.blueprint = blueprint
                     /\ run'.seen = there /\ plans # {}
  BY <1>3
<1>10. PlanIsCurrent'
  BY <1>1, <1>4, <1>5, <1>9 DEF PlanIsCurrent, inventory
<1>11. SeenIsCurrent'
  BY <1>1, <1>9 DEF SeenIsCurrent, there
<1> QED BY <1>6, <1>7, <1>8, <1>10, <1>11 DEF PlanningInv

(***************************************************************************)
(* A search plans again for the same scan and blueprint.                   *)
(***************************************************************************)
LEMMA FindHolds ==
  ASSUME PlanningInv, Find
  PROVE  PlanningInv'
<1>1. /\ disk' = disk /\ copies' = copies /\ cp' = cp /\ settled' = settled /\ bindings' = bindings
      /\ world' = world /\ run # None
  BY DEF Find
<1>2. \E found, weather, p :
        /\ p \in Replanned(run.blueprint, found)
        /\ run' = [run EXCEPT !.step = "searched", !.found = found, !.weather = weather, !.plan = p]
  <2> DEFINE found(w) == DiscoverRemote(GapOrder(run.plan), run.mode, world.snapshot,
                                        run.blueprint.leads, w, run.blueprint)
  <2>1. PICK weather : \E p \in Replanned(run.blueprint, found(weather)) :
          run' = [run EXCEPT !.step = "searched", !.found = found(weather), !.weather = weather,
                             !.plan = p]
    BY ZenonT(60) DEF Find
  <2> HIDE DEF found
  <2> QED BY <2>1
<1>3. PICK found, weather, p :
        /\ p \in Replanned(run.blueprint, found)
        /\ run' = [run EXCEPT !.step = "searched", !.found = found, !.weather = weather, !.plan = p]
  BY <1>2
<1>4. MadeFrom(p, run.inventory, run.blueprint, world.policy)
  BY <1>3, BuiltIsMade DEF Replanned
<1>5. /\ DOMAIN run' = RunFields /\ run'.step = "searched" /\ run'.plan = p
      /\ run'.blueprint = run.blueprint /\ run'.seen = run.seen /\ run'.inventory = run.inventory
  BY <1>1, <1>3 DEF PlanningInv, Running, RunFields
<1>6. Stored' /\ Running'
  BY <1>1, <1>5 DEF PlanningInv, Stored, Running, Steps
<1>7. PlanIsCurrent' /\ SeenIsCurrent'
  BY <1>1, <1>4, <1>5 DEF PlanningInv, PlanIsCurrent, SeenIsCurrent
<1>8. Machine' /\ SettledHolds' /\ BoundAsScanned'
  BY <1>1 DEF PlanningInv, Machine, SettledHolds, Holds, BoundAsScanned
<1> QED BY <1>6, <1>7, <1>8 DEF PlanningInv

(***************************************************************************)
(* A revision saves its blueprint and has the plan of it.                  *)
(***************************************************************************)
LEMMA ReviseHolds ==
  ASSUME PlanningInv, Revise
  PROVE  PlanningInv'
<1>1. /\ disk' = disk /\ copies' = copies /\ settled' = settled /\ bindings' = bindings
      /\ world' = world /\ run # None
  BY DEF Revise
<1>2. \E supplied, blueprint :
        /\ run' = IF RevisedPlans(blueprint) = {} THEN None
                  ELSE [run EXCEPT !.step = "revised", !.blueprint = blueprint,
                                   !.supplied = supplied,
                                   !.plan = CHOOSE p \in RevisedPlans(blueprint) : TRUE]
        /\ cp' = [cp EXCEPT !.blueprint = blueprint]
  <2> DEFINE answered == IF run.answers = None THEN run.blueprint ELSE run.answers
             of(items) == IF items = <<>> THEN answered ELSE [answered EXCEPT !.decided = items]
  <2>1. PICK supplied \in Supplies :
          /\ run' = IF RevisedPlans(of(supplied)) = {} THEN None
                    ELSE [run EXCEPT !.step = "revised", !.blueprint = of(supplied),
                                     !.supplied = supplied,
                                     !.plan = CHOOSE p \in RevisedPlans(of(supplied)) : TRUE]
          /\ cp' = [cp EXCEPT !.blueprint = of(supplied)]
    BY ZenonT(60) DEF Revise
  <2> HIDE DEF of
  <2> QED BY <2>1, ZenonT(60)
<1>3. PICK supplied, blueprint :
        /\ run' = IF RevisedPlans(blueprint) = {} THEN None
                  ELSE [run EXCEPT !.step = "revised", !.blueprint = blueprint,
                                   !.supplied = supplied,
                                   !.plan = CHOOSE p \in RevisedPlans(blueprint) : TRUE]
        /\ cp' = [cp EXCEPT !.blueprint = blueprint]
  BY <1>2
<1> DEFINE plan == CHOOSE p \in RevisedPlans(blueprint) : TRUE
<1>4. RevisedPlans(blueprint) # {} => MadeFrom(plan, run.inventory, blueprint, world.policy)
  <2>1. \A p \in RevisedPlans(blueprint) : MadeFrom(p, run.inventory, blueprint, world.policy)
    BY <1>1, BuiltIsMade DEF RevisedPlans, Replanned, PlanningInv, PlanIsCurrent
  <2> QED BY <2>1
<1> HIDE DEF plan
<1>5. run' # None =>
        /\ RevisedPlans(blueprint) # {}
        /\ run' = [run EXCEPT !.step = "revised", !.blueprint = blueprint, !.supplied = supplied,
                              !.plan = plan]
  BY <1>3 DEF plan
<1>6. run' # None =>
        /\ DOMAIN run' = RunFields /\ run'.step = "revised" /\ run'.plan = plan
        /\ run'.blueprint = blueprint /\ run'.seen = run.seen /\ run'.inventory = run.inventory
  BY <1>1, <1>5 DEF PlanningInv, Running, RunFields
<1>7. IsCheckpoint(cp') /\ cp'.blueprint = blueprint
  BY <1>1, <1>3 DEF PlanningInv, Running, IsCheckpoint
<1>8. Stored' /\ Running'
  BY <1>6, <1>7 DEF Stored, Running, Steps
<1>9. PlanIsCurrent' /\ SeenIsCurrent'
  BY <1>1, <1>4, <1>5, <1>6 DEF PlanningInv, PlanIsCurrent, SeenIsCurrent
<1>10. Machine' /\ SettledHolds' /\ BoundAsScanned'
  BY <1>1 DEF PlanningInv, Machine, SettledHolds, Holds, BoundAsScanned
<1> QED BY <1>8, <1>9, <1>10 DEF PlanningInv

(***************************************************************************)
(* The gate and the wait for --confirm change neither plan nor disk.       *)
(***************************************************************************)
LEMMA GateHolds ==
  ASSUME PlanningInv, Gate \/ Unconfirmed
  PROVE  PlanningInv'
<1>1. /\ disk' = disk /\ copies' = copies /\ settled' = settled /\ bindings' = bindings
      /\ world' = world /\ run # None
      /\ run' \in {None, [run EXCEPT !.step = "review"], [run EXCEPT !.step = "model-review"]}
      /\ cp' \in {cp, [cp EXCEPT !.stage = "review"]}
  BY DEF Gate, Unconfirmed
<1>2. run' # None =>
        /\ DOMAIN run' = RunFields /\ run'.step \in {"review", "model-review"}
        /\ run'.plan = run.plan
        /\ run'.blueprint = run.blueprint /\ run'.seen = run.seen /\ run'.inventory = run.inventory
  BY <1>1 DEF PlanningInv, Running, RunFields
<1>3. IsCheckpoint(cp') /\ cp'.blueprint = cp.blueprint
  BY <1>1 DEF PlanningInv, Running, IsCheckpoint
<1>4. Stored' /\ Running'
  BY <1>1, <1>2, <1>3 DEF PlanningInv, Stored, Running, Steps
<1>5. PlanIsCurrent' /\ SeenIsCurrent'
  BY <1>1, <1>2 DEF PlanningInv, PlanIsCurrent, SeenIsCurrent
<1>6. Machine' /\ SettledHolds' /\ BoundAsScanned'
  BY <1>1 DEF PlanningInv, Machine, SettledHolds, Holds, BoundAsScanned
<1> QED BY <1>4, <1>5, <1>6 DEF PlanningInv

(***************************************************************************)
(* Binding copies what was scanned, and mirrors the inventory.             *)
(***************************************************************************)
LEMMA ApplyHolds ==
  ASSUME PlanningInv, ApplyPlan
  PROVE  PlanningInv'
<1>1. run # None /\ run' = None /\ cp' = None /\ disk' = disk /\ world' = world
  BY DEF ApplyPlan
<1>2. Stored' /\ Running' /\ PlanIsCurrent' /\ SeenIsCurrent'
  BY <1>1 DEF Stored, Running, PlanIsCurrent, SeenIsCurrent
<1>3. CASE RefusesBinding
  <2>1. copies' = copies /\ settled' = settled /\ bindings' = bindings
    BY <1>3 DEF ApplyPlan
  <2>2. Machine' /\ SettledHolds' /\ BoundAsScanned'
    BY <1>1, <2>1 DEF PlanningInv, Machine, SettledHolds, Holds, BoundAsScanned
  <2> QED BY <1>2, <2>2 DEF PlanningInv
<1>4. CASE ~RefusesBinding
  <2> DEFINE E == UNION {OnDisk(m) : m \in ToBind}
  <2>1. /\ copies' = WithBound(copies, E)
        /\ settled' = [blueprint |-> run.blueprint, chosen |-> Selections(run.plan),
                       broken |-> Broken(run.inventory),
                       current |-> run.seen = Discovered(disk \cup copies, TRUE)]
        /\ bindings' = bindings \cup UNION {{<<m, e.content>> : e \in OnDisk(m)} : m \in ToBind}
    BY <1>4, ZenonT(60) DEF ApplyPlan, WithBound
  <2>2. Real(disk) /\ Located(disk) /\ Copies(copies)
    BY DisksAreReal DEF PlanningInv, Machine, Real, Located
  <2>3. PICK broken : run.inventory = Scan(run.seen, broken)
    BY <1>1 DEF PlanningInv, PlanIsCurrent
  <2>4. Grounded(run.plan, run.inventory, run.blueprint, world.policy)
    BY <1>1, MadeIsGrounded DEF PlanningInv, PlanIsCurrent
  <2>5. ASSUME NEW m \in ToBind
        PROVE  /\ m \in run.inventory.capabilities /\ m.adapter = "agent-skill" /\ m.scope = "user"
               /\ m.verified /\ UNION {Bundle(e) : e \in OnDisk(m)} = {m.content}
    <3>1. PICK s \in SkillSelections : m = s[2]
      BY DEF ToBind
    <3>2. s \in Selections(run.plan) /\ m.adapter = "agent-skill" /\ m.scope = "user"
      BY <3>1 DEF SkillSelections, ToBind
    <3>3. m \in run.inventory.capabilities
      BY <3>1, <3>2, <2>4 DEF Selections, Grounded
    <3> QED BY <3>1, <3>2, <3>3, <1>4 DEF RefusesBinding
  <2>6. ASSUME NEW m \in ToBind
        PROVE  \E e \in OnDisk(m) : OnDisk(m) = {e} /\ e.content = m.content
    <3>1. PICK e \in OnDisk(m) : m.content \in Bundle(e)
      <4>1. m.content \in UNION {Bundle(e) : e \in OnDisk(m)}
        BY <2>5
      <4> QED BY <4>1
    <3>2. OnDisk(m) = {e}
      BY <2>2 DEF OnDisk, Located
    <3>3. e.content = m.content
      <4>1. PICK n \in AgentSkill(e) : n.content = m.content
        BY <3>1 DEF Bundle
      <4>2. n.content = e.content
        BY <4>1, ManifestIs DEF AgentSkill, IsManifestOf
      <4> QED BY <4>1, <4>2
    <3> QED BY <3>2, <3>3
  <2>7. BoundAsScanned'
    <3>1. ASSUME NEW b \in bindings', b \notin bindings PROVE b[1].verified /\ b[1].content = b[2]
      <4>1. PICK m \in ToBind : b \in {<<m, e.content>> : e \in OnDisk(m)}
        BY <2>1, <3>1
      <4>2. PICK e \in OnDisk(m) : b = <<m, e.content>>
        BY <4>1
      <4>3. e.content = m.content
        BY <4>2, <2>6
      <4> QED BY <4>2, <4>3, <2>5
    <3> QED BY <3>1 DEF PlanningInv, BoundAsScanned
  <2>8. /\ E \subseteq disk
        /\ \A m \in ToBind : \E e \in E : e.at = m.at
        /\ \A e \in E : \E m \in ToBind : e.at = m.at
    BY <2>6 DEF OnDisk
  <2>9. Machine'
    <3>1. \A e \in E : e.adapter = "agent-skill"
      BY <2>5 DEF OnDisk
    <3>2. Real(E)
      <4>1. E \in SUBSET disk  BY <2>8
      <4> QED BY <4>1, <2>2, FS_Subset DEF Real
    <3> HIDE DEF E
    <3> QED BY <1>1, <2>1, <2>2, <3>1, <3>2, CopiesStay DEF PlanningInv, Machine
  <2>10. SettledHolds'
    <3> DEFINE before == run.inventory
               after  == Scan(Discovered(disk \cup copies', TRUE), broken)
    <3> SUFFICES ASSUME run.seen = Discovered(disk \cup copies, TRUE)
                 PROVE  /\ settled'.broken = {<<a>> : a \in broken}
                        /\ MadeFrom(run.plan, before, settled'.blueprint, world.policy)
                        /\ settled'.chosen = Selections(run.plan)
                        /\ Mirrors(before.capabilities, after.capabilities)
      <4>1. settled'.current = (run.seen = Discovered(disk \cup copies, TRUE))
        BY <2>1
      <4> QED BY <1>1, <4>1, ZenonT(60) DEF SettledHolds, Holds
    <3>1. settled'.broken = {<<a>> : a \in broken}
      BY <2>1, <2>3, ScanMeans DEF Broken
    <3>2. MadeFrom(run.plan, before, settled'.blueprint, world.policy)
      BY <1>1, <2>1 DEF PlanningInv, PlanIsCurrent
    <3>3. settled'.chosen = Selections(run.plan)
      BY <2>1
    <3>4. \A m \in ToBind :
            /\ m \in Scan(Discovered(disk \cup copies, TRUE), broken).capabilities
            /\ m.adapter = "agent-skill" /\ m.scope = "user"
            /\ \E e \in E : e.at = m.at
      BY <2>3, <2>5, <2>8
    <3>5. Mirrors(before.capabilities, after.capabilities)
      <4> HIDE DEF E
      <4> QED BY <2>1, <2>2, <2>3, <2>8, <3>4, BindingMirrors
    <3> QED BY <3>1, <3>2, <3>3, <3>5
  <2> QED BY <1>2, <2>7, <2>9, <2>10 DEF PlanningInv
<1> QED BY <1>3, <1>4

(***************************************************************************)
(* A call that has nothing to apply ends and changes nothing.              *)
(***************************************************************************)
LEMMA NothingHolds ==
  ASSUME PlanningInv, ApplyNothing
  PROVE  PlanningInv'
<1>1. /\ disk' = disk /\ copies' = copies /\ settled' = settled /\ bindings' = bindings
      /\ world' = world /\ run' = None /\ cp' = None
  BY DEF ApplyNothing
<1>2. Stored' /\ Running' /\ PlanIsCurrent' /\ SeenIsCurrent'
  BY <1>1 DEF Stored, Running, PlanIsCurrent, SeenIsCurrent
<1>3. Machine' /\ SettledHolds' /\ BoundAsScanned'
  BY <1>1 DEF PlanningInv, Machine, SettledHolds, Holds, BoundAsScanned
<1> QED BY <1>2, <1>3 DEF PlanningInv

(***************************************************************************)
(* Every reachable state satisfies the invariant.                          *)
(***************************************************************************)
THEOREM PlanningInvariance == PlanningSpec => []PlanningInv
<1>1. PlanningInit => PlanningInv
  BY PlanningInitHolds
<1>2. PlanningInv /\ [PlanningNext]_planning => PlanningInv'
  <2> SUFFICES ASSUME PlanningInv, [PlanningNext]_planning PROVE PlanningInv'
    OBVIOUS
  <2>1. CASE Edit      BY <2>1, EditHolds
  <2>2. CASE Start     BY <2>2, StartHolds
  <2>3. CASE Find      BY <2>3, FindHolds
  <2>4. CASE Revise    BY <2>4, ReviseHolds
  <2>5. CASE Gate \/ Unconfirmed
    BY <2>5, GateHolds
  <2>6. CASE ApplyPlan BY <2>6, ApplyHolds
  <2>7. CASE ApplyNothing
    BY <2>7, NothingHolds
  <2>8. CASE UNCHANGED planning
    BY <2>8 DEF planning, PlanningInv, Machine, Stored, Running, PlanIsCurrent, SeenIsCurrent,
                SettledHolds, Holds, BoundAsScanned
  <2> QED BY <2>1, <2>2, <2>3, <2>4, <2>5, <2>6, <2>7, <2>8 DEF PlanningNext
<1> QED BY <1>1, <1>2, PTL DEF PlanningSpec

(***************************************************************************)
(* BoundAsScanned: whatever the user edits between the scan and --confirm, *)
(* the files that build_skill_binding_proposals copies are those of a      *)
(* verified skill, as they were when it was scanned.                       *)
(***************************************************************************)
THEOREM BindingIsFaithful == PlanningSpec => []BoundAsScanned
<1>1. PlanningInv => BoundAsScanned
  BY DEF PlanningInv
<1> QED BY <1>1, PlanningInvariance, PTL

(***************************************************************************)
(* NothingVanishes: InventoryService.scan loses no entry silently, whatever*)
(* is on disk and whichever adapters fail.                                 *)
(***************************************************************************)
THEOREM ScansLoseNothing == PlanningSpec => []NothingVanishes
<1>1. PlanningInv => NothingVanishes
  <2> SUFFICES ASSUME PlanningInv, run # None, NEW e \in run.seen
               PROVE  AccountedFor(e, run.inventory)
    BY DEF NothingVanishes, AccountedFor
  <2>1. PICK broken : Real(run.seen) /\ run.inventory = Scan(run.seen, broken)
    BY DEF PlanningInv, PlanIsCurrent
  <2> QED BY <2>1, ScanLosesNothing
<1> QED BY <1>1, PlanningInvariance, PTL

(***************************************************************************)
(* SelectedIsAllowed: no plan of a call, first, searched or revised,       *)
(* selects a provider outside the hard limits of its blueprint and of the  *)
(* organization.                                                           *)
(***************************************************************************)
THEOREM SelectionsAreAllowed == PlanningSpec => []SelectedIsAllowed
<1>1. PlanningInv => SelectedIsAllowed
  <2> SUFFICES ASSUME PlanningInv, run # None, NEW x \in run.plan.resolutions, NEW m \in x.selected
               PROVE  SelectionAllowed(m)
    BY DEF SelectedIsAllowed
  <2>1. Permitted(m, run.blueprint, world.policy)
    BY MadeIsGrounded DEF PlanningInv, PlanIsCurrent, Grounded
  <2> QED BY <2>1 DEF Permitted, SelectionAllowed
<1> QED BY <1>1, PlanningInvariance, PTL

(***************************************************************************)
(* RepeatIsStable: on an unchanged machine a later call selects the same   *)
(* providers for the same blueprint, although project copies now shadow the*)
(* skills that were bound.                                                 *)
(***************************************************************************)
THEOREM InitializingAgainIsStable == PlanningSpec => []RepeatIsStable
<1>1. PlanningInv => RepeatIsStable
  <2> SUFFICES ASSUME PlanningInv, run # None, settled # None, settled.current,
                      settled.blueprint = run.blueprint, settled.broken = Broken(run.inventory)
               PROVE  Chosen(Selections(run.plan)) = Chosen(settled.chosen)
    BY DEF RepeatIsStable
  <2>1. PICK broken : run.inventory = Scan(run.seen, broken)
    BY DEF PlanningInv, PlanIsCurrent
  <2>2. \E before, b, p :
          /\ settled.broken = {<<a>> : a \in b}
          /\ MadeFrom(p, before, settled.blueprint, world.policy)
          /\ settled.chosen = Selections(p)
          /\ Mirrors(before.capabilities, Scan(Discovered(disk \cup copies, TRUE), b).capabilities)
    BY ZenonT(60) DEF PlanningInv, SettledHolds, Holds
  <2>3. PICK before, b, p :
          /\ settled.broken = {<<a>> : a \in b}
          /\ MadeFrom(p, before, settled.blueprint, world.policy)
          /\ settled.chosen = Selections(p)
          /\ Mirrors(before.capabilities, Scan(Discovered(disk \cup copies, TRUE), b).capabilities)
    BY <2>2
  <2>4. run.seen = Discovered(disk \cup copies, TRUE)
    BY DEF PlanningInv, SeenIsCurrent
  <2>5. b = broken
    <3>1. {<<a>> : a \in b} = {<<a>> : a \in broken}
      BY <2>1, <2>3, ScanMeans DEF Broken
    <3>2. \A X, Y : (\A a \in X : <<a>> \in {<<c>> : c \in Y}) => X \subseteq Y
      <4>1. \A a, c : <<a>> = <<c>> => a = c
        OBVIOUS
      <4> QED BY <4>1
    <3>3. /\ \A a \in b : <<a>> \in {<<c>> : c \in broken}
          /\ \A a \in broken : <<a>> \in {<<c>> : c \in b}
      BY <3>1
    <3>4. b \subseteq broken /\ broken \subseteq b
      BY <3>2, <3>3
    <3> QED BY <3>4
  <2>6. Mirrors(before.capabilities, run.inventory.capabilities)
    BY <2>1, <2>3, <2>4, <2>5
  <2>7. Mirrors(run.inventory.capabilities, before.capabilities)
    BY <2>6, AlikeIsSymmetric DEF Mirrors
  <2>8. MadeFrom(run.plan, run.inventory, run.blueprint, world.policy)
    BY DEF PlanningInv, PlanIsCurrent
  <2>9. Chosen(Selections(run.plan)) \subseteq Chosen(Selections(p))
    BY <2>3, <2>7, <2>8, ChosenAlike
  <2>10. Chosen(Selections(p)) \subseteq Chosen(Selections(run.plan))
    BY <2>3, <2>6, <2>8, ChosenAlike
  <2> QED BY <2>3, <2>9, <2>10
<1> QED BY <1>1, PlanningInvariance, PTL

(***************************************************************************)
(* A decision is in force when it was made in this call or before.         *)
(***************************************************************************)
LEMMA OverDomain ==
  ASSUME NEW f, NEW g
  PROVE  DOMAIN Over(f, g) = DOMAIN f \cup DOMAIN g
BY DEF Over

(***************************************************************************)
(* evaluate_review_readiness says ready only when the required gaps, those *)
(* never searched for and those with candidates are decided, and an        *)
(* accepting run knows the network policy.                                 *)
(***************************************************************************)
LEMMA EvaluatedReady ==
  ASSUME NEW required, NEW recommended, NEW status, NEW decisions, NEW unknown,
         Evaluated(required, recommended, status, decisions, unknown).ready
  PROVE  /\ \A r \in required : DecisionFor(decisions, r) \in Decision
         /\ \A r \in required \cup recommended :
              r \in DOMAIN status =>
                /\ status[r] = "not-requested" => DecisionFor(decisions, r) \in Decision
                /\ status[r] = "candidates-found" => DecisionFor(decisions, r) \in Decision
         /\ ~unknown
<1> DEFINE gaps         == required \cup recommended
           is(r, s)     == r \in DOMAIN status /\ status[r] = s
           unresolved   == {r \in required : DecisionFor(decisions, r) \notin Decision}
           notRequested == {r \in gaps : is(r, "not-requested")
                                         /\ DecisionFor(decisions, r) \notin {"reject", "defer"}}
           undecided    == {r \in gaps : is(r, "candidates-found")
                                         /\ DecisionFor(decisions, r) \notin Decision}
           answer       == Evaluated(required, recommended, status, decisions, unknown)
<1>1. CASE unresolved \cup notRequested # {}
  <2>1. answer = Readiness(FALSE, "request-discovery-decision", unresolved \cup notRequested)
    BY <1>1 DEF Evaluated
  <2>2. ~answer.ready
    BY <2>1 DEF Readiness
  <2> QED BY <2>2
<1>2. CASE unresolved \cup notRequested = {} /\ undecided # {}
  <2>1. answer = Readiness(FALSE, "request-candidate-decision", undecided)
    BY <1>2 DEF Evaluated
  <2>2. ~answer.ready
    BY <2>1 DEF Readiness
  <2> QED BY <2>2
<1>3. CASE unresolved \cup notRequested = {} /\ undecided = {}
  <2>1. ~unknown
    <3> DEFINE next == IF unknown THEN "request-permission-decision" ELSE "review-installation"
    <3>1. answer = Readiness(~unknown, next, {})
      BY <1>3 DEF Evaluated
    <3>2. ASSUME unknown PROVE FALSE
      <4>1. (~unknown) = FALSE
        BY <3>2
      <4>2. answer = Readiness(FALSE, next, {})
        <5> HIDE DEF answer, next
        <5> QED BY <3>1, <4>1, Zenon
      <4>3. ~answer.ready
        BY <4>2 DEF Readiness
      <4> QED BY <4>3
    <3> QED BY <3>2
  <2> QED BY <1>3, <2>1 DEF Decision
<1> QED BY <1>1, <1>2, <1>3

(***************************************************************************)
(* A decision in force on a requirement comes from this call, from the     *)
(* blueprint or from a decision on a candidate that provides it.           *)
(***************************************************************************)
LEMMA DecidedIsSpoken ==
  ASSUME NEW decided, NEW asked, NEW past, NEW candidates, NEW supplied, NEW r,
         DecisionFor(Over(supplied, CandidateDecisions(decided, asked, past, candidates)), r)
           \in Decision
  PROVE  LET about == {d \in candidates : d.ref \in DOMAIN past \cup DOMAIN asked}
         IN  {r, Every} \cap (DOMAIN supplied \cup DOMAIN decided \cup UNION {c.provides : c \in about})
               # {}
<1> DEFINE D     == CandidateDecisions(decided, asked, past, candidates)
           about == {d \in candidates : d.ref \in DOMAIN past \cup DOMAIN asked}
           U     == UNION {c.provides : c \in about}
<1>1. r \in DOMAIN Over(supplied, D) \/ Every \in DOMAIN Over(supplied, D)
  BY DEF DecisionFor, Decision
<1>2. DOMAIN Over(supplied, D) = DOMAIN supplied \cup DOMAIN D
  BY OverDomain
<1>3. ASSUME NEW x \in DOMAIN D PROVE x \in DOMAIN decided \cup U \/ Every \in DOMAIN decided
  <2> DEFINE effective == Effective(past, asked)
             provided  == UNION {c.provides : c \in candidates}
             refs(q)   == {c.ref : c \in {d \in candidates : q \in d.provides}} \cap DOMAIN effective
             lastOf(q) == CHOOSE ref \in refs(q) : \A other \in refs(q) :
                            Later([y \in DOMAIN asked \ DOMAIN past |-> 0], ref, other)
             remote    == [q \in {p \in provided : refs(p) # {}} |-> effective[lastOf(q)]]
             default   == [q \in {p \in provided : Every \in DOMAIN decided} |-> decided[Every]]
  <2>1. D = Over(remote, Over(decided, default))
    BY ZenonT(60) DEF CandidateDecisions
  <2>2. DOMAIN D = DOMAIN remote \cup (DOMAIN decided \cup DOMAIN default)
    <3>1. DOMAIN Over(remote, Over(decided, default)) = DOMAIN remote \cup DOMAIN Over(decided, default)
      BY ZenonT(60), OverDomain
    <3>2. DOMAIN Over(decided, default) = DOMAIN decided \cup DOMAIN default
      BY ZenonT(60), OverDomain
    <3> HIDE DEF remote, default, D
    <3> QED BY <2>1, <3>1, <3>2
  <2>3. DOMAIN remote = {p \in provided : refs(p) # {}}
    <3> HIDE DEF lastOf, effective, provided, refs
    <3> QED OBVIOUS
  <2>4. DOMAIN default = {p \in provided : Every \in DOMAIN decided}
    OBVIOUS
  <2>5. DOMAIN effective = DOMAIN asked \cup DOMAIN past
    BY OverDomain DEF Effective
  <2>6. CASE x \in DOMAIN remote
    <3>1. PICK ref \in refs(x) : TRUE
      <4> HIDE DEF refs, remote
      <4> QED BY <2>3, <2>6
    <3>2. PICK c \in candidates : x \in c.provides /\ c.ref \in DOMAIN effective
      BY <3>1
    <3>3. c \in {d \in candidates : d.ref \in DOMAIN past \cup DOMAIN asked}
      BY <3>2, <2>5
    <3> HIDE DEF effective, refs, remote, D
    <3> QED BY <3>2, <3>3
  <2>7. CASE x \in DOMAIN default
    <3> HIDE DEF default
    <3> QED BY <2>4, <2>7
  <2> HIDE DEF remote, default, D
  <2> QED BY <2>2, <2>6, <2>7
<1> HIDE DEF D
<1> QED BY <1>1, <1>2, <1>3

(***************************************************************************)
(* What a call that goes to review owes the gap of a resolution.           *)
(***************************************************************************)
GapIsSettled(x) ==
  LET r == x.requirement.capability
      reported == r \in DOMAIN run.found.reports
      required == \E q \in run.plan.requirements : q.capability = r /\ q.strength = "required"
      awaited  == reported /\ run.found.reports[r].status \in {"not-requested", "candidates-found"}
  IN  x.gap => /\ required \/ awaited => {r, Every} \cap Spoken # {}
               /\ AcceptsGap(r) => run.blueprint.network # "unknown"

(***************************************************************************)
(* A run that is ready has settled each of its gaps.                       *)
(***************************************************************************)
LEMMA ReadyHasSettled ==
  ASSUME ReadinessOf(run).ready, NEW x \in run.plan.resolutions
  PROVE  GapIsSettled(x)
<1> DEFINE r         == x.requirement.capability
           gaps      == Gaps(run.plan)
           decisions == Over(run.supplied, CandidateDecisions(run.blueprint.decided, run.asked,
                                                              saved, run.found.candidates))
           required  == {s \in gaps : \E q \in run.plan.requirements :
                                        q.capability = s /\ q.strength = "required"}
           status    == [s \in DOMAIN run.found.reports |-> run.found.reports[s].status]
           unknown   == run.blueprint.network = "unknown"
                          /\ \E s \in gaps : DecisionFor(decisions, s) = "accept"
<1> SUFFICES ASSUME x.gap
             PROVE  /\ \/ \E q \in run.plan.requirements : q.capability = r /\ q.strength = "required"
                       \/ /\ r \in DOMAIN run.found.reports
                          /\ run.found.reports[r].status \in {"not-requested", "candidates-found"}
                       => {r, Every} \cap Spoken # {}
                    /\ AcceptsGap(r) => run.blueprint.network # "unknown"
  BY DEF GapIsSettled
<1>1. Evaluated(required, gaps \ required, status, decisions, unknown).ready
  BY ZenonT(60) DEF ReadinessOf, ReviewReady
<1>2. r \in gaps
  BY DEF Gaps
<1>3. ASSUME \/ \E q \in run.plan.requirements : q.capability = r /\ q.strength = "required"
             \/ /\ r \in DOMAIN run.found.reports
                /\ run.found.reports[r].status \in {"not-requested", "candidates-found"}
      PROVE  {r, Every} \cap Spoken # {}
  <2>1. DecisionFor(decisions, r) \in Decision
    <3>1. CASE r \in required
      <4> HIDE DEF required, gaps, decisions, status, unknown
      <4> QED BY <1>1, <3>1, EvaluatedReady
    <3>2. CASE r \notin required
      <4>1. /\ r \in DOMAIN run.found.reports
            /\ run.found.reports[r].status \in {"not-requested", "candidates-found"}
        BY <1>2, <1>3, <3>2
      <4>2. r \in DOMAIN status /\ status[r] \in {"not-requested", "candidates-found"}
        BY <4>1
      <4>3. r \in required \cup (gaps \ required)
        BY <1>2
      <4> HIDE DEF required, gaps, decisions, status, unknown
      <4> QED BY <1>1, <4>2, <4>3, EvaluatedReady
    <3> QED BY <3>1, <3>2
  <2> QED BY <2>1, DecidedIsSpoken DEF Spoken
<1>4. ASSUME AcceptsGap(r) PROVE run.blueprint.network # "unknown"
  <2>1. DecisionFor(decisions, r) = "accept"
    BY <1>4 DEF AcceptsGap, DecisionFor, Over
  <2>2. ~unknown
    <3> HIDE DEF required, gaps, decisions, status, unknown
    <3> QED BY <1>1, EvaluatedReady
  <2> HIDE DEF gaps, decisions
  <2> QED BY <1>2, <2>1, <2>2
<1> QED BY <1>3, <1>4

(***************************************************************************)
(* The step that ReadyIsEarned speaks of.                                  *)
(***************************************************************************)
Earned ==
  (/\ cp # None /\ cp' # None /\ cp.stage = "recommend" /\ cp'.stage = "review"
   /\ run'.step # "model-review") =>
     \A x \in run.plan.resolutions : GapIsSettled(x)

(***************************************************************************)
(* ReadyIsEarned: a call without --model-only takes a plan into review only*)
(* when the user has spoken of every gap that needs it, and accepts a gap  *)
(* only when the network policy is known.                                  *)
(***************************************************************************)
THEOREM ReviewIsEarned == PlanningSpec => ReadyIsEarned
<1>1. PlanningInv /\ [PlanningNext]_planning => Earned
  <2> SUFFICES ASSUME PlanningInv, [PlanningNext]_planning, cp # None, cp' # None,
                      cp.stage = "recommend", cp'.stage = "review", run'.step # "model-review",
                      NEW x \in run.plan.resolutions
               PROVE  GapIsSettled(x)
    BY DEF Earned
  <2>1. CASE Gate
    <3>1. ReadinessOf(run).ready
      <4>1. PICK modelOnly \in BOOLEAN :
              LET passes == cp.stage = "review" \/ modelOnly \/ ReadinessOf(run).ready
              IN  /\ run' = IF passes
                            THEN [run EXCEPT !.step = IF modelOnly THEN "model-review" ELSE "review"]
                            ELSE None
                  /\ cp' = IF passes THEN [cp EXCEPT !.stage = "review"] ELSE cp
        BY <2>1, ZenonT(60) DEF Gate
      <4>2. ~modelOnly
        <5> SUFFICES ASSUME modelOnly PROVE FALSE
          OBVIOUS
        <5>1. run' = [run EXCEPT !.step = "model-review"]
          BY <4>1
        <5>2. "step" \in DOMAIN run
          BY <2>1 DEF Gate, PlanningInv, Running, RunFields
        <5> QED BY <5>1, <5>2
      <4> QED BY <4>1, <4>2
    <3> QED BY <3>1, ReadyHasSettled
  <2>2. CASE ~Gate
    <3>1. cp' = cp \/ cp' = None \/ cp'.stage = cp.stage
      <4>1. CASE Revise
        <5>1. \E b : cp' = [cp EXCEPT !.blueprint = b]
          BY <4>1, ZenonT(60) DEF Revise
        <5> QED BY <5>1 DEF PlanningInv, Stored, IsCheckpoint
      <4>2. CASE Start
        BY <4>2, ZenonT(60) DEF Start
      <4>3. CASE ApplyPlan
        BY <4>3 DEF ApplyPlan
      <4>4. CASE ApplyNothing
        BY <4>4 DEF ApplyNothing
      <4>5. CASE Edit \/ Find \/ Unconfirmed \/ UNCHANGED planning
        BY <4>5 DEF Edit, Find, Unconfirmed, planning
      <4> QED BY <2>2, <4>1, <4>2, <4>3, <4>4, <4>5 DEF PlanningNext
    <3> QED BY <3>1
  <2> QED BY <2>1, <2>2
<1>2. [][Earned]_planning <=> ReadyIsEarned
  BY DEF ReadyIsEarned, Earned, GapIsSettled
<1>3. PlanningInv /\ [PlanningNext]_planning => [Earned]_planning
  BY <1>1
<1> QED BY <1>2, <1>3, PlanningInvariance, PTL DEF PlanningSpec

(***************************************************************************)
(* A call plans for the blueprint its checkpoint has, and what it selects  *)
(* is grounded in its own scan.                                            *)
(***************************************************************************)
PlansOfTheSaved ==
  run # None =>
    cp.blueprint = run.blueprint /\ Grounded(run.plan, run.inventory, cp.blueprint, world.policy)

(***************************************************************************)
(* PlansOfTheSaved: a plan shown, gated or applied is that of the saved    *)
(* blueprint, also after a revision.                                       *)
(***************************************************************************)
THEOREM PlansAreOfTheSaved == PlanningSpec => []PlansOfTheSaved
<1>1. PlanningInv => PlansOfTheSaved
  BY MadeIsGrounded DEF PlanningInv, Running, PlanIsCurrent, PlansOfTheSaved
<1> QED BY <1>1, PlanningInvariance, PTL

-----------------------------------------------------------------------------

USE StageCountAssumption, StagesAssumption
    DEF Stage, Status, Terminal, First, Inventory, Interview, Model, Resolve, Recommend, Review,
        Apply, Verify

-----------------------------------------------------------------------------
Delivering == {"apply", "verify", "complete"}
Working    == PC \ {"idle", "open"}
HasResult  == {"modelled", "resolved", "discover", "decide", "gate"} \cup Delivering

(***************************************************************************)
(* An invocation that has opened the run found it in the version of the    *)
(* repository it inspected, and works from a result once it has one.       *)
(***************************************************************************)
HasOpened ==
  \A p \in Process :
    /\ pc[p] \in Working => row \in Row /\ seen[p] = row.digest
    /\ pc[p] \in HasResult => structured[p] \in Blueprint

NothingBeforeRow ==
  row \notin Row => applied[1] = Nil /\ ~delivered /\ \A p \in Process : pc[p] \notin Working

(***************************************************************************)
(* Only one invocation ever takes the run to APPLY, and nothing is         *)
(* delivered before or by another.                                         *)
(***************************************************************************)
OneDelivers ==
  /\ (row \in Row => row.stage < Apply) => applied[1] = Nil /\ ~delivered
  /\ \A p \in Process : pc[p] \in Delivering =>
       /\ row.stage >= Apply
       /\ \A q \in Process : pc[q] \in Delivering => q = p
       /\ pc[p] = "apply" => applied[1] = Nil /\ ~delivered
       /\ pc[p] # "apply" => delivered

(***************************************************************************)
(* An invocation that works alone agrees with the row about the stage and  *)
(* with the stored result, and is where its stage says.                    *)
(***************************************************************************)
StagesAt(where) ==
  IF where \in {"cancel", "front"} THEN {First, Inventory, Interview, Recommend, Review}
  ELSE IF where = "modelled" THEN {Model}
  ELSE IF where = "resolved" THEN {Resolve}
  ELSE IF where \in {"discover", "decide", "gate"} THEN {Recommend, Review}
  ELSE IF where \in {"apply", "verify"} THEN {Apply}
  ELSE {Verify}

WorksAlone ==
  ~overlap =>
    /\ \A p, q \in Process : pc[p] # "idle" /\ pc[q] # "idle" => p = q
    /\ \A p \in Process : pc[p] \in Working =>
         /\ row.status = "running"
         /\ stage[p] = row.stage /\ row.stage \in StagesAt(pc[p])
         /\ pc[p] # "modelled" => structured[p] = stored

IInv ==
  /\ TypeOK
  /\ HasOpened
  /\ NothingBeforeRow
  /\ OneDelivers
  /\ WorksAlone
  /\ AppliedOnce
  /\ ProjectFollowsRun
  /\ PausedIsResumable
-----------------------------------------------------------------------------
LocalType ==
  /\ pc \in [Process -> PC]
  /\ seen \in [Process -> Digest]
  /\ answers \in [Process -> Answers \cup {Nil}]
  /\ mode \in [Process -> Mode]
  /\ stage \in [Process -> Stage]
  /\ structured \in [Process -> Blueprint \cup {Nil}]
  /\ ready \in [Process -> BOOLEAN]

\* The invariant holds at the start.
LEMMA InitEstablishes == Init => IInv
<1> SUFFICES ASSUME Init PROVE IInv
  OBVIOUS
<1>1. Blank.digest \in Digest /\ Blank.mode \in Mode /\ Blank.stage \in Stage
  BY DEF Init, Blank, Mode
<1>2. TypeOK
  BY <1>1 DEF Init, TypeOK, PC
<1>3. row \notin Row
  BY NilAssumption DEF Init
<1> QED
  BY <1>2, <1>3 DEF Init, IInv, HasOpened, OneDelivers, WorksAlone, AppliedOnce,
     ProjectFollowsRun, PausedIsResumable, NothingBeforeRow, Working, Delivering, HasResult

(***************************************************************************)
(* An invocation that ends leaves the row, or changes its status: to       *)
(* cancelled before anything was applied, to paused at a stage it can be   *)
(* resumed from, to completed after the delivery.                          *)
(***************************************************************************)
Concludes(p) ==
  \/ row' = row
  \/ /\ row \in Row
     /\ \E s \in {"cancelled", "paused", "completed"} :
          /\ row' = [row EXCEPT !.status = s]
          /\ s = "cancelled" => pc[p] = "cancel"
          /\ s = "paused" => pc[p] = "gate" \/ (pc[p] = "front" /\ stage[p] = Interview)
          /\ s = "completed" => pc[p] = "complete"

LEMMA ReturnPreserves ==
  ASSUME IInv, NEW p \in Process, pc[p] # "idle", Return(p), Concludes(p),
         UNCHANGED <<stored, history>>
  PROVE  IInv'
<1>1. /\ row' \in Row \cup {Nil}
      /\ row' \in Row => row \in Row /\ row'.digest = row.digest /\ row'.stage = row.stage
      /\ row \in Row => row' \in Row
  BY DEF IInv, TypeOK, Row, Concludes
<1>2. /\ pc' \in [Process -> PC] /\ pc'[p] = "idle"
      /\ \A q \in Process : q # p => pc'[q] = pc[q] /\ seen'[q] = seen[q]
                                     /\ structured'[q] = structured[q]
  BY DEF IInv, TypeOK, Return, Goto, PC
<1>3. LocalType'
  <2>1. Blank.digest \in Digest /\ Blank.mode \in Mode /\ Blank.stage \in Stage
    BY DEF IInv, TypeOK, Blank, Mode
  <2> QED BY <1>2, <2>1 DEF IInv, TypeOK, LocalType, Return
<1>4. TypeOK'
  BY <1>1, <1>3 DEF IInv, TypeOK, LocalType, Return, history
<1>5. HasOpened'
  BY <1>1, <1>2 DEF IInv, HasOpened, Working, HasResult, Delivering
<1>6. OneDelivers'
  BY <1>1, <1>2, NilAssumption DEF IInv, HasOpened, OneDelivers, Working, Delivering, PC, history
<1>7. WorksAlone'
  BY <1>2 DEF IInv, WorksAlone, Working, history
<1>8. AppliedOnce'
  BY DEF IInv, AppliedOnce, OneDelivers, Concludes, Delivering, history, Row
<1>9. ~overlap /\ pc[p] \in Working =>
        /\ stage[p] = row.stage /\ row.stage \in StagesAt(pc[p])
        /\ pc[p] # "modelled" => structured[p] = stored
  BY DEF IInv, WorksAlone
<1>10. ProjectFollowsRun'
  <2> SUFFICES ASSUME ~overlap, row' # Nil, row'.status = "cancelled"
               PROVE  applied[1] = Nil /\ ~delivered
    BY DEF IInv, ProjectFollowsRun, history
  <2>1. CASE row' = row
    BY <2>1 DEF IInv, ProjectFollowsRun
  <2>2. CASE row' # row
    <3>1. row \in Row /\ pc[p] = "cancel"
      BY <2>2 DEF Concludes, Row
    <3>2. row.stage < Apply
      BY <1>9, <3>1 DEF StagesAt, Working, PC
    <3> QED BY <3>1, <3>2 DEF IInv, OneDelivers
  <2> QED BY <2>1, <2>2
<1>11. PausedIsResumable'
  <2> SUFFICES ASSUME ~overlap, row' # Nil, row'.status = "paused"
               PROVE  /\ row'.stage \in {Interview, Recommend, Review}
                      /\ row'.stage # Interview => stored # Nil
    BY DEF PausedIsResumable, history
  <2>1. CASE row' = row
    BY <2>1 DEF IInv, PausedIsResumable
  <2>2. CASE row' # row
    <3>1. row \in Row /\ (pc[p] = "gate" \/ (pc[p] = "front" /\ stage[p] = Interview))
      BY <2>2 DEF Concludes, Row
    <3>2. CASE pc[p] = "gate"
      <4>1. structured[p] \in Blueprint
        BY <3>2 DEF IInv, HasOpened, HasResult
      <4> QED BY <1>1, <1>9, <3>1, <3>2, <4>1, NilAssumption DEF StagesAt, Working, PC
    <3>3. CASE pc[p] = "front" /\ stage[p] = Interview
      BY <1>1, <1>9, <3>1, <3>3, NilAssumption DEF Working, PC
    <3> QED BY <3>1, <3>2, <3>3
  <2> QED BY <2>1, <2>2
<1>12. NothingBeforeRow'
  BY <1>1, <1>2 DEF IInv, NothingBeforeRow, Working, history
<1> QED BY <1>4, <1>5, <1>6, <1>7, <1>8, <1>10, <1>11, <1>12 DEF IInv

\* cancel, pauses, a failed apply, complete, an early end.
LEMMA EndsPreserve ==
  ASSUME IInv, NEW p \in Process,
         \/ CancelRun(p) \/ AbortInterview(p) \/ PauseUnready(p) \/ PauseUnconfirmed(p)
         \/ FailToDeliver(p) \/ CompleteRun(p) \/ Exit(p)
  PROVE  IInv'
<1>1. pc[p] \in Working => row \in Row
  BY DEF IInv, HasOpened
<1>2. CASE CancelRun(p)
  BY <1>1, <1>2, ReturnPreserves DEF CancelRun, Concludes, Working, PC
<1>3. CASE AbortInterview(p)
  BY <1>1, <1>3, ReturnPreserves DEF AbortInterview, PauseRun, Concludes, Working, PC
<1>4. CASE PauseUnready(p) \/ PauseUnconfirmed(p)
  BY <1>1, <1>4, ReturnPreserves
  DEF PauseUnready, PauseUnconfirmed, PauseRun, Concludes, Working, PC
<1>5. CASE FailToDeliver(p)
  BY <1>5, ReturnPreserves DEF FailToDeliver, AfterFailure, Concludes, store
<1>6. CASE CompleteRun(p)
  BY <1>1, <1>6, ReturnPreserves DEF CompleteRun, Concludes, Working, PC
<1>7. CASE Exit(p)
  BY <1>7, ReturnPreserves DEF Exit, Concludes, store
<1> QED BY <1>2, <1>3, <1>4, <1>5, <1>6, <1>7

-----------------------------------------------------------------------------
(***************************************************************************)
(* advance by the invocation p, which goes on at the step next.            *)
(***************************************************************************)
Advances(p, s, next) ==
  /\ pc[p] \in Working
  /\ AdvanceTo(p, s) /\ s \in Stage
  /\ pc' = [pc EXCEPT ![p] = next] /\ next \in PC
  /\ \/ next \notin Delivering /\ pc[p] \notin Delivering /\ s < Apply
     \/ next = "apply" /\ pc[p] \notin Delivering /\ s = Apply
     \/ next = "complete" /\ pc[p] = "verify" /\ s = Verify
  /\ next \in Working /\ (~overlap => s \in StagesAt(next))
  /\ UNCHANGED <<seen, answers, mode, ready, history>>

LEMMA AdvancePreserves ==
  ASSUME IInv, NEW p \in Process, NEW s, NEW next, Advances(p, s, next),
         stored' \in Blueprint \cup {Nil},
         stored' = stored \/ s < Apply,
         structured' \in [Process -> Blueprint \cup {Nil}],
         \A q \in Process : q # p => structured'[q] = structured[q],
         next \in HasResult => structured'[p] \in Blueprint,
         ~overlap /\ next # "modelled" => structured'[p] = stored'
  PROVE  IInv'
<1>1. /\ row \in Row /\ row' \in Row /\ row.status = "running" /\ row'.status = "running"
      /\ row'.stage = s /\ row'.stage = row.stage + 1 /\ row'.digest = row.digest
      /\ row.stage \in Stage
  BY DEF IInv, TypeOK, Advances, AdvanceTo, MayAdvance, IsNextStage, Row
<1>2. /\ pc' \in [Process -> PC] /\ pc'[p] = next /\ next \in Working
      /\ stage' \in [Process -> Stage] /\ stage'[p] = s
      /\ \A q \in Process : q # p => pc'[q] = pc[q] /\ stage'[q] = stage[q]
      /\ repository' = repository
      /\ UNCHANGED <<seen, answers, mode, ready, applied, delivered, overlap>>
  BY DEF IInv, TypeOK, Advances, AdvanceTo, history
<1>3. \/ next \notin Delivering /\ pc[p] \notin Delivering /\ s < Apply
      \/ next = "apply" /\ pc[p] \notin Delivering /\ s = Apply
      \/ next = "complete" /\ pc[p] = "verify" /\ s = Verify
  BY DEF Advances
<1>4. TypeOK'
  BY <1>1, <1>2 DEF IInv, TypeOK, history
<1>5. HasOpened'
  BY <1>1, <1>2 DEF IInv, HasOpened, Advances
<1>6. OneDelivers'
  <2>1. row'.stage < Apply => applied'[1] = Nil /\ ~delivered'
    BY <1>1, <1>2 DEF IInv, OneDelivers, history
  <2> SUFFICES ASSUME NEW q \in Process, pc'[q] \in Delivering
               PROVE  /\ row'.stage >= Apply
                      /\ \A x \in Process : pc'[x] \in Delivering => x = q
                      /\ pc'[q] = "apply" => applied'[1] = Nil /\ ~delivered'
                      /\ pc'[q] # "apply" => delivered'
    BY <1>1, <2>1 DEF OneDelivers
  <2>2. \A x \in Process : x # p /\ pc[x] \in Delivering =>
          row.stage >= Apply /\ pc[p] \notin Delivering
    BY DEF IInv, OneDelivers
  <2>3. \A x \in Process : x # p => pc'[x] \notin Delivering
    BY <1>1, <1>2, <1>3, <2>2 DEF Delivering
  <2>4. q = p /\ next \in Delivering
    BY <1>2, <2>3
  <2>5. applied' = applied /\ (delivered' <=> delivered)
    BY <1>2
  <2>6. CASE next = "apply"
    <3>1. row.stage < Apply /\ s = Apply
      BY <1>1, <1>3, <2>6 DEF Delivering
    <3>2. applied[1] = Nil /\ ~delivered
      BY <1>1, <3>1 DEF IInv, OneDelivers
    <3>3. row'.stage >= Apply
      <4>1. row'.stage = s  BY <1>1
      <4>2. s \in Stage /\ s >= Apply  BY <3>1
      <4> QED BY <4>1, <4>2
    <3>4. pc'[q] = "apply"
      BY <1>2, <2>4, <2>6
    <3> QED BY <2>3, <2>4, <2>5, <3>2, <3>3, <3>4
  <2>7. CASE next = "complete"
    <3>1. s = Verify /\ delivered
      BY <1>3, <2>7 DEF IInv, OneDelivers, Delivering
    <3>2. row'.stage >= Apply
      <4>1. row'.stage = s  BY <1>1
      <4>2. s \in Stage /\ s >= Apply  BY <3>1
      <4> QED BY <4>1, <4>2
    <3>3. pc'[q] = "complete"
      BY <1>2, <2>4, <2>7
    <3> QED BY <2>3, <2>4, <2>5, <3>1, <3>2, <3>3
  <2> QED BY <1>3, <2>4, <2>6, <2>7
<1>7. WorksAlone'
  BY <1>1, <1>2 DEF IInv, WorksAlone, Advances, Working, history
<1>8. AppliedOnce'
  BY <1>1, <1>2 DEF IInv, AppliedOnce, history
<1>9. ProjectFollowsRun'
  <2>1. stored' = stored \/ applied[1] = Nil
    BY <1>1 DEF IInv, OneDelivers
  <2> QED BY <1>1, <1>2, <2>1 DEF IInv, ProjectFollowsRun, history
<1>10. PausedIsResumable'
  BY <1>1 DEF PausedIsResumable
<1>11. NothingBeforeRow'
  BY <1>1 DEF NothingBeforeRow
<1> QED BY <1>4, <1>5, <1>6, <1>7, <1>8, <1>9, <1>10, <1>11 DEF IInv

\* Every advance of the program.
LEMMA AdvancesPreserve ==
  ASSUME IInv, NEW p \in Process,
         \/ Inspect(p) \/ FinishInterview(p) \/ StoreModel(p) \/ EnterRecommend(p)
         \/ EnterReview(p) \/ EnterApply(p) \/ EnterVerify(p)
  PROVE  IInv'
<1>1. /\ pc \in [Process -> PC] /\ structured \in [Process -> Blueprint \cup {Nil}]
      /\ stored \in Blueprint \cup {Nil} /\ stage[p] \in Stage
  BY DEF IInv, TypeOK
<1>2. pc[p] \in HasResult => structured[p] \in Blueprint
  BY DEF IInv, HasOpened
<1>3. ~overlap /\ pc[p] \in Working /\ pc[p] # "modelled" => structured[p] = stored
  BY DEF IInv, WorksAlone
<1>4. CASE Inspect(p)
  <2>1. Advances(p, stage[p] + 1, "front")
    BY <1>1, <1>4 DEF Inspect, Advances, StagesAt, Working, Delivering, PC
  <2>2. pc[p] = "front" /\ UNCHANGED <<stored, structured>>
    BY <1>4 DEF Inspect
  <2> QED BY <1>1, <1>3, <2>1, <2>2, AdvancePreserves DEF HasResult, Delivering, Working, PC
<1>5. CASE FinishInterview(p)
  <2>1. Advances(p, Model, "modelled")
    BY <1>5 DEF FinishInterview, Goto, Advances, StagesAt, Working, Delivering, PC
  <2>2. PICK a \in Answers :
          structured' = [structured EXCEPT ![p] = [answers |-> a, decided |-> {}]]
    BY <1>5 DEF FinishInterview
  <2>3. [answers |-> a, decided |-> {}] \in Blueprint /\ stored' = stored
    BY <1>5 DEF FinishInterview, Blueprint
  <2> QED BY <1>1, <2>1, <2>2, <2>3, AdvancePreserves
<1>6. CASE StoreModel(p)
  <2>1. Advances(p, Resolve, "resolved")
    BY <1>6 DEF StoreModel, Goto, Advances, StagesAt, Working, Delivering, PC
  <2>2. pc[p] = "modelled" /\ structured' = structured /\ stored' = structured[p]
    BY <1>6 DEF StoreModel, ConfirmedAtResolve
  <2>3. structured[p] \in Blueprint
    BY <1>2, <2>2 DEF HasResult
  <2> QED BY <1>1, <2>1, <2>2, <2>3, AdvancePreserves
<1>7. CASE EnterRecommend(p)
  <2>1. Advances(p, Recommend, "discover")
    BY <1>7 DEF EnterRecommend, Goto, Advances, StagesAt, Working, Delivering, PC
  <2>2. pc[p] = "resolved" /\ UNCHANGED <<stored, structured>>
    BY <1>7 DEF EnterRecommend
  <2> QED BY <1>1, <1>2, <1>3, <2>1, <2>2, AdvancePreserves DEF HasResult, Working, PC
<1>8. CASE EnterReview(p)
  <2>1. Advances(p, Review, "gate")
    BY <1>1, <1>8 DEF EnterReview, Advances, StagesAt, Working, Delivering, PC
  <2>2. pc[p] = "gate" /\ UNCHANGED <<stored, structured>>
    BY <1>8 DEF EnterReview
  <2> QED BY <1>1, <1>2, <1>3, <2>1, <2>2, AdvancePreserves DEF HasResult, Working, PC
<1>9. CASE EnterApply(p)
  <2>1. Advances(p, Apply, "apply")
    BY <1>9 DEF EnterApply, Goto, Advances, StagesAt, Working, Delivering, PC, history
  <2>2. pc[p] = "gate" /\ UNCHANGED <<stored, structured>>
    BY <1>9 DEF EnterApply
  <2> QED BY <1>1, <1>2, <1>3, <2>1, <2>2, AdvancePreserves DEF HasResult, Working, PC
<1>10. CASE EnterVerify(p)
  <2>1. Advances(p, Verify, "complete")
    BY <1>10 DEF EnterVerify, Goto, Advances, StagesAt, Working, Delivering, PC
  <2>2. pc[p] = "verify" /\ UNCHANGED <<stored, structured>>
    BY <1>10 DEF EnterVerify
  <2> QED BY <1>1, <1>2, <1>3, <2>1, <2>2, AdvancePreserves DEF HasResult, Delivering, Working, PC
<1> QED BY <1>4, <1>5, <1>6, <1>7, <1>8, <1>9, <1>10

-----------------------------------------------------------------------------
\* An invocation begins, alone or beside others.
LEMMA InvokePreserves ==
  ASSUME IInv, NEW p \in Process, Invoke(p)
  PROVE  IInv'
<1>1. /\ pc' \in [Process -> PC] /\ pc[p] = "idle" /\ pc'[p] = "open"
      /\ \A q \in Process : q # p => pc'[q] = pc[q] /\ seen'[q] = seen[q]
      /\ UNCHANGED <<repository, store, mode, stage, structured, ready, applied, delivered>>
      /\ seen' \in [Process -> Digest] /\ answers' \in [Process -> Answers \cup {Nil}]
  BY DEF IInv, TypeOK, Invoke, Goto, PC
<1>2. overlap' \in BOOLEAN
  BY ZenonT(60) DEF Invoke
<1>3. TypeOK'
  BY <1>1, <1>2 DEF IInv, TypeOK, store
<1>4. HasOpened'
  BY <1>1 DEF IInv, HasOpened, Working, HasResult, Delivering, store
<1>5. OneDelivers'
  BY <1>1 DEF IInv, OneDelivers, Delivering, store
<1>6. ~overlap' => ~overlap /\ \A q \in Process : pc[q] = "idle"
  BY ZenonT(60) DEF Invoke
<1>7. WorksAlone'
  BY <1>1, <1>6 DEF WorksAlone, Working
<1>8. AppliedOnce' /\ ProjectFollowsRun' /\ PausedIsResumable'
  BY <1>1, <1>6 DEF IInv, AppliedOnce, ProjectFollowsRun, PausedIsResumable, store
<1>9. NothingBeforeRow'
  BY <1>1 DEF IInv, NothingBeforeRow, Working, store
<1> QED BY <1>3, <1>4, <1>5, <1>7, <1>8, <1>9 DEF IInv

\* _open_run: a new run, a paused one, or one that is in the interview.
LEMMA OpenPreserves ==
  ASSUME IInv, NEW p \in Process, Open(p)
  PROVE  IInv'
<1>1. /\ pc' \in [Process -> PC] /\ pc[p] = "open" /\ pc'[p] \in {"cancel", "front"}
      /\ structured' \in [Process -> Blueprint \cup {Nil}] /\ structured'[p] = stored
      /\ \A q \in Process : q # p => pc'[q] = pc[q] /\ structured'[q] = structured[q]
      /\ UNCHANGED <<repository, stored, seen, answers, mode, ready, history>>
      /\ seen[p] \in Digest
  BY DEF IInv, TypeOK, Open, Goto, PC
<1>2. /\ row' \in Row /\ row'.status = "running" /\ row'.digest = seen[p]
      /\ row \notin Row => row = Nil /\ row'.stage = First
      /\ row \in Row => /\ row'.stage = row.stage /\ row'.digest = row.digest
                        /\ row.status = "paused" \/ row.stage = Interview
  BY <1>1, NilAssumption DEF IInv, TypeOK, Open, MayResume, MayJoin, Row
<1>3. /\ stage' \in [Process -> Stage] /\ stage'[p] = row'.stage
      /\ \A q \in Process : q # p => stage'[q] = stage[q]
  BY <1>2 DEF IInv, TypeOK, Open, Row
<1>4. TypeOK'
  BY <1>1, <1>2, <1>3 DEF IInv, TypeOK, history
<1>5. HasOpened'
  BY <1>1, <1>2 DEF IInv, HasOpened, Working, HasResult, Delivering
<1>6. row \notin Row => \A q \in Process : pc[q] \notin Delivering
  BY DEF IInv, HasOpened, Working, Delivering, PC
<1>7. row \notin Row => applied[1] = Nil /\ ~delivered
  BY <1>2 DEF IInv, NothingBeforeRow
<1>8. OneDelivers'
  BY <1>1, <1>2, <1>6, <1>7 DEF IInv, OneDelivers, Delivering, history
<1>9. ~overlap => /\ \A q \in Process : q # p => pc[q] = "idle"
                  /\ row \in Row => row.stage \in {Interview, Recommend, Review}
  BY <1>1, <1>2, NilAssumption DEF IInv, WorksAlone, PausedIsResumable
<1>10. WorksAlone'
  BY <1>1, <1>2, <1>3, <1>9 DEF WorksAlone, Working, StagesAt, history
<1>11. AppliedOnce' /\ ProjectFollowsRun' /\ PausedIsResumable'
  BY <1>1, <1>2 DEF IInv, AppliedOnce, ProjectFollowsRun, PausedIsResumable, history
<1>12. NothingBeforeRow'
  BY <1>2 DEF NothingBeforeRow
<1> QED BY <1>4, <1>5, <1>8, <1>10, <1>11, <1>12 DEF IInv

\* The stored result of a run past its interview is taken.
LEMMA SkipPreserves ==
  ASSUME IInv, NEW p \in Process, SkipInterview(p)
  PROVE  IInv'
<1>1. /\ pc[p] = "front" /\ pc' \in [Process -> PC] /\ pc'[p] = "discover"
      /\ \A q \in Process : q # p => pc'[q] = pc[q]
      /\ UNCHANGED <<repository, store, local, history>>
      /\ stage[p] > Interview /\ structured[p] # Nil
  BY DEF IInv, TypeOK, SkipInterview, Goto, PC
<1>2. TypeOK'
  BY <1>1 DEF IInv, TypeOK, store, local, history
<1>3. structured[p] \in Blueprint
  BY <1>1 DEF IInv, TypeOK, HasOpened, HasResult
<1>4. HasOpened'
  BY <1>1, <1>3 DEF IInv, HasOpened, Working, HasResult, Delivering, PC, store, local
<1>5. OneDelivers'
  BY <1>1 DEF IInv, OneDelivers, Delivering, store, history
<1>6. WorksAlone'
  BY <1>1 DEF IInv, WorksAlone, Working, StagesAt, PC, store, local, history
<1>7. AppliedOnce' /\ ProjectFollowsRun' /\ PausedIsResumable'
  BY <1>1 DEF IInv, AppliedOnce, ProjectFollowsRun, PausedIsResumable, store, history
<1>8. NothingBeforeRow'
  BY <1>1 DEF IInv, NothingBeforeRow, Working, PC, store, history
<1> QED BY <1>2, <1>4, <1>5, <1>6, <1>7, <1>8 DEF IInv

\* Discovery: the invocation goes on from the stage of the row.
LEMMA DiscoverPreserves ==
  ASSUME IInv, NEW p \in Process, Discover(p)
  PROVE  IInv'
<1>1. /\ pc[p] = "discover" /\ pc' \in [Process -> PC] /\ pc'[p] = "decide"
      /\ \A q \in Process : q # p => pc'[q] = pc[q]
      /\ UNCHANGED <<repository, store, seen, answers, mode, structured, ready, history>>
  BY DEF IInv, TypeOK, Discover, Goto, PC
<1>2. row \in Row /\ row.stage \in Stage
  BY <1>1 DEF IInv, HasOpened, Working, PC, Row
<1>3. /\ stage' \in [Process -> Stage] /\ stage'[p] = row.stage
      /\ \A q \in Process : q # p => stage'[q] = stage[q]
  BY <1>2 DEF IInv, TypeOK, Discover
<1>4. TypeOK'
  BY <1>1, <1>3 DEF IInv, TypeOK, store, history
<1>5. HasOpened'
  BY <1>1, <1>3 DEF IInv, HasOpened, Working, HasResult, Delivering, PC, store
<1>6. OneDelivers'
  BY <1>1 DEF IInv, OneDelivers, Delivering, store, history
<1>7. WorksAlone'
  BY <1>1, <1>3 DEF IInv, WorksAlone, Working, StagesAt, PC, store, history
<1>8. AppliedOnce' /\ ProjectFollowsRun' /\ PausedIsResumable'
  BY <1>1 DEF IInv, AppliedOnce, ProjectFollowsRun, PausedIsResumable, store, history
<1>9. NothingBeforeRow'
  BY <1>1 DEF IInv, NothingBeforeRow, Working, PC, store, history
<1> QED BY <1>4, <1>5, <1>6, <1>7, <1>8, <1>9 DEF IInv

(***************************************************************************)
(* Answers and decisions of this invocation: it stores what it reviews, or *)
(* reviews what is stored.                                                 *)
(***************************************************************************)
LEMMA DecidePreserves ==
  ASSUME IInv, NEW p \in Process, Decide(p)
  PROVE  IInv'
<1>1. PICK supplied \in SUBSET Gap :
        /\ stored' = IF Changes(p, supplied) THEN Reviewed(p, supplied) ELSE stored
        /\ structured' = [structured EXCEPT ![p] = Reviewed(p, supplied)]
        /\ stage' = IF Changes(p, supplied) THEN [stage EXCEPT ![p] = row.stage] ELSE stage
        /\ \E r \in BOOLEAN : ready' = [ready EXCEPT ![p] = r]
  <2>1. PICK supplied \in SUBSET Gap, candidates \in SUBSET Gap :
          /\ stored' = IF Changes(p, supplied) THEN Reviewed(p, supplied) ELSE stored
          /\ structured' = [structured EXCEPT ![p] = Reviewed(p, supplied)]
          /\ stage' = IF Changes(p, supplied) THEN [stage EXCEPT ![p] = row.stage] ELSE stage
          /\ \E r \in {FALSE, Ready(candidates, Reviewed(p, supplied).decided)} :
               ready' = [ready EXCEPT ![p] = r]
    BY DEF Decide
  <2>2. Ready(candidates, Reviewed(p, supplied).decided) \in BOOLEAN
    BY DEF Ready
  <2> QED BY <2>1, <2>2
<1>2. /\ pc[p] = "decide" /\ pc' \in [Process -> PC] /\ pc'[p] = "gate"
      /\ \A q \in Process : q # p => pc'[q] = pc[q]
      /\ mode' \in [Process -> Mode]
      /\ UNCHANGED <<repository, row, seen, answers, history>>
  BY DEF IInv, TypeOK, Decide, Goto, PC
<1>3. structured[p] \in Blueprint /\ answers[p] \in Answers \cup {Nil}
  BY <1>2 DEF IInv, TypeOK, HasOpened, HasResult
<1> DEFINE reviewed == Reviewed(p, supplied)
<1>4. reviewed \in Blueprint
  BY <1>3 DEF Reviewed, Blueprint
<1>5. ~Changes(p, supplied) => reviewed = structured[p]
  BY DEF Changes, Reviewed
<1> HIDE DEF reviewed
<1>6. /\ stored' \in Blueprint \cup {Nil}
      /\ structured' \in [Process -> Blueprint \cup {Nil}] /\ structured'[p] = reviewed
      /\ \A q \in Process : q # p => structured'[q] = structured[q]
      /\ ready' \in [Process -> BOOLEAN]
      /\ stored' = reviewed \/ (stored' = stored /\ reviewed = structured[p])
  BY <1>1, <1>4, <1>5 DEF IInv, TypeOK, reviewed
<1>7. row \in Row /\ row.stage \in Stage
  BY <1>2 DEF IInv, HasOpened, Working, PC, Row
<1>8. /\ stage' \in [Process -> Stage]
      /\ stage'[p] \in {stage[p], row.stage}
      /\ \A q \in Process : q # p => stage'[q] = stage[q]
  BY <1>1, <1>7 DEF IInv, TypeOK
<1>9. TypeOK'
  BY <1>2, <1>6, <1>8 DEF IInv, TypeOK, history
<1>10. HasOpened'
  BY <1>2, <1>4, <1>6, <1>8 DEF IInv, HasOpened, Working, HasResult, Delivering, PC
<1>11. OneDelivers'
  BY <1>2 DEF IInv, OneDelivers, Delivering, history
<1>12. ~overlap => /\ \A q \in Process : pc[q] # "idle" => q = p
                   /\ structured[p] = stored /\ row.status = "running"
                   /\ stage[p] = row.stage /\ row.stage \in {Recommend, Review}
  BY <1>2 DEF IInv, WorksAlone, Working, StagesAt, PC
<1>13. WorksAlone'
  BY <1>2, <1>6, <1>8, <1>12 DEF WorksAlone, Working, StagesAt, PC, history
<1>14. AppliedOnce'
  BY <1>2 DEF IInv, AppliedOnce, history
<1>15. ProjectFollowsRun'
  BY <1>2, <1>7, <1>12 DEF IInv, OneDelivers, ProjectFollowsRun, history
<1>16. PausedIsResumable'
  BY <1>2, <1>12 DEF PausedIsResumable, history
<1>17. NothingBeforeRow'
  BY <1>2, <1>7 DEF NothingBeforeRow
<1> QED BY <1>9, <1>10, <1>11, <1>13, <1>14, <1>15, <1>16, <1>17 DEF IInv

\* The ChangeSet is applied, previewed or written.
LEMMA DeliverPreserves ==
  ASSUME IInv, NEW p \in Process, Deliver(p)
  PROVE  IInv'
<1>1. /\ pc[p] = "apply" /\ pc' \in [Process -> PC] /\ pc'[p] = "verify"
      /\ \A q \in Process : q # p => pc'[q] = pc[q]
      /\ UNCHANGED <<repository, store, local, overlap>>
      /\ delivered' = TRUE
  BY DEF IInv, TypeOK, Deliver, Goto, PC
<1>2. /\ applied[1] = Nil /\ row.stage >= Apply /\ applied[2] = Nil
      /\ \A q \in Process : pc[q] \in Delivering => q = p
  BY <1>1 DEF IInv, OneDelivers, AppliedOnce, Delivering
<1>3. structured[p] \in Blueprint /\ row \in Row
  BY <1>1 DEF IInv, HasOpened, HasResult, Delivering, Working, PC
<1>4. /\ applied' \in [1..2 -> Blueprint \cup {Nil}]
      /\ applied'[2] = Nil
      /\ applied'[1] \in {Nil, structured[p]}
  BY <1>2, <1>3 DEF IInv, TypeOK, Deliver, RecordApplied
<1>5. TypeOK'
  BY <1>1, <1>4 DEF IInv, TypeOK, store, local
<1>6. HasOpened'
  BY <1>1, <1>3 DEF IInv, HasOpened, Working, HasResult, Delivering, PC, store, local
<1>7. OneDelivers'
  <2>1. row.stage \in Stage
    BY <1>3 DEF Row
  <2>2. row' = row /\ ~(row.stage < Apply)
    BY <1>1, <1>2, <2>1 DEF store
  <2>3. \A q \in Process : pc'[q] \in Delivering => q = p
    BY <1>1, <1>2
  <2> QED BY <1>1, <1>2, <1>3, <2>2, <2>3 DEF OneDelivers, Delivering
<1>8. WorksAlone'
  BY <1>1 DEF IInv, WorksAlone, Working, StagesAt, PC, store, local
<1>9. AppliedOnce'
  BY <1>1, <1>4 DEF AppliedOnce
<1>10. ~overlap => row.status = "running" /\ structured[p] = stored
  BY <1>1 DEF IInv, WorksAlone, Working, PC
<1>11. ProjectFollowsRun' /\ PausedIsResumable'
  BY <1>1, <1>4, <1>10 DEF ProjectFollowsRun, PausedIsResumable, store
<1>12. NothingBeforeRow'
  BY <1>1, <1>3 DEF NothingBeforeRow, store
<1> QED BY <1>5, <1>6, <1>7, <1>8, <1>9, <1>11, <1>12 DEF IInv

\* Every step of every invocation, and an edit of the repository.
LEMMA StepPreserves == IInv /\ [Next]_vars => IInv'
<1>1. ASSUME IInv, UNCHANGED <<store, pc, local, history>>, repository' \in Digest
      PROVE  IInv'
  <2>1. TypeOK'
    BY <1>1 DEF IInv, TypeOK, store, local, history
  <2> QED BY <1>1, <2>1 DEF IInv, HasOpened, OneDelivers, WorksAlone, AppliedOnce,
             ProjectFollowsRun, PausedIsResumable, NothingBeforeRow, store, local, history
<1>2. ASSUME IInv, UNCHANGED vars PROVE IInv'
  BY <1>1, <1>2 DEF vars, IInv, TypeOK
<1>3. ASSUME IInv, EditRepository PROVE IInv'
  BY <1>1, <1>3 DEF EditRepository
<1>4. ASSUME IInv, NEW p \in Process, Step(p) PROVE IInv'
  BY <1>4, InvokePreserves, OpenPreserves, EndsPreserve, AdvancesPreserve, SkipPreserves,
     DiscoverPreserves, DecidePreserves, DeliverPreserves DEF Step
<1> QED BY <1>2, <1>3, <1>4 DEF Next

\* The inductive invariant holds in every state of every behaviour.
LEMMA Invariance == Spec => []IInv
BY InitEstablishes, StepPreserves, PTL DEF Spec

-----------------------------------------------------------------------------
(***************************************************************************)
(* Every variable keeps its type.                                          *)
(***************************************************************************)
THEOREM TypeCorrect == Spec => []TypeOK
<1>1. IInv => TypeOK  BY DEF IInv
<1> QED BY <1>1, Invariance, PTL

(***************************************************************************)
(* A run is applied at most once, however many invocations share it, and   *)
(* completes only when it has delivered.                                   *)
(***************************************************************************)
THEOREM RunAppliesOnce == Spec => []AppliedOnce
<1>1. IInv => AppliedOnce  BY DEF IInv
<1> QED BY <1>1, Invariance, PTL

(***************************************************************************)
(* No invocation works on a version of the repository other than the one   *)
(* the run began with (_open_run).                                         *)
(***************************************************************************)
THEOREM OneVersion == Spec => []OneRepositoryVersion
<1>1. IInv => OneRepositoryVersion
  BY DEF IInv, TypeOK, HasOpened, OneRepositoryVersion, Working
<1> QED BY <1>1, Invariance, PTL

(***************************************************************************)
(* While invocations follow one another, a cancelled run left the project  *)
(* alone and what was applied is what the checkpoint holds.                *)
(***************************************************************************)
THEOREM ProjectIsTheRuns == Spec => []ProjectFollowsRun
<1>1. IInv => ProjectFollowsRun  BY DEF IInv
<1> QED BY <1>1, Invariance, PTL

(***************************************************************************)
(* While invocations follow one another, every paused run can go on.       *)
(***************************************************************************)
THEOREM PausedGoesOn == Spec => []PausedIsResumable
<1>1. IInv => PausedIsResumable  BY DEF IInv
<1> QED BY <1>1, Invariance, PTL
=============================================================================
