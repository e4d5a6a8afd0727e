--------------------------- MODULE RemoteDiscovery ---------------------------
(***************************************************************************)
(* The search for the capabilities that a project lacks: the sources       *)
(* (remote/sources.py over remote/http.py), the queries                    *)
(* (recommendation/search_terms.py) and the report that DiscoveryService   *)
(* makes of every search (remote/discovery.py).                            *)
(*                                                                         *)
(* A record of a source is a candidate with what the source alone knows:   *)
(*   found  the queries that its search answers with the record;           *)
(*   about  the queries with a word of which the record's own text agrees; *)
(*   fork, malformed.                                                      *)
(* A source is "up", "limited", "unauthorized", "down", or "page-only",    *)
(* when only the page of skills.sh answers and not its interface.          *)
(***************************************************************************)
EXTENDS RemoteRanking

CONSTANTS
  Sources,     \* the sources in their order
  Catalogue,   \* source |-> the set of its records
  LeadQuery    \* <<capability, lead>> |-> the query made of them

\* How many candidates a report has at most.  (The limit of 20 records of
\* skills.sh in one search is above what a catalogue here holds.)
Shown == 3

(***************************************************************************)
(* discovery_queries: the capability first, then a query for each lead:    *)
(* the languages, the frameworks and the products that the user names.     *)
(***************************************************************************)
DiscoveryQueries(capability, leads) ==
  <<capability>> \o [i \in 1..Len(leads) |-> LeadQuery[<<capability, leads[i]>>]]

-----------------------------------------------------------------------------
Diagnostic(source, query, status, candidates, matched) ==
  [source |-> source, query |-> query, status |-> status,
   candidates |-> candidates, matched |-> matched]

(***************************************************************************)
(* _failure: what an exception, by the HTTP status it carries, becomes.    *)
(***************************************************************************)
FailureStatus(condition) ==
  CASE condition = "unauthorized" -> "unauthorized"
    [] condition = "limited"      -> "rate-limited"
    [] condition \in {"down", "page-only"} -> "failed"

(***************************************************************************)
(* A record as a candidate.  What its publisher declares of capabilities   *)
(* is replaced by the query, in every source but an organization's.        *)
(***************************************************************************)
CandidateFields ==
  {"ref", "name", "kind", "provides", "publisher", "tier", "level", "vouched", "repo",
   "words", "stars", "adoption", "archived", "official"}

AsCandidate(r, provides) ==
  [f \in CandidateFields |-> IF f = "provides" THEN provides ELSE r[f]]

(***************************************************************************)
(* search: the four sources differ in what they leave out, in what they    *)
(* count as matched, and in how a malformed record fails the whole search. *)
(***************************************************************************)
GitHubKeeps(r, query)   == ~r.fork /\ query \in r.about
RegistryKeeps(r, query) == query \in r.about
SkillsShKeeps(r, query) == query \in r.about
CatalogKeeps(r, query)  == query \in r.found

Kept(source, records, query) ==
  {r \in records :
     CASE source = "github"       -> GitHubKeeps(r, query)
       [] source = "mcp-registry" -> RegistryKeeps(r, query)
       [] source = "skills.sh"    -> SkillsShKeeps(r, query)
       [] OTHER                   -> CatalogKeeps(r, query)}

Normalized(source, records, query) ==
  {AsCandidate(r, IF source \in {"github", "mcp-registry", "skills.sh"} THEN {query}
                  ELSE r.provides) : r \in records}

Search(source, query, condition) ==
  LET records == {r \in Catalogue[source] : query \in r.found}
      kept    == Kept(source, records, query)
      answers == condition = "up" \/ (condition = "page-only" /\ source = "skills.sh" /\ records # {})
  IN  IF ~answers THEN Diagnostic(source, query, FailureStatus(condition), {}, 0)
      ELSE IF \E r \in kept : r.malformed THEN Diagnostic(source, query, "failed", {}, 0)
      ELSE Diagnostic(source, query, "success", Normalized(source, kept, query),
                      Cardinality(IF source = "skills.sh" THEN kept ELSE records))

-----------------------------------------------------------------------------
(***************************************************************************)
(* _merge and _deduplicate: candidates of one repository become one, the   *)
(* most trusted of them, the earlier on a tie; it keeps what it provides   *)
(* and takes the better numbers.  A repository is the identity here; the   *)
(* cross reference and digest that stand in for a missing one are not      *)
(* told apart from it.                                                     *)
(***************************************************************************)
Tier == [general_search |-> 1, community |-> 2, verified |-> 3, official |-> 4]

MergeCandidates(left, right) ==
  LET primary == IF Tier[left.tier] >= Tier[right.tier] THEN left ELSE right
  IN  [primary EXCEPT !.stars = Max({left.stars, right.stars}),
                      !.adoption = Max({left.adoption, right.adoption}),
                      !.official = left.official \/ right.official]

Deduplicate(candidates) ==
  LET keyed   == SelectSeq(candidates, LAMBDA c : c.repo # None)
      Of(r)   == SelectSeq(keyed, LAMBDA c : c.repo = r)
      Fold(s) == FoldLeft(MergeCandidates, Head(s), Tail(s))
  IN  {Fold(Of(r)) : r \in {c.repo : c \in ToSet(keyed)}}
        \cup {c \in ToSet(candidates) : c.repo = None}

BlockedCandidate(c) == c.archived \/ c.level = Blocked

(***************************************************************************)
(* The report of one requirement: partly failed when some of its searches  *)
(* failed, not all.  weather says of each source whether it is up, for the *)
(* query that names the capability and for those made of leads.            *)
(***************************************************************************)
Report(requirement, status, diagnostics, candidates, partly) ==
  [requirement |-> requirement, status |-> status, diagnostics |-> diagnostics,
   candidates |-> candidates, partly |-> partly]

Succeeded(d) == d.status \in {"success", "cached"}

Searches(requirement, leads, weather) ==
  LET queries == DiscoveryQueries(requirement, leads)
      n       == Len(Sources)
  IN  [i \in 1..(n * Len(queries)) |->
         LET q == queries[((i - 1) \div n) + 1]
             s == Sources[((i - 1) % n) + 1]
         IN  Search(s, q, weather[<<s, q # requirement>>])]

\* (mutant) One failing search makes the whole discovery failed.
AllOrNothing(diagnostics) ==
  IF \A i \in DOMAIN diagnostics : Succeeded(diagnostics[i]) THEN diagnostics ELSE <<>>
Successful(diagnostics) == SelectSeq(diagnostics, Succeeded)

\* The records of one search, in the order of their references.
InOrder(candidates) == SetToSortSeq(candidates, LAMBDA a, b : a.ref < b.ref)

DiscoverCapability(requirement, leads, weather, blueprint) ==
  LET diagnostics == Searches(requirement, leads, weather)
      successful  == Successful(diagnostics)
      merged == Deduplicate(FlattenSeq([i \in DOMAIN successful |-> InOrder(successful[i].candidates)]))
      ranked == RankMultiSource({c \in merged : ~BlockedCandidate(c)}, requirement, blueprint, <<>>)
      best   == {ranked[i].candidate : i \in 1..Min({Shown, Len(ranked)})}
  IN  Report(requirement,
             CASE best # {} -> "candidates-found"
               [] best = {} /\ \E i \in DOMAIN successful : successful[i].matched > 0 -> "all-filtered"
               [] best = {} /\ successful # <<>>
                    /\ \A i \in DOMAIN successful : successful[i].matched = 0 -> "no-results"
               [] successful = <<>> -> "search-failed",
             diagnostics, best,
             successful # <<>> /\ Len(successful) < Len(diagnostics))

-----------------------------------------------------------------------------
(***************************************************************************)
(* _discover_remote (commands/init.py): the reports of every gap, with the *)
(* candidates and the evidence that resolution gets.  Without approval     *)
(* nothing is asked; a snapshot is used whatever its age, and then nothing *)
(* is asked either; the candidates of several gaps with one reference are  *)
(* one, that of the last gap.                                              *)
(***************************************************************************)
NotRequested(requirement) == Report(requirement, "not-requested", <<>>, {}, FALSE)

CachedReport(requirement, snapshot) ==
  LET matching == {c \in snapshot : requirement \in c.provides}
  IN  Report(requirement, IF matching # {} THEN "candidates-found" ELSE "no-results",
             <<Diagnostic("project-cache", None, "cached", matching, Cardinality(matching))>>,
             matching, FALSE)

NoSnapshot(requirement) ==
  Report(requirement, "source-unavailable",
         <<Diagnostic("project-cache", None, "unavailable", {}, 0)>>, {}, FALSE)

LiveEvidence(c) ==
  Evidence({}, 0, IF c.official THEN 70 ELSE 40, Max({c.adoption, c.stars}), {})

LastPerRef(gaps, reports) ==
  LET found == UNION {{<<i, c>> : c \in reports[gaps[i]].candidates} : i \in DOMAIN gaps}
  IN  {x[2] : x \in {y \in found : \A z \in found : z[2].ref = y[2].ref => z[1] <= y[1]}}

Discovery(reports, candidates, evidence) ==
  [reports |-> reports, candidates |-> candidates, evidence |-> evidence]

DiscoverRemote(gaps, mode, snapshot, leads, weather, blueprint) ==
  LET all     == ToSet(gaps)
      refs(S) == {c.ref : c \in S}
      live    == [r \in all |-> DiscoverCapability(r, leads, weather, blueprint)]
      found   == LastPerRef(gaps, live)
      The(r)  == CHOOSE c \in found : c.ref = r
  IN  CASE mode = "denied" -> Discovery([r \in all |-> NotRequested(r)], {}, <<>>)
        [] mode # "denied" /\ snapshot.candidates # {} ->
             Discovery([r \in all |-> CachedReport(r, snapshot.candidates)],
                       snapshot.candidates, snapshot.evidence)
        [] mode = "offline" /\ snapshot.candidates = {} ->
             Discovery([r \in all |-> NoSnapshot(r)], {}, <<>>)
        [] mode = "live" /\ snapshot.candidates = {} ->
             Discovery(live, found, [r \in refs(found) |-> LiveEvidence(The(r))])
=============================================================================
