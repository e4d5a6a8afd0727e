--------------------------- MODULE ProjectPlanning ---------------------------
(***************************************************************************)
(* How vibe init decides what a project gets (commands/init.py over        *)
(* commands/project_plan.py): it scans the machine, evaluates the packs,   *)
(* resolves, searches for what is missing, takes the user's revisions, and *)
(* binds the chosen user skills into the project.  Calls follow each other *)
(* and continue one initialization; between any two steps the user may     *)
(* edit the skills on disk.                                                *)
(***************************************************************************)
EXTENDS LocalResolver, ReviewReadiness

CONSTANTS
  Capabilities, \* the capabilities in alphabetical order
  Disks,        \* what may be on disk: sets of entries
  Blueprints,   \* the blueprints that answers may build
  Worlds,       \* organization policies with remote candidate snapshots
  Repository,   \* the facts of the repository
  Manifests,    \* the number of its package manifests
  Overrides,    \* the confirmed calibrations
  Weathers,     \* what may become of the searches
  Supplies,     \* the recommendation decisions a call may bring
  Asks,         \* the remote decisions a call may bring
  Breakable,    \* the adapters whose discovery may raise
  MaxCalls,     \* how many calls are made
  MaxEdits      \* how often the disk is edited

(***************************************************************************)
(* What an adapter discovers is an entry, a locator names one, and there   *)
(* are finitely many on a disk.                                            *)
(***************************************************************************)
ASSUME DisksAreReal ==
  \A d \in Disks :
    /\ IsFiniteSet(d)
    /\ \A e \in d : IsEntry(e)
    /\ \A e, f \in d : e.at = f.at => e = f

VARIABLES
  disk,      \* the entries on disk, apart from what was bound
  copies,    \* the project copies of bound skills: entries
  saved,     \* .ai-project/rejections.json: the remote decisions
  cp,        \* the checkpoint: stage and structured result, or None
  run,       \* the call that is running, or None
  settled,   \* what the last applied call selected, or None
  bindings,  \* every skill bound: what was scanned and what was copied
  world,     \* the policy and the snapshot, which never change
  budget     \* the calls and the edits left

planning == <<disk, copies, saved, cp, run, settled, bindings, world, budget>>

Nothing == Discovery(<<>>, {}, <<>>)

-----------------------------------------------------------------------------
(***************************************************************************)
(* build_project_plan: the set of the plan, empty when the packs conflict. *)
(***************************************************************************)
Plan(requirements, resolutions) == [requirements |-> requirements, resolutions |-> resolutions]

BuildPlan(inventory, blueprint, found, suppressed) ==
  LET profiled == ScaleFacts(Repository, Manifests, FALSE)
      packs    == Evaluate(ProjectFacts(blueprint, profiled), Overrides)
  IN  {Plan(rs \cup MarkerRequirements(inventory),
            ResolveLocal(rs \cup MarkerRequirements(inventory), inventory, blueprint, profiled,
                         found, suppressed, world.policy)) : rs \in packs}

Gaps(plan) == {x.requirement.capability : x \in {y \in plan.resolutions : y.gap}}

\* Gaps in the order in which they are searched for.
GapOrder(plan) == SelectSeq(Capabilities, LAMBDA c : c \in Gaps(plan))

\* The adapters that failed in a scan.
Broken(inventory) ==
  {d.about : d \in {f \in inventory.diagnostics : f.code = "adapter_discovery_failed"}}

Selections(plan) ==
  UNION {{<<x.requirement.capability, m>> : m \in x.selected} : x \in plan.resolutions}

Suppressed(asked) == DOMAIN Effective(saved, asked)

-----------------------------------------------------------------------------
PlanningInit ==
  /\ disk \in Disks
  /\ copies = {}
  /\ saved = <<>>
  /\ cp = None
  /\ run = None
  /\ settled = None
  /\ bindings = {}
  /\ world \in Worlds
  /\ budget = [calls |-> MaxCalls, edits |-> MaxEdits]

(***************************************************************************)
(* The user edits, adds or removes skills, at any time.                    *)
(***************************************************************************)
Edit ==
  /\ budget.edits > 0
  /\ \E d \in Disks \ {disk} : disk' = d
  /\ budget' = [budget EXCEPT !.edits = @ - 1]
  /\ settled' = None
  /\ UNCHANGED <<copies, saved, cp, run, bindings, world>>

(***************************************************************************)
(* A call up to the plan that discovery starts from.  A first call brings  *)
(* answers; a later one may.  Answers to a later call change nothing yet.  *)
(***************************************************************************)
Start ==
  /\ run = None /\ budget.calls > 0
  /\ \E given \in Blueprints \cup {None}, asked \in Asks,
        mode \in {"denied", "offline", "live"}, broken \in SUBSET Breakable :
       /\ cp = None => given # None
       /\ LET seen      == Discovered(disk \cup copies, TRUE)
              inventory == Scan(seen, broken)
              blueprint == IF cp = None THEN given ELSE cp.blueprint
              plans     == BuildPlan(inventory, blueprint, Nothing, Suppressed(asked))
          IN  /\ run' = IF plans = {} THEN None
                        ELSE [step |-> "planned", seen |-> seen, inventory |-> inventory,
                              answers |-> given, asked |-> asked, mode |-> mode,
                              blueprint |-> blueprint, plan |-> CHOOSE p \in plans : TRUE,
                              found |-> Nothing, weather |-> None, supplied |-> <<>>]
              /\ cp' = IF cp = None
                       THEN [stage |-> "recommend", blueprint |-> blueprint] ELSE cp
  /\ budget' = [budget EXCEPT !.calls = @ - 1]
  /\ UNCHANGED <<disk, copies, saved, settled, bindings, world>>

Replanned(blueprint, found) ==
  BuildPlan(run.inventory, blueprint, found, Suppressed(run.asked))

(***************************************************************************)
(* _discover_remote for the gaps of that plan, and the plan with what was  *)
(* found.                                                                  *)
(***************************************************************************)
Find ==
  /\ run # None /\ run.step = "planned"
  /\ \E weather \in IF run.mode = "live" /\ world.snapshot.candidates = {} THEN Weathers
                   ELSE {None} :
       LET found == DiscoverRemote(GapOrder(run.plan), run.mode, world.snapshot,
                                   run.blueprint.leads, weather, run.blueprint)
       IN  \E p \in Replanned(run.blueprint, found) :
             run' = [run EXCEPT !.step = "searched", !.found = found, !.weather = weather,
                                !.plan = p]
  /\ UNCHANGED <<disk, copies, saved, cp, settled, bindings, world, budget>>

(***************************************************************************)
(* Answers and decisions of this call revise the structured result after   *)
(* the search; the decisions take the place of every earlier one.  The     *)
(* revised result is saved before the packs are evaluated for it.          *)
(***************************************************************************)
\* (mutant) The plan made with what was found is kept for the new answers.
RevisedPlansKept(blueprint) == {run.plan}
RevisedPlans(blueprint) ==
  IF blueprint = run.blueprint THEN {run.plan} ELSE Replanned(blueprint, run.found)

Revise ==
  /\ run # None /\ run.step = "searched"
  /\ \E supplied \in Supplies :
       LET answered  == IF run.answers = None THEN run.blueprint ELSE run.answers
           blueprint == IF supplied = <<>> THEN answered
                        ELSE [answered EXCEPT !.decided = supplied]
           plans     == RevisedPlans(blueprint)
       IN  /\ run' = IF plans = {} THEN None
                     ELSE [run EXCEPT !.step = "revised", !.blueprint = blueprint,
                                      !.supplied = supplied, !.plan = CHOOSE p \in plans : TRUE]
           /\ cp' = [cp EXCEPT !.blueprint = blueprint]
  /\ UNCHANGED <<disk, copies, saved, settled, bindings, world, budget>>

(***************************************************************************)
(* The gate before review, passed once; then review waits for --confirm.   *)
(* A call with --model-only goes past the gate whether the plan is ready or*)
(* not, and leaves the checkpoint past it for the calls that follow.       *)
(***************************************************************************)
ReadinessOf(r) ==
  ReviewReady(r.plan.requirements, Gaps(r.plan), r.found.reports, r.found.candidates,
              r.blueprint, r.asked, saved, r.supplied)

Gate ==
  /\ run # None /\ run.step = "revised"
  /\ \E modelOnly \in BOOLEAN :
       LET passes == cp.stage = "review" \/ modelOnly \/ ReadinessOf(run).ready
       IN  /\ run' = IF passes
                     THEN [run EXCEPT !.step = IF modelOnly THEN "model-review" ELSE "review"]
                     ELSE None
           /\ cp' = IF passes THEN [cp EXCEPT !.stage = "review"] ELSE cp
  /\ UNCHANGED <<disk, copies, saved, settled, bindings, world, budget>>

Unconfirmed ==
  /\ run # None /\ run.step \in {"review", "model-review"}
  /\ run' = None
  /\ UNCHANGED <<disk, copies, saved, cp, settled, bindings, world, budget>>

-----------------------------------------------------------------------------
(***************************************************************************)
(* build_skill_binding_proposals: it refuses a skill selected twice or not *)
(* verified, and reads the files again, refusing any that changed.         *)
(***************************************************************************)
SkillSelections == {s \in Selections(run.plan) : s[2].adapter = "agent-skill"}

ToBind == {m \in {s[2] : s \in SkillSelections} : m.scope = "user"}

OnDisk(m) == {e \in disk : e.at = m.at /\ e.adapter = m.adapter}

\* (mutant) The files are not compared with what was scanned.
RefusesUnread ==
  \/ \E s, t \in SkillSelections : s # t /\ s[2].name = t[2].name
  \/ \E s \in SkillSelections : ~s[2].verified
  \/ \E m \in ToBind : OnDisk(m) = {}
RefusesBinding ==
  \/ \E s, t \in SkillSelections : s # t /\ s[2].name = t[2].name
  \/ \E s \in SkillSelections : ~s[2].verified
  \/ \E m \in ToBind : UNION {Bundle(e) : e \in OnDisk(m)} # {m.content}

ProjectCopy(e) == [e EXCEPT !.scope = "project", !.at = <<"bound", e.name>>]

(***************************************************************************)
(* APPLY with --confirm.  A refusal ends the call with the checkpoint past *)
(* review, and nothing written (see InitCommand); the next call starts a   *)
(* new initialization.                                                     *)
(***************************************************************************)
ApplyPlan ==
  /\ run # None /\ run.step = "review"
  /\ run' = None
  /\ cp' = None
  /\ IF RefusesBinding THEN UNCHANGED <<copies, saved, settled, bindings>>
     ELSE LET bound == UNION {OnDisk(m) : m \in ToBind}
          IN  /\ copies' = {c \in copies : c.name \notin {e.name : e \in bound}}
                             \cup {ProjectCopy(e) : e \in bound}
              /\ saved' = Effective(saved, run.asked)
              /\ settled' = [blueprint |-> run.blueprint, chosen |-> Selections(run.plan),
                             broken |-> Broken(run.inventory),
                             current |-> run.seen = Discovered(disk \cup copies, TRUE)]
              /\ bindings' = bindings \cup UNION {{<<m, e.content>> : e \in OnDisk(m)} : m \in ToBind}
  /\ UNCHANGED <<disk, world, budget>>

\* APPLY of a call with --model-only, or with --dry-run: nothing of the plan is written.
ApplyNothing ==
  /\ run # None /\ run.step \in {"review", "model-review"}
  /\ run' = None
  /\ cp' = None
  /\ UNCHANGED <<disk, copies, saved, settled, bindings, world, budget>>

PlanningNext ==
  Edit \/ Start \/ Find \/ Revise \/ Gate \/ Unconfirmed \/ ApplyPlan \/ ApplyNothing

PlanningSpec == PlanningInit /\ [][PlanningNext]_planning
-----------------------------------------------------------------------------
(***************************************************************************)
(* Nothing that was found on the machine disappears silently: every entry  *)
(* is in the inventory, has a project copy there that is the same, or has  *)
(* a diagnostic (InventoryService.scan).                                   *)
(***************************************************************************)
NothingVanishes ==
  run # None =>
    \A e \in run.seen :
      \/ \E m \in run.inventory.capabilities :
           \/ m.at = e.at
           \/ m.name = e.name /\ m.scope = "project" /\ e.scope # "project" /\ m.content = e.content
      \/ \E d \in run.inventory.diagnostics :
           \/ d.code = "adapter_discovery_failed" /\ d.about = <<e.adapter>>
           \/ d.code = "adapter_scan_failed" /\ d.about = e.at
           \/ d.code = "duplicate_capability_id" /\ d.about \in {Identity(m) : m \in Scanned(e)}

(***************************************************************************)
(* A report of a live search is true of what the sources held and of which *)
(* of them answered; and a source that fails takes nothing from another: a *)
(* record that an answering source has, of a repository nothing else is    *)
(* said of, and that no limit stops, is reason for candidates-found.       *)
(***************************************************************************)
Answering(source, query, requirement) ==
  \/ run.weather[<<source, query # requirement>>] = "up"
  \/ /\ run.weather[<<source, query # requirement>>] = "page-only" /\ source = "skills.sh"
     /\ \E r \in Catalogue[source] : query \in r.found

Usable(r, source, query) ==
  /\ query \in r.found /\ ~r.archived /\ ~r.fork
  /\ r.level # None => r.level <= PermissionCeiling[run.blueprint.risk]
  /\ source \notin {"github", "mcp-registry", "skills.sh"} \/ query \in r.about
  /\ \A q \in Catalogue[source] : query \in q.found => ~q.malformed
  /\ \A other \in ToSet(Sources), q \in UNION {Catalogue[o] : o \in ToSet(Sources)} :
       q.repo = r.repo => q.ref = r.ref

TruthfulReport ==
  (run # None /\ run.weather # None /\ run.step = "searched") =>
    \A requirement \in DOMAIN run.found.reports :
      LET report   == run.found.reports[requirement]
          queries  == ToSet(DiscoveryQueries(requirement, run.blueprint.leads))
          answered == {a \in ToSet(Sources) \X queries : Answering(a[1], a[2], requirement)}
      IN  /\ (\E a \in answered : \E r \in Catalogue[a[1]] : Usable(r, a[1], a[2]))
               => report.status = "candidates-found"
          /\ answered = {} => report.status = "search-failed"
          /\ report.status = "no-results" =>
               \A a \in answered : \A r \in Catalogue[a[1]] :
                 a[2] \in r.found => \/ a[1] = "skills.sh" /\ a[2] \notin r.about
                                     \/ \E q \in Catalogue[a[1]] : q.malformed
          /\ \A c \in report.candidates :
               \E a \in answered : \E r \in Catalogue[a[1]] :
                 r.ref = c.ref /\ a[2] \in r.found /\ ~r.archived

\* A provider within the limits of the plan's blueprint and the organization.
SelectionAllowed(m) ==
  /\ m.permissions \subseteq DefaultPermissions
  /\ m.compat \in run.blueprint.platforms \cup {None}
  /\ world.policy # None => /\ m.permissions \subseteq world.policy.permissions
                           /\ Identity(m) \notin world.policy.blocked

(***************************************************************************)
(* No plan, however it came about, selects a provider outside the limits   *)
(* (resolver/policy.py).                                                   *)
(***************************************************************************)
SelectedIsAllowed ==
  run # None => \A x \in run.plan.resolutions : \A m \in x.selected : SelectionAllowed(m)

(***************************************************************************)
(* What the plan selects or offers is within the limits of the blueprint   *)
(* as it now stands and of the organization, whatever was revised, merged  *)
(* or taken from a snapshot since; and no candidate that the user already  *)
(* decided on comes back.                                                  *)
(***************************************************************************)
OfferedIsAllowed ==
  /\ SelectedIsAllowed
  /\ run # None =>
       \A x \in run.plan.resolutions : \A i \in DOMAIN x.offers :
         LET c == x.offers[i].candidate
         IN  x.offers[i].source = "remote" =>
               /\ x.requirement.capability \in c.provides
               /\ c.ref \notin DOMAIN saved \cup DOMAIN run.asked
               /\ c.level # None => c.level <= PermissionCeiling[run.blueprint.risk]
               /\ world.policy # None => /\ c.level # None /\ c.level <= world.policy.level
                                        /\ c.publisher \notin world.policy.blockedPublishers

(***************************************************************************)
(* A call takes a plan to review only when the user has spoken of every    *)
(* required gap, of every gap never searched for and of every gap with     *)
(* candidates, and accepts a gap only when the network policy is known.    *)
(* The exception is a call with --model-only, which is past the gate with  *)
(* no plan to apply; the calls that find its run at review are not asked   *)
(* again (init.py:339-345).                                                *)
(***************************************************************************)
Spoken ==
  LET decided == {c \in run.found.candidates : c.ref \in DOMAIN saved \cup DOMAIN run.asked}
  IN  DOMAIN run.supplied \cup DOMAIN run.blueprint.decided \cup UNION {c.provides : c \in decided}

\* This call accepts what fills the gap, whatever was decided before.
AcceptsGap(r) == r \in DOMAIN run.supplied /\ run.supplied[r] = "accept"

ReadyIsEarned ==
  [][(/\ cp # None /\ cp' # None /\ cp.stage = "recommend" /\ cp'.stage = "review"
      /\ run'.step # "model-review") =>
       \A x \in run.plan.resolutions :
         LET r == x.requirement.capability
             reported == r \in DOMAIN run.found.reports
             required == \E q \in run.plan.requirements : q.capability = r /\ q.strength = "required"
             awaited  == reported /\ run.found.reports[r].status \in {"not-requested", "candidates-found"}
         IN  x.gap => /\ required \/ awaited => {r, Every} \cap Spoken # {}
                      /\ AcceptsGap(r) => run.blueprint.network # "unknown"]_planning

(***************************************************************************)
(* A skill that was bound into the project was verified, and its files are *)
(* those that were scanned, though the user edits skills meanwhile.        *)
(***************************************************************************)
BoundAsScanned == \A b \in bindings : b[1].verified /\ b[1].content = b[2]

(***************************************************************************)
(* Initializing again is stable: when nothing on disk changed since the    *)
(* last call was applied, the same blueprint selects the same providers,   *)
(* although the bound copies now stand beside the skills they copy.        *)
(***************************************************************************)
Chosen(selections) == {<<s[1], Identity(s[2])>> : s \in selections}

RepeatIsStable ==
  (/\ run # None /\ settled # None
   /\ settled.current /\ settled.blueprint = run.blueprint
   /\ settled.broken = Broken(run.inventory))
    => Chosen(Selections(run.plan)) = Chosen(settled.chosen)
=============================================================================
