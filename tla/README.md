# A TLA+ model of local-skill-orchestrator ("vibe")

`vibe` prepares a repository for AI-assisted development and runs tasks in it.
It inspects a project, interviews its user through Codex, recommends a
configuration, shows it as a reviewed ChangeSet and applies it; it installs and
removes remote capabilities; and it runs a task phase by phase through the Codex
app-server. This directory models the parts of it that keep state, that are used
by several processes at once, or that can be interrupted.

* `<Component>.tla` models a component; `Atomic<...>.tla` states what a component
  promises, and the detailed module is shown to implement it.
* `MC<Component>.tla` and the `.cfg` files are the instances TLC checks.
* `<Component>Proofs.tla` holds the theorems, checked by TLAPS; `InitCommandProofs`
  has those of `ProjectPlanning` too, `CodexRunProofs` those of `RunRegistry` and
  `CodexClient`.
* `PROJECT.json` relates every definition to lines of the source, and lists the
  runs, the hazards the properties are for, a mutation of the code that each
  property catches, the known disagreements and the theorems.

To repeat a run: `tlc -config InitGraph.cfg MCInitGraph`; a proof:
`tlapm InitGraphProofs.tla`.

## 1. Inventory

Paths are relative to `src/src/vibe`.

### Components with state

| component | state it keeps | operations | interacts with |
|---|---|---|---|
| ChangeSets (`materialize/changeset.py`, `ownership.py`, `writer.py`) | files of the project; during an apply a stage and a backup directory and three lists to roll back with | build, verify digests, run commands, stage, swap, clean up, roll back | everything that writes into a project goes through `apply_changeset` |
| Initialization graph (`workflows/init_graph.py`, `state.py`, `checkpoints.py`) | one row per run in SQLite: stage, status, attempt, revision, confirmed values | start, advance, revise, pause, resume, fail, retry, cancel, complete | called by `vibe init`; several processes share the row |
| `vibe init` (`commands/init.py`) | local variables of an invocation; the row above | open, inspect, interview, recommend, review, apply, verify, complete; pause and cancel | graph, interview, writer, the user |
| Interview (`conversation/runner.py`) | answers, provenance, locks, thread id, in memory and in the same row | answer, accept a default, lock, revise, replay, conclude | a Codex thread, the checkpoint store, the user |
| Task runner (`workflows/task_runner.py`, `routing/phase_exposure.py`, `commands/run.py`) | checkpoint file; allowlist of the gateway; outcome record | start, resume, compile, hand off, approve, execute, save | Codex app-server, gateway, the user |
| Capability installation (`remote/install.py`, `commands/install.py`, `update.py`, `uninstall.py`) | per capability an artifact and a transaction file; shared lock and audit log | plan, approve, stage, preflight, commit, undo | writer, the user |
| JSON-RPC transport (`codex/jsonrpc.py`, `protocol.py`) | pending requests, write lock, two bounded streams, terminal error, subprocess | request, respond, notify, read, fail, close | Codex; the turn client |
| Codex turn client (`codex/app_server.py`, `events.py`, `approvals.py`, `exec_fallback.py`) | initialized flag, the event stream of a turn | initialize, threads, turns, interrupt, denials, `codex exec` | transport; the spike, the task adapter, the interview |
| Project planning (`commands/project_plan.py`, `commands/init.py`, `materialize/skill_binding.py`) | the plan and the reports of a call; the blueprint in the checkpoint; remembered decisions; bound skills | scan, plan, search, revise, gate, bind | inventory, packs, resolver, discovery, readiness |
| Run registry (`workflows/checkpoint_spike.py`, `persistence/repositories.py`) | a run record and a graph checkpoint in two databases | start, pause, approve, resume, complete | several processes |
| MCP gateway (`routing/gateway.py`, `allowlist.py`) | the allowlist file, read on every call | list, call | task runner |
| Cache of remote search (`remote/cache.py`) | files with the age of an answer | get, put | discovery |

### Components without state

Pure functions or single passes over the file system. Modelled, as operators of the
modules that use them: task classification and planning (`workflows/scenarios.py`,
`task_graph.py`), inventory (`inventory`), practice packs (`practices`), the
resolver and its policies (`resolver`, `policy`), discovery and scoring of
candidates (`remote`), readiness (`recommendation/readiness.py`). Not modelled:
provenance and preflight of a candidate, the choice of interview questions, the
context compiler (`compiler`), doctor, drift and diff (`doctor`), repository
inspection (`inspect`), rendering (`materialize/templates.py` and its neighbours),
schema migrations (`migrations`), data types (`models`), reports and the command
line. `PROJECT.json` lists each with its status.

### How they interact

* `vibe init` drives the graph method by method. No lock is held between two
  methods, so two invocations with one `--run-id` interleave at method
  boundaries, and inside a method between its load and its conditional update.
* Inside the interview stage the invocation runs the conversation, which saves
  its progress into other columns of the same row, without a revision guard.
* The APPLY stage calls `apply_changeset`; so do install, update, uninstall,
  reconcile and migrate. Other programs (an editor, git) write the same files.
* The task runner, the interview and the turn client are coroutines over one
  JSON-RPC transport: one reader routes the lines, consumers drain two bounded
  streams, writers queue for a lock.
* A task and its gateway are two processes that share only the allowlist file.
* `vibe init` plans twice or three times in a call: before the search, with what was
  found, and again when the answers or decisions of this call revise the blueprint.
  What it read from the machine is as old as the call; the binding of skills reads
  the files again.

### Behaviour that is hard to get right

* **Failure in the middle**: an apply fails at the n-th file, in its clean-up or
  in its rollback; an exception between `advance(APPLY)` and `complete()`.
* **Death between two steps**: of an apply, of an init run at every stage, of a
  phase between its turn and its save, of a replay into a new thread.
* **Several processes**: on one run, on one interview, on one lock file, editing
  a file between its verification and its replacement.
* **Order**: transactions undone out of turn, responses after a timeout, an
  allowlist, a thread and a checkpoint that must all name one phase.
* **Waiting**: a request whose server is silent, a reader held up by a full
  stream, a turn that nobody ends, a close while somebody waits.
* **Partial answers**: any subset of the searches fails, each source in its own way;
  an adapter that raises must not hide what the others found.
* **Decisions that age**: plans, reports, bound copies and remembered decisions of an
  earlier call meet a later blueprint and a machine that was edited meanwhile.

What makes each component correct is stated as the properties of its module
(section 3), and `PROJECT.json` "hazards" lists what can go wrong line by line.

## 2. How to read the models

A step is what the code does between two points where something else can come
in: a file-system call in the writer, an SQL statement in the graph, a graph
method or a prompt in `vibe init`, a save or a turn in the task runner, an
file of an apply in the installer, the code between two awaits in the
transport, a turn or a save in the interview, a commit in the run registry, a phase
of a call in project planning. The levels rest on each other: `ChangeSetWriter`
justifies the one-step apply of `InitCommand` and `ProjectPlanning`, and has the
calls that the file-by-file apply of `CapabilityInstall` leaves out; `InitGraph` justifies the one-step methods of `InitCommand`;
`JsonRpc` what `CodexClient` assumes of its transport.

Contents, digests, answers and versions are members of small sets, and the digest
of a content is the content. A death is an action of its own. Variables called
"history" only record what happened, for the properties; no step reads them to
decide anything about the program.

Some operators stand before the one they vary (`AdvancedTwice` before
`Advanced`, `NextOperationTooFar` before `NextOperation`): they are the mutations
listed in `PROJECT.json` and occur in no specification.

## 3. Modules, and how they correspond to the code

### ChangeSetWriter, implementing AtomicApply

`BuildChangeSet` is `build_changeset` with the ownership rules: a managed file is
never deleted (`Forbidden`), an observed one keeps its content (`Planned`). Then
every call of `apply_changeset`, in its order, is an action: digests
(`VerifyBeforeDigest`), commands, the selection of what changes
(`SelectMutable`), the temporary directories, staging, and for each file the move
into the backup (`SwapOut`), its parent directories (`EnsureParent`), the
replacement (`SwapIn`); the two `rmtree` of the clean-up, which are inside the
`try`; and the rollback (`UnlinkInstalled`, `RestoreBackedUp`, `RemoveCreated`,
`DropTemps`). `backedUp`, `installed` and `created` are the code's lists. Any
file-system call may fail (at most `MaxFaults` times in a run), `Edit` is another
program that writes a target, `Die` ends the process.

`AtomicApply` is the promise: the tree changes once, to the reviewed result, or
not at all, except for two ends that are told apart (a rollback that reports its
own errors, a death), and for files somebody else writes during the call.
`Logical` is the refinement mapping: a file that has been moved away still counts
with its old content until the call commits.

* `ReportedRollbackIsComplete`: a rollback that reports no error restored
  everything. A failing clean-up is excluded, see section 7.
* `CrashLosesNothing`: after a death each original is in place, in the backup
  directory, or was replaced by its new content.
* `NothingLeftBehind`: an apply leaves no stage and no backup, nor does one that a
  single failing call turned back; and of the directories it created the latter leaves
  only those that something of another program keeps from being removed.
* `AppliesAtomically`: the refinement.

### InitCheckpoint, InitGraph, implementing AtomicInitGraph

`InitCheckpoint` has the pure part: the guards of the methods (`MayAdvance`, ...)
and the successor each makes (`Advanced`, `Completed`, ...). `InitGraph` runs them
as the code does: load and check in one transaction, then perhaps the caller's
side effect, then `UPDATE ... WHERE revision = ?` (`Replace` when `Matches`,
otherwise `Conflict`). `AtomicInitGraph` does the same transitions in one step.

* `RevisionIdentifiesState`: a loaded checkpoint whose revision is still stored is
  the stored one, so comparing revisions is enough.
* `NoConfirmationLost`: what a returned call confirmed stays confirmed, however
  clients overlap.
* `NoEarlySideEffect`: a side effect never runs ahead of the run's stage.
* `TransitionsAreAtomic`: the refinement. What it implies for the order of the stages
  and the finality of terminal runs (`StagesInOrder`) is the theorem `RunsInOrder`.

### InitCommand

One action per call an invocation of `vibe init` makes: `Open` (with `MayJoin`,
the rule of `_open_run`), `CancelRun`, `Inspect`, the interview with its two ends,
`StoreModel`, `EnterRecommend`, `Discover`, `Decide`, the readiness gate
(`Passes`), review, `EnterApply`, `Deliver` or `FailToDeliver`, `EnterVerify`,
`CompleteRun`. `Exit` is every way an invocation ends early. `EditRepository`
changes the digest of the repository at any time.

`Discover` and `Decide` go on from the stage of the row, which is what
`workflow.revise` returns, and not from the one the invocation had loaded: two that
overlap may meet in REVIEW, one of them past a readiness gate it was never asked.

* `AppliedOnce`, `OneRepositoryVersion` hold for any overlap.
* `ProjectFollowsRun`, `PausedIsResumable` hold as long as invocations follow one
  another; two that overlap break them (the hazard at `commands/init.py` 356).

### TaskPlanning and TaskRunner

`TaskPlanning` computes the plan: risk, forced approval and rollback, the floor
under a model's opinion, the phases. `TaskRunner` goes through it: a fresh start or
a resume (`Start`, `Resume`, with the input that invalidates a checkpoint), the
save at every boundary, `Approve` and `Refuse`, the context that is compiled, the
handoff to the gateway (`WriteAllowlist`), the turn, `VerifyPhase`, `Finish`,
`RecordOutcome`. A phase stands for the tools it selects. `CallTool`
is the gateway, a process of its own that reads the allowlist for every call.
A resume classifies the task again (`Resume` draws the plan anew); `strayed`
remembers that this gave another plan than the start.

* `ApprovalBeforeImplement`: a plan with an approval phase implements only after the
  approval was granted.
* `CheckpointIsHonest`: the file never claims a phase Codex did not complete,
  whatever the plan; with one plan it claims exactly those before its position, and
  completed, or a recorded outcome, means all of them.
* `TurnHasItsExposure`: the allowlist, the thread and the saved exposure of a turn
  are all of its own phase, and the gateway lets it reach no tool of another.

### CapabilityInstall

Commands are planned from the tree they see (`PlanInstall`, `PlanUpdate`,
`PlanUninstall`), approved, staged into a copy, pass the preflight
(`PreflightGate`) and are committed: `BuildCommit` takes the difference, `Verify`
refuses when a file it was built from has changed, and then each file is a step or two
(`SwapOut`, `SwapIn`, `Finish`), each of which may fail into a rollback (`FailApply`,
`Unlink`, `Restore`, `RolledBack`) whose calls may fail too, or be the last one
(`Exit`). Another command may plan, copy, compare or verify in the middle of it.
A tree is a partial function from paths to contents, as on disk. `RenderLock` and
`AppendAudit` make the two shared files, `RenderTransaction` the record of what an
uninstall puts back; it holds the record it replaces, so records nest.

Three histories say when which claim holds. `torn`: an apply was left half way, or
another command met one in its middle. `orderly`: neither that, nor two commands
overlapped, nor an uninstall out of turn. `before`: the installs and updates in
effect, with the tree each of them found.

* `PinnedIsApprovedAndVerified`: the lock pins only what was approved and passed
  its preflight, whatever overlaps, is undone out of turn or torn, at every moment of
  an apply.
* `InstalledIsRecorded`: between applies, an artifact is there if and only if the
  transaction that takes it out is, whatever overlaps and after any rollback, but not
  when something is torn: an artifact without transaction, or the reverse, may then
  stay, and a later commit makes a copy of it permanent. In turn, the lock pins exactly
  what is installed, at its version. Out of turn an uninstall puts an old lock back,
  which knows nothing of what came later.
* `RoundTrip`: in turn, an uninstall restores the tree its install found, with any
  number of applies failed and rolled back in between.

### JsonRpc

`Request` registers the id before its first await, `Write`/`Drained`/`BrokenSend`
are the send under the write lock, `Return`/`Timeout` the end of the wait. The
reader is `ReadResponse`, `ReadNote`, `ReadAsk` (which wait for a slot when the
stream is `Full`), `ReadRubbish`, `ReadEof`, `ReportExit`; `AfterFailure` is
`_fail`, which only the first failure reaches. `ReadCutLine` is the end of a stream
whose last line was cut off: the error of `_route_line` leaves the reader past the
handler that would call `_fail`, and `Cancelled` is what the task group then does to
its host and whoever is below it. `Close` and `Reap` are `close`. The server is
external: it answers in any order, asks, notifies, writes rubbish, dies.

* `OwnAnswer`: a response reaches its own request, also after a timeout.
* `EveryWaiterIsTold`: after a failure nobody waits, at whatever await he was; and the
  reader ends with a failure reported or a close. The exception it states is the cut
  line, of which nobody is told: a request that is not cancelled with the task group
  ends by its timeout (`EveryRequestEnds`).
* `EveryRequestEnds`, `EveryAskIsAnswered`: liveness.

### CodexClient

One connection of a caller: the spike (`run_spike`), a task (`CodexTaskAppServer`)
or an interview. `Send`, the four answers (`Initialized`, `ThreadOpened`,
`TurnStarted`, `Interrupted`) and `RequestFails` are the requests of
`CodexAppServerClient`; `Route` is the reader of the transport, held up by a full
stream; `ReadEvent` and `ReadMalformed` are `stream_events`; `Deadline` and `Grace`
the two time limits of `run_turn`. `Judged` is what each caller makes of a turn,
`Fallback` is `codex exec`, `Close` the end of the block that owns the connection.
`AnswerAsk` and `RefuseAsk` are `_deny_approval_requests`. The server is external.

* `OwnEvents`: a turn that returns has exactly the events of its own turn.
* `EveryConnectionEnds`: whatever the server does or leaves undone (liveness).
* `NoServerLeftBehind`: the process is reaped, except after a failed initialize of a
  task.
* `SpikeIsSettled`: the run record of a spike ends truthfully.

`run_turn` returns a turn that failed or was interrupted like one that completed,
and no caller looks at its status; so nothing is claimed about the status of the
turn a result comes from.

### RunRegistry

`CheckpointSpike.start` and `resume` over two databases. A transition is
`CheckTransition` and `CommitTransition`, because the status is read outside the
transaction that writes it; `Create`, `Associate`, `InvokeStart`, `InvokeResume`
commit on their own; `Kill` may come between any two. `Raises` is an error at any step:
a busy database, an interrupt, another checkpoint file. `FailRunning` is the handler of
the graph of a resume, and may raise like any other step; an interrupt outside that
handler is a `Raises` that no handler sees, or a `Kill`.

* `RecordMatchesGraph`: the record never promises more than the graph has.
* `RunningIsAttended`: a running run has a process in the middle of it. The exceptions
  are stated: a kill, a start whose graph raises, a last transition that raises
  (`checkpoint_spike.py:102, 152`, outside the `try`), and `_fail_running` raising in the
  handler (168-170). A graph that fails in a resume and races of resumes are none.

Two resumes may both pass the check and both run the approval node, and the later
commit wins over the earlier, terminal or not; nothing is claimed about who wins.

### Inventory, PracticePacks, RemoteRanking, RemoteDiscovery, LocalResolver, ReviewReadiness, composed by ProjectPlanning

The six modules hold the decisions, `ProjectPlanning` the calls that make them.

* `Inventory`: what each adapter makes of an entry (`AgentSkill`, `CliTool`,
  `CodexHook`, `CodexMcp`, `CodexPlugin`, `ProjectMarker`), and `Scan`: failures
  contained, equal identities settled. An entry says what it declares and what is
  wrong with it (`flaws`); the bytes are not modelled.
* `PracticePacks`: matching, conflicts, exceptions, merging, confirmed overrides,
  mandatory packs, markers. `Evaluate` is a set that is empty when packs conflict.
* `RemoteDiscovery`: each source's `Search` with its way to fail, the merge of what
  several sources say of one candidate, blocking, ranking (`RemoteRanking`), the status
  of a report, the snapshot. The `Weather` of a run says which searches fail and how.
* `LocalResolver`: hard limits before scores, context values, the choice, and for a
  gap what is recommended.
* `ReviewReadiness`: the decisions that count, and the gate.
* `ProjectPlanning`: `Start` scans and plans, `Find` searches, `Revise` takes this
  call's answers and decisions, `Gate` asks for readiness unless the call has
  `--model-only`, `Unconfirmed`, `ApplyPlan` and `ApplyNothing` (`--model-only`,
  `--dry-run`) end the call, `Edit` changes the machine at any time.

The properties relate the steps of one call, and one call to the next:

* `NothingVanishes`: everything found is in the inventory, shadowed by an identical
  project copy, or named in a diagnostic.
* `TruthfulReport`: a report says what the sources held and which of them answered;
  a source that fails takes nothing from another.
* `OfferedIsAllowed`: what is selected or offered obeys the limits of the blueprint as
  it now stands, and a decided candidate does not come back.
* `ReadyIsEarned`: a call without `--model-only` takes a plan to review only when the
  user has spoken of every gap that waits for it, and accepts a gap only when the
  network policy is known.
* `BoundAsScanned`: a bound skill was verified, and has the files that were scanned.
* `RepeatIsStable`: an unchanged machine and blueprint select the same again, although
  bound copies now stand beside their originals.

What the code does that these properties leave room for: a skill selected for two
requirements, or one that is unverified, makes the binding raise after review; after
an edit of a bound skill both copies are dropped as duplicates; a required
gap of a mandatory pack counts as recommended in the gate; a confirmed override may
weaken a requirement; a ref found for several gaps counts for the last of them only;
what a lead query finds is reported and never offered; candidates of a snapshot give
no-results without a search, and the snapshot never expires; the decisions of a call
replace all earlier ones; a capability without built-in recommendations gets no remote
one either.

### Interview

`Load`, `ResumeThread` or `StartThread`, `TellContext`, `Replay` begin an
invocation; `Respond`, `Lock`, `Revise` are the user's; `TellAnswer` and
`SaveProgress` the turn and the save that follow an answer; `Reconcile` lays the
answers over the model's result. `Reading` stands for the phrase tables that read
a permission from a text; `Parse` is what is made of it. `Leave` is a kill, an
abort, a refused command or a failed turn.

* `AnsweredInOrder`: no saved answer outlives a revision of a question it was
  given after.
* `ResultIsWhatWasSaid`: the result has the user's last word on whatever was
  answered.
* `ThreadIsInformed`: an invocation asks on a thread that knows all its answers.
* `NoGrantWithoutUser`: of `write_project`, `execute_command` and `network_policy`,
  the three that questions answer, none is allowed that no user allowed, whatever the
  model returns. The other decisions (`PassedOn`) are the model's: `read_project`,
  `write_outside_project`, `access_secrets`, the two approvals and the network of a
  candidate go from its answer into the result as they are.

A turn that comes back with the status "failed" is taken as told, as the code takes it.

Three conditions in these are where the code stops short: a question "revised"
before it was reached skips those in between; a death between a revised answer
and its save brings the old one back; a death inside a replay leaves a thread
that was saved and not told everything. `revise` also drops later answers that
are locked (the lock of the target alone is looked at), so no property claims
that a lock outlasts the revision of an earlier question.

## 4. Runs

| run | instance | shows |
|---|---|---|
| `writer_apply` | two files, one in the root and one two directories down, managed and owned, two contents, one command, one edit, two failing calls, a death | the type invariant, three invariants and the refinement of `AtomicApply` |
| `init_graph` | two clients, four stages, two digests, two keys, revisions up to 6 | the type invariant, three invariants and the refinement |
| `init_command` | two invocations at a time, all nine stages, two digests, one answers file, two gaps of which one is required | four invariants |
| `task_runner` | a fast, a standard and a rigorous plan, which a resume may exchange, two versions of the inputs, with and without hard routing | three invariants |
| `capability_install` | two capabilities, in one of three scopes. `Alone`: one command after the other, two versions and updates, three applied installs or updates, one failing call or death. `Overlapping`: two commands at a time, one version, two applied installs, none failing. `Tearing`: two commands at a time, one version, one applied install, two failing calls or deaths | two invariants and the round trip |
| `jsonrpc` | two requests and the responder, streams and pipes of one slot, two server requests, one notification | safety and liveness |
| `codex_client` | one connection of each caller, a stream of one slot, two phases, one item for each turn, one foreign or malformed notification | three invariants, and that every connection ends |
| `run_registry` | three processes, two runs, a thread whose id is that of a run, two digests | two invariants |
| `project_plan` | two calls and one edit; three blueprints, two disks, two worlds, four packs, four sources, three kinds of weather | five invariants and the gate |
| `interview` | three invocations, two at a time, three questions, two threads | four invariants |
| `writer_restore`, `init_stranded` | as above, with the smallest bounds that suffice | one disagreement each, section 7 |

Every module with steps but `ProjectPlanning`, whose variables hold what its operators
compute, states a type invariant. Two runs check theirs; section 6 proves all of them.

Why the bounds are enough:

* Two files are enough for a failure between two of them, in either direction of
  the loops; a chain of two directories is enough for one that is created and not
  emptied. The first failing call starts the rollback, the second disturbs it. The
  theorems of section 6 remove these bounds.
* Two clients of the graph make every lost update; a third would be one of them
  again after its call. Revision 6 leaves room to complete all four stages and for
  one more transition in between. The theorems remove these bounds too.
* Two invocations of `vibe init` at a time, any number one after the other, and
  two digests: the one the run began with and another. The state space is finite
  without a bound.
* The three plans of a task are the ones that differ in their gates: none, an
  approval at the end, an approval in front of `implement`. Invocations are
  unbounded.
* Two capabilities share a lock; two applied installs nest one transaction in
  another or undo them out of turn, and the third makes an update one of them (with
  two, a wrong claim about updates undone out of turn went unnoticed); any number of
  uninstalls and refused commands. A failing call and one more that fails in its
  rollback leave an apply half way. `MCCapabilityInstall` lets a behaviour keep to one of
  three scopes, because overlap, failures and nesting together are too many states;
  the theorems have all of it at once.
* A stream and a pipe of one slot are full as soon as they hold anything, so
  every wait for a slot happens; the second server request is the one that finds
  the stream full. In `codex_client` the one slot is taken by the event of another
  turn while the own one waits behind it; two turns with their repair, or two
  phases, have an earlier turn whose events could be mistaken.
* One start and two resumes are all that race for a record, and two starts for a
  run or a thread.
* The second call of `project_plan` meets what the first has saved and bound, and
  the edit falls before, between or inside them. The disks have a skill for two
  needs, a broken skill, an unverified tool, an unreadable one, a marker; the worlds
  are live search under a strict policy, and a snapshot without one; the blueprints
  differ in risk, platform, network and lead, and one makes two packs conflict; the
  weathers are one limited source beside one that has only its page, none at all, and
  one that fails for the lead query alone. These instances are data: the
  operators they feed are not shown for all inputs.
* In the interview the first question decides nothing but must be told and asked
  like any other, the second decides a permission (and its answer may contradict
  itself; one more permission has no question and one decision can have none), the
  third has a field, a default and a lock, which a revision of the first
  two drops: a question is revised with answers before it, after it, or both. The third
  invocation resumes what two have saved over each other.

Deadlock is not checked, because each of these systems may stop: a call returns,
a bound is used up, a run ends. For the transport and its client, that nothing is
stuck is what the liveness properties say.

## 5. Fairness

`JsonRpc` and `CodexClient` assume some; the other modules state safety properties,
and a process that stops for ever is a behaviour of theirs.

In `JsonRpc`:

* `WF(Return(t) \/ Timeout(t))`: the event loop resumes a task whose event is set
  or whose `fail_after` has expired.
* `WF(Sending(w))` per writer: it is resumed when the lock is free and when the
  pipe has drained. Weak fairness suffices although the lock is contended, because
  each of the few writers of the instance sends boundedly often.
* `WF(Reading)`, `WF(TakeNote)`, `WF(TakeAsk)`: the reader and the two consumers
  are resumed when they can go on. For notifications this assumes that somebody
  streams events, which the turn client does during a turn.
* `WF(ServerRead)`: the server reads its input while it lives. This is assumed of
  Codex, not shown, and needed: the timeout of `request` covers the wait for the
  response and not the send.
* `WF(closing /\ ServerDie)`: `close` terminates the process.

Nothing is assumed of the server's answers, notifications, requests and death, nor
that anybody calls `close`.

In `CodexClient`: `WF(Caller)`, the coroutine of the caller goes on when it can;
`WF(Timer)`, the time limit of a request, the deadline of a turn and the two seconds
after an interrupt expire; `WF(Route)`, the reader of the transport. `Caller`
includes `codex exec`, which the code runs without a time limit and which is assumed
to end. A request is one step, which rests on `EveryRequestEnds` of `JsonRpc` and so
on its assumption that a living server reads. Nothing else is asked of the server.

## 6. What is proved

The theorems hold for all values of the constants under the assumptions their
modules name.

**ChangeSetWriterProofs**, for any number of files, directories, commands, edits
and failing calls (`SizesAssumption`, `PathsAssumption`, `AbsentAssumption`):
`TypeCorrect`, `RollbackCorrect` (`ReportedRollbackIsComplete`), `CrashSafe`
(`CrashLosesNothing`), `ImplementsAtomicApply` (`AppliesAtomically`).

`ReportedRollbackIsComplete` speaks only of the end of a call and is not
inductive. `IInv` adds what holds in between: verification was passed without a
conflict (`NoConflict`); what could be put back is what was reviewed (`Base`); the
files the loop has not reached are untouched (`Ahead`), those behind it are
complete (`Behind`), and no other content is ever seen (`NotMixed`); the backup
holds what was moved (`BackupFaithful`) until it is restored (`Kept`); and how far
an undisturbed rollback has come (`Undone`). One lemma per action shows that it
preserves `IInv`. For the refinement, `WriterStutters` shows that every step
inside the `try` leaves `Logical` and `Outcome` alone, and `WriterEnds` that each
end is a step of `AtomicApply`.

**InitGraphProofs**, for any set of clients, digests and keys and any number of
stages (`StageCountAssumption`): `TypeCorrect`, `RevisionSound`,
`ConfirmationsKept`, `SideEffectsInTurn`, `ImplementsAtomicGraph`, `RunsInOrder`.

Every method stores a checkpoint that `Follows` the one it loaded: one revision
later, at the same stage or the next. Hence the invariant `CallsFollow` of the
calls in progress, hence stored revisions only grow and a revision identifies its
checkpoint, hence an update that still finds the loaded revision replaces what was
loaded. That last fact is the refinement. `LoadedBelowBound` shows that the bound
on revisions, which both specifications have, does not get in its way.

`NothingLeftBehind` needs a second invariant, `Tidy`: when the temporary directories
come and go (`TempsGone`), that every directory the call made lies below those the
reviewed files lie in (`BelowReviewed`), and that `RemoveCreated` stops only where
somebody else is in the way (`OnlyOccupied`; `StopsAtOccupied` is the lemma about a
chain of directories). The theorem is `Cleaned`.

**InitCommandProofs**, for any invocations, digests, answers and gaps
(`GapAssumption`, `NilAssumption`, `StagesAssumption`: the nine stages of the code):
`TypeCorrect`, `RunAppliesOnce`, `OneVersion`, `ProjectIsTheRuns`, `PausedGoesOn`.
The row never goes back, and APPLY is stored before anything is built: so one
invocation at most is past it (`OneDelivers`), and nothing is applied earlier. That
holds for any overlap. The last two theorems rest on `WorksAlone`: an invocation that
meets no other holds in its variables what the row says.

The same module has the proofs about **ProjectPlanning**, for any packs, taxonomy,
disks, blueprints, policies, sources and failures, any number of calls and edits
(`DisksAreReal`: a disk holds finitely many entries, an entry is what some adapter
discovers, and a locator names one): `ScansLoseNothing`, `BindingIsFaithful`,
`SelectionsAreAllowed`, `InitializingAgainIsStable`, `ReviewIsEarned`,
`PlansAreOfTheSaved`.

* Lemmas about the operators come first: what every adapter copies into a manifest
  (`OneManifest`), when one of several manifests with one identity is accepted
  (`AcceptedMeans`), what a scan contains and diagnoses (`ScanMeans`), what is selected
  for a requirement (`SelectedIsBest`), what a plan consists of (`MadeResolutions`).
* `PlanIsCurrent` is the invariant behind the limits: the plan in hand is made from the
  scan of its call and from the blueprint as it now stands, after any search and
  revision. Every such plan is `Grounded`.
* `InitializingAgainIsStable` needs to know what binding does to the next scan. A
  skill that is bound was alone with its identity in the scan, so its copy shadows it
  and nothing else; a copy that it replaces was no part of the inventory. So the
  inventory after binding `Mirrors` the one before (`BindingMirrors`): each has the
  like of every manifest of the other. The markers, the limits, the value in context
  and the ranking do not tell like manifests apart (`MarkersAlike`, `ValueAlike`,
  `WinsAlike`), so the choices have the same identities (`ChosenAlike`). The state
  invariant (`SettledHolds`, `SeenIsCurrent`) carries this to the next call.
* `ReviewIsEarned` follows the decisions in force back to who made them
  (`DecidedIsSpoken`) and reads off what the gate asks (`EvaluatedReady`).

**TaskRunnerProofs**, for any set of plans the planner can make and any inputs
(`PlansAssumption`, `NoneAssumption`). `EveryTaskIsClassified` shows that
`PlansAssumption` leaves no plan out. `HighRiskIsGated` is about the planner alone: no
signal and no opinion of a model lowers a risk, and a task that is high for whatever
reason gets an approval phase and, if it writes, a rollback. `PlanFacts` (no
phase twice, approval before implement) follows from the order of the pieces a plan is
joined from. `TypeCorrect`, `ApprovedFirst`, `HonestCheckpoint` and `OwnExposure` then
need what holds within an invocation: it holds what is stored (`HoldsWhatIsStored`),
or what it has opened (`HoldsWhatItOpened`), and the file claims no phase that was not
executed and no approval that was not given (`Claims`).

**CapabilityInstallProofs**, for any clients, capabilities, versions and bounds on the
applies and their faults (`InstallAssumption`): `TypeCorrect`, `PinnedOnlyIfEndorsed`,
`Recorded`, `UndoneInTurn`. Records nest to any depth, and there is no induction to
speak of them. Instead `IInv` says that there is some set of records, closed under "is
recorded in the tree this one puts back" (`Closed`), that contains all records in the
project, in every copy a command works on and in every backup, and that each of them
would bring back a sound tree. A commit, an undo and every call of an apply put trees
together path by path, which keeps every part of it (`Safe`). While nothing is torn, one
apply is under way at a time (`OneAtATime`), and the project differs from the tree
`whole` it began with just in what that apply has moved away and put in place
(`Midway`): so it ends as the changes say (`Onward`, `FinishedIs`) or, rolled back, as
it began (`UntouchedIsWhole`). What holds only in turn is said of the stack `before`:
each tree on it `Follows` the one below by one step, which its record undoes
(`Stacked`).

**JsonRpcProofs**, for any tasks, pipes and streams of any size
(`JsonRpcAssumption`, `DistinctAssumption`: the values that stand for "none" are not
taken for others): `TypeCorrect`, `AnswersAreRouted`, `FailureReachesAll`. Ids are
counted, so no two requests ever have one (`Numbered`), each line in either pipe
names its own request (`AllGenuine`), and a slot belongs to its request from before the
send until its end (`Slots`); so a late response finds no slot or the right one.

**CodexRunProofs**, about RunRegistry for any processes, runs, threads and digests
(`RunRegistryAssumption`, `NoneAssumption`): `TypeCorrect`, `RecordsAreTrue`,
`NoRunIsForgotten`, `StartsAlone`. The primary key lets one start into a run, and the
record is not "paused" until that start pauses it, so it works alone (`StartIsAlone`).
Resumes overtake each other, but all have shown the digests of the record
(`ResumeIsEntitled`), which never change.

The same module has the proofs about **CodexClient**, for streams of any size and any
number of phases, items and foreign notifications (`CodexClientAssumption`,
`NilIsNoValue`): `ConnectionTypeCorrect`, `TurnsAreWhole` (`OwnEvents`),
`ServersAreReaped` (`NoServerLeftBehind`), `SpikesAreSettled` (`SpikeIsSettled`). The
stream and the pipe behind it are one queue. When the answer to turn/start is taken,
the queue holds the whole turn (`Due`); each event read is the next of that turn
(`HoldsNext`); what is written, moved or dropped besides leaves the rest of the turn in
the queue (`StillHolds`). A turn ends with its turn_completed, so one that is returned
is whole. `ConnectionInv` adds the order in which a caller asks (`RequestsInOrder`),
the server serves and answers (`ServedInOrder`, `AnsweredInTime`) and the spike writes
its audit records (`AuditedSoFar`).

**InterviewProofs**, for any questions, texts and readings, invocations and threads
(`InterviewAssumption`, `JudgementAssumption`, `NoneAssumption`): `TypeCorrect`, `OrderKept`,
`ResultFaithful`, `ThreadKnows`, `NoSilentGrant`. The answers held or saved are those
of the first few questions (`InOrder`, `Leading`), hence nothing is ever stale. While
invocations follow one another, what is held is what was said, and what is saved is so
but for one answer under way (`AsSaid`); a thread has been told all but what is on
its way to it, at each `pc` (`Informed`). `Granted` holds for any overlap. `From` and
`Untold` choose a least element, which exists by well-foundedness (`LeastExists`).

Two attempts at a proof corrected the model. With `MaxCommits = 2` TLC accepted a
claim that the lock is right after an update was undone out of turn; the inductive
step failed, and a bound of three shows why. `NothingLeftBehind` once promised that a
turned back call leaves no directory that nothing reviewed needs; two edits of another
program falsify that, and the property now names the directories that may stay.

Proving also changed models without changing what they say: `OnDisk` now asks for a
skill at the locator of a skill, which the step of `ApplyPlan` needs and the code has
by reading the path as one; `RepeatIsStable` no longer speaks of the first plan of a
call only, because the proof needs no such restriction.

Only model-checked:

* The liveness properties `EveryRequestEnds`, `EveryAskIsAnswered` and
  `EveryConnectionEnds`: the prover has no `ENABLED`.
* `TruthfulReport`: its reports come from folds over the results of all searches
  (`Deduplicate`, `RankMultiSource`), and what a fold computes for every input takes an
  induction over data.
* The half of `OfferedIsAllowed` about offers: they are a sequence sorted with
  `SetToSortSeq`, and that this has the members of its set takes the definition of
  `SortSeq`, which the prover does not have, and an induction. The half about
  selections is `SelectionsAreAllowed`.

The assumptions above say how the constants relate; none limits a size, except that
pipes and streams hold something, the tasks of a transport, the processes of a registry
and the entries of a disk are finitely many, and the stages of `vibe init` are nine.

## 7. Where the code and its documents disagree

Two are runs in which TLC finds the documented property violated.

* `writer_restore`: the two `rmtree` of the clean-up are inside the `try`. When
  one fails, every file is installed; the rollback removes them and has no backup
  left to restore: the tree is neither the old one nor the new. "Apply a ChangeSet or restore the original tree"
  (`writer.py:40`) is then false, and the error it reports does say so.
* `init_stranded`: an invocation that dies or fails outside the interview leaves a
  RUNNING checkpoint that can be neither resumed nor cancelled nor started again.

The others follow from the definitions, and the properties are stated around them:

* Readiness is tested only while a run is at RECOMMEND, and not for `--model-only`. A
  run that `--model-only` or a missing `--confirm` left at REVIEW is applied by
  `--resume --confirm` without it (`ReadyIsEarned` is about the call that takes the run
  to REVIEW, and not about one with `--model-only`); so is one that an overlapping
  invocation brought there (`init.py:268`, 307).
* Of the decisions about permissions the model's own go into the result where no
  question can answer them (`runner.py:366-373`; `tests/conversation/test_runner.py:442`
  expects it). `NoGrantWithoutUser` is about the three that questions answer.
* `vibe run --resume` classifies the task again and goes on at the stored position of
  a plan it may not have been counted in, past an approval the new plan has before it
  (`ApprovalBeforeImplement` says `~strayed`).
* The record of a resume whose final transition fails, or whose `_fail_running` does,
  stays RUNNING, and no resume takes it up (`RunningIsAttended` lists these errors).
* A server that dies inside a line leaves the transport usable to all appearances
  (`jsonrpc.py:227-229`): no terminal error is set (`EveryWaiterIsTold` is about a reader
  that reached its end, not about one lost to that error).
* An update records as "before" the artifact and the transaction of the install it
  replaces, so that uninstall refuses for ever (`RoundTrip` is about installs).
* Every gap should have an explicit discovery status
  (`docs/superpowers/specs/2026-07-22-trusted-multi-source-remote-discovery-design.md:121`);
  answers of a later call may revise the blueprint after the search and open gaps
  without one. The gate still asks for a decision when such a gap is required.

## 8. What is not modelled

* Texts, formats and digests as such: rendering, JSON validation, path
  normalisation, the phrase tables of the interview, messages and logs.
* Network and host access: the requests of discovery, the scanners of the host,
  git. `CapabilityInstall` has the outcome of a preflight, not its rules.
* In `JsonRpc`, `notify` (a send without a wait) and the reader of stderr.
* In `TaskRunner`, two runs of one project at the same time, which share the
  checkpoint file without a guard, and the gateway of an app-server that outlives a
  killed run and would follow the allowlist of the next one.
* In `CodexClient`, the lines and the writes of the transport (they are `JsonRpc`'s, and
  so is the cancellation after a cut last line),
  approval policies other than the empty one, which the code never makes, and the
  temporary files of `codex exec`.
* In `ProjectPlanning`, the capabilities in `rejections.json`, which are listed beside
  the resolutions and take part in nothing, and reasons, digests and rendered texts.
* `remote/registry.py`, `remote/cache.py`, `remote/scan.py`,
  `recommendation/questions.py`, `recommendation/explanations.py`,
  `inventory/adapters/compound.py`: no command calls them.
* Doctor, drift, diff, inspection and the audit queries only read; migrations and
  reconcile build one ChangeSet and hand it to the writer; templates and models are
  text and types. `PROJECT.json` has each as `not_modelled`, with its reason.

## 9. Plan

Done, in this order because everything that writes into a project rests on the
writer and everything about a run on the graph: ChangeSetWriter, InitGraph,
InitCommand, TaskRunner, CapabilityInstall, JsonRpc, Interview, RunRegistry,
CodexClient, and project planning with its six modules of decisions.

Proved: everything in section 6, with safety properties of all ten modules that have
steps, and both refinements.

Next, theorems: the offers of `OfferedIsAllowed`, from a lemma that sorting keeps the
members of a set; and the fact `CapabilityInstall` takes from `ChangeSetWriter`, that
what is applied is the reviewed tree.

Next, models: reconcile (previews of one scan, prompts, one combined ChangeSet) over
the writer; the choice of interview questions; the context compiler.
