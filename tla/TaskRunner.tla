----------------------------- MODULE TaskRunner -----------------------------
(***************************************************************************)
(* TaskRunner (workflows/task_runner.py): the phases of a task plan are    *)
(* executed one after the other by the Codex app-server, with a checkpoint *)
(* file saved (write a temporary, rename) at every boundary.  Invocations  *)
(* of "vibe run" follow one another; each starts the task afresh or, with  *)
(* --resume, goes on from the checkpoint.  Each may be killed, or end with *)
(* an exception, between any two steps, and the inputs of the context (the *)
(* git head and the digest of the blueprint) change at any time.           *)
(*                                                                         *)
(* With hard routing (GatewayPhaseExposure, routing/phase_exposure.py) each*)
(* phase first rewrites the allowlist of the MCP gateway and opens a Codex *)
(* thread of its own.  A phase stands for the tools it selects, so that the*)
(* allowlist, a thread's configuration and an exposure digest are each the *)
(* phase they were made for.  The gateway (routing/gateway.py) is a process*)
(* of its own that reads the allowlist anew for each call of the turn.     *)
(***************************************************************************)
EXTENDS TaskPlanning, FiniteSets

CONSTANTS
  Plans,      \* the plans the classification of this task can lead to
  Input,      \* versions of the git head and the blueprint
  None

ASSUME PlansAssumption == Plans \subseteq {PhaseIds(c) : c \in Classification}

VARIABLES
  input,      \* the current version of the inputs
  hard,       \* hard routing is configured
  file,       \* the checkpoint file
  allowlist,  \* the phase whose tools the gateway allows
  called,     \* the tool the turn under way last got through to
  pc,
  resuming,   \* this invocation was given --resume
  plan,       \* its plan
  checkpoint, \* its copy of the checkpoint
  thread,     \* the configuration of the thread it holds
  planned,    \* history: the plan of the last fresh start that was saved
  approved,   \* history: approval granted since the last fresh start
  executed,   \* history: phases Codex has completed since then
  recorded,   \* history: the outcome of the task has been recorded
  strayed     \* history: a resume got another plan since then

vars == <<input, hard, file, allowlist, called, pc, resuming, plan, checkpoint, thread,
          planned, approved, executed, recorded, strayed>>
invocation == <<resuming, plan, checkpoint, thread, called>>
history == <<planned, approved, executed, recorded, strayed>>

\* The statuses the runner saves; FAILED is declared and never used.
RunStatus == {"running", "awaiting-approval", "invalidated", "completed"}
PC == {"idle", "open", "save", "loop", "ask", "compile", "handoff", "execute",
       "returned", "finish", "record"}

Checkpoint ==
  [status: RunStatus, input: Input, next: Nat \ {0}, completed: SUBSET Phase,
   thread: Phase \cup {"plain", None}, exposure: Phase \cup {None}]

ASSUME NoneAssumption == None \notin Checkpoint

TypeOK ==
  /\ input \in Input /\ hard \in BOOLEAN
  /\ file \in Checkpoint \cup {None}
  /\ allowlist \in Phase \cup {None} /\ called \in Phase \cup {None}
  /\ pc \in PC /\ resuming \in BOOLEAN
  /\ plan \in Plans \cup {None} /\ planned \in Plans \cup {None}
  /\ checkpoint \in Checkpoint \cup {None}
  /\ thread \in Phase \cup {"plain", None}
  /\ approved \in BOOLEAN
  /\ executed \subseteq Phase
  /\ recorded \in BOOLEAN /\ strayed \in BOOLEAN

Init ==
  /\ input \in Input /\ hard \in BOOLEAN
  /\ file = None /\ allowlist = None /\ called = None
  /\ pc = "idle" /\ resuming = FALSE /\ plan = None /\ checkpoint = None /\ thread = None
  /\ planned = None /\ approved = FALSE /\ executed = {} /\ recorded = FALSE
  /\ strayed = FALSE

-----------------------------------------------------------------------------
Return ==
  /\ pc' = "idle" /\ resuming' = FALSE /\ called' = None
  /\ plan' = None /\ checkpoint' = None /\ thread' = None

Save(c) == file' = c /\ checkpoint' = c

(***************************************************************************)
(* range(checkpoint.next_phase_index, len(plan.phases)) is exhausted.      *)
(***************************************************************************)
Exhausted(c, p) == c.next > Len(p)

Current == plan[checkpoint.next]

(***************************************************************************)
(* A fresh start, with the plan the task is classified into.               *)
(***************************************************************************)
Start ==
  /\ pc = "idle"
  /\ plan' \in Plans
  /\ checkpoint' = [status |-> "running", input |-> input, next |-> 1,
                    completed |-> {}, thread |-> None, exposure |-> None]
  /\ thread' = None
  /\ pc' = "open" /\ resuming' = FALSE
  /\ UNCHANGED <<input, hard, file, allowlist, called, history>>

(***************************************************************************)
(* --resume: the checkpoint as it was left, with the inputs of now, and a  *)
(* plan for the task as it is classified now: nothing compares it with the *)
(* plan the stored position was counted in.                                *)
(***************************************************************************)
Restored(c) == [c EXCEPT !.status = "running", !.input = input]

Resume ==
  /\ pc = "idle"
  /\ file # None
  /\ plan' \in Plans
  /\ strayed' = (strayed \/ plan' # planned)
  /\ checkpoint' = Restored(file)
  /\ thread' = file.thread
  /\ pc' = "open" /\ resuming' = TRUE
  /\ UNCHANGED <<input, hard, file, allowlist, called, planned, approved, executed, recorded>>

(***************************************************************************)
(* Without hard routing one thread serves all phases, new or resumed; then *)
(* the checkpoint is saved, in either mode.                                *)
(***************************************************************************)
OpenThread ==
  /\ pc = "open"
  /\ thread' = IF hard THEN thread ELSE "plain"
  /\ pc' = "save"
  /\ UNCHANGED <<input, hard, file, allowlist, called, resuming, plan, checkpoint, history>>

SaveStarted ==
  /\ pc = "save"
  /\ Save([checkpoint EXCEPT !.thread = thread])
  /\ pc' = "loop"
  /\ IF resuming
     THEN UNCHANGED history
     ELSE /\ planned' = plan /\ approved' = FALSE /\ executed' = {} /\ recorded' = FALSE
          /\ strayed' = FALSE
  /\ UNCHANGED <<input, hard, allowlist, called, resuming, plan, thread>>

-----------------------------------------------------------------------------
(***************************************************************************)
(* _pause.  (mutant) It stores the phase after the one it stops before.    *)
(***************************************************************************)
PausedAfter(c, status) == [c EXCEPT !.status = status, !.next = @ + 1]
Paused(c, status) == [c EXCEPT !.status = status]

Pause(status) ==
  /\ file' = Paused(checkpoint, status)
  /\ Return
  /\ UNCHANGED <<input, hard, allowlist, history>>

Invalidate ==
  /\ pc = "loop"
  /\ ~Exhausted(checkpoint, plan)
  /\ input # checkpoint.input
  /\ Pause("invalidated")

EnterPhase ==
  /\ pc = "loop"
  /\ ~Exhausted(checkpoint, plan)
  /\ input = checkpoint.input
  /\ pc' = IF RequiresApproval(Current) THEN "ask" ELSE "compile"
  /\ UNCHANGED <<input, hard, file, allowlist, invocation, history>>

Approve ==
  /\ pc = "ask"
  /\ approved' = TRUE
  /\ pc' = "compile"
  /\ UNCHANGED <<input, hard, file, allowlist, invocation, planned, executed, recorded, strayed>>

Refuse ==
  /\ pc = "ask"
  /\ Pause("awaiting-approval")

(***************************************************************************)
(* The capsule is compiled; with hard routing expose rewrites the allowlist*)
(* and a thread with the phase's configuration is opened and saved.        *)
(* (mutant) An allowlist that is kept once it exists.                      *)
(***************************************************************************)
KeepAllowlist(phase) == IF allowlist = None THEN phase ELSE allowlist
WriteAllowlist(phase) == phase

Compile ==
  /\ pc = "compile"
  /\ allowlist' = IF hard THEN WriteAllowlist(Current) ELSE allowlist
  /\ pc' = IF hard THEN "handoff" ELSE "execute"
  /\ UNCHANGED <<input, hard, file, invocation, history>>

Handoff ==
  /\ pc = "handoff"
  /\ thread' = Current
  /\ Save([checkpoint EXCEPT !.thread = Current, !.exposure = Current])
  /\ pc' = "execute"
  /\ UNCHANGED <<input, hard, allowlist, called, resuming, plan, history>>

(***************************************************************************)
(* call_tool of the gateway, while the turn runs: the allowlist is read at *)
(* every call and what it does not name, or all when it cannot be read, is *)
(* refused; what it names goes to the upstream server.                     *)
(***************************************************************************)
Forwards(tool) == allowlist # None /\ tool = allowlist

CallTool ==
  /\ pc = "execute" /\ hard
  /\ \E tool \in Phase : Forwards(tool) /\ called' = tool
  /\ UNCHANGED <<input, hard, file, allowlist, pc, resuming, plan, checkpoint, thread, history>>

(***************************************************************************)
(* One Codex turn.  It completes the phase or not; _verify_phase raises in *)
(* the second case, with the checkpoint left running at this phase.        *)
(* (mutant) A result is taken as it comes.                                 *)
(***************************************************************************)
TakesAnyResult(completes) == TRUE
VerifyPhase(completes) == completes

Execute ==
  /\ pc = "execute"
  /\ \E completes \in BOOLEAN :
       /\ VerifyPhase(completes)
       /\ executed' = IF completes THEN executed \cup {Current} ELSE executed
  /\ pc' = "returned" /\ called' = None
  /\ UNCHANGED <<input, hard, file, allowlist, resuming, plan, checkpoint, thread,
                 planned, approved, recorded, strayed>>

SavePhase ==
  /\ pc = "returned"
  /\ Save([checkpoint EXCEPT !.completed = @ \cup {Current}, !.next = @ + 1])
  /\ pc' = "loop"
  /\ UNCHANGED <<input, hard, allowlist, called, resuming, plan, thread, history>>

Finish ==
  /\ pc = "loop"
  /\ Exhausted(checkpoint, plan)
  /\ Save([checkpoint EXCEPT !.status = "completed"])
  /\ pc' = "record"
  /\ UNCHANGED <<input, hard, allowlist, called, resuming, plan, thread, history>>

RecordOutcome ==
  /\ pc = "record"
  /\ recorded' = TRUE
  /\ Return
  /\ UNCHANGED <<input, hard, file, allowlist, planned, approved, executed, strayed>>

(***************************************************************************)
(* An exception (a refused handoff, a failed turn, a rejected result, a    *)
(* lost app-server) or a kill: nothing more is saved.                      *)
(***************************************************************************)
Exit ==
  /\ pc # "idle"
  /\ Return
  /\ UNCHANGED <<input, hard, file, allowlist, history>>

ChangeInput ==
  /\ \E i \in Input : i # input /\ input' = i
  /\ UNCHANGED <<hard, file, allowlist, pc, invocation, history>>

Next ==
  \/ Start \/ Resume \/ OpenThread \/ SaveStarted
  \/ Invalidate \/ EnterPhase \/ Approve \/ Refuse \/ Compile \/ Handoff
  \/ CallTool \/ Execute \/ SavePhase \/ Finish \/ RecordOutcome
  \/ Exit \/ ChangeInput

Spec == Init /\ [][Next]_vars

-----------------------------------------------------------------------------
PhasesOf(p) == {p[i] : i \in DOMAIN p}

(***************************************************************************)
(* A plan with an approval phase implements only after the approval was    *)
(* granted, whatever pauses, refusals, changes of the inputs and deaths    *)
(* lie between the two.  (A resume with another plan breaks it: the        *)
(* position of the next phase is kept and the plan it was counted in is    *)
(* not.)                                                                   *)
(***************************************************************************)
ApprovalBeforeImplement ==
  (pc = "execute" /\ Current = "implement" /\ "approval" \in PhasesOf(plan) /\ ~strayed)
    => approved

(***************************************************************************)
(* The checkpoint file never claims more than Codex has completed, even    *)
(* when the plan changes.  With one plan it claims exactly the phases      *)
(* before the one it would go on with, so that none of them runs again,    *)
(* and a run that is completed, or whose outcome is recorded, has gone     *)
(* through the whole plan.                                                 *)
(***************************************************************************)
CheckpointIsHonest ==
  /\ file # None =>
       /\ file.completed \subseteq executed
       /\ ~strayed =>
            /\ file.completed = {planned[i] : i \in 1..(file.next - 1)}
            /\ file.status = "completed" => PhasesOf(planned) \subseteq executed
  /\ recorded /\ ~strayed => PhasesOf(planned) \subseteq executed
  /\ pc = "execute" /\ ~strayed => Current \notin checkpoint.completed

(***************************************************************************)
(* With hard routing a turn runs with the gateway, the thread and the      *)
(* saved exposure all made for its own phase, and reaches no tool of       *)
(* another one.                                                            *)
(***************************************************************************)
TurnHasItsExposure ==
  pc = "execute" /\ hard =>
    /\ allowlist = Current /\ thread = Current /\ file.exposure = Current
    /\ called \in {None, Current}
=============================================================================
