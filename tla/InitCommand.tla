---------------------------- MODULE InitCommand ----------------------------
(***************************************************************************)
(* The program "vibe init" (commands/init.py) over one --run-id: any       *)
(* number of invocations, one after the other or at the same time, each of *)
(* which opens the run, takes it through its stages with the methods of    *)
(* InitializationGraph, and may be killed or fail between any two of them. *)
(*                                                                         *)
(* A method is one step on the stored checkpoint: InitGraph shows that it  *)
(* is atomic.  Its losing case (CheckpointConflict), a refused transition, *)
(* an ApplyFailure, any other exception and a kill all end the invocation  *)
(* with the checkpoint as it stands; none of them calls fail() or retry(). *)
(* They are the action Exit.  The revision, which only serves the update,  *)
(* and the attempt, which nothing here changes, are left out of the row.   *)
(*                                                                         *)
(* A structured result is abstracted to the answers it was built from and  *)
(* the capability gaps its candidate_decisions preference decides.         *)
(***************************************************************************)
EXTENDS InitCheckpoint

CONSTANTS
  Process,        \* invocations running at a time
  Answers,        \* what an answers file or a conversation can settle
  Gap,            \* the capability gaps of the project
  Required,       \* those whose strength is REQUIRED
  Nil            \* no checkpoint, blueprint or answers file

ASSUME GapAssumption == Required \subseteq Gap
ASSUME StagesAssumption == StageCount = 9

Inventory == 2
Interview == 3
Model     == 4
Resolve   == 5
Recommend == 6
Review    == 7
Apply     == 8

Row       == [stage: Stage, status: Status, digest: Digest]
Blueprint == [answers: Answers, decided: SUBSET Gap]
Mode      == {"full", "model-only", "dry-run"}

ASSUME NilAssumption == Nil \notin Row /\ Nil \notin Blueprint

PC        == {"idle", "open", "cancel", "front", "modelled", "resolved",
              "discover", "decide", "gate", "apply", "verify", "complete"}

VARIABLES
  repository,  \* the digest of the repository now
  row,         \* the stored checkpoint
  stored,      \* its confirmed["structured_result"]
  pc,          \* where each invocation is: its next call
  seen,        \* the digest it computed when it began
  answers,     \* its --answers file
  mode,        \* --model-only, --dry-run or neither (from where it matters)
  stage,       \* its local checkpoint.stage
  structured,  \* its local structured result
  ready,       \* its review readiness
  applied,     \* history: the blueprints applied to the project, in order
  delivered,   \* history: the run applied, previewed or wrote its result
  overlap      \* history: two invocations have been at work at once

store   == <<row, stored>>
local   == <<seen, answers, mode, stage, structured, ready>>
history == <<applied, delivered, overlap>>
vars    == <<repository, store, pc, local, history>>

TypeOK ==
  /\ repository \in Digest
  /\ row \in Row \cup {Nil}
  /\ stored \in Blueprint \cup {Nil}
  /\ pc \in [Process -> PC]
  /\ seen \in [Process -> Digest]
  /\ answers \in [Process -> Answers \cup {Nil}]
  /\ mode \in [Process -> Mode]
  /\ stage \in [Process -> Stage]
  /\ structured \in [Process -> Blueprint \cup {Nil}]
  /\ ready \in [Process -> BOOLEAN]
  /\ applied \in [1..2 -> Blueprint \cup {Nil}]
  /\ delivered \in BOOLEAN /\ overlap \in BOOLEAN

Blank ==  \* the local variables of an invocation that is not running
  [digest |-> CHOOSE d \in Digest : TRUE, mode |-> "full", stage |-> First]

Init ==
  /\ repository \in Digest
  /\ row = Nil /\ stored = Nil
  /\ pc = [p \in Process |-> "idle"]
  /\ seen = [p \in Process |-> Blank.digest]
  /\ answers = [p \in Process |-> Nil]
  /\ mode = [p \in Process |-> Blank.mode]
  /\ stage = [p \in Process |-> Blank.stage]
  /\ structured = [p \in Process |-> Nil]
  /\ ready = [p \in Process |-> FALSE]
  /\ applied = [i \in 1..2 |-> Nil]
  /\ delivered = FALSE /\ overlap = FALSE

-----------------------------------------------------------------------------
Goto(p, next) == pc' = [pc EXCEPT ![p] = next]

(***************************************************************************)
(* The invocation returns or dies: its local variables are gone.           *)
(***************************************************************************)
Return(p) ==
  /\ Goto(p, "idle")
  /\ seen' = [seen EXCEPT ![p] = Blank.digest]
  /\ answers' = [answers EXCEPT ![p] = Nil]
  /\ mode' = [mode EXCEPT ![p] = Blank.mode]
  /\ stage' = [stage EXCEPT ![p] = Blank.stage]
  /\ structured' = [structured EXCEPT ![p] = Nil]
  /\ ready' = [ready EXCEPT ![p] = FALSE]
  /\ UNCHANGED repository

(***************************************************************************)
(* workflow.advance(run_id, s), and the local copy of what it returned.    *)
(***************************************************************************)
AdvanceTo(p, s) ==
  /\ row # Nil
  /\ MayAdvance(row, s)
  /\ row' = [row EXCEPT !.stage = s]
  /\ stage' = [stage EXCEPT ![p] = s]
  /\ UNCHANGED repository

PauseRun(p) ==
  /\ row # Nil
  /\ MayPause(row)
  /\ row' = [row EXCEPT !.status = "paused"]
  /\ Return(p)
  /\ UNCHANGED <<stored, history>>

-----------------------------------------------------------------------------
Invoke(p) ==
  /\ pc[p] = "idle"
  /\ Goto(p, "open")
  /\ seen' = [seen EXCEPT ![p] = repository]
  /\ \E a \in Answers \cup {Nil} : answers' = [answers EXCEPT ![p] = a]
  /\ overlap' = (overlap \/ \E q \in Process : pc[q] # "idle")
  /\ UNCHANGED <<repository, store, mode, stage, structured, ready,
                 applied, delivered>>

(***************************************************************************)
(* _open_run.  Without --resume it starts the run.  With it, it resumes a  *)
(* paused run, or joins one that is still running the interview; both only *)
(* while the repository has the digest the run began with.  (mutant) A run *)
(* that may be joined whatever its stage.                                  *)
(***************************************************************************)
MayJoinAnywhere(c, d) == c.status = "running" /\ d = c.digest
MayJoin(c, d) == c.status = "running" /\ c.stage = Interview /\ d = c.digest

Open(p) ==
  /\ pc[p] = "open"
  /\ \/ /\ row = Nil
        /\ row' = [stage |-> First, status |-> "running", digest |-> seen[p]]
     \/ /\ row # Nil
        /\ MayResume(row, seen[p])
        /\ row' = [row EXCEPT !.status = "running"]
     \/ /\ row # Nil
        /\ MayJoin(row, seen[p])
        /\ UNCHANGED row
  /\ stage' = [stage EXCEPT ![p] = row'.stage]
  /\ structured' = [structured EXCEPT ![p] = stored]
  /\ \E next \in {"cancel", "front"} : Goto(p, next)
  /\ UNCHANGED <<repository, stored, seen, answers, mode, ready, history>>

CancelRun(p) ==
  /\ pc[p] = "cancel"
  /\ MayCancel(row)
  /\ row' = [row EXCEPT !.status = "cancelled"]
  /\ Return(p)
  /\ UNCHANGED <<stored, history>>

(***************************************************************************)
(* INSPECT to INVENTORY to INTERVIEW.                                      *)
(***************************************************************************)
Inspect(p) ==
  /\ pc[p] = "front"
  /\ stage[p] < Interview
  /\ AdvanceTo(p, stage[p] + 1)
  /\ UNCHANGED <<stored, pc, seen, answers, mode, structured, ready, history>>

(***************************************************************************)
(* The interview ends, with the answers file or the conversation; or the   *)
(* user leaves the conversation and the run is paused.                     *)
(***************************************************************************)
FinishInterview(p) ==
  /\ pc[p] = "front"
  /\ stage[p] = Interview
  /\ \E a \in Answers :
       /\ answers[p] \in {a, Nil}
       /\ structured' = [structured EXCEPT ![p] = [answers |-> a, decided |-> {}]]
  /\ AdvanceTo(p, Model)
  /\ Goto(p, "modelled")
  /\ UNCHANGED <<stored, seen, answers, mode, ready, history>>

AbortInterview(p) ==
  /\ pc[p] = "front"
  /\ stage[p] = Interview
  /\ answers[p] = Nil
  /\ PauseRun(p)

(* (mutant) RESOLVE without its confirmed structured_result.               *)
NothingConfirmed(p) == stored
ConfirmedAtResolve(p) == structured[p]

StoreModel(p) ==
  /\ pc[p] = "modelled"
  /\ AdvanceTo(p, Resolve)
  /\ stored' = ConfirmedAtResolve(p)
  /\ Goto(p, "resolved")
  /\ UNCHANGED <<seen, answers, mode, structured, ready, history>>

EnterRecommend(p) ==
  /\ pc[p] = "resolved"
  /\ AdvanceTo(p, Recommend)
  /\ Goto(p, "discover")
  /\ UNCHANGED <<stored, seen, answers, mode, structured, ready, history>>

(***************************************************************************)
(* A resumed run past the interview works from the stored result; the      *)
(* assertion that there is one ends the invocation otherwise.              *)
(***************************************************************************)
SkipInterview(p) ==
  /\ pc[p] = "front"
  /\ stage[p] > Interview
  /\ structured[p] # Nil
  /\ Goto(p, "discover")
  /\ UNCHANGED <<repository, store, local, history>>

(***************************************************************************)
(* Discovery, and its reports stored with revise.  revise returns the row  *)
(* as it is now, so the invocation goes on from a stage that another one   *)
(* may have taken the run to.                                              *)
(***************************************************************************)
Discover(p) ==
  /\ pc[p] = "discover"
  /\ MayRevise(row)
  /\ stage' = [stage EXCEPT ![p] = row.stage]
  /\ Goto(p, "decide")
  /\ UNCHANGED <<repository, store, seen, answers, mode, structured, ready, history>>

(***************************************************************************)
(* The structured result an invocation reviews.  An answers file rebuilds  *)
(* it from nothing; the decisions given on this command line replace the   *)
(* whole candidate_decisions preference, those of earlier ones included.   *)
(***************************************************************************)
Reviewed(p, supplied) ==
  LET rebuilt == IF answers[p] # Nil /\ stage[p] \in {Recommend, Review}
                 THEN [answers |-> answers[p], decided |-> {}]
                 ELSE structured[p]
  IN  IF supplied # {} THEN [rebuilt EXCEPT !.decided = supplied] ELSE rebuilt

Changes(p, supplied) == answers[p] # Nil \/ supplied # {}

(***************************************************************************)
(* evaluate_review_readiness: every required gap and every gap that has    *)
(* candidates is decided.  (Discovery switched off and an unknown network  *)
(* policy can only make it false; they are the choice of FALSE.)           *)
(***************************************************************************)
Ready(candidates, decided) == Required \cup candidates \subseteq decided

Decide(p) ==
  /\ pc[p] = "decide"
  /\ \E supplied \in SUBSET Gap :
       LET reviewed == Reviewed(p, supplied) IN
       /\ Changes(p, supplied) => MayRevise(row)
       /\ stored' = IF Changes(p, supplied) THEN reviewed ELSE stored
       /\ stage' = IF Changes(p, supplied) THEN [stage EXCEPT ![p] = row.stage] ELSE stage
       /\ structured' = [structured EXCEPT ![p] = reviewed]
       /\ \E candidates \in SUBSET Gap :
            \E r \in {FALSE, Ready(candidates, reviewed.decided)} :
               ready' = [ready EXCEPT ![p] = r]
  /\ \E m \in Mode : mode' = [mode EXCEPT ![p] = m]
  /\ Goto(p, "gate")
  /\ UNCHANGED <<repository, row, seen, answers, history>>

(***************************************************************************)
(* The gates before the ChangeSet: readiness while the run is at RECOMMEND,*)
(* then the --confirm of this invocation.                                  *)
(***************************************************************************)
Passes(p) == ready[p] \/ mode[p] = "model-only"

PauseUnready(p) ==
  /\ pc[p] = "gate"
  /\ stage[p] = Recommend
  /\ ~Passes(p)
  /\ PauseRun(p)

EnterReview(p) ==
  /\ pc[p] = "gate"
  /\ stage[p] = Recommend
  /\ Passes(p)
  /\ AdvanceTo(p, Review)
  /\ UNCHANGED <<stored, pc, seen, answers, mode, structured, ready, history>>

PauseUnconfirmed(p) ==
  /\ pc[p] = "gate"
  /\ stage[p] = Review
  /\ PauseRun(p)

(***************************************************************************)
(* Confirmed: APPLY is stored first, then the ChangeSet is built.          *)
(***************************************************************************)
EnterApply(p) ==
  /\ pc[p] = "gate"
  /\ stage[p] = Review
  /\ AdvanceTo(p, Apply)
  /\ Goto(p, "apply")
  /\ UNCHANGED <<stored, seen, answers, mode, structured, ready,
                 applied, delivered, overlap>>

RecordApplied(b) ==
  IF applied[1] = Nil THEN [applied EXCEPT ![1] = b] ELSE [applied EXCEPT ![2] = b]

Deliver(p) ==
  /\ pc[p] = "apply"
  /\ applied' = IF mode[p] = "full" THEN RecordApplied(structured[p]) ELSE applied
  /\ delivered' = TRUE
  /\ Goto(p, "verify")
  /\ UNCHANGED <<repository, store, local, overlap>>

(***************************************************************************)
(* apply_changeset raised: the invocation ends.                            *)
(***************************************************************************)
AfterFailure(p) == Return(p)

FailToDeliver(p) ==
  /\ pc[p] = "apply"
  /\ AfterFailure(p)
  /\ UNCHANGED <<store, history>>

EnterVerify(p) ==
  /\ pc[p] = "verify"
  /\ AdvanceTo(p, Verify)
  /\ Goto(p, "complete")
  /\ UNCHANGED <<stored, seen, answers, mode, structured, ready, history>>

CompleteRun(p) ==
  /\ pc[p] = "complete"
  /\ MayComplete(row)
  /\ row' = [row EXCEPT !.status = "completed"]
  /\ Return(p)
  /\ UNCHANGED <<stored, history>>

(***************************************************************************)
(* Exit 2, an uncaught exception or a kill, wherever the invocation is.    *)
(***************************************************************************)
Exit(p) ==
  /\ pc[p] # "idle"
  /\ Return(p)
  /\ UNCHANGED <<store, history>>

EditRepository ==
  /\ \E d \in Digest : d # repository /\ repository' = d
  /\ UNCHANGED <<store, pc, local, history>>

Step(p) ==
  \/ Invoke(p) \/ Open(p) \/ CancelRun(p)
  \/ Inspect(p) \/ FinishInterview(p) \/ AbortInterview(p)
  \/ StoreModel(p) \/ EnterRecommend(p) \/ SkipInterview(p)
  \/ Discover(p) \/ Decide(p)
  \/ PauseUnready(p) \/ EnterReview(p) \/ PauseUnconfirmed(p)
  \/ EnterApply(p) \/ Deliver(p) \/ FailToDeliver(p)
  \/ EnterVerify(p) \/ CompleteRun(p) \/ Exit(p)

Next == EditRepository \/ \E p \in Process : Step(p)

Spec == Init /\ [][Next]_vars

-----------------------------------------------------------------------------
(***************************************************************************)
(* However many invocations share a run, its configuration is applied to   *)
(* the project at most once; and a completed run has delivered: an         *)
(* invocation whose ChangeSet failed, or that was killed, does not let the *)
(* run complete.                                                           *)
(***************************************************************************)
AppliedOnce ==
  /\ applied[2] = Nil
  /\ row # Nil => (row.status = "completed" => delivered)

(***************************************************************************)
(* Every invocation that works on the run inspected the repository in the  *)
(* version the run began with.                                             *)
(***************************************************************************)
OneRepositoryVersion ==
  \A p \in Process :
    pc[p] \notin {"idle", "open"} => seen[p] = row.digest

(***************************************************************************)
(* While invocations follow one another, what happens to the project is    *)
(* what the run says: cancelling a run leaves the project alone, and what  *)
(* is applied is the result that the checkpoint holds.  (Two invocations   *)
(* that overlap in the interview break both, and the next property: see    *)
(* the hazards in the README.)                                             *)
(***************************************************************************)
ProjectFollowsRun ==
  ~overlap =>
    /\ row # Nil => (row.status = "cancelled" => applied[1] = Nil /\ ~delivered)
    /\ applied[1] # Nil => applied[1] = stored

(***************************************************************************)
(* While invocations follow one another, a paused run is at a stage that   *)
(* an invocation can go on from, with the result that stage needs.         *)
(***************************************************************************)
PausedIsResumable ==
  ~overlap /\ row # Nil =>
    (row.status = "paused" =>
       /\ row.stage \in {Interview, Recommend, Review}
       /\ row.stage # Interview => stored # Nil)

(***************************************************************************)
(* An interrupted run can be taken up again: one that no invocation works  *)
(* on has ended, is paused, or can be joined.  (Violated.)                 *)
(***************************************************************************)
InterruptedIsResumable ==
  (row # Nil /\ \A p \in Process : pc[p] = "idle") =>
    \/ row.status # "running"
    \/ row.stage = Interview
=============================================================================
