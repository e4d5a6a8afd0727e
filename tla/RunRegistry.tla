---------------------------- MODULE RunRegistry ----------------------------
(***************************************************************************)
(* Run records and the checkpoint spike: CheckpointSpike.start and resume  *)
(* (workflows/checkpoint_spike.py) over two databases that commit on their *)
(* own, the business database (RunRepository, CodexThreadRepository in     *)
(* persistence/repositories.py) and the file of LangGraph's checkpoints.   *)
(*                                                                         *)
(* Every process runs one command, checkpoint-start or checkpoint-resume,  *)
(* and may be killed anywhere.  A transition is a SELECT in autocommit and *)
(* an UPDATE in a transaction of its own (pysqlite opens one only before a *)
(* write), hence two steps that another process may come between.          *)
(***************************************************************************)
EXTENDS FiniteSets

CONSTANTS
  RunId,     \* Graph Run IDs the users give
  ThreadId,  \* Codex Thread IDs they give; may have values of RunId among them
  Digest,    \* repository and permission digests
  Process,
  None

ASSUME RunRegistryAssumption ==
  /\ IsFiniteSet(Process)
  /\ None \notin RunId \cup ThreadId \cup Digest \cup Process

VARIABLES
  runs,      \* rows of the runs table
  threads,   \* codex_threads: the thread of a run
  graph,     \* LangGraph's checkpoint under the thread_id of a run
  proc       \* the command every process runs; raised has the steps of it that failed

vars == <<runs, threads, graph, proc>>

RunStatus == {"pending", "running", "paused", "completed", "failed"}

AllowedTransitions ==
  [pending |-> {"running", "failed"}, running |-> {"paused", "completed", "failed"},
   paused |-> {"running", "failed"}, completed |-> {}, failed |-> {}]

Command == [op: {"start", "resume"}, run: RunId, thread: ThreadId \cup {None},
            repository: Digest, permission: Digest, checkpoints: BOOLEAN]
PC == {"idle", "create", "associate", "validate", "enter", "invoke", "leave",
       "rescue", "fail", "done"}
Row == [status: RunStatus, repository: Digest, permission: Digest, error: BOOLEAN]
Checkpoint == [stage: {"interrupted", "completed"}, thread: ThreadId,
               approved: SUBSET (Digest \X Digest)]

ASSUME NoneAssumption == None \notin Command /\ None \notin Row /\ None \notin Checkpoint

TypeOK ==
  /\ runs \in [RunId -> Row \cup {None}]
  /\ threads \in [RunId -> ThreadId \cup {None}]
  /\ graph \in [RunId -> Checkpoint \cup {None}]
  /\ proc \in [Process -> [pc: PC, cmd: Command \cup {None}, killed: BOOLEAN,
                           seen: RunStatus \cup {None}, raised: SUBSET PC]]

Init ==
  /\ runs = [r \in RunId |-> None]
  /\ threads = [r \in RunId |-> None]
  /\ graph = [r \in RunId |-> None]
  /\ proc = [p \in Process |-> [pc |-> "idle", cmd |-> None, killed |-> FALSE, seen |-> None,
                               raised |-> {}]]

-----------------------------------------------------------------------------
At(p, pc) == proc[p].pc = pc /\ ~proc[p].killed
Go(p, pc) == proc' = [proc EXCEPT ![p].pc = pc, ![p].seen = None]
Has(r)    == runs[r] # None

\* The order of the steps of a command.  (mutant) A start pauses before it invokes the graph.
AfterPauseFirst(cmd, pc) ==
  CASE pc = "create" -> "associate" [] pc = "associate" -> "enter" [] pc = "validate" -> "enter"
    [] pc = "enter" -> IF cmd.op = "start" THEN "leave" ELSE "invoke"
    [] pc = "invoke" -> IF cmd.op = "start" THEN "done" ELSE "leave"
    [] pc = "leave" -> IF cmd.op = "start" THEN "invoke" ELSE "done"
    [] OTHER -> "done"
After(cmd, pc) ==
  CASE pc = "create" -> "associate"
    [] pc \in {"associate", "validate"} -> "enter"
    [] pc = "enter" -> "invoke"
    [] pc = "invoke" -> "leave"
    [] OTHER -> "done"

\* Where an exception at a step leads.  (mutant) resume has no handler around the graph.
OnErrorUnhandled(cmd, pc) == "done"
OnError(cmd, pc) == IF cmd.op = "resume" /\ pc = "invoke" THEN "rescue" ELSE "done"

\* checkpoint-start and checkpoint-resume, with a checkpoint file that is that of the run or not.
Begin(p) ==
  /\ At(p, "idle")
  /\ \E cmd \in Command :
       /\ cmd.op = "start" <=> cmd.thread # None
       /\ cmd.op = "start" => cmd.checkpoints
       /\ proc' = [proc EXCEPT ![p].cmd = cmd,
                   ![p].pc = IF cmd.op = "resume" THEN "validate"
                             ELSE IF cmd.run = cmd.thread THEN "done" ELSE "create"]
  /\ UNCHANGED <<runs, threads, graph>>

\* RunRepository.create; the primary key refuses a second row.
Create(p) ==
  /\ At(p, "create")
  /\ LET cmd == proc[p].cmd IN
     IF Has(cmd.run) THEN Go(p, OnError(cmd, "create")) /\ UNCHANGED runs
     ELSE /\ runs' = [runs EXCEPT ![cmd.run] =
                       [status |-> "pending", repository |-> cmd.repository,
                        permission |-> cmd.permission, error |-> FALSE]]
          /\ Go(p, After(cmd, "create"))
  /\ UNCHANGED <<threads, graph>>

\* CodexThreadRepository.associate; both columns are unique.
Associate(p) ==
  /\ At(p, "associate")
  /\ LET cmd == proc[p].cmd IN
     IF threads[cmd.run] # None \/ \E r \in RunId : threads[r] = cmd.thread
     THEN Go(p, OnError(cmd, "associate")) /\ UNCHANGED threads
     ELSE /\ threads' = [threads EXCEPT ![cmd.run] = cmd.thread]
          /\ Go(p, After(cmd, "associate"))
  /\ UNCHANGED <<runs, graph>>

\* The checks of resume.
MayResume(cmd) ==
  /\ Has(cmd.run) /\ runs[cmd.run].status = "paused"
  /\ cmd.repository = runs[cmd.run].repository
  /\ cmd.permission = runs[cmd.run].permission
  /\ threads[cmd.run] # None

Validate(p) ==
  /\ At(p, "validate")
  /\ Go(p, IF MayResume(proc[p].cmd) THEN After(proc[p].cmd, "validate")
           ELSE OnError(proc[p].cmd, "validate"))
  /\ UNCHANGED <<runs, threads, graph>>

-----------------------------------------------------------------------------
(***************************************************************************)
(* RunRepository.transition: the status is read and looked up in the table *)
(* of the allowed transitions, then written over whatever is there by now. *)
(***************************************************************************)
Target(p) ==
  CASE proc[p].pc = "enter" -> "running"
    [] proc[p].pc = "leave" -> IF proc[p].cmd.op = "start" THEN "paused" ELSE "completed"
    [] proc[p].pc = "fail"  -> "failed"

InTransition(p) == proc[p].pc \in {"enter", "leave", "fail"} /\ ~proc[p].killed

CheckTransition(p) ==
  /\ InTransition(p) /\ proc[p].seen = None
  /\ LET status == runs[proc[p].cmd.run].status IN
     IF Target(p) \in AllowedTransitions[status]
     THEN proc' = [proc EXCEPT ![p].seen = status]
     ELSE Go(p, OnError(proc[p].cmd, proc[p].pc))
  /\ UNCHANGED <<runs, threads, graph>>

CommitTransition(p) ==
  /\ InTransition(p) /\ proc[p].seen # None
  /\ runs' = [runs EXCEPT ![proc[p].cmd.run].status = Target(p),
                          ![proc[p].cmd.run].error = @ \/ Target(p) = "failed"]
  /\ Go(p, After(proc[p].cmd, proc[p].pc))
  /\ UNCHANGED <<threads, graph>>

-----------------------------------------------------------------------------
\* graph.invoke of start: the approval node interrupts at once.
InvokeStart(p) ==
  /\ At(p, "invoke") /\ proc[p].cmd.op = "start"
  /\ graph' = [graph EXCEPT ![proc[p].cmd.run] =
                [stage |-> "interrupted", thread |-> proc[p].cmd.thread, approved |-> {}]]
  /\ Go(p, After(proc[p].cmd, "invoke"))
  /\ UNCHANGED <<runs, threads>>

\* graph.invoke of resume: the node ends, or had ended under another process.
InvokeResume(p) ==
  /\ At(p, "invoke") /\ proc[p].cmd.op = "resume" /\ proc[p].cmd.checkpoints
  /\ LET cmd == proc[p].cmd
         g == graph[cmd.run] IN
     /\ g # None /\ g.thread = threads[cmd.run]
     /\ graph' = IF g.stage = "completed" THEN graph
                 ELSE [graph EXCEPT ![cmd.run].stage = "completed",
                       ![cmd.run].approved = @ \cup {<<cmd.repository, cmd.permission>>}]
     /\ Go(p, After(cmd, "invoke"))
  /\ UNCHANGED <<runs, threads>>

\* A step fails and has no effect: a busy database, another checkpoint file, an interrupt by
\* the user.  Only the graph of resume has a handler, and it is no handler of its own errors.
Raises(p) ==
  /\ proc[p].pc \notin {"idle", "done"} /\ ~proc[p].killed
  /\ proc' = [proc EXCEPT ![p].pc = OnError(proc[p].cmd, proc[p].pc), ![p].seen = None,
                          ![p].raised = @ \cup {proc[p].pc}]
  /\ UNCHANGED <<runs, threads, graph>>

\* The graph of resume has ended, and the error comes before its handler is left.
RaisesAfterInvoke(p) ==
  /\ At(p, "leave") /\ proc[p].cmd.op = "resume" /\ proc[p].seen = None
  /\ Go(p, OnError(proc[p].cmd, "invoke"))
  /\ UNCHANGED <<runs, threads, graph>>

\* _fail_running: only a run that is still running is failed.
FailRunning(p) ==
  /\ At(p, "rescue")
  /\ Go(p, IF runs[proc[p].cmd.run].status = "running" THEN "fail" ELSE "done")
  /\ UNCHANGED <<runs, threads, graph>>

Kill(p) ==
  /\ proc[p].pc \notin {"idle", "done"} /\ ~proc[p].killed
  /\ proc' = [proc EXCEPT ![p].killed = TRUE]
  /\ UNCHANGED <<runs, threads, graph>>

Step(p) ==
  \/ Create(p) \/ Associate(p) \/ Validate(p) \/ CheckTransition(p) \/ CommitTransition(p)
  \/ InvokeStart(p) \/ InvokeResume(p) \/ FailRunning(p)
  \/ Raises(p) \/ RaisesAfterInvoke(p)

Next == \E p \in Process : Begin(p) \/ Step(p) \/ Kill(p)

Spec == Init /\ [][Next]_vars

-----------------------------------------------------------------------------
(***************************************************************************)
(* The record never promises more than the graph in the other database     *)
(* has, whatever was killed between the two commits and whoever won        *)
(* between several resumes: a paused run has its interrupted graph, under  *)
(* the Codex thread it is associated with; the graph of a completed run    *)
(* ended; and only resumes that showed the digests the run was paused with *)
(* ran its approval node (start and resume, checkpoint_spike.py:78-152).   *)
(***************************************************************************)
RecordMatchesGraph ==
  \A r \in RunId : Has(r) =>
    /\ runs[r].status = "paused" =>
         graph[r] # None /\ threads[r] # None /\ graph[r].thread = threads[r]
    /\ runs[r].status = "completed" => graph[r] # None /\ graph[r].stage = "completed"
    /\ graph[r] # None =>
         graph[r].approved \subseteq {<<runs[r].repository, runs[r].permission>>}

(***************************************************************************)
(* A running run has a process in the middle of it or one that died there, *)
(* or the error of one that nobody handles: of the graph of a start, of    *)
(* the last transition, or of _fail_running in the handler itself          *)
(* (checkpoint_spike.py:91, 102, 152, 168-170).  So a graph that fails in a*)
(* resume, and a race between several resumes, leave no run that nobody    *)
(* moves on and no further resume may take (135-151).                      *)
(***************************************************************************)
Busy == {"invoke", "leave", "rescue", "fail"}

Unhandled(p) ==
  \/ proc[p].raised \cap {"leave", "rescue", "fail"} # {}
  \/ proc[p].cmd.op = "start" /\ "invoke" \in proc[p].raised

Attends(p, r) ==
  /\ proc[p].cmd # None /\ proc[p].cmd.run = r
  /\ proc[p].pc \in Busy \/ Unhandled(p)

RunningIsAttended ==
  \A r \in RunId : Has(r) /\ runs[r].status = "running" =>
    \E p \in Process : Attends(p, r)
=============================================================================
