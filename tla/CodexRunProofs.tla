--------------------------- MODULE CodexRunProofs ---------------------------
(***************************************************************************)
(* Proofs about RunRegistry and CodexClient, which have no state in common *)
(* but meet in the spike: for any runs, threads, digests and processes,    *)
(* and for any stream, turns, phases and pipe.                             *)
(*                                                                         *)
(* RunRegistry.  The primary key lets one start into a run; until that     *)
(* start pauses it the record is not "paused", and so no resume is let in: *)
(* whatever a start commits, it commits alone.  Resumes may overtake each  *)
(* other, but all of them showed the digests of the record, which never    *)
(* change, and each completes the run only after the graph has ended.      *)
(*                                                                         *)
(* CodexClient.  The stream and the pipe behind it are one queue, and what *)
(* matters of it is what it holds of the awaited turn: when the answer to  *)
(* turn/start is taken it holds the whole turn (Due), each event read is   *)
(* the next one of the turn (HoldsNext), and whatever else is written,     *)
(* moved or dropped leaves the rest of the turn in it (StillHolds); as a   *)
(* turn ends with its turn_completed, a turn that is returned is whole.    *)
(***************************************************************************)
EXTENDS RunRegistry, CodexClient, WellFoundedInduction, TLAPS

(***************************************************************************)
(* A start that has its row and a resume that was let in, dead or alive.   *)
(***************************************************************************)
Starting(p, r) ==
  /\ proc[p].pc \in {"associate", "enter", "invoke", "leave"}
  /\ proc[p].cmd.op = "start" /\ proc[p].cmd.run = r

Resuming(p, r) ==
  /\ proc[p].pc \in {"enter", "invoke", "leave", "rescue", "fail"}
  /\ proc[p].cmd.op = "resume" /\ proc[p].cmd.run = r

CommandsFit ==
  \A p \in Process :
    IF proc[p].pc = "idle" THEN proc[p].cmd = None
    ELSE /\ proc[p].cmd \in Command
         /\ proc[p].cmd.op = "start" => proc[p].cmd.thread \in ThreadId
         /\ proc[p].pc \in {"create", "associate"} => proc[p].cmd.op = "start"
         /\ proc[p].pc \in {"validate", "rescue", "fail"} => proc[p].cmd.op = "resume"

NothingBeforeCreate ==
  \A r \in RunId : ~Has(r) =>
    /\ graph[r] = None
    /\ \A p \in Process : ~Starting(p, r) /\ ~Resuming(p, r)

(***************************************************************************)
(* A run that is being started has nobody else in it, and has what the     *)
(* start has committed so far.                                             *)
(***************************************************************************)
StartIsAlone ==
  \A r \in RunId, p \in Process : Starting(p, r) =>
    /\ runs[r].status = IF proc[p].pc \in {"associate", "enter"} THEN "pending" ELSE "running"
    /\ \A q \in Process : ~Resuming(q, r) /\ (q # p => ~Starting(q, r))
    /\ proc[p].pc # "associate" => threads[r] = proc[p].cmd.thread
    /\ proc[p].pc = "leave" => graph[r] # None /\ graph[r].thread = threads[r]

ResumeIsEntitled ==
  \A r \in RunId, p \in Process : Resuming(p, r) =>
    /\ proc[p].cmd.repository = runs[r].repository
    /\ proc[p].cmd.permission = runs[r].permission
    /\ proc[p].pc = "leave" => graph[r] # None /\ graph[r].stage = "completed"

IInv ==
  /\ TypeOK
  /\ CommandsFit
  /\ NothingBeforeCreate
  /\ StartIsAlone
  /\ ResumeIsEntitled
  /\ RecordMatchesGraph
  /\ RunningIsAttended
-----------------------------------------------------------------------------
(***************************************************************************)
(* The order of the steps of a command, and where an error leads.          *)
(***************************************************************************)
LEMMA OrderFacts ==
  ASSUME NEW cmd
  PROVE  /\ After(cmd, "create") = "associate" /\ After(cmd, "associate") = "enter"
         /\ After(cmd, "validate") = "enter" /\ After(cmd, "enter") = "invoke"
         /\ After(cmd, "invoke") = "leave" /\ After(cmd, "leave") = "done"
         /\ After(cmd, "fail") = "done"
         /\ \A place \in PC \ {"invoke"} : OnError(cmd, place) = "done"
         /\ cmd.op = "resume" => OnError(cmd, "invoke") = "rescue"
<1>1. /\ After(cmd, "create") = "associate" /\ After(cmd, "associate") = "enter"
      /\ After(cmd, "validate") = "enter" /\ After(cmd, "enter") = "invoke"
  BY Zenon DEF After
<1>2. /\ After(cmd, "invoke") = "leave" /\ After(cmd, "leave") = "done"
      /\ After(cmd, "fail") = "done"
  BY Zenon DEF After
<1>3. \A place \in PC \ {"invoke"} : OnError(cmd, place) = "done"
  BY DEF OnError
<1>4. cmd.op = "resume" => OnError(cmd, "invoke") = "rescue"
  BY DEF OnError
<1> QED BY <1>1, <1>2, <1>3, <1>4

(***************************************************************************)
(* What a transition aims at, and what it may start from.                  *)
(***************************************************************************)
LEMMA TargetFacts ==
  ASSUME NEW p \in Process
  PROVE  /\ proc[p].pc = "enter" => Target(p) = "running"
         /\ proc[p].pc = "leave" /\ proc[p].cmd.op = "start" => Target(p) = "paused"
         /\ proc[p].pc = "leave" /\ proc[p].cmd.op # "start" => Target(p) = "completed"
         /\ proc[p].pc = "fail" => Target(p) = "failed"
         /\ {"paused", "completed", "failed"} \subseteq AllowedTransitions["running"]
<1>1. proc[p].pc = "enter" => Target(p) = "running"
  BY Zenon DEF Target
<1>2. proc[p].pc = "leave" /\ proc[p].cmd.op = "start" => Target(p) = "paused"
  BY Zenon DEF Target
<1>3. proc[p].pc = "leave" /\ proc[p].cmd.op # "start" => Target(p) = "completed"
  BY Zenon DEF Target
<1>4. proc[p].pc = "fail" => Target(p) = "failed"
  BY Zenon DEF Target
<1>5. AllowedTransitions["running"] = {"paused", "completed", "failed"}
  BY DEF AllowedTransitions
<1> QED BY <1>1, <1>2, <1>3, <1>4, <1>5

(***************************************************************************)
(* Going to the next step changes nothing else of a process.               *)
(***************************************************************************)
LEMMA GoFacts ==
  ASSUME IInv, NEW p \in Process, NEW x \in PC, Go(p, x)
  PROVE  /\ proc' \in [Process -> [pc: PC, cmd: Command \cup {None}, killed: BOOLEAN,
                                   seen: RunStatus \cup {None}, raised: SUBSET PC]]
         /\ proc'[p].pc = x /\ proc'[p].cmd = proc[p].cmd /\ proc'[p].raised = proc[p].raised
         /\ \A q \in Process : q # p => proc'[q] = proc[q]
BY DEF IInv, TypeOK, Go

\* A process that attends to a run goes on doing so until it leaves the middle of it.
LEMMA KeepsAttending ==
  ASSUME NEW q \in Process, NEW r \in RunId, Attends(q, r), proc'[q].cmd = proc[q].cmd,
         proc[q].raised \subseteq proc'[q].raised,
         proc[q].pc \in Busy => proc'[q].pc \in Busy
  PROVE  Attends(q, r)'
BY DEF Attends, Unhandled

-----------------------------------------------------------------------------
\* The invariant holds at the start.
LEMMA InitEstablishes == Init => IInv
<1> SUFFICES ASSUME Init PROVE IInv
  OBVIOUS
<1>1. TypeOK
  BY DEF Init, TypeOK, PC
<1>2. \A p \in Process : proc[p].pc = "idle"
  BY DEF Init
<1>3. \A r \in RunId : ~Has(r)
  BY DEF Init, Has
<1> QED
  BY <1>1, <1>2, <1>3 DEF Init, IInv, CommandsFit, NothingBeforeCreate, StartIsAlone,
     ResumeIsEntitled, RecordMatchesGraph, RunningIsAttended, Starting, Resuming

\* Every step preserves it: a command begins.
LEMMA BeginPreserves ==
  ASSUME IInv, NEW p \in Process, Begin(p)
  PROVE  IInv'
<1>1. PICK cmd \in Command :
        /\ cmd.op = "start" <=> cmd.thread # None
        /\ proc' = [proc EXCEPT ![p].cmd = cmd,
                    ![p].pc = IF cmd.op = "resume" THEN "validate"
                              ELSE IF cmd.run = cmd.thread THEN "done" ELSE "create"]
  BY DEF Begin
<1>2. UNCHANGED <<runs, threads, graph>> /\ proc[p].pc = "idle"
  BY DEF Begin, At
<1>3. /\ proc' \in [Process -> [pc: PC, cmd: Command \cup {None}, killed: BOOLEAN,
                                seen: RunStatus \cup {None}, raised: SUBSET PC]]
      /\ proc'[p].cmd = cmd
      /\ proc'[p].pc = IF cmd.op = "resume" THEN "validate"
                       ELSE IF cmd.run = cmd.thread THEN "done" ELSE "create"
      /\ \A q \in Process : q # p => proc'[q] = proc[q]
  <2> DEFINE x == IF cmd.op = "resume" THEN "validate"
                  ELSE IF cmd.run = cmd.thread THEN "done" ELSE "create"
  <2>1. x \in PC
    BY DEF PC
  <2>2. proc' = [proc EXCEPT ![p].cmd = cmd, ![p].pc = x]
    BY <1>1
  <2> HIDE DEF x
  <2>3. /\ proc' \in [Process -> [pc: PC, cmd: Command \cup {None}, killed: BOOLEAN,
                                  seen: RunStatus \cup {None}, raised: SUBSET PC]]
        /\ proc'[p].cmd = cmd /\ proc'[p].pc = x
        /\ \A q \in Process : q # p => proc'[q] = proc[q]
    BY <2>1, <2>2 DEF IInv, TypeOK
  <2> QED BY <2>3 DEF x
<1>4. TypeOK'
  BY <1>2, <1>3 DEF IInv, TypeOK
<1>5. cmd.op = "start" => cmd.thread \in ThreadId
  BY <1>1 DEF Command
<1>6. CommandsFit'
  BY <1>3, <1>5 DEF IInv, CommandsFit, Command
<1>7. \A r \in RunId : ~Starting(p, r)' /\ ~Resuming(p, r)' /\ (Has(r)' <=> Has(r))
  BY <1>2, <1>3 DEF Starting, Resuming, Has
<1>8. \A r \in RunId, q \in Process :
        q # p => /\ Starting(q, r)' <=> Starting(q, r)
                 /\ Resuming(q, r)' <=> Resuming(q, r)
  BY <1>3 DEF Starting, Resuming
<1>9. NothingBeforeCreate' /\ StartIsAlone' /\ ResumeIsEntitled'
  BY <1>2, <1>3, <1>7, <1>8 DEF IInv, NothingBeforeCreate, StartIsAlone, ResumeIsEntitled
<1>10. RecordMatchesGraph'
  BY <1>2 DEF IInv, RecordMatchesGraph, Has
<1>11. RunningIsAttended'
  <2> SUFFICES ASSUME NEW r \in RunId, Has(r)', runs'[r].status = "running"
               PROVE  \E q \in Process : Attends(q, r)'
    BY DEF RunningIsAttended
  <2>1. PICK q \in Process : Attends(q, r)
    BY <1>2 DEF IInv, RunningIsAttended, Has
  <2>2. q # p
    BY <1>2, <2>1 DEF IInv, CommandsFit, Attends
  <2> QED BY <1>3, <2>1, <2>2 DEF Attends, Unhandled
<1> QED BY <1>4, <1>6, <1>9, <1>10, <1>11 DEF IInv

(***************************************************************************)
(* Steps that change no database: a process stays where it is, ends without*)
(* being what a running run waits for, is let in, or goes down the error   *)
(* path of a resume.                                                       *)
(***************************************************************************)
Ends(p)    == /\ proc'[p].pc = "done"
              /\ proc[p].pc \in Busy =>
                   runs[proc[p].cmd.run].status # "running" \/ Unhandled(p)'
LetIn(p)   == /\ proc[p].pc = "validate" /\ proc'[p].pc = "enter"
              /\ MayResume(proc[p].cmd)
Rescues(p) == /\ proc[p].cmd.op = "resume"
              /\ <<proc[p].pc, proc'[p].pc>> \in {<<"invoke", "rescue">>, <<"leave", "rescue">>, <<"rescue", "fail">>}

LEMMA MovePreserves ==
  ASSUME IInv, NEW p \in Process, UNCHANGED <<runs, threads, graph>>,
         proc' \in [Process -> [pc: PC, cmd: Command \cup {None}, killed: BOOLEAN,
                                seen: RunStatus \cup {None}, raised: SUBSET PC]],
         proc[p].pc # "idle", proc'[p].cmd = proc[p].cmd, proc[p].raised \subseteq proc'[p].raised,
         \A q \in Process : q # p => proc'[q] = proc[q],
         proc'[p].pc = proc[p].pc \/ Ends(p) \/ LetIn(p) \/ Rescues(p)
  PROVE  IInv'
<1>1. TypeOK'
  BY DEF IInv, TypeOK
<1>2. CommandsFit'
  BY DEF IInv, CommandsFit, Ends, LetIn, Rescues
<1>3. proc[p].cmd \in Command /\ proc[p].cmd.run \in RunId
  BY DEF IInv, CommandsFit, Command
<1>4. \A r \in RunId : Has(r)' <=> Has(r)
  BY DEF Has
<1>5. \A r \in RunId, q \in Process :
        /\ Starting(q, r)' => Starting(q, r)
        /\ Resuming(q, r)' =>
             \/ Resuming(q, r)
             \/ q = p /\ proc'[p].pc = "enter" /\ proc[p].cmd.run = r /\ MayResume(proc[p].cmd)
  BY DEF IInv, CommandsFit, Starting, Resuming, Ends, LetIn, Rescues
<1>6. \A r \in RunId, q \in Process :
        /\ Starting(q, r)' => proc'[q].pc = proc[q].pc /\ proc'[q].cmd = proc[q].cmd
        /\ proc'[q].pc = "leave" => proc[q].pc = "leave"
        /\ proc'[q].cmd = proc[q].cmd
  BY DEF IInv, CommandsFit, Starting, Ends, LetIn, Rescues
<1>7. MayResume(proc[p].cmd) =>
        /\ Has(proc[p].cmd.run)
        /\ runs[proc[p].cmd.run].status = "paused"
        /\ \A q \in Process : ~Starting(q, proc[p].cmd.run)
  BY <1>3 DEF IInv, StartIsAlone, MayResume
<1>8. NothingBeforeCreate'
  BY <1>4, <1>5, <1>7 DEF IInv, NothingBeforeCreate
<1>9. StartIsAlone'
  BY <1>5, <1>6, <1>7 DEF IInv, StartIsAlone
<1>10. ResumeIsEntitled'
  BY <1>5, <1>6 DEF IInv, ResumeIsEntitled, MayResume
<1>11. RecordMatchesGraph'
  BY <1>4 DEF IInv, RecordMatchesGraph
<1>12. RunningIsAttended'
  <2> SUFFICES ASSUME NEW r \in RunId, Has(r)', runs'[r].status = "running"
               PROVE  \E q \in Process : Attends(q, r)'
    BY DEF RunningIsAttended
  <2>1. PICK q \in Process : Attends(q, r)
    BY <1>4 DEF IInv, RunningIsAttended
  <2>2. CASE Unhandled(q)
    BY <1>6, <2>1, <2>2 DEF Attends, Unhandled
  <2>3. CASE proc[q].pc \in Busy
    <3>1. proc'[q].pc \in Busy \/ Unhandled(q)'
      BY <2>1, <2>3 DEF Attends, Ends, LetIn, Rescues, Busy
    <3> QED BY <1>6, <2>1, <3>1 DEF Attends
  <2> QED BY <2>1, <2>2, <2>3 DEF Attends
<1> QED BY <1>1, <1>2, <1>8, <1>9, <1>10, <1>11, <1>12 DEF IInv

\* A check of resume, of a transition or of the error path; an exception; a kill.
LEMMA ChecksPreserve ==
  ASSUME IInv, NEW p \in Process,
         \/ Validate(p) \/ CheckTransition(p) \/ FailRunning(p) \/ Kill(p)
         \/ Raises(p) \/ RaisesAfterInvoke(p)
  PROVE  IInv'
<1>1. UNCHANGED <<runs, threads, graph>>
  BY DEF Validate, CheckTransition, FailRunning, Kill, Raises, RaisesAfterInvoke
<1>2. ASSUME NEW x \in PC, Go(p, x), proc[p].pc # "idle", Ends(p) \/ LetIn(p) \/ Rescues(p)
      PROVE  IInv'
  BY <1>1, <1>2, GoFacts, MovePreserves
<1>3. CASE Validate(p)
  <2>1. proc[p].pc = "validate"
    BY <1>3 DEF Validate, At
  <2>2. CASE MayResume(proc[p].cmd)
    <3>1. Go(p, "enter")
      BY <1>3, <2>2, OrderFacts DEF Validate
    <3>2. proc'[p].pc = "enter"
      BY <3>1, GoFacts DEF PC
    <3> QED BY <1>2, <2>1, <2>2, <3>1, <3>2 DEF LetIn, PC
  <2>3. CASE ~MayResume(proc[p].cmd)
    <3>1. Go(p, "done")
      BY <1>3, <2>3, OrderFacts DEF Validate, PC
    <3>2. proc'[p].pc = "done"
      BY <3>1, GoFacts DEF PC
    <3> QED BY <1>2, <2>1, <3>1, <3>2 DEF Ends, Busy, PC
  <2> QED BY <2>2, <2>3
<1>4. CASE CheckTransition(p)
  <2>1. proc[p].pc \in {"enter", "leave", "fail"}
    BY <1>4 DEF CheckTransition, InTransition
  <2>2. proc[p].cmd \in Command /\ proc[p].cmd.run \in RunId
    BY <2>1 DEF IInv, CommandsFit, Command
  <2>3. CASE Target(p) \in AllowedTransitions[runs[proc[p].cmd.run].status]
    <3>1. Has(proc[p].cmd.run)
      BY <2>1, <2>2 DEF IInv, NothingBeforeCreate, Starting, Resuming, CommandsFit, Command
    <3>2. runs[proc[p].cmd.run].status \in RunStatus
      BY <2>2, <3>1 DEF IInv, TypeOK, Has, Row
    <3>3. proc' = [proc EXCEPT ![p].seen = runs[proc[p].cmd.run].status]
      BY <1>4, <2>3 DEF CheckTransition
    <3>4. /\ proc' \in [Process -> [pc: PC, cmd: Command \cup {None}, killed: BOOLEAN,
                                    seen: RunStatus \cup {None}, raised: SUBSET PC]]
          /\ proc'[p].raised = proc[p].raised /\ proc'[p].pc = proc[p].pc /\ proc'[p].cmd = proc[p].cmd
          /\ \A q \in Process : q # p => proc'[q] = proc[q]
      BY <3>2, <3>3 DEF IInv, TypeOK
    <3> QED BY <1>1, <2>1, <3>4, MovePreserves
  <2>4. CASE Target(p) \notin AllowedTransitions[runs[proc[p].cmd.run].status]
    <3>1. Go(p, "done")
      BY <1>4, <2>1, <2>4, OrderFacts DEF CheckTransition, PC
    <3>2. proc'[p].pc = "done"
      BY <3>1, GoFacts DEF PC
    <3>3. proc[p].pc \in {"leave", "fail"} => runs[proc[p].cmd.run].status # "running"
      BY <2>4, TargetFacts
    <3> QED BY <1>2, <2>1, <3>1, <3>2, <3>3 DEF Ends, Busy, PC
  <2> QED BY <2>3, <2>4
<1>5. ASSUME proc' = [proc EXCEPT ![p].killed = TRUE], proc[p].pc # "idle" PROVE IInv'
  <2>1. /\ proc' \in [Process -> [pc: PC, cmd: Command \cup {None}, killed: BOOLEAN,
                                  seen: RunStatus \cup {None}, raised: SUBSET PC]]
        /\ proc'[p].raised = proc[p].raised /\ proc'[p].pc = proc[p].pc /\ proc'[p].cmd = proc[p].cmd
        /\ \A q \in Process : q # p => proc'[q] = proc[q]
    BY <1>5 DEF IInv, TypeOK
  <2> QED BY <1>1, <1>5, <2>1, MovePreserves
<1>6. CASE Raises(p)
  <2>1. proc[p].pc \notin {"idle", "done"} /\ proc[p].pc \in PC
    BY <1>6 DEF IInv, TypeOK, Raises
  <2> DEFINE x == OnError(proc[p].cmd, proc[p].pc)
             failed == proc[p].raised \cup {proc[p].pc}
  <2>2. x \in PC /\ x = IF proc[p].cmd.op = "resume" /\ proc[p].pc = "invoke" THEN "rescue" ELSE "done"
    BY DEF OnError, PC
  <2>3. proc' = [proc EXCEPT ![p].pc = x, ![p].seen = None, ![p].raised = failed]
    BY <1>6 DEF Raises
  <2>7. failed \in SUBSET PC
    BY <2>1 DEF IInv, TypeOK
  <2> HIDE DEF x, failed
  <2>4. /\ proc' \in [Process -> [pc: PC, cmd: Command \cup {None}, killed: BOOLEAN,
                                  seen: RunStatus \cup {None}, raised: SUBSET PC]]
        /\ proc'[p].pc = x /\ proc'[p].cmd = proc[p].cmd
        /\ proc'[p].raised = failed
        /\ \A q \in Process : q # p => proc'[q] = proc[q]
    <3> DEFINE y == [proc[p] EXCEPT !.pc = x, !.seen = None, !.raised = failed]
               S == [pc: PC, cmd: Command \cup {None}, killed: BOOLEAN,
                     seen: RunStatus \cup {None}, raised: SUBSET PC]
    <3>1. proc \in [Process -> S]
      BY DEF IInv, TypeOK
    <3>2. y \in S /\ y.pc = x /\ y.cmd = proc[p].cmd /\ y.raised = failed
      BY <2>2, <2>7, <3>1
    <3>3. proc' = [proc EXCEPT ![p] = y]
      BY <2>3
    <3> HIDE DEF y, S
    <3>4. proc' \in [Process -> S] /\ proc'[p] = y /\ \A q \in Process : q # p => proc'[q] = proc[q]
      BY <3>1, <3>2, <3>3
    <3> QED BY <3>2, <3>4 DEF S
  <2>5. CASE x = "rescue"
    <3>1. Rescues(p) /\ proc[p].raised \subseteq failed
      BY <2>2, <2>4, <2>5 DEF Rescues, failed
    <3> QED BY <1>1, <2>1, <2>4, <3>1, MovePreserves
  <2>6. CASE x = "done"
    <3>1. proc[p].cmd.op = "start" \/ proc[p].cmd.op = "resume"
      BY <2>1 DEF IInv, CommandsFit, Command
    <3>2. proc[p].pc \in Busy => Unhandled(p)'
      BY <2>2, <2>4, <2>6, <3>1 DEF Unhandled, Busy, failed
    <3>3. Ends(p)
      BY <2>4, <2>6, <3>2 DEF Ends
    <3> QED BY <1>1, <2>1, <2>4, <3>3, MovePreserves DEF failed
  <2> QED BY <2>2, <2>5, <2>6
<1>9. CASE RaisesAfterInvoke(p)
  <2>1. proc[p].pc = "leave" /\ proc[p].cmd.op = "resume" /\ Go(p, "rescue")
    BY <1>9, OrderFacts DEF RaisesAfterInvoke, At
  <2>2. proc'[p].pc = "rescue"
    BY <2>1, GoFacts DEF PC
  <2> QED BY <1>2, <2>1, <2>2 DEF Rescues, PC
<1>7. CASE FailRunning(p)
  <2>1. proc[p].pc = "rescue" /\ proc[p].cmd.op = "resume"
    BY <1>7 DEF IInv, CommandsFit, FailRunning, At
  <2>2. CASE runs[proc[p].cmd.run].status = "running"
    <3>1. Go(p, "fail")
      BY <1>7, <2>2 DEF FailRunning
    <3>2. proc'[p].pc = "fail"
      BY <3>1, GoFacts DEF PC
    <3> QED BY <1>2, <2>1, <3>1, <3>2 DEF Rescues, PC
  <2>3. CASE runs[proc[p].cmd.run].status # "running"
    <3>1. Go(p, "done")
      BY <1>7, <2>3 DEF FailRunning
    <3>2. proc'[p].pc = "done"
      BY <3>1, GoFacts DEF PC
    <3> QED BY <1>2, <2>1, <2>3, <3>1, <3>2 DEF Ends, PC
  <2> QED BY <2>2, <2>3
<1>8. CASE Kill(p)
  BY <1>5, <1>8 DEF Kill
<1> QED BY <1>3, <1>4, <1>6, <1>7, <1>8, <1>9

\* The row of a run: from here on no other start gets in.
LEMMA CreatePreserves ==
  ASSUME IInv, NEW p \in Process, Create(p)
  PROVE  IInv'
<1> DEFINE cmd == proc[p].cmd
<1>1. /\ proc[p].pc = "create" /\ cmd \in Command /\ cmd.op = "start"
      /\ cmd.thread \in ThreadId /\ cmd.run \in RunId
      /\ cmd.repository \in Digest /\ cmd.permission \in Digest
      /\ UNCHANGED <<threads, graph>>
  BY DEF IInv, CommandsFit, Create, At, Command
<1>2. CASE Has(cmd.run)
  <2>1. Go(p, "done") /\ UNCHANGED <<runs, threads, graph>>
    BY <1>1, <1>2, OrderFacts DEF Create, PC
  <2>2. Ends(p)
    BY <1>1, <2>1, GoFacts DEF Ends, Busy, PC
  <2> QED BY <1>1, <2>1, <2>2, GoFacts, MovePreserves DEF PC
<1>3. CASE ~Has(cmd.run)
  <2>1. /\ Go(p, "associate")
        /\ runs' = [runs EXCEPT ![cmd.run] =
                     [status |-> "pending", repository |-> cmd.repository,
                      permission |-> cmd.permission, error |-> FALSE]]
    BY <1>1, <1>3, OrderFacts DEF Create
  <2>2. /\ proc' \in [Process -> [pc: PC, cmd: Command \cup {None}, killed: BOOLEAN,
                                  seen: RunStatus \cup {None}, raised: SUBSET PC]]
        /\ proc'[p].pc = "associate" /\ proc'[p].cmd = cmd /\ proc'[p].raised = proc[p].raised
        /\ \A q \in Process : q # p => proc'[q] = proc[q]
    BY <2>1, GoFacts DEF PC
  <2>3. /\ runs' \in [RunId -> Row \cup {None}]
        /\ runs'[cmd.run] \in Row /\ runs'[cmd.run].status = "pending"
        /\ runs'[cmd.run] # None
        /\ \A r \in RunId : r # cmd.run => runs'[r] = runs[r]
    <3>1. [status |-> "pending", repository |-> cmd.repository,
           permission |-> cmd.permission, error |-> FALSE] \in Row
      BY <1>1 DEF Row, RunStatus
    <3>2. runs \in [RunId -> Row \cup {None}]
      BY DEF IInv, TypeOK
    <3> QED BY <1>1, <2>1, <3>1, <3>2, NoneAssumption
  <2> HIDE DEF cmd
  <2>4. TypeOK' /\ CommandsFit'
    BY <1>1, <2>2, <2>3 DEF IInv, TypeOK, CommandsFit
  <2>5. \A q \in Process : ~Starting(q, cmd.run) /\ ~Resuming(q, cmd.run)
    BY <1>1, <1>3 DEF IInv, NothingBeforeCreate
  <2>6. \A r \in RunId, q \in Process :
          /\ Starting(q, r)' => Starting(q, r) \/ (q = p /\ r = cmd.run)
          /\ Resuming(q, r)' => Resuming(q, r)
          /\ q # p \/ r # cmd.run => (Starting(q, r)' <=> Starting(q, r))
    BY <1>1, <2>2 DEF Starting, Resuming, cmd
  <2>7. NothingBeforeCreate'
    BY <1>1, <2>3, <2>6 DEF IInv, NothingBeforeCreate, Has
  <2>8. StartIsAlone'
    <3> SUFFICES ASSUME NEW r \in RunId, NEW q \in Process, Starting(q, r)'
                 PROVE  /\ runs'[r].status = IF proc'[q].pc \in {"associate", "enter"}
                                             THEN "pending" ELSE "running"
                        /\ \A x \in Process : ~Resuming(x, r)' /\ (x # q => ~Starting(x, r)')
                        /\ proc'[q].pc # "associate" => threads'[r] = proc'[q].cmd.thread
                        /\ proc'[q].pc = "leave" =>
                             graph'[r] # None /\ graph'[r].thread = threads'[r]
      BY DEF StartIsAlone
    <3>1. CASE r = cmd.run
      <4>1. q = p
        BY <2>5, <2>6, <3>1
      <4> QED BY <2>2, <2>3, <2>5, <2>6, <3>1, <4>1
    <3>2. CASE r # cmd.run
      <4>1. q # p /\ Starting(q, r)
        BY <2>2, <2>6, <3>2 DEF Starting
      <4> QED BY <1>1, <2>2, <2>3, <2>6, <3>2, <4>1 DEF IInv, StartIsAlone
    <3> QED BY <3>1, <3>2
  <2>9. ResumeIsEntitled'
    <3> SUFFICES ASSUME NEW r \in RunId, NEW q \in Process, Resuming(q, r)'
                 PROVE  /\ proc'[q].cmd.repository = runs'[r].repository
                        /\ proc'[q].cmd.permission = runs'[r].permission
                        /\ proc'[q].pc = "leave" =>
                             graph'[r] # None /\ graph'[r].stage = "completed"
      BY DEF ResumeIsEntitled
    <3>1. Resuming(q, r) /\ r # cmd.run /\ q # p
      BY <1>1, <2>2, <2>5, <2>6 DEF Resuming
    <3> QED BY <1>1, <2>2, <2>3, <3>1 DEF IInv, ResumeIsEntitled
  <2>10. RecordMatchesGraph'
    BY <1>1, <1>3, <2>3 DEF IInv, RecordMatchesGraph, NothingBeforeCreate, Has
  <2>11. RunningIsAttended'
    <3> SUFFICES ASSUME NEW r \in RunId, Has(r)', runs'[r].status = "running"
                 PROVE  \E q \in Process : Attends(q, r)'
      BY DEF RunningIsAttended
    <3>1. PICK q \in Process : Attends(q, r)
      BY <2>3 DEF IInv, RunningIsAttended, Has
    <3>2. /\ proc'[q].cmd = proc[q].cmd /\ proc[q].raised \subseteq proc'[q].raised
          /\ proc[q].pc \in Busy => proc'[q].pc \in Busy
      BY <1>1, <2>2 DEF Busy, cmd
    <3> QED BY <3>1, <3>2, KeepsAttending
  <2> QED BY <2>4, <2>7, <2>8, <2>9, <2>10, <2>11 DEF IInv
<1> QED BY <1>2, <1>3

\* The Codex thread of a run that is being started.
LEMMA AssociatePreserves ==
  ASSUME IInv, NEW p \in Process, Associate(p)
  PROVE  IInv'
<1> DEFINE cmd == proc[p].cmd
<1>1. /\ proc[p].pc = "associate" /\ cmd \in Command /\ cmd.op = "start"
      /\ cmd.thread \in ThreadId /\ cmd.run \in RunId
      /\ UNCHANGED <<runs, graph>>
  BY DEF IInv, CommandsFit, Associate, At, Command
<1>2. CASE threads[cmd.run] # None \/ \E r \in RunId : threads[r] = cmd.thread
  <2>1. Go(p, "done") /\ UNCHANGED <<runs, threads, graph>>
    BY <1>1, <1>2, OrderFacts DEF Associate, PC
  <2>2. Ends(p)
    BY <1>1, <2>1, GoFacts DEF Ends, Busy, PC
  <2> QED BY <1>1, <2>1, <2>2, GoFacts, MovePreserves DEF PC
<1>3. CASE ~(threads[cmd.run] # None \/ \E r \in RunId : threads[r] = cmd.thread)
  <2>1. /\ Go(p, "enter")
        /\ threads' = [threads EXCEPT ![cmd.run] = cmd.thread]
    BY <1>1, <1>3, OrderFacts DEF Associate
  <2>2. /\ proc' \in [Process -> [pc: PC, cmd: Command \cup {None}, killed: BOOLEAN,
                                  seen: RunStatus \cup {None}, raised: SUBSET PC]]
        /\ proc'[p].pc = "enter" /\ proc'[p].cmd = cmd /\ proc'[p].raised = proc[p].raised
        /\ \A q \in Process : q # p => proc'[q] = proc[q]
    BY <2>1, GoFacts DEF PC
  <2>3. /\ threads' \in [RunId -> ThreadId \cup {None}]
        /\ threads'[cmd.run] = cmd.thread
        /\ \A r \in RunId : r # cmd.run => threads'[r] = threads[r]
        /\ \A r \in RunId : threads[r] # None => threads'[r] = threads[r]
    BY <1>1, <1>3, <2>1 DEF IInv, TypeOK
  <2>4. Starting(p, cmd.run) /\ ~Resuming(p, cmd.run)
    BY <1>1 DEF Starting, Resuming
  <2> HIDE DEF cmd
  <2>5. TypeOK' /\ CommandsFit'
    BY <1>1, <2>2, <2>3 DEF IInv, TypeOK, CommandsFit
  <2>6. \A r \in RunId, q \in Process :
          /\ Starting(q, r)' <=> Starting(q, r)
          /\ Resuming(q, r)' <=> Resuming(q, r)
          /\ Has(r)' <=> Has(r)
    BY <1>1, <2>2 DEF Starting, Resuming, Has, cmd
  <2>7. NothingBeforeCreate'
    BY <1>1, <2>6 DEF IInv, NothingBeforeCreate
  <2>8. StartIsAlone'
    <3> SUFFICES ASSUME NEW r \in RunId, NEW q \in Process, Starting(q, r)
                 PROVE  /\ runs'[r].status = IF proc'[q].pc \in {"associate", "enter"}
                                             THEN "pending" ELSE "running"
                        /\ \A x \in Process : ~Resuming(x, r) /\ (x # q => ~Starting(x, r))
                        /\ proc'[q].pc # "associate" => threads'[r] = proc'[q].cmd.thread
                        /\ proc'[q].pc = "leave" =>
                             graph'[r] # None /\ graph'[r].thread = threads'[r]
      BY <2>6 DEF StartIsAlone
    <3>1. /\ runs[r].status = IF proc[q].pc \in {"associate", "enter"}
                            THEN "pending" ELSE "running"
          /\ \A x \in Process : ~Resuming(x, r) /\ (x # q => ~Starting(x, r))
          /\ proc[q].pc # "associate" => threads[r] = proc[q].cmd.thread
          /\ proc[q].pc = "leave" => graph[r] # None /\ graph[r].thread = threads[r]
      BY DEF IInv, StartIsAlone
    <3>2. CASE q = p
      <4>1. r = cmd.run
        BY <3>2 DEF Starting, cmd
      <4> QED BY <1>1, <2>2, <2>3, <3>1, <3>2, <4>1
    <3>3. CASE q # p
      <4>1. r # cmd.run
        BY <2>4, <3>1, <3>3
      <4> QED BY <1>1, <2>2, <2>3, <3>1, <3>3, <4>1
    <3> QED BY <3>2, <3>3
  <2>9. ResumeIsEntitled'
    <3>1. \A r \in RunId, q \in Process : Resuming(q, r) => q # p
      BY <1>1 DEF Resuming, cmd
    <3> QED BY <1>1, <2>2, <2>6, <3>1 DEF IInv, ResumeIsEntitled
  <2>10. RecordMatchesGraph'
    BY <1>1, <2>3, <2>6 DEF IInv, RecordMatchesGraph
  <2>11. RunningIsAttended'
    <3> SUFFICES ASSUME NEW r \in RunId, Has(r), runs[r].status = "running"
                 PROVE  \E q \in Process : Attends(q, r)'
      BY <1>1, <2>6 DEF RunningIsAttended
    <3>1. PICK q \in Process : Attends(q, r)
      BY DEF IInv, RunningIsAttended
    <3>2. /\ proc'[q].cmd = proc[q].cmd /\ proc[q].raised \subseteq proc'[q].raised
          /\ proc[q].pc \in Busy => proc'[q].pc \in Busy
      BY <1>1, <2>2 DEF Busy, cmd
    <3> QED BY <3>1, <3>2, KeepsAttending
  <2> QED BY <2>5, <2>7, <2>8, <2>9, <2>10, <2>11 DEF IInv
<1> QED BY <1>2, <1>3

(***************************************************************************)
(* The commit of a transition.  Only a start pauses, and it does so alone, *)
(* with its graph interrupted; only a resume completes, after the graph.   *)
(***************************************************************************)
LEMMA CommitTransitionPreserves ==
  ASSUME IInv, NEW p \in Process, CommitTransition(p)
  PROVE  IInv'
<1> DEFINE cmd == proc[p].cmd
           next == After(cmd, proc[p].pc)
<1>1. /\ proc[p].pc \in {"enter", "leave", "fail"} /\ cmd \in Command
      /\ cmd.run \in RunId /\ cmd.op \in {"start", "resume"}
      /\ proc[p].pc = "fail" => cmd.op = "resume"
      /\ cmd.op = "start" => cmd.thread \in ThreadId
      /\ UNCHANGED <<threads, graph>>
      /\ Go(p, next)
  BY DEF IInv, CommandsFit, CommitTransition, InTransition, Command
<1>2. /\ cmd.op = "start" => Starting(p, cmd.run)
      /\ cmd.op = "resume" => Resuming(p, cmd.run)
  BY <1>1 DEF Starting, Resuming
<1>3. Has(cmd.run)
  BY <1>1, <1>2 DEF IInv, NothingBeforeCreate
<1>4. /\ Target(p) \in RunStatus
      /\ proc[p].pc = "enter" => Target(p) = "running" /\ next = "invoke"
      /\ proc[p].pc = "leave" =>
           next = "done" /\ Target(p) = IF cmd.op = "start" THEN "paused" ELSE "completed"
      /\ proc[p].pc = "fail" => next = "done" /\ Target(p) = "failed"
  BY <1>1, OrderFacts, TargetFacts DEF RunStatus
<1>5. /\ runs' \in [RunId -> Row \cup {None}]
      /\ runs'[cmd.run] \in Row
      /\ runs'[cmd.run].status = Target(p)
      /\ runs'[cmd.run].repository = runs[cmd.run].repository
      /\ runs'[cmd.run].permission = runs[cmd.run].permission
      /\ \A r \in RunId : r # cmd.run => runs'[r] = runs[r]
  <2>1. runs \in [RunId -> Row \cup {None}] /\ runs[cmd.run] \in Row /\ cmd.run \in RunId
    BY <1>1, <1>3 DEF IInv, TypeOK, Has
  <2> DEFINE error == runs[cmd.run].error \/ Target(p) = "failed"
             moved == [runs[cmd.run] EXCEPT !.status = Target(p)]
             row == [moved EXCEPT !.error = error]
  <2>2. error \in BOOLEAN
    OBVIOUS
  <2>3. runs' = [runs EXCEPT ![cmd.run] = row]
    BY <2>1, Zenon DEF CommitTransition
  <2> HIDE DEF error
  <2>4. /\ moved \in Row /\ moved.status = Target(p)
        /\ moved.repository = runs[cmd.run].repository
        /\ moved.permission = runs[cmd.run].permission
    BY <1>4, <2>1 DEF Row
  <2> HIDE DEF moved
  <2>5. /\ row \in Row /\ row.status = Target(p)
        /\ row.repository = runs[cmd.run].repository
        /\ row.permission = runs[cmd.run].permission
    BY <2>2, <2>4 DEF Row
  <2> HIDE DEF row
  <2> QED BY <2>1, <2>3, <2>5
<1>6. next \in PC
  BY <1>1, <1>4 DEF PC
<1>7. /\ proc' \in [Process -> [pc: PC, cmd: Command \cup {None}, killed: BOOLEAN,
                                seen: RunStatus \cup {None}, raised: SUBSET PC]]
      /\ proc'[p].pc = next /\ proc'[p].cmd = cmd
      /\ \A q \in Process : q # p => proc'[q] = proc[q]
  BY <1>1, <1>6, GoFacts
<1> HIDE DEF cmd, next
<1>8. TypeOK'
  BY <1>1, <1>5, <1>7 DEF IInv, TypeOK
<1>9. CommandsFit'
  BY <1>1, <1>4, <1>7 DEF IInv, CommandsFit
<1>10. \A r \in RunId, q \in Process :
         /\ Starting(q, r)' => Starting(q, r)
         /\ Resuming(q, r)' => Resuming(q, r)
         /\ Has(r)' <=> Has(r)
  <2>1. \A r \in RunId : Has(r)' <=> Has(r)
    BY <1>3, <1>5, NoneAssumption DEF Has
  <2> QED BY <1>1, <1>4, <1>7, <2>1 DEF Starting, Resuming, cmd
<1>11. NothingBeforeCreate'
  BY <1>1, <1>10 DEF IInv, NothingBeforeCreate
<1>12. StartIsAlone'
  <2> SUFFICES ASSUME NEW r \in RunId, NEW q \in Process, Starting(q, r)'
               PROVE  /\ runs'[r].status = IF proc'[q].pc \in {"associate", "enter"}
                                           THEN "pending" ELSE "running"
                      /\ \A x \in Process : ~Resuming(x, r)' /\ (x # q => ~Starting(x, r)')
                      /\ proc'[q].pc # "associate" => threads'[r] = proc'[q].cmd.thread
                      /\ proc'[q].pc = "leave" =>
                           graph'[r] # None /\ graph'[r].thread = threads'[r]
    BY DEF StartIsAlone
  <2>1. /\ Starting(q, r)
        /\ runs[r].status = IF proc[q].pc \in {"associate", "enter"}
                            THEN "pending" ELSE "running"
        /\ \A x \in Process : ~Resuming(x, r) /\ (x # q => ~Starting(x, r))
        /\ proc[q].pc # "associate" => threads[r] = proc[q].cmd.thread
        /\ proc[q].pc = "leave" => graph[r] # None /\ graph[r].thread = threads[r]
    BY <1>10 DEF IInv, StartIsAlone
  <2>2. \A x \in Process : ~Resuming(x, r)' /\ (x # q => ~Starting(x, r)')
    BY <1>10, <2>1
  <2>3. CASE q = p
    <3>1. r = cmd.run /\ cmd.op = "start"
      BY <2>1, <2>3 DEF Starting, cmd
    <3>2. proc[p].pc = "enter" /\ next = "invoke"
      BY <1>1, <1>4, <1>7, <2>3, <3>1 DEF Starting
    <3> QED BY <1>1, <1>4, <1>5, <1>7, <2>1, <2>2, <2>3, <3>1, <3>2 DEF cmd
  <2>4. CASE q # p
    <3>1. r # cmd.run
      BY <1>1, <1>2, <2>1, <2>4
    <3> QED BY <1>1, <1>5, <1>7, <2>1, <2>2, <2>4, <3>1
  <2> QED BY <2>3, <2>4
<1>13. ResumeIsEntitled'
  <2> SUFFICES ASSUME NEW r \in RunId, NEW q \in Process, Resuming(q, r)'
               PROVE  /\ proc'[q].cmd.repository = runs'[r].repository
                      /\ proc'[q].cmd.permission = runs'[r].permission
                      /\ proc'[q].pc = "leave" =>
                           graph'[r] # None /\ graph'[r].stage = "completed"
    BY DEF ResumeIsEntitled
  <2>1. /\ Resuming(q, r)
        /\ proc[q].cmd.repository = runs[r].repository
        /\ proc[q].cmd.permission = runs[r].permission
        /\ proc[q].pc = "leave" => graph[r] # None /\ graph[r].stage = "completed"
    BY <1>10 DEF IInv, ResumeIsEntitled
  <2>2. runs'[r].repository = runs[r].repository /\ runs'[r].permission = runs[r].permission
    BY <1>5
  <2>3. proc'[q].cmd = proc[q].cmd /\ (proc'[q].pc = "leave" => proc[q].pc = "leave")
    BY <1>1, <1>4, <1>7 DEF cmd
  <2> QED BY <1>1, <2>1, <2>2, <2>3
<1>14. RecordMatchesGraph'
  <2> SUFFICES ASSUME NEW r \in RunId, Has(r)
               PROVE  /\ runs'[r].status = "paused" =>
                           graph[r] # None /\ threads[r] # None /\ graph[r].thread = threads[r]
                      /\ runs'[r].status = "completed" =>
                           graph[r] # None /\ graph[r].stage = "completed"
                      /\ graph[r] # None =>
                           graph[r].approved \subseteq
                             {<<runs'[r].repository, runs'[r].permission>>}
    BY <1>1, <1>10 DEF RecordMatchesGraph
  <2>1. /\ runs[r].status = "paused" =>
             graph[r] # None /\ threads[r] # None /\ graph[r].thread = threads[r]
        /\ runs[r].status = "completed" => graph[r] # None /\ graph[r].stage = "completed"
        /\ graph[r] # None =>
             graph[r].approved \subseteq {<<runs[r].repository, runs[r].permission>>}
    BY DEF IInv, RecordMatchesGraph
  <2>2. CASE r # cmd.run
    BY <1>5, <2>1, <2>2
  <2>3. CASE r = cmd.run
    <3>1. runs'[r].status = "paused" =>
            graph[r] # None /\ threads[r] = cmd.thread /\ graph[r].thread = threads[r]
                            /\ cmd.thread \in ThreadId
      BY <1>1, <1>2, <1>4, <1>5, <2>3 DEF IInv, StartIsAlone, cmd
    <3>2. runs'[r].status = "completed" => graph[r] # None /\ graph[r].stage = "completed"
      BY <1>1, <1>2, <1>4, <1>5, <2>3 DEF IInv, ResumeIsEntitled, cmd
    <3> QED BY <1>5, <2>1, <2>3, <3>1, <3>2, RunRegistryAssumption
  <2> QED BY <2>2, <2>3
<1>15. RunningIsAttended'
  <2> SUFFICES ASSUME NEW r \in RunId, Has(r), runs'[r].status = "running"
               PROVE  \E q \in Process : Attends(q, r)'
    BY <1>10 DEF RunningIsAttended
  <2>1. CASE r = cmd.run
    <3>1. proc[p].pc = "enter" /\ next = "invoke"
      BY <1>1, <1>4, <1>5, <2>1
    <3> QED BY <1>1, <1>7, <2>1, <3>1, NoneAssumption DEF Attends, Busy
  <2>2. CASE r # cmd.run
    <3>1. PICK q \in Process : Attends(q, r)
      BY <1>5, <2>2 DEF IInv, RunningIsAttended
    <3>2. q # p
      BY <2>2, <3>1 DEF Attends, cmd
    <3>3. proc'[q] = proc[q]
      BY <1>7, <3>2
    <3> QED BY <3>1, <3>3, KeepsAttending
  <2> QED BY <2>1, <2>2
<1> QED BY <1>8, <1>9, <1>11, <1>12, <1>13, <1>14, <1>15 DEF IInv

-----------------------------------------------------------------------------
(***************************************************************************)
(* What both invocations of the graph have in common: a process goes from  *)
(* "invoke" to "leave", and the graph of its run changes.                  *)
(***************************************************************************)
Invokes(p, c) ==
  /\ proc[p].pc = "invoke" /\ Go(p, "leave")
  /\ UNCHANGED <<runs, threads>>
  /\ graph' = [graph EXCEPT ![proc[p].cmd.run] = c]
  /\ c \in Checkpoint
  /\ c.approved \subseteq {<<runs[proc[p].cmd.run].repository, runs[proc[p].cmd.run].permission>>}
  /\ proc[p].cmd.op = "start" => c.thread = threads[proc[p].cmd.run]
  /\ proc[p].cmd.op = "resume" =>
       /\ c.stage = "completed"
       /\ graph[proc[p].cmd.run] # None /\ c.thread = graph[proc[p].cmd.run].thread

LEMMA InvokePreserves ==
  ASSUME IInv, NEW p \in Process, NEW c, Invokes(p, c)
  PROVE  IInv'
<1> DEFINE cmd == proc[p].cmd
<1>1. /\ cmd \in Command /\ cmd.run \in RunId /\ cmd.op \in {"start", "resume"}
      /\ UNCHANGED <<runs, threads>> /\ proc[p].pc = "invoke"
  BY DEF IInv, CommandsFit, Command, Invokes
<1>2. /\ cmd.op = "start" => Starting(p, cmd.run)
      /\ cmd.op = "resume" => Resuming(p, cmd.run)
  BY <1>1 DEF Starting, Resuming
<1>3. Has(cmd.run)
  BY <1>1, <1>2 DEF IInv, NothingBeforeCreate
<1>4. /\ graph' \in [RunId -> Checkpoint \cup {None}]
      /\ graph'[cmd.run] = c /\ c \in Checkpoint /\ c # None
      /\ \A r \in RunId : r # cmd.run => graph'[r] = graph[r]
  BY <1>1, NoneAssumption DEF IInv, TypeOK, Invokes
<1>5. /\ proc' \in [Process -> [pc: PC, cmd: Command \cup {None}, killed: BOOLEAN,
                                seen: RunStatus \cup {None}, raised: SUBSET PC]]
      /\ proc'[p].pc = "leave" /\ proc'[p].cmd = cmd
      /\ \A q \in Process : q # p => proc'[q] = proc[q]
  BY GoFacts DEF Invokes, PC
<1>6. /\ c.approved \subseteq {<<runs[cmd.run].repository, runs[cmd.run].permission>>}
      /\ cmd.op = "start" => c.thread = threads[cmd.run]
      /\ cmd.op = "resume" => /\ c.stage = "completed"
                              /\ graph[cmd.run] # None /\ c.thread = graph[cmd.run].thread
  BY DEF Invokes
<1> HIDE DEF cmd
<1>7. TypeOK' /\ CommandsFit'
  BY <1>1, <1>4, <1>5 DEF IInv, TypeOK, CommandsFit, cmd
<1>8. \A r \in RunId, q \in Process :
        /\ Starting(q, r)' <=> Starting(q, r)
        /\ Resuming(q, r)' <=> Resuming(q, r)
        /\ Has(r)' <=> Has(r)
  BY <1>1, <1>5 DEF Starting, Resuming, Has, cmd
<1>9. NothingBeforeCreate'
  BY <1>3, <1>4, <1>8 DEF IInv, NothingBeforeCreate
<1>10. StartIsAlone'
  <2> SUFFICES ASSUME NEW r \in RunId, NEW q \in Process, Starting(q, r)
               PROVE  /\ runs'[r].status = IF proc'[q].pc \in {"associate", "enter"}
                                           THEN "pending" ELSE "running"
                      /\ \A x \in Process : ~Resuming(x, r) /\ (x # q => ~Starting(x, r))
                      /\ proc'[q].pc # "associate" => threads'[r] = proc'[q].cmd.thread
                      /\ proc'[q].pc = "leave" =>
                           graph'[r] # None /\ graph'[r].thread = threads'[r]
    BY <1>8 DEF StartIsAlone
  <2>1. /\ runs[r].status = IF proc[q].pc \in {"associate", "enter"}
                            THEN "pending" ELSE "running"
        /\ \A x \in Process : ~Resuming(x, r) /\ (x # q => ~Starting(x, r))
        /\ proc[q].pc # "associate" => threads[r] = proc[q].cmd.thread
        /\ proc[q].pc = "leave" => graph[r] # None /\ graph[r].thread = threads[r]
    BY DEF IInv, StartIsAlone
  <2>2. CASE q = p
    <3>1. r = cmd.run /\ cmd.op = "start"
      BY <2>2 DEF Starting, cmd
    <3> QED BY <1>1, <1>4, <1>5, <1>6, <2>1, <2>2, <3>1 DEF cmd
  <2>3. CASE q # p
    <3>1. r # cmd.run
      BY <1>1, <1>2, <2>1, <2>3
    <3> QED BY <1>1, <1>4, <1>5, <2>1, <2>3, <3>1
  <2> QED BY <2>2, <2>3
<1>11. ResumeIsEntitled'
  <2> SUFFICES ASSUME NEW r \in RunId, NEW q \in Process, Resuming(q, r)
               PROVE  /\ proc'[q].cmd.repository = runs'[r].repository
                      /\ proc'[q].cmd.permission = runs'[r].permission
                      /\ proc'[q].pc = "leave" =>
                           graph'[r] # None /\ graph'[r].stage = "completed"
    BY <1>8 DEF ResumeIsEntitled
  <2>1. /\ proc[q].cmd.repository = runs[r].repository
        /\ proc[q].cmd.permission = runs[r].permission
        /\ proc[q].pc = "leave" => graph[r] # None /\ graph[r].stage = "completed"
    BY DEF IInv, ResumeIsEntitled
  <2>2. proc'[q].cmd = proc[q].cmd /\ runs' = runs
    BY <1>1, <1>5 DEF cmd
  <2>3. r = cmd.run => cmd.op = "resume"
    BY <1>1, <1>2 DEF IInv, StartIsAlone
  <2>4. q = p => r = cmd.run
    BY DEF Resuming, cmd
  <2> QED BY <1>4, <1>5, <1>6, <2>1, <2>2, <2>3, <2>4
<1>12. RecordMatchesGraph'
  <2> SUFFICES ASSUME NEW r \in RunId, Has(r)
               PROVE  /\ runs[r].status = "paused" =>
                           graph'[r] # None /\ threads[r] # None /\ graph'[r].thread = threads[r]
                      /\ runs[r].status = "completed" =>
                           graph'[r] # None /\ graph'[r].stage = "completed"
                      /\ graph'[r] # None =>
                           graph'[r].approved \subseteq
                             {<<runs[r].repository, runs[r].permission>>}
    BY <1>1, <1>8 DEF RecordMatchesGraph
  <2>1. /\ runs[r].status = "paused" =>
             graph[r] # None /\ threads[r] # None /\ graph[r].thread = threads[r]
        /\ runs[r].status = "completed" => graph[r] # None /\ graph[r].stage = "completed"
        /\ graph[r] # None =>
             graph[r].approved \subseteq {<<runs[r].repository, runs[r].permission>>}
    BY DEF IInv, RecordMatchesGraph
  <2>2. CASE r # cmd.run
    BY <1>4, <2>1, <2>2
  <2>3. CASE r = cmd.run
    <3>1. cmd.op = "start" => runs[r].status = "running"
      BY <1>1, <1>2, <2>3 DEF IInv, StartIsAlone
    <3> QED BY <1>1, <1>4, <1>6, <2>1, <2>3, <3>1
  <2> QED BY <2>2, <2>3
<1>13. RunningIsAttended'
  <2> SUFFICES ASSUME NEW r \in RunId, Has(r), runs[r].status = "running"
               PROVE  \E q \in Process : Attends(q, r)'
    BY <1>1, <1>8 DEF RunningIsAttended
  <2>1. PICK q \in Process : Attends(q, r)
    BY DEF IInv, RunningIsAttended
  <2> QED BY <1>5, <2>1 DEF Attends, Unhandled, Busy, cmd
<1> QED BY <1>7, <1>9, <1>10, <1>11, <1>12, <1>13 DEF IInv

\* start: the graph is interrupted at its approval, under the thread of the run.
LEMMA InvokeStartPreserves ==
  ASSUME IInv, NEW p \in Process, InvokeStart(p)
  PROVE  IInv'
<1> DEFINE cmd == proc[p].cmd
           c == [stage |-> "interrupted", thread |-> cmd.thread, approved |-> {}]
<1>1. /\ proc[p].pc = "invoke" /\ cmd \in Command /\ cmd.op = "start"
      /\ cmd.run \in RunId /\ cmd.thread \in ThreadId
      /\ UNCHANGED <<runs, threads>>
      /\ graph' = [graph EXCEPT ![cmd.run] = c]
  BY DEF IInv, CommandsFit, InvokeStart, At, Command
<1>2. Go(p, "leave")
  BY <1>1, OrderFacts DEF InvokeStart
<1>3. threads[cmd.run] = cmd.thread
  BY <1>1 DEF IInv, StartIsAlone, Starting
<1>4. c \in Checkpoint /\ c.approved = {} /\ c.thread = cmd.thread
  BY <1>1 DEF Checkpoint
<1>5. Invokes(p, c)
  <2> HIDE DEF c
  <2> QED BY <1>1, <1>2, <1>3, <1>4 DEF Invokes
<1> QED BY <1>5, InvokePreserves

\* resume: the approval node ends with the digests of the record, or had ended.
LEMMA InvokeResumePreserves ==
  ASSUME IInv, NEW p \in Process, InvokeResume(p)
  PROVE  IInv'
<1> DEFINE cmd == proc[p].cmd
           g == graph[cmd.run]
<1>1. /\ proc[p].pc = "invoke" /\ cmd \in Command /\ cmd.op = "resume"
      /\ cmd.run \in RunId /\ cmd.repository \in Digest /\ cmd.permission \in Digest
      /\ UNCHANGED <<runs, threads>>
      /\ graph' = IF g.stage = "completed" THEN graph
                  ELSE [graph EXCEPT ![cmd.run].stage = "completed",
                         ![cmd.run].approved = @ \cup {<<cmd.repository, cmd.permission>>}]
      /\ g # None /\ g \in Checkpoint
      /\ graph \in [RunId -> Checkpoint \cup {None}]
  BY DEF IInv, TypeOK, CommandsFit, InvokeResume, At, Command
<1>2. Go(p, "leave")
  BY <1>1, OrderFacts DEF InvokeResume
<1>3. Resuming(p, cmd.run)
  BY <1>1 DEF Resuming
<1>4. Has(cmd.run) /\ cmd.repository = runs[cmd.run].repository
      /\ cmd.permission = runs[cmd.run].permission
  BY <1>1, <1>3 DEF IInv, NothingBeforeCreate, ResumeIsEntitled
<1>5. g.approved \subseteq {<<cmd.repository, cmd.permission>>}
  BY <1>1, <1>4 DEF IInv, RecordMatchesGraph
<1>6. CASE g.stage = "completed"
  <2>1. graph' = [graph EXCEPT ![cmd.run] = g]
    BY <1>1, <1>6
  <2>2. Invokes(p, g)
    <3> HIDE DEF g
    <3> QED BY <1>1, <1>2, <1>4, <1>5, <1>6, <2>1 DEF Invokes, g
  <2> QED BY <2>2, InvokePreserves
<1>7. CASE g.stage # "completed"
  <2> DEFINE approved == g.approved \cup {<<cmd.repository, cmd.permission>>}
             ended == [g EXCEPT !.stage = "completed"]
             c == [ended EXCEPT !.approved = approved]
  <2>1. graph' = [graph EXCEPT ![cmd.run] = c]
    BY <1>1, <1>7, Zenon DEF InvokeResume
  <2>2. g \in Checkpoint /\ approved \in SUBSET (Digest \X Digest)
    BY <1>1 DEF Checkpoint
  <2> HIDE DEF approved, g
  <2>3. ended \in Checkpoint /\ ended.stage = "completed" /\ ended.thread = g.thread
    BY <2>2 DEF Checkpoint
  <2> HIDE DEF ended
  <2>4. /\ c \in Checkpoint /\ c.stage = "completed" /\ c.thread = g.thread
        /\ c.approved = approved
    BY <2>2, <2>3 DEF Checkpoint
  <2>5. Invokes(p, c)
    <3> HIDE DEF c
    <3> QED BY <1>1, <1>2, <1>4, <1>5, <2>1, <2>4 DEF Invokes, approved, g
  <2> QED BY <2>5, InvokePreserves
<1> QED BY <1>6, <1>7

\* Every step of every process.
LEMMA StepPreserves == IInv /\ [Next]_vars => IInv'
<1>1. CASE UNCHANGED vars
  BY <1>1 DEF vars, IInv, TypeOK, CommandsFit, NothingBeforeCreate, StartIsAlone,
     ResumeIsEntitled, RecordMatchesGraph, RunningIsAttended, Attends, Unhandled, Starting, Resuming, Has
<1>2. ASSUME IInv, NEW p \in Process, Begin(p) \/ Step(p) \/ Kill(p) PROVE IInv'
  BY <1>2, BeginPreserves, ChecksPreserve, CreatePreserves, AssociatePreserves,
     CommitTransitionPreserves, InvokeStartPreserves, InvokeResumePreserves DEF Step
<1> QED BY <1>1, <1>2 DEF Next

\* The inductive invariant holds in every state of every behaviour.
LEMMA Invariance == Spec => []IInv
BY InitEstablishes, StepPreserves, PTL DEF Spec

-----------------------------------------------------------------------------
(***************************************************************************)
(* Every variable keeps its type.                                          *)
(***************************************************************************)
THEOREM TypeCorrect == Spec => []TypeOK
<1>1. IInv => TypeOK  BY DEF IInv
<1> QED BY <1>1, Invariance, PTL

(***************************************************************************)
(* The record of a run never promises more than its graph has, although    *)
(* the two databases commit on their own (start and resume).               *)
(***************************************************************************)
THEOREM RecordsAreTrue == Spec => []RecordMatchesGraph
<1>1. IInv => RecordMatchesGraph  BY DEF IInv
<1> QED BY <1>1, Invariance, PTL

(***************************************************************************)
(* A running run has a process that is, or died, in the middle of it, or   *)
(* whose error came from one of the steps that have no handler: the graph  *)
(* of a start, the last transition, the handler of resume itself.  Neither *)
(* a graph that fails in a resume nor any race adds to these.              *)
(***************************************************************************)
THEOREM NoRunIsForgotten == Spec => []RunningIsAttended
<1>1. IInv => RunningIsAttended  BY DEF IInv
<1> QED BY <1>1, Invariance, PTL

(***************************************************************************)
(* No two starts ever work on one run, and no resume on a run that a start *)
(* has not paused yet.                                                     *)
(***************************************************************************)
THEOREM StartsAlone == Spec => []StartIsAlone
<1>1. IInv => StartIsAlone  BY DEF IInv
<1> QED BY <1>1, Invariance, PTL

-----------------------------------------------------------------------------
\* An event of turn t, as stream_events tells one (app_server.py:138-147).
OwnAt(e, t) == e.kind # "malformed" /\ e.turn = t

\* Function f finds, in the queue Q, the events n + 1, n + 2, ... of E in their order, and
\* all of turn t that Q has.
Carried(f, Q, t, E, n) ==
  /\ f \in [(n + 1)..Len(E) -> DOMAIN Q]
  /\ \A i \in (n + 1)..Len(E) : Q[f[i]] = E[i]
  /\ \A i, j \in (n + 1)..Len(E) : i < j => f[i] < f[j]
  /\ \A k \in DOMAIN Q : OwnAt(Q[k], t) => \E i \in (n + 1)..Len(E) : f[i] = k

\* What a queue still holds of the events E that the server sent for turn t, when n of them
\* have been read.
Holds(Q, t, E, n) == \E f : Carried(f, Q, t, E, n)

\* A queue without events of a turn holds a turn for which nothing was sent.
LEMMA HoldsNothing ==
  ASSUME NEW Q, NEW t, \A k \in DOMAIN Q : ~OwnAt(Q[k], t)
  PROVE  Holds(Q, t, <<>>, 0)
<1> DEFINE f == [i \in 1..0 |-> 0]
<1>1. Carried(f, Q, t, <<>>, 0)
  <2>1. Len(<<>>) = 0 /\ (0 + 1)..0 = {}  OBVIOUS
  <2> QED BY <2>1 DEF Carried
<1> QED BY <1>1 DEF Holds

\* An event of the turn, sent and appended at once, is held with the others.
LEMMA HoldsOwn ==
  ASSUME NEW N \in Nat, NEW Q, DOMAIN Q = 1..N, NEW R, DOMAIN R = 1..(N + 1),
         \A k \in 1..N : R[k] = Q[k],
         NEW E \in Seq(Event), R[N + 1] \in Event, NEW n \in 0..Len(E), NEW t,
         Holds(Q, t, E, n)
  PROVE  Holds(R, t, Append(E, R[N + 1]), n)
<1>1. PICK f : Carried(f, Q, t, E, n)  BY DEF Holds
<1> DEFINE F == Append(E, R[N + 1])
           g == [i \in (n + 1)..(Len(E) + 1) |-> IF i = Len(E) + 1 THEN N + 1 ELSE f[i]]
<1>2. Len(F) = Len(E) + 1 /\ F[Len(E) + 1] = R[N + 1] /\ \A i \in 1..Len(E) : F[i] = E[i]
  OBVIOUS
<1>3. Len(E) \in Nat /\ n \in Nat /\ n <= Len(E)  OBVIOUS
<1>4. \A i \in (n + 1)..Len(E) : f[i] \in 1..N  BY <1>1 DEF Carried
<1> HIDE DEF F
<1>5. g \in [(n + 1)..Len(F) -> DOMAIN R]  BY <1>2, <1>3, <1>4
<1>6. \A i \in (n + 1)..Len(F) : R[g[i]] = F[i]
  <2> SUFFICES ASSUME NEW i \in (n + 1)..Len(F) PROVE R[g[i]] = F[i]  OBVIOUS
  <2>1. CASE i = Len(E) + 1  BY <2>1, <1>2
  <2>2. CASE i # Len(E) + 1
    <3>1. i \in (n + 1)..Len(E) /\ i \in 1..Len(E)  BY <2>2, <1>2, <1>3
    <3>2. g[i] = f[i]  BY <2>2, <1>2
    <3> QED BY <3>1, <3>2, <1>1, <1>2, <1>4 DEF Carried
  <2> QED BY <2>1, <2>2
<1>7. \A i, j \in (n + 1)..Len(F) : i < j => g[i] < g[j]
  <2> SUFFICES ASSUME NEW i \in (n + 1)..Len(F), NEW j \in (n + 1)..Len(F), i < j PROVE g[i] < g[j]
    OBVIOUS
  <2>1. i \in (n + 1)..Len(E) /\ g[i] = f[i]  BY <1>2, <1>3
  <2>2. CASE j = Len(E) + 1  BY <2>1, <2>2, <1>2, <1>4
  <2>3. CASE j # Len(E) + 1
    <3>1. j \in (n + 1)..Len(E) /\ g[j] = f[j]  BY <2>3, <1>2, <1>3
    <3> QED BY <2>1, <3>1, <1>1 DEF Carried
  <2> QED BY <2>2, <2>3
<1>8. \A k \in DOMAIN R : OwnAt(R[k], t) => \E i \in (n + 1)..Len(F) : g[i] = k
  <2> SUFFICES ASSUME NEW k \in 1..(N + 1), OwnAt(R[k], t) PROVE \E i \in (n + 1)..Len(F) : g[i] = k
    OBVIOUS
  <2>1. CASE k = N + 1
    <3>1. Len(E) + 1 \in (n + 1)..Len(F) /\ g[Len(E) + 1] = N + 1  BY <1>2, <1>3
    <3> QED BY <2>1, <3>1
  <2>2. CASE k # N + 1
    <3>1. k \in 1..N /\ OwnAt(Q[k], t)  BY <2>2
    <3>2. PICK i \in (n + 1)..Len(E) : f[i] = k  BY <1>1, <3>1 DEF Carried
    <3>3. i \in (n + 1)..Len(F) /\ g[i] = k  BY <3>2, <1>2, <1>3
    <3> QED BY <3>3
  <2> QED BY <2>1, <2>2
<1>9. Carried(g, R, t, F, n)  BY <1>5, <1>6, <1>7, <1>8 DEF Carried
<1> QED BY <1>9 DEF Holds, F

\* Something else appended changes nothing for the turn.
LEMMA HoldsOther ==
  ASSUME NEW N \in Nat, NEW Q, DOMAIN Q = 1..N, NEW R, DOMAIN R = 1..(N + 1),
         \A k \in 1..N : R[k] = Q[k],
         NEW E \in Seq(Event), NEW n \in 0..Len(E), NEW t, ~OwnAt(R[N + 1], t),
         Holds(Q, t, E, n)
  PROVE  Holds(R, t, E, n)
<1>1. PICK f : Carried(f, Q, t, E, n)  BY DEF Holds
<1>2. \A i \in (n + 1)..Len(E) : f[i] \in 1..N /\ f[i] \in 1..(N + 1)  BY <1>1 DEF Carried
<1>3. f \in [(n + 1)..Len(E) -> DOMAIN R]  BY <1>1, <1>2 DEF Carried
<1>4. \A i \in (n + 1)..Len(E) : R[f[i]] = E[i]  BY <1>1, <1>2 DEF Carried
<1>5. \A k \in DOMAIN R : OwnAt(R[k], t) => \E i \in (n + 1)..Len(E) : f[i] = k
  <2> SUFFICES ASSUME NEW k \in 1..(N + 1), OwnAt(R[k], t) PROVE \E i \in (n + 1)..Len(E) : f[i] = k
    OBVIOUS
  <2>1. k \in 1..N /\ OwnAt(Q[k], t)  OBVIOUS
  <2> QED BY <2>1, <1>1 DEF Carried
<1>6. Carried(f, R, t, E, n)  BY <1>1, <1>3, <1>4, <1>5 DEF Carried
<1> QED BY <1>6 DEF Holds

\* Nor does taking something else out, wherever it was.
LEMMA HoldsWithout ==
  ASSUME NEW N \in Nat, NEW p \in 1..N, NEW Q, DOMAIN Q = 1..N,
         NEW R, DOMAIN R = 1..(N - 1),
         \A k \in 1..(N - 1) : R[k] = IF k < p THEN Q[k] ELSE Q[k + 1],
         NEW E \in Seq(Event), NEW n \in 0..Len(E), NEW t, ~OwnAt(Q[p], t),
         \A i \in 1..Len(E) : OwnAt(E[i], t),
         Holds(Q, t, E, n)
  PROVE  Holds(R, t, E, n)
<1>1. PICK f : Carried(f, Q, t, E, n)  BY DEF Holds
<1> DEFINE g == [i \in (n + 1)..Len(E) |-> IF f[i] > p THEN f[i] - 1 ELSE f[i]]
<1>2. ASSUME NEW i \in (n + 1)..Len(E) PROVE f[i] \in 1..N /\ f[i] # p /\ OwnAt(E[i], t)
  <2>1. f[i] \in 1..N /\ Q[f[i]] = E[i]  BY <1>1 DEF Carried
  <2>2. i \in 1..Len(E)  OBVIOUS
  <2> QED BY <2>1, <2>2
<1>3. ASSUME NEW i \in (n + 1)..Len(E) PROVE g[i] \in 1..(N - 1)
  BY <1>2
<1>4. g \in [(n + 1)..Len(E) -> DOMAIN R]  BY <1>3
<1>5. \A i \in (n + 1)..Len(E) : R[g[i]] = E[i]
  <2> SUFFICES ASSUME NEW i \in (n + 1)..Len(E) PROVE R[g[i]] = E[i]  OBVIOUS
  <2>1. Q[f[i]] = E[i]  BY <1>1 DEF Carried
  <2>2. CASE f[i] > p
    <3>1. g[i] = f[i] - 1 /\ ~(g[i] < p) /\ g[i] + 1 = f[i]  BY <2>2, <1>2
    <3> QED BY <2>1, <3>1, <1>3
  <2>3. CASE ~(f[i] > p)
    <3>1. g[i] = f[i] /\ g[i] < p  BY <2>3, <1>2
    <3> QED BY <2>1, <3>1, <1>3
  <2> QED BY <2>2, <2>3
<1>6. \A i, j \in (n + 1)..Len(E) : i < j => g[i] < g[j]
  <2> SUFFICES ASSUME NEW i \in (n + 1)..Len(E), NEW j \in (n + 1)..Len(E), i < j PROVE g[i] < g[j]
    OBVIOUS
  <2>1. f[i] < f[j]  BY <1>1 DEF Carried
  <2>2. f[i] \in 1..N /\ f[j] \in 1..N /\ f[i] # p /\ f[j] # p  BY <1>2
  <2> QED BY <2>1, <2>2
<1>7. \A k \in DOMAIN R : OwnAt(R[k], t) => \E i \in (n + 1)..Len(E) : g[i] = k
  <2> SUFFICES ASSUME NEW k \in 1..(N - 1), OwnAt(R[k], t) PROVE \E i \in (n + 1)..Len(E) : g[i] = k
    OBVIOUS
  <2>1. CASE k < p
    <3>1. k \in 1..N /\ OwnAt(Q[k], t)  BY <2>1
    <3>2. PICK i \in (n + 1)..Len(E) : f[i] = k  BY <1>1, <3>1 DEF Carried
    <3>3. g[i] = k  BY <3>2, <2>1
    <3> QED BY <3>3
  <2>2. CASE ~(k < p)
    <3>1. k + 1 \in 1..N /\ OwnAt(Q[k + 1], t)  BY <2>2
    <3>2. PICK i \in (n + 1)..Len(E) : f[i] = k + 1  BY <1>1, <3>1 DEF Carried
    <3>3. g[i] = k  BY <3>2, <2>2
    <3> QED BY <3>3
  <2> QED BY <2>1, <2>2
<1>8. Carried(g, R, t, E, n)  BY <1>4, <1>5, <1>6, <1>7 DEF Carried
<1> QED BY <1>8 DEF Holds

\* The first of the queue, if of the turn, is the next event the server sent for it.
LEMMA HoldsNext ==
  ASSUME NEW N \in Nat, N > 0, NEW Q, DOMAIN Q = 1..N, NEW R, DOMAIN R = 1..(N - 1),
         \A k \in 1..(N - 1) : R[k] = Q[k + 1],
         NEW E \in Seq(Event), NEW n \in 0..Len(E), NEW t, OwnAt(Q[1], t),
         Holds(Q, t, E, n)
  PROVE  /\ n < Len(E) /\ Q[1] = E[n + 1]
         /\ Holds(R, t, E, n + 1)
<1>1. PICK f : Carried(f, Q, t, E, n)  BY DEF Holds
<1> DEFINE I == (n + 1)..Len(E)
           g == [i \in (n + 2)..Len(E) |-> f[i] - 1]
<1>2. PICK a \in I : f[a] = 1  BY <1>1 DEF Carried
<1>3. \A i \in I : f[i] \in 1..N  BY <1>1 DEF Carried
<1>4. n + 1 \in I /\ a = n + 1
  <2>1. n + 1 \in I  OBVIOUS
  <2>2. ASSUME a # n + 1 PROVE FALSE
    <3>1. f[n + 1] < f[a]  BY <2>1, <2>2, <1>1 DEF Carried
    <3> QED BY <3>1, <1>2, <1>3, <2>1
  <2> QED BY <2>1, <2>2
<1>5. n < Len(E) /\ Q[1] = E[n + 1]  BY <1>1, <1>2, <1>4 DEF Carried
<1>6. \A i \in (n + 2)..Len(E) : i \in I /\ f[i] > 1
  <2> SUFFICES ASSUME NEW i \in (n + 2)..Len(E) PROVE i \in I /\ f[i] > 1  OBVIOUS
  <2>1. i \in I /\ n + 1 < i  OBVIOUS
  <2> QED BY <2>1, <1>1, <1>2, <1>4 DEF Carried
<1>7. g \in [((n + 1) + 1)..Len(E) -> DOMAIN R]
  <2>1. \A i \in (n + 2)..Len(E) : f[i] - 1 \in 1..(N - 1)  BY <1>3, <1>6
  <2> QED BY <2>1
<1>8. \A i \in ((n + 1) + 1)..Len(E) : R[g[i]] = E[i]
  <2> SUFFICES ASSUME NEW i \in (n + 2)..Len(E) PROVE R[g[i]] = E[i]  OBVIOUS
  <2>1. g[i] \in 1..(N - 1) /\ g[i] + 1 = f[i]  BY <1>3, <1>6
  <2>2. Q[f[i]] = E[i]  BY <1>1, <1>6 DEF Carried
  <2> QED BY <2>1, <2>2
<1>9. \A i, j \in ((n + 1) + 1)..Len(E) : i < j => g[i] < g[j]
  <2> SUFFICES ASSUME NEW i \in (n + 2)..Len(E), NEW j \in (n + 2)..Len(E), i < j PROVE g[i] < g[j]
    OBVIOUS
  <2>1. f[i] < f[j]  BY <1>1, <1>6 DEF Carried
  <2>2. f[i] \in 1..N /\ f[j] \in 1..N  BY <1>3, <1>6
  <2> QED BY <2>1, <2>2
<1>10. \A k \in DOMAIN R : OwnAt(R[k], t) => \E i \in ((n + 1) + 1)..Len(E) : g[i] = k
  <2> SUFFICES ASSUME NEW k \in 1..(N - 1), OwnAt(R[k], t) PROVE \E i \in (n + 2)..Len(E) : g[i] = k
    OBVIOUS
  <2>1. k + 1 \in 1..N /\ OwnAt(Q[k + 1], t)  OBVIOUS
  <2>2. PICK i \in I : f[i] = k + 1  BY <1>1, <2>1 DEF Carried
  <2>3. i # n + 1  BY <2>2, <1>2, <1>4
  <2>4. i \in (n + 2)..Len(E) /\ g[i] = k  BY <2>2, <2>3
  <2> QED BY <2>4
<1>11. Carried(g, R, t, E, n + 1)  BY <1>7, <1>8, <1>9, <1>10 DEF Carried
<1> QED BY <1>5, <1>11 DEF Holds

\* Holds looks at the elements of the queue only.
LEMMA HoldsUpTo ==
  ASSUME NEW Q, NEW R, NEW t, NEW E, NEW n, DOMAIN R = DOMAIN Q,
         \A k \in DOMAIN Q : R[k] = Q[k], Holds(Q, t, E, n)
  PROVE  Holds(R, t, E, n)
<1>1. PICK f : Carried(f, Q, t, E, n)  BY DEF Holds
<1>2. \A i \in (n + 1)..Len(E) : f[i] \in DOMAIN Q  BY <1>1 DEF Carried
<1>3. Carried(f, R, t, E, n)  BY <1>1, <1>2 DEF Carried
<1> QED BY <1>3 DEF Holds

\* What a line of the pipe means to the reader of the stream; an answer means nothing.
Content(line) == IF line.kind = "note" THEN line.event ELSE [kind |-> "malformed"]

\* The stream and the pipe behind it as one queue: _read_stdout moves lines from one to the
\* other.
Piped == Len(stream) + Len(stdout)

Pipe == [k \in 1..Piped |-> IF k <= Len(stream) THEN stream[k]
                            ELSE Content(stdout[k - Len(stream)])]

\* The request under way is of this method.
Asks(method) == pc = "await" /\ request.method = method

\* An answer in the pipe is never to a later request.
RequestsInOrder ==
  /\ pc = "open" => sent = 0
  /\ pc = "await" <=> request # Nil
  /\ request # Nil => request.nr = sent
  /\ \A k \in DOMAIN stdout : stdout[k].kind = "reply" => stdout[k].nr <= sent

\* The server starts a turn for a request of the caller only, the pipe has events of turns
\* that were started, and a turn_completed is the last event of its turn.
ServedInOrder ==
  /\ Len(served) <= step
  /\ \A k \in DOMAIN Pipe : Pipe[k].kind # "malformed" => Pipe[k].turn <= Len(served)
  /\ \A t \in DOMAIN served : \A i \in DOMAIN served[t].emitted :
       LET event == served[t].emitted[i] IN
       /\ OwnAt(event, t)
       /\ event.kind = "turn_completed" =>
            i = Len(served[t].emitted) /\ served[t].status # "inProgress"

\* An answer to turn/start names the latest turn, of which the queue still has every event.
Due(line) ==
  /\ line \in TurnAnswer /\ line.turn = Len(served) /\ Len(served) > 0
  /\ Holds(Pipe, Len(served), served[Len(served)].emitted, 0)

\* While run_turn waits for the answer to turn/start, such an answer in the pipe is about the
\* latest turn: nothing of that turn has been read, for stream_events starts after the
\* answer.
AnsweredInTime ==
  Asks("turn/start") =>
    \A k \in DOMAIN stdout : stdout[k].kind = "reply" /\ stdout[k].nr = request.nr => Due(stdout[k])

\* While a turn is streamed: its events so far are the first the server sent, and the queue
\* holds the rest.
StreamedInOrder ==
  pc = "streaming" =>
    /\ current \in DOMAIN served
    /\ Len(events) <= Len(served[current].emitted)
    /\ \A i \in DOMAIN events : events[i] = served[current].emitted[i]
    /\ Holds(Pipe, current, served[current].emitted, Len(events))

\* A returned turn has all the events of a turn that is over.
ReturnedWhole ==
  pc = "returned" =>
    /\ current \in DOMAIN served /\ events = served[current].emitted
    /\ served[current].status # "inProgress"

\* The spike waits for a turn, or has one to judge.
Underway ==
  pc \in {"streaming", "returned", "draining"} \/ Asks("turn/start") \/ Asks("turn/interrupt")

\* The spike's audit records, turns and result, between run_spike's statements.
AuditedSoFar ==
  caller = "spike" =>
    /\ Underway => step = audited + 1
    /\ pc \notin {"raise", "closed"} /\ ~Underway => step = audited
    /\ pc = "fallback" => step = 3
    /\ pc = "close" => result = "valid"
    /\ result = "valid" => pc \in {"close", "closed"} /\ step = audited /\ step >= 2

\* Only the first request can end with "started" unset.
StartedUnlessFirst ==
  ~started /\ pc \notin {"open", "closed"} => sent = 1 /\ (pc = "raise" \/ Asks("initialize"))

\* The inductive invariant.
ConnectionInv ==
  /\ ConnectionTypeOK /\ RequestsInOrder /\ ServedInOrder /\ AnsweredInTime
  /\ StreamedInOrder /\ ReturnedWhole /\ AuditedSoFar /\ StartedUnlessFirst
  /\ NoServerLeftBehind /\ SpikeIsSettled

\* A set of naturals has a least member.
LEMMA SmallestNat ==
  ASSUME NEW S, S # {}, S \subseteq Nat
  PROVE  \E m \in S : \A k \in S : m <= k
<1>1. S \in SUBSET Nat /\ S # {}  OBVIOUS
<1>2. PICK m \in S : \A k \in S : ~(<<k, m>> \in OpToRel(<, Nat))
  BY <1>1, NatLessThanWellFounded, WFMin, Zenon
<1>3. \A k \in S : ~(k < m)
  BY <1>2 DEF OpToRel
<1> QED BY <1>3

\* agent_message_text returns a message, or nothing.
LEMMA LastMessage ==
  ASSUME events \in Seq(Event)
  PROVE  Message \in {"valid", "invalid", Nil}
<1>1. CASE Messages = {}  BY <1>1 DEF Message
<1>2. CASE Messages # {}
  <2> DEFINE D == {Len(events) - i : i \in Messages}
  <2>1. D # {} /\ D \subseteq Nat
    <3>1. \A i \in Messages : i \in 1..Len(events)  BY DEF Messages
    <3> QED BY <1>2, <3>1
  <2>2. PICK d \in D : \A e \in D : d <= e
    BY <2>1, SmallestNat
  <2>3. PICK m \in Messages : d = Len(events) - m  OBVIOUS
  <2>4. \A j \in Messages : j <= m
    <3>1. \A i \in Messages : i \in 1..Len(events)  BY DEF Messages
    <3>2. ASSUME NEW j \in Messages PROVE j <= m
      <4>1. Len(events) - j \in D  OBVIOUS
      <4>2. Len(events) - m <= Len(events) - j  BY <4>1, <2>2, <2>3
      <4> QED BY <4>2, <3>1
    <3> QED BY <3>2
  <2> DEFINE M == CHOOSE i \in Messages : \A j \in Messages : j <= i
  <2>5. M \in Messages  BY <2>4
  <2>6. M \in DOMAIN events /\ events[M].kind = "item_completed"  BY <2>5 DEF Messages
  <2> HIDE DEF M
  <2>7. events[M] \in Event  BY <2>6
  <2>8. events[M].message \in {"valid", "invalid", Nil}  BY <2>6, <2>7 DEF Event
  <2> QED BY <2>8, <1>2 DEF Message, M
<1> QED BY <1>1, <1>2

\* Every line has an event as its content.
LEMMA ContentType ==
  ASSUME NEW line \in Line PROVE Content(line) \in Event
BY DEF Content, Line, Answer, TurnAnswer, Event

\* The queue is a sequence of events.
LEMMA PipeType ==
  ASSUME ConnectionTypeOK
  PROVE  /\ Len(stream) \in Nat /\ Len(stdout) \in Nat /\ Piped \in Nat
         /\ DOMAIN Pipe = 1..Piped /\ \A k \in 1..Piped : Pipe[k] \in Event
<1>1. stream \in Seq(Event) /\ stdout \in Seq(Line)  BY DEF ConnectionTypeOK
<1>2. Len(stream) \in Nat /\ Len(stdout) \in Nat /\ Piped \in Nat  BY <1>1 DEF Piped
<1>3. ASSUME NEW k \in 1..Piped PROVE Pipe[k] \in Event
  <2>1. CASE k <= Len(stream)  BY <2>1, <1>1, <1>2 DEF Pipe
  <2>2. CASE ~(k <= Len(stream))
    <3>1. k - Len(stream) \in 1..Len(stdout)  BY <2>2, <1>2 DEF Piped
    <3>2. stdout[k - Len(stream)] \in Line  BY <3>1, <1>1
    <3> QED BY <2>2, <3>2, ContentType DEF Pipe
  <2> QED BY <2>1, <2>2
<1> QED BY <1>2, <1>3 DEF Pipe

\* What the server writes comes last in the queue.
LEMMA PipeSays ==
  ASSUME ConnectionTypeOK, NEW line \in Line, Say(line), stream' = stream
  PROVE  /\ DOMAIN Pipe' = 1..(Piped + 1)
         /\ \A k \in 1..Piped : Pipe'[k] = Pipe[k]
         /\ Pipe'[Piped + 1] = Content(line)
<1>1. stream \in Seq(Event) /\ stdout \in Seq(Line)  BY DEF ConnectionTypeOK
<1>2. Len(stream) \in Nat /\ Len(stdout) \in Nat  BY <1>1
<1>3. /\ Len(stdout') = Len(stdout) + 1 /\ stdout'[Len(stdout) + 1] = line
      /\ \A j \in 1..Len(stdout) : stdout'[j] = stdout[j]
  BY <1>1 DEF Say
<1>4. Piped' = Piped + 1 /\ Piped \in Nat  BY <1>2, <1>3 DEF Piped
<1>5. ASSUME NEW k \in 1..Piped PROVE Pipe'[k] = Pipe[k]
  <2>1. k \in 1..Piped'  BY <1>4
  <2>2. CASE k <= Len(stream)  BY <2>1, <2>2 DEF Pipe
  <2>3. CASE ~(k <= Len(stream))
    <3>1. k - Len(stream) \in 1..Len(stdout)  BY <2>3, <1>2 DEF Piped
    <3>2. stdout'[k - Len(stream)] = stdout[k - Len(stream)]  BY <3>1, <1>3
    <3> QED BY <2>1, <2>3, <3>2 DEF Pipe, Content
  <2> QED BY <2>2, <2>3
<1>6. Pipe'[Piped + 1] = Content(line)
  <2>1. Piped + 1 \in 1..Piped' /\ ~(Piped + 1 <= Len(stream))
        /\ (Piped + 1) - Len(stream) = Len(stdout) + 1
    BY <1>2, <1>4 DEF Piped
  <2> QED BY <2>1, <1>3 DEF Pipe, Content
<1>7. DOMAIN Pipe' = 1..(Piped + 1)  BY <1>4 DEF Pipe
<1> QED BY <1>5, <1>6, <1>7

\* An answer that is taken out leaves the rest as it was.
LEMMA PipeDrops ==
  ASSUME ConnectionTypeOK, stdout # <<>>, Head(stdout).kind = "reply",
         stdout' = Tail(stdout), stream' = stream
  PROVE  LET p == Len(stream) + 1 IN
         /\ p \in 1..Piped /\ Pipe[p].kind = "malformed"
         /\ DOMAIN Pipe' = 1..(Piped - 1)
         /\ \A k \in 1..(Piped - 1) : Pipe'[k] = IF k < p THEN Pipe[k] ELSE Pipe[k + 1]
<1> DEFINE p == Len(stream) + 1
<1>1. stream \in Seq(Event) /\ stdout \in Seq(Line)  BY DEF ConnectionTypeOK
<1>2. Len(stream) \in Nat /\ Len(stdout) \in Nat /\ Len(stdout) > 0 /\ Head(stdout) = stdout[1]
  BY <1>1
<1>3. Len(stdout') = Len(stdout) - 1 /\ \A j \in 1..(Len(stdout) - 1) : stdout'[j] = stdout[j + 1]
  BY <1>1, <1>2
<1>4. Piped' = Piped - 1 /\ Piped \in Nat  BY <1>2, <1>3 DEF Piped
<1>5. p \in 1..Piped /\ Pipe[p].kind = "malformed"
  <2>1. p \in 1..Piped /\ ~(p <= Len(stream)) /\ p - Len(stream) = 1  BY <1>2 DEF Piped
  <2>2. Pipe[p] = Content(stdout[1])  BY <2>1 DEF Pipe
  <2> QED BY <2>1, <2>2, <1>2 DEF Content
<1>6. ASSUME NEW k \in 1..(Piped - 1) PROVE Pipe'[k] = IF k < p THEN Pipe[k] ELSE Pipe[k + 1]
  <2>1. k \in 1..Piped' /\ k \in 1..Piped /\ k + 1 \in 1..Piped  BY <1>4
  <2>2. CASE k < p
    <3>1. k <= Len(stream)  BY <2>2, <1>2
    <3> QED BY <2>1, <2>2, <3>1 DEF Pipe
  <2>3. CASE ~(k < p)
    <3>1. ~(k <= Len(stream)) /\ ~(k + 1 <= Len(stream))  BY <2>3, <1>2
    <3>2. k - Len(stream) \in 1..(Len(stdout) - 1) /\ (k + 1) - Len(stream) = (k - Len(stream)) + 1
      BY <2>3, <1>2 DEF Piped
    <3>3. stdout'[k - Len(stream)] = stdout[(k + 1) - Len(stream)]  BY <3>2, <1>3
    <3> QED BY <2>1, <2>3, <3>1, <3>3 DEF Pipe, Content
  <2> QED BY <2>2, <2>3
<1>7. DOMAIN Pipe' = 1..(Piped - 1)  BY <1>4 DEF Pipe
<1> QED BY <1>5, <1>6, <1>7

\* Moving a notification from the pipe to the stream does not change the queue.
LEMMA PipeRoutes ==
  ASSUME ConnectionTypeOK, stdout # <<>>, Head(stdout).kind = "note",
         stdout' = Tail(stdout), stream' = Append(stream, Head(stdout).event)
  PROVE  DOMAIN Pipe' = DOMAIN Pipe /\ \A k \in DOMAIN Pipe : Pipe'[k] = Pipe[k]
<1>1. stream \in Seq(Event) /\ stdout \in Seq(Line)  BY DEF ConnectionTypeOK
<1>2. Len(stream) \in Nat /\ Len(stdout) \in Nat /\ Len(stdout) > 0 /\ Head(stdout) = stdout[1]
  BY <1>1
<1>3. Len(stdout') = Len(stdout) - 1 /\ \A j \in 1..(Len(stdout) - 1) : stdout'[j] = stdout[j + 1]
  BY <1>1, <1>2
<1> DEFINE e == Head(stdout).event
<1>4. e \in Event
  <2>1. Head(stdout) \in Line  BY <1>1, <1>2
  <2> QED BY <2>1 DEF Line, Answer, TurnAnswer
<1> HIDE DEF e
<1>5. stream' = Append(stream, e)  BY DEF e
<1>6. /\ Len(stream') = Len(stream) + 1 /\ stream'[Len(stream) + 1] = e
      /\ \A j \in 1..Len(stream) : stream'[j] = stream[j]
  BY <1>1, <1>4, <1>5
<1>7. Piped' = Piped /\ Piped \in Nat  BY <1>2, <1>3, <1>6 DEF Piped
<1>8. ASSUME NEW k \in 1..Piped PROVE Pipe'[k] = Pipe[k]
  <2>1. k \in 1..Piped'  BY <1>7
  <2>2. CASE k <= Len(stream)
    <3>1. k <= Len(stream') /\ k \in 1..Len(stream)  BY <2>2, <1>2, <1>6
    <3> QED BY <2>1, <2>2, <3>1, <1>6 DEF Pipe
  <2>3. CASE k = Len(stream) + 1
    <3>1. ~(k <= Len(stream)) /\ k <= Len(stream') /\ k - Len(stream) = 1  BY <2>3, <1>2, <1>6
    <3>2. Pipe'[k] = e  BY <2>1, <2>3, <3>1, <1>6 DEF Pipe
    <3>3. Pipe[k] = Content(stdout[1])  BY <3>1 DEF Pipe
    <3> QED BY <3>2, <3>3, <1>2 DEF Content, e
  <2>4. CASE k > Len(stream) + 1
    <3>1. ~(k <= Len(stream)) /\ ~(k <= Len(stream'))  BY <2>4, <1>2, <1>6
    <3>2. k - Len(stream') \in 1..(Len(stdout) - 1) /\ (k - Len(stream')) + 1 = k - Len(stream)
      BY <2>4, <1>2, <1>6 DEF Piped
    <3>3. stdout'[k - Len(stream')] = stdout[k - Len(stream)]  BY <3>2, <1>3
    <3> QED BY <2>1, <3>1, <3>3 DEF Pipe, Content
  <2> QED BY <2>2, <2>3, <2>4, <1>2
<1> QED BY <1>7, <1>8 DEF Pipe

\* Reading the stream takes the first of the queue.
LEMMA PipeReads ==
  ASSUME ConnectionTypeOK, stream # <<>>, stream' = Tail(stream), stdout' = stdout
  PROVE  /\ Piped > 0 /\ Pipe[1] = Head(stream)
         /\ DOMAIN Pipe' = 1..(Piped - 1)
         /\ \A k \in 1..(Piped - 1) : Pipe'[k] = Pipe[k + 1]
<1>1. stream \in Seq(Event) /\ stdout \in Seq(Line)  BY DEF ConnectionTypeOK
<1>2. Len(stream) \in Nat /\ Len(stdout) \in Nat /\ Len(stream) > 0 /\ Head(stream) = stream[1]
  BY <1>1
<1>3. Len(stream') = Len(stream) - 1 /\ \A j \in 1..(Len(stream) - 1) : stream'[j] = stream[j + 1]
  BY <1>1, <1>2
<1>4. Piped' = Piped - 1 /\ Piped \in Nat /\ Piped > 0  BY <1>2, <1>3 DEF Piped
<1>5. Pipe[1] = Head(stream)
  <2>1. 1 \in 1..Piped /\ 1 <= Len(stream)  BY <1>2, <1>4
  <2> QED BY <2>1, <1>2 DEF Pipe
<1>6. ASSUME NEW k \in 1..(Piped - 1) PROVE Pipe'[k] = Pipe[k + 1]
  <2>1. k \in 1..Piped' /\ k + 1 \in 1..Piped  BY <1>4
  <2>2. CASE k <= Len(stream) - 1
    <3>1. k <= Len(stream') /\ k + 1 <= Len(stream) /\ k \in 1..(Len(stream) - 1)
      BY <2>2, <1>2, <1>3
    <3> QED BY <2>1, <3>1, <1>3 DEF Pipe
  <2>3. CASE ~(k <= Len(stream) - 1)
    <3>1. ~(k <= Len(stream')) /\ ~(k + 1 <= Len(stream)) /\ k - Len(stream') = (k + 1) - Len(stream)
      BY <2>3, <1>2, <1>3
    <3> QED BY <2>1, <3>1 DEF Pipe, Content
  <2> QED BY <2>2, <2>3
<1>7. DOMAIN Pipe' = 1..(Piped - 1)  BY <1>4 DEF Pipe
<1> QED BY <1>4, <1>5, <1>6, <1>7

\* Nothing else touches the queue.
LEMMA PipeStays ==
  ASSUME UNCHANGED <<stream, stdout>>
  PROVE  Pipe' = Pipe /\ Piped' = Piped
BY DEF Pipe, Piped, Content

\* The steps that leave the caller where it is, and those it takes itself.
ServerStep == Server \/ AnswerAsk \/ Route

\* The server, and the tasks beside the turn, change nothing the caller holds.
LEMMA ServerKeepsClient ==
  ASSUME ServerStep PROVE UNCHANGED client
BY DEF ServerStep, Server, AnswerAsk, Route, ServerAnswer, ServerStartsTurn, ServerInterrupts,
       ServerNoise, ServerAsks, ServerDies, ServerItem, ServerEndsTurn

ClientStep ==
  \/ Open \/ StartTurn \/ ReadMalformed \/ ReadEvent \/ Judge \/ Fallback \/ Close
  \/ \E line \in {Head(stdout)} :
       Initialized(line) \/ ThreadOpened(line) \/ TurnStarted(line) \/ Interrupted(line)
  \/ RequestFails \/ Deadline \/ Grace \/ RefuseAsk

\* Every step is one or the other.
LEMMA NextSplits ==
  ConnectionNext => ClientStep \/ ServerStep
<1>1. Timer => ClientStep  BY DEF Timer, ClientStep
<1>2. Caller => ClientStep  BY DEF Caller, ClientStep
<1> QED BY <1>1, <1>2 DEF ConnectionNext, ServerStep, ClientStep

\* The caller does not change what the server has done.
LEMMA ClientKeepsServed ==
  ASSUME ClientStep PROVE UNCHANGED <<caller, served>>
BY DEF ClientStep, Open, StartTurn, ReadMalformed, ReadEvent, Judge, Fallback, Close, Initialized,
       ThreadOpened, TurnStarted, Interrupted, RequestFails, Deadline, Grace, RefuseAsk, server

\* Where a caller goes from a turn that ended.
LEMMA JudgedRange ==
  ASSUME caller \in {"spike", "task", "interview"}
  PROVE  Judged \in {"ready", "raise", "close", "fallback"}
<1>1. CASE caller = "spike"  BY <1>1 DEF Judged
<1>2. CASE caller = "task"  BY <1>2 DEF Judged
<1>3. CASE caller = "interview"  BY <1>3 DEF Judged
<1> QED BY <1>1, <1>2, <1>3

\* "started" is unset only in the first request, whatever step is taken.
LEMMA StartedStep ==
  ASSUME StartedUnlessFirst, RequestsInOrder, [ConnectionNext]_connection
  PROVE  StartedUnlessFirst'
<1>1. CASE UNCHANGED client
  BY <1>1 DEF client, StartedUnlessFirst, Asks
<1>2. CASE Open  BY <1>2 DEF Open, StartedUnlessFirst, Asks
<1>3. CASE StartTurn  BY <1>3 DEF StartTurn, Send, StartedUnlessFirst, Asks
<1>4. CASE ReadMalformed  BY <1>4 DEF ReadMalformed, StartedUnlessFirst, Asks
<1>5. CASE ReadEvent  BY <1>5 DEF ReadEvent, StartedUnlessFirst, Asks
<1>6. CASE Judge  BY <1>6 DEF Judge, StartedUnlessFirst, Asks
<1>7. CASE Fallback  BY <1>7 DEF Fallback, StartedUnlessFirst, Asks
<1>8. CASE Close  BY <1>8 DEF Close, StartedUnlessFirst
<1>9. CASE RequestFails
  <2>1. CASE request.method = "initialize"
    BY <1>9, <2>1 DEF RequestFails, StartedUnlessFirst, Asks
  <2>2. CASE request.method # "initialize"
    BY <1>9, <2>2 DEF RequestFails, StartedUnlessFirst, Asks
  <2> QED BY <2>1, <2>2
<1>10. CASE Deadline  BY <1>10 DEF Deadline, Send, StartedUnlessFirst, Asks
<1>11. CASE Grace  BY <1>11 DEF Grace, Graced, StartedUnlessFirst, Asks
<1>12. CASE RefuseAsk  BY <1>12 DEF RefuseAsk, Responding, StartedUnlessFirst
<1>13. ASSUME NEW line,
              Initialized(line) \/ ThreadOpened(line) \/ TurnStarted(line) \/ Interrupted(line)
       PROVE StartedUnlessFirst'
  BY <1>13 DEF Initialized, ThreadOpened, TurnStarted, Interrupted, Awaits, StartedUnlessFirst, Asks
<1> QED BY <1>1, <1>2, <1>3, <1>4, <1>5, <1>6, <1>7, <1>8, <1>9, <1>10, <1>11, <1>12, <1>13,
           NextSplits, ServerKeepsClient DEF ClientStep, connection, client

\* No step leaves a server behind.
LEMMA ReapedStep ==
  ASSUME NoServerLeftBehind, StartedUnlessFirst, ConnectionTypeOK, [ConnectionNext]_connection
  PROVE  NoServerLeftBehind'
<1>1. CASE Close
  <2>1. CASE Reaps  BY <1>1, <2>1 DEF Close, NoServerLeftBehind
  <2>2. CASE ~Reaps
    BY <1>1, <2>2 DEF Close, Reaps, NoServerLeftBehind, StartedUnlessFirst
  <2> QED BY <2>1, <2>2
<1>2. CASE ServerStep
  <2>1. process' = process \/ (process = "up" /\ process' = "dead")
    BY <1>2 DEF ServerStep, Server, AnswerAsk, Route, ServerAnswer, ServerStartsTurn,
       ServerInterrupts, ServerNoise, ServerAsks, ServerDies, ServerItem, ServerEndsTurn
  <2>2. UNCHANGED <<caller, pc, sent>>  BY <1>2, ServerKeepsClient DEF client
  <2> QED BY <2>1, <2>2 DEF NoServerLeftBehind
<1>3. CASE UNCHANGED connection  BY <1>3 DEF connection, client, NoServerLeftBehind
<1>4. ASSUME ClientStep, ~Close PROVE pc' # "closed"
  <2>1. Judged # "closed"  BY JudgedRange DEF ConnectionTypeOK
  <2> QED BY <1>4, <2>1 DEF ClientStep, Open, StartTurn, ReadMalformed, ReadEvent, Judge, Fallback,
       Initialized, ThreadOpened, TurnStarted, Interrupted, RequestFails, Deadline, Grace,
       RefuseAsk, Send
<1> QED BY <1>1, <1>2, <1>3, <1>4, NextSplits DEF NoServerLeftBehind

\* Every step of run_spike keeps its count.
LEMMA AuditedStep ==
  ASSUME AuditedSoFar, ConnectionTypeOK, [ConnectionNext]_connection
  PROVE  AuditedSoFar'
<1>20. caller' = caller
  BY NextSplits, ServerKeepsClient, ClientKeepsServed DEF connection, client
<1> SUFFICES ASSUME caller = "spike", caller' = "spike" PROVE AuditedSoFar'
  BY <1>20 DEF AuditedSoFar
<1>0. step \in Nat /\ audited \in Nat /\ Turns = 3
  BY DEF ConnectionTypeOK, Turns
<1>1. CASE UNCHANGED client  BY <1>1 DEF client, AuditedSoFar, Underway, Asks
<1>2. CASE Open  BY <1>2 DEF Open, AuditedSoFar, Underway, Asks
<1>3. CASE StartTurn  BY <1>3, <1>0 DEF StartTurn, Send, AuditedSoFar, Underway, Asks
<1>4. CASE ReadMalformed  BY <1>4 DEF ReadMalformed, AuditedSoFar, Underway, Asks
<1>5. CASE ReadEvent
  <2>1. pc' \in {"streaming", "draining", "returned", "raise"}  BY <1>5 DEF ReadEvent
  <2> QED BY <1>5, <2>1 DEF ReadEvent, AuditedSoFar, Underway, Asks
<1>6. CASE Judge
  <2>1. step = audited + 1 /\ result # "valid"  BY <1>6 DEF Judge, AuditedSoFar, Underway
  <2>2. Judged \in {"ready", "raise", "close", "fallback"}  BY DEF Judged
  <2>3. Judged = "close" => Message = "valid" /\ step # 1  BY DEF Judged
  <2>4. Judged = "fallback" => step = 3  BY <1>0 DEF Judged
  <2>5. /\ pc' = Judged /\ UNCHANGED <<step, request>> /\ audited' = audited + 1
        /\ result' = IF Judged = "close" THEN Message ELSE result
    BY <1>6 DEF Judge
  <2> HIDE DEF Judged, Message
  <2>6. step' = audited' /\ ~Underway'  BY <2>1, <2>2, <2>5, <1>0 DEF Underway, Asks
  <2>7. CASE Judged = "close"
    <3>1. pc' = "close" /\ result' = "valid" /\ step' >= 2
      <4>1. step # 0  BY <2>1, <1>0
      <4> QED BY <2>3, <2>5, <2>7, <4>1, <1>0
    <3> QED BY <2>6, <3>1 DEF AuditedSoFar
  <2>8. CASE Judged # "close"
    <3>1. result' # "valid" /\ pc' # "close" /\ (pc' = "fallback" => step' = 3)
      BY <2>1, <2>4, <2>5, <2>8
    <3> QED BY <2>6, <3>1 DEF AuditedSoFar
  <2> QED BY <2>7, <2>8
<1>7. CASE Fallback
  <2>1. step = audited /\ step = 3 /\ result # "valid"
    BY <1>7 DEF Fallback, AuditedSoFar, Underway, Asks
  <2>2. Nil # "valid"  BY NilIsNoValue
  <2> QED BY <1>7, <2>1, <2>2 DEF Fallback, AuditedSoFar, Underway, Asks
<1>8. CASE Close  BY <1>8 DEF Close, AuditedSoFar, Underway, Asks
<1>9. CASE RequestFails  BY <1>9 DEF RequestFails, AuditedSoFar, Underway, Asks
<1>10. CASE Deadline  BY <1>10 DEF Deadline, Send, AuditedSoFar, Underway, Asks
<1>11. CASE Grace  BY <1>11 DEF Grace, Graced, AuditedSoFar, Underway, Asks
<1>12. CASE RefuseAsk  BY <1>12 DEF RefuseAsk, Responding, AuditedSoFar, Underway, Asks
<1>13. ASSUME NEW line, Initialized(line) \/ ThreadOpened(line) PROVE AuditedSoFar'
  BY <1>13 DEF Initialized, ThreadOpened, Send, Awaits, AuditedSoFar, Underway, Asks
<1>14. ASSUME NEW line, TurnStarted(line) \/ Interrupted(line) PROVE AuditedSoFar'
  BY <1>14 DEF TurnStarted, Interrupted, Awaits, AuditedSoFar, Underway, Asks
<1> QED BY <1>1, <1>2, <1>3, <1>4, <1>5, <1>6, <1>7, <1>8, <1>9, <1>10, <1>11, <1>12, <1>13, <1>14,
           NextSplits, ServerKeepsClient DEF ClientStep, connection, client

\* The spike's record is settled from what the counts say.
LEMMA SettledStep ==
  ASSUME SpikeIsSettled, AuditedSoFar, ConnectionTypeOK, [ConnectionNext]_connection
  PROVE  SpikeIsSettled'
<1>1. CASE Close
  BY <1>1 DEF Close, SpikeIsSettled, AuditedSoFar
<1>2. CASE UNCHANGED client  BY <1>2 DEF client, SpikeIsSettled
<1>3. ASSUME ClientStep, ~Close PROVE pc' # "closed"
  <2>1. Judged # "closed"  BY JudgedRange DEF ConnectionTypeOK
  <2> QED BY <1>3, <2>1 DEF ClientStep, Open, StartTurn, ReadMalformed, ReadEvent, Judge, Fallback,
       Initialized, ThreadOpened, TurnStarted, Interrupted, RequestFails, Deadline, Grace,
       RefuseAsk, Send
<1> QED BY <1>1, <1>2, <1>3, NextSplits, ServerKeepsClient DEF SpikeIsSettled, connection

\* The kinds of effect a step has on the pipe, the stream and the turns.
TurnRecord == [status: TurnStatus, emitted: Seq(Event), interrupted: BOOLEAN]

SameTurns ==
  /\ served' \in Seq(TurnRecord) /\ Len(served') = Len(served)
  /\ \A t \in 1..Len(served) :
       served'[t].emitted = served[t].emitted /\ served'[t].status = served[t].status

SaysAnswer ==
  /\ pc = "await" /\ request.method # "turn/start"
  /\ \E line \in Answer : line.nr = request.nr /\ Say(line)
  /\ stream' = stream /\ SameTurns

SaysTurn ==
  /\ Asks("turn/start") /\ Len(served) < step
  /\ ~\E i \in DOMAIN stdout : stdout[i].kind = "reply" /\ stdout[i].nr = request.nr
  /\ \E line \in TurnAnswer : line.nr = request.nr /\ line.turn = Len(served) + 1 /\ Say(line)
  /\ stream' = stream
  /\ served' = Append(served, [status |-> "inProgress", emitted |-> <<>>, interrupted |-> FALSE])

SaysEvent(turn) ==
  \E event \in Event :
    /\ OwnAt(event, turn) /\ served[turn].status = "inProgress"
    /\ Say([kind |-> "note", event |-> event]) /\ stream' = stream
    /\ served' \in Seq(TurnRecord) /\ Len(served') = Len(served)
    /\ served'[turn].emitted = Append(served[turn].emitted, event)
    /\ event.kind = "turn_completed" => served'[turn].status # "inProgress"
    /\ event.kind # "turn_completed" => served'[turn].status = "inProgress"
    /\ \A t \in 1..Len(served) : t # turn => served'[t] = served[t]

SaysNoise ==
  \E event \in Event :
    /\ event.kind # "malformed" => event.turn = 0
    /\ Say([kind |-> "note", event |-> event]) /\ stream' = stream /\ served' = served

Drops ==
  /\ stdout # <<>> /\ Head(stdout).kind = "reply"
  /\ stdout' = Tail(stdout) /\ stream' = stream /\ served' = served

RoutesNote ==
  /\ stdout # <<>> /\ Head(stdout).kind = "note" /\ Len(stream) < StreamSize
  /\ stdout' = Tail(stdout) /\ stream' = Append(stream, Head(stdout).event) /\ served' = served

Quiet == UNCHANGED <<stdout, stream, served>>

\* The types of the turns the server has.
LEMMA TurnsType ==
  ASSUME ConnectionTypeOK
  PROVE  /\ served \in Seq(TurnRecord) /\ Len(served) \in Nat /\ DOMAIN served = 1..Len(served)
         /\ \A t \in 1..Len(served) : served[t] \in TurnRecord /\ served[t].emitted \in Seq(Event)
<1>1. served \in Seq(TurnRecord)  BY DEF ConnectionTypeOK, TurnRecord
<1>2. Len(served) \in Nat /\ DOMAIN served = 1..Len(served)  BY <1>1
<1>3. \A t \in 1..Len(served) : served[t] \in TurnRecord  BY <1>1, <1>2
<1> QED BY <1>1, <1>2, <1>3 DEF TurnRecord

\* A notification is a line with its event as content.
LEMMA NoteIsLine ==
  ASSUME NEW event \in Event
  PROVE  LET line == [kind |-> "note", event |-> event] IN
         line \in Line /\ line.kind = "note" /\ Content(line) = event
BY DEF Line, Content

\* An answer is a line without content.
LEMMA AnswerIsLine ==
  ASSUME NEW line \in Answer \cup TurnAnswer
  PROVE  /\ line \in Line /\ line.kind = "reply" /\ line.nr \in Nat
         /\ Content(line) = [kind |-> "malformed"]
BY DEF Line, Content, Answer, TurnAnswer

\* A step beside the caller has one of these effects.
LEMMA ServerEffect ==
  ASSUME ConnectionTypeOK, RequestsInOrder, ServerStep
  PROVE  \/ SaysAnswer \/ SaysTurn \/ SaysNoise \/ Drops \/ RoutesNote \/ Quiet
         \/ \E turn \in 1..Len(served) : SaysEvent(turn)
<1>0. /\ served \in Seq(TurnRecord) /\ Len(served) \in Nat /\ DOMAIN served = 1..Len(served)
      /\ \A t \in 1..Len(served) : served[t] \in TurnRecord /\ served[t].emitted \in Seq(Event)
  BY TurnsType
<1>1. pc = "await" => request \in Request /\ request.nr \in Nat
  BY DEF RequestsInOrder, ConnectionTypeOK, Request
<1>2. CASE ServerAnswer
  <2>1. pc = "await" /\ request.method # "turn/start"  BY <1>2 DEF ServerAnswer, Answers, Awaits
  <2>2. [kind |-> "reply", nr |-> request.nr, ok |-> TRUE] \in Answer  BY <2>1, <1>1 DEF Answer
  <2>3. SameTurns  BY <1>2, <1>0 DEF ServerAnswer, server, SameTurns
  <2>4. stream' = stream /\ Say([kind |-> "reply", nr |-> request.nr, ok |-> TRUE])
    BY <1>2 DEF ServerAnswer
  <2>5. SaysAnswer  BY <2>1, <2>2, <2>3, <2>4 DEF SaysAnswer
  <2> QED BY <2>5
<1>3. CASE ServerInterrupts
  <2>1. pc = "await" /\ request.method # "turn/start"  BY <1>3 DEF ServerInterrupts, Answers, Awaits
  <2>2. [kind |-> "reply", nr |-> request.nr, ok |-> TRUE] \in Answer  BY <2>1, <1>1 DEF Answer
  <2>3. SameTurns
    <3>1. served' = [served EXCEPT ![current].interrupted = TRUE]  BY <1>3 DEF ServerInterrupts
    <3>2. served' \in Seq(TurnRecord) /\ Len(served') = Len(served)
      <4>1. current \in 1..Len(served) => [served[current] EXCEPT !.interrupted = TRUE] \in TurnRecord
        BY <1>0 DEF TurnRecord
      <4> DEFINE R == [served[current] EXCEPT !.interrupted = TRUE]
      <4>2. served' = [served EXCEPT ![current] = R]  BY <3>1
      <4>3. current \in 1..Len(served) => R \in TurnRecord  BY <4>1
      <4> HIDE DEF R
      <4>4. CASE current \in 1..Len(served)  BY <4>2, <4>3, <4>4, <1>0
      <4>5. CASE current \notin 1..Len(served)
        <5>1. served' = served  BY <4>2, <4>5, <1>0
        <5> QED BY <5>1, <1>0
      <4> QED BY <4>4, <4>5
    <3>3. \A t \in 1..Len(served) :
            served'[t].emitted = served[t].emitted /\ served'[t].status = served[t].status
      BY <3>1, <1>0 DEF TurnRecord
    <3> QED BY <3>2, <3>3 DEF SameTurns
  <2>4. stream' = stream /\ Say([kind |-> "reply", nr |-> request.nr, ok |-> TRUE])
    BY <1>3 DEF ServerInterrupts
  <2>5. SaysAnswer  BY <2>1, <2>2, <2>3, <2>4 DEF SaysAnswer
  <2> QED BY <2>5
<1>4. CASE ServerStartsTurn
  <2>1. /\ Asks("turn/start") /\ Len(served) < step /\ stream' = stream
        /\ ~\E i \in DOMAIN stdout : stdout[i].kind = "reply" /\ stdout[i].nr = request.nr
        /\ Say([kind |-> "reply", nr |-> request.nr, ok |-> TRUE, turn |-> Len(served) + 1])
        /\ served' = Append(served, [status |-> "inProgress", emitted |-> <<>>, interrupted |-> FALSE])
    BY <1>4 DEF ServerStartsTurn, Answers, Awaits, Asks
  <2>2. [kind |-> "reply", nr |-> request.nr, ok |-> TRUE, turn |-> Len(served) + 1] \in TurnAnswer
    BY <2>1, <1>0, <1>1 DEF TurnAnswer, Asks
  <2>3. SaysTurn  BY <2>1, <2>2 DEF SaysTurn
  <2> QED BY <2>3
<1>5. CASE ServerNoise
  <2>1. PICK event \in {[kind |-> "malformed"],
                   [kind |-> "item_completed", turn |-> 0, message |-> "valid"],
                   [kind |-> "turn_completed", turn |-> 0, status |-> "completed"]} :
               Say([kind |-> "note", event |-> event])
    BY <1>5 DEF ServerNoise
  <2>2. event \in Event /\ (event.kind # "malformed" => event.turn = 0)
    BY <2>1 DEF Event, TurnStatus
  <2>3. stream' = stream /\ served' = served  BY <1>5 DEF ServerNoise
  <2>4. SaysNoise  BY <2>1, <2>2, <2>3 DEF SaysNoise
  <2> QED BY <2>4
<1>6. CASE Route
  <2>1. CASE Head(stdout).kind = "reply"  BY <1>6, <2>1 DEF Route, Drops, server
  <2>2. CASE Head(stdout).kind # "reply"  BY <1>6, <2>2 DEF Route, RoutesNote, server
  <2> QED BY <2>1, <2>2
<1>7. CASE ServerAsks \/ ServerDies \/ AnswerAsk
  BY <1>7 DEF ServerAsks, ServerDies, AnswerAsk, Quiet, server
<1>8. ASSUME NEW turn \in 1..Len(served), ServerItem(turn) PROVE SaysEvent(turn)
  <2>1. PICK message \in {"valid", "invalid", Nil} :
           LET event == [kind |-> "item_completed", turn |-> turn, message |-> message] IN
           /\ Emits(turn, event)
           /\ served' = [served EXCEPT ![turn].emitted = Append(@, event)]
    BY <1>8 DEF ServerItem
  <2> DEFINE event == [kind |-> "item_completed", turn |-> turn, message |-> message]
  <2>2. event \in Event /\ event.kind = "item_completed" /\ event.turn = turn  BY <1>0 DEF Event
  <2>3. /\ Say([kind |-> "note", event |-> event]) /\ served[turn].status = "inProgress"
        /\ stream' = stream
    BY <2>1, <1>8 DEF Emits, ServerItem
  <2> HIDE DEF event
  <2>4. served' = [served EXCEPT ![turn].emitted = Append(@, event)]  BY <2>1 DEF event
  <2>5. /\ served' \in Seq(TurnRecord) /\ Len(served') = Len(served)
        /\ served'[turn].emitted = Append(served[turn].emitted, event)
        /\ served'[turn].status = "inProgress"
        /\ \A t \in 1..Len(served) : t # turn => served'[t] = served[t]
    <3>1. [served[turn] EXCEPT !.emitted = Append(@, event)] \in TurnRecord
      <4>1. Append(served[turn].emitted, event) \in Seq(Event)  BY <1>0, <2>2
      <4> QED BY <4>1, <1>0 DEF TurnRecord
    <3>2. served' \in Seq(TurnRecord) /\ Len(served') = Len(served)  BY <3>1, <2>4, <1>0
    <3>3. served'[turn] = [served[turn] EXCEPT !.emitted = Append(@, event)]  BY <2>4, <1>0
    <3>4. served[turn] \in TurnRecord  BY <1>0
    <3>5. served'[turn].emitted = Append(served[turn].emitted, event)
      BY <3>3, <3>4 DEF TurnRecord
    <3>6. served'[turn].status = "inProgress"
      BY <3>3, <3>4, <2>3 DEF TurnRecord
    <3>7. \A t \in 1..Len(served) : t # turn => served'[t] = served[t]  BY <2>4, <1>0
    <3> QED BY <3>2, <3>5, <3>6, <3>7
  <2> QED BY <2>2, <2>3, <2>5 DEF SaysEvent, OwnAt
<1>9. ASSUME NEW turn \in 1..Len(served), ServerEndsTurn(turn) PROVE SaysEvent(turn)
  <2>1. PICK status \in TurnStatus \ {"inProgress"} :
           LET event == [kind |-> "turn_completed", turn |-> turn, status |-> status] IN
           /\ Emits(turn, event)
           /\ served' = [served EXCEPT ![turn].status = status, ![turn].emitted = Append(@, event)]
    BY <1>9 DEF ServerEndsTurn, TurnStatus
  <2> DEFINE event == [kind |-> "turn_completed", turn |-> turn, status |-> status]
  <2>2. event \in Event /\ event.kind = "turn_completed" /\ event.turn = turn  BY <1>0 DEF Event
  <2>3. /\ Say([kind |-> "note", event |-> event]) /\ served[turn].status = "inProgress"
        /\ stream' = stream
    BY <2>1, <1>9 DEF Emits, ServerEndsTurn
  <2> HIDE DEF event
  <2>4. served' = [served EXCEPT ![turn].status = status, ![turn].emitted = Append(@, event)]
    BY <2>1 DEF event
  <2>5. /\ served' \in Seq(TurnRecord) /\ Len(served') = Len(served)
        /\ served'[turn].emitted = Append(served[turn].emitted, event)
        /\ served'[turn].status = status
        /\ \A t \in 1..Len(served) : t # turn => served'[t] = served[t]
    <3>0. served[turn] \in TurnRecord /\ turn \in DOMAIN served  BY <1>0
    <3> DEFINE R == [served[turn] EXCEPT !.status = status, !.emitted = Append(@, event)]
    <3>1. R \in TurnRecord /\ R.emitted = Append(served[turn].emitted, event) /\ R.status = status
      <4>1. Append(served[turn].emitted, event) \in Seq(Event)  BY <1>0, <2>2
      <4> QED BY <4>1, <3>0 DEF TurnRecord
    <3>2. served' = [served EXCEPT ![turn] = R]
      BY <2>4, <3>0
    <3> HIDE DEF R
    <3>3. served' \in Seq(TurnRecord) /\ Len(served') = Len(served)  BY <3>1, <3>2, <1>0
    <3>4. served'[turn] = R /\ \A t \in 1..Len(served) : t # turn => served'[t] = served[t]
      BY <3>2, <1>0
    <3> QED BY <3>1, <3>3, <3>4
  <2>6. served'[turn].status # "inProgress"  BY <2>1, <2>5
  <2> QED BY <2>2, <2>3, <2>5, <2>6 DEF SaysEvent, OwnAt
<1> QED BY <1>0, <1>2, <1>3, <1>4, <1>5, <1>6, <1>7, <1>8, <1>9 DEF ServerStep, Server

\* A turn only grows, and not once it is over.
Grown(t) ==
  /\ t \in DOMAIN served'
  /\ Len(served[t].emitted) <= Len(served'[t].emitted)
  /\ \A i \in DOMAIN served[t].emitted : served'[t].emitted[i] = served[t].emitted[i]
  /\ served[t].status # "inProgress" =>
       served'[t].emitted = served[t].emitted /\ served'[t].status # "inProgress"

\* Any of the effects.
EffectOnPipe ==
  SaysAnswer \/ SaysTurn \/ SaysNoise \/ Drops \/ RoutesNote \/ Quiet
    \/ \E turn \in 1..Len(served) : SaysEvent(turn)

\* A turn that does not change has grown in this sense.
LEMMA SameGrown ==
  ASSUME ConnectionTypeOK, NEW t \in 1..Len(served),
         Len(served') = Len(served), served' \in Seq(TurnRecord),
         served'[t].emitted = served[t].emitted, served'[t].status = served[t].status
  PROVE  Grown(t)
<1>1. served[t].emitted \in Seq(Event)  BY TurnsType
<1>2. t \in DOMAIN served'  OBVIOUS
<1> QED BY <1>1, <1>2 DEF Grown

\* Every effect lets the turns grow.
LEMMA Growth ==
  ASSUME ConnectionTypeOK, EffectOnPipe, NEW t \in 1..Len(served)
  PROVE  Grown(t)
<1>0. /\ served \in Seq(TurnRecord) /\ Len(served) \in Nat /\ DOMAIN served = 1..Len(served)
      /\ \A s \in 1..Len(served) : served[s] \in TurnRecord /\ served[s].emitted \in Seq(Event)
  BY TurnsType
<1>1. CASE SaysAnswer  BY <1>1, SameGrown DEF SaysAnswer, SameTurns
<1>2. CASE SaysNoise \/ Drops \/ RoutesNote \/ Quiet
  BY <1>2, <1>0, SameGrown DEF SaysNoise, Drops, RoutesNote, Quiet
<1>3. CASE SaysTurn
  <2>1. served' = Append(served, [status |-> "inProgress", emitted |-> <<>>, interrupted |-> FALSE])
    BY <1>3 DEF SaysTurn
  <2>2. t \in DOMAIN served' /\ served'[t] = served[t]  BY <2>1, <1>0
  <2> QED BY <2>2, <1>0 DEF Grown
<1>4. ASSUME NEW turn \in 1..Len(served), SaysEvent(turn) PROVE Grown(t)
  <2>1. PICK event \in Event :
          /\ served[turn].status = "inProgress"
          /\ served' \in Seq(TurnRecord) /\ Len(served') = Len(served)
          /\ served'[turn].emitted = Append(served[turn].emitted, event)
          /\ \A s \in 1..Len(served) : s # turn => served'[s] = served[s]
    BY <1>4 DEF SaysEvent
  <2>2. CASE t # turn
    <3>1. served'[t] = served[t]  BY <2>1, <2>2
    <3> QED BY <2>1, <3>1, SameGrown
  <2>3. CASE t = turn
    <3>1. t \in DOMAIN served'  BY <2>1, <1>0
    <3>2. served[t].emitted \in Seq(Event)  BY <1>0
    <3>3. /\ Len(served[t].emitted) <= Len(Append(served[t].emitted, event))
          /\ \A i \in DOMAIN served[t].emitted :
               Append(served[t].emitted, event)[i] = served[t].emitted[i]
      BY <3>2
    <3> QED BY <2>1, <2>3, <3>1, <3>3 DEF Grown
  <2> QED BY <2>2, <2>3
<1> QED BY <1>1, <1>2, <1>3, <1>4 DEF EffectOnPipe

\* Whatever happens to pipe and stream but reading, the queue holds what is still to be read
\* of a turn.
LEMMA StillHolds ==
  ASSUME ConnectionTypeOK, ServedInOrder, EffectOnPipe,
         NEW t \in 1..Len(served), NEW n \in 0..Len(served[t].emitted),
         Holds(Pipe, t, served[t].emitted, n)
  PROVE  Holds(Pipe', t, served'[t].emitted, n)
<1> DEFINE E == served[t].emitted
<1>0. /\ served \in Seq(TurnRecord) /\ Len(served) \in Nat /\ DOMAIN served = 1..Len(served)
      /\ E \in Seq(Event)
  BY TurnsType
<1>1. Piped \in Nat /\ DOMAIN Pipe = 1..Piped  BY PipeType
<1>2. \A i \in 1..Len(E) : OwnAt(E[i], t)  BY <1>0 DEF ServedInOrder
<1>3. t # 0 /\ t # Len(served) + 1  BY <1>0
<1>4. ASSUME NEW line \in Line, Say(line), stream' = stream, ~OwnAt(Content(line), t)
      PROVE Holds(Pipe', t, E, n)
  <2>1. /\ DOMAIN Pipe' = 1..(Piped + 1) /\ \A k \in 1..Piped : Pipe'[k] = Pipe[k]
        /\ ~OwnAt(Pipe'[Piped + 1], t)
    BY <1>4, PipeSays
  <2> HIDE DEF E
  <2>2. Holds(Pipe, t, E, n) /\ n \in 0..Len(E)  BY DEF E
  <2> QED BY <2>1, <2>2, <1>0, <1>1, HoldsOther
<1>5. CASE SaysAnswer
  <2>1. PICK line \in Answer : Say(line)  BY <1>5 DEF SaysAnswer
  <2>2. line \in Line /\ ~OwnAt(Content(line), t)  BY AnswerIsLine DEF OwnAt
  <2>3. stream' = stream /\ served'[t].emitted = E  BY <1>5 DEF SaysAnswer, SameTurns
  <2> QED BY <2>1, <2>2, <2>3, <1>4
<1>6. CASE SaysTurn
  <2>1. PICK line \in TurnAnswer : Say(line)  BY <1>6 DEF SaysTurn
  <2>2. line \in Line /\ ~OwnAt(Content(line), t)  BY AnswerIsLine DEF OwnAt
  <2>3. stream' = stream /\ served'[t].emitted = E  BY <1>6, <1>0 DEF SaysTurn
  <2> QED BY <2>1, <2>2, <2>3, <1>4
<1>7. CASE SaysNoise
  <2>1. PICK event \in Event :
          /\ event.kind # "malformed" => event.turn = 0
          /\ Say([kind |-> "note", event |-> event])
    BY <1>7 DEF SaysNoise
  <2> DEFINE line == [kind |-> "note", event |-> event]
  <2>2. line \in Line /\ Content(line) = event  BY NoteIsLine
  <2> HIDE DEF line
  <2>3. ~OwnAt(event, t)  BY <2>1, <1>3 DEF OwnAt
  <2>4. Say(line)  BY <2>1 DEF line
  <2>5. stream' = stream /\ served'[t].emitted = E  BY <1>7 DEF SaysNoise
  <2> QED BY <2>2, <2>3, <2>4, <2>5, <1>4
<1>8. CASE Drops
  <2>1. LET p == Len(stream) + 1 IN
        /\ p \in 1..Piped /\ Pipe[p].kind = "malformed"
        /\ DOMAIN Pipe' = 1..(Piped - 1)
        /\ \A k \in 1..(Piped - 1) : Pipe'[k] = IF k < p THEN Pipe[k] ELSE Pipe[k + 1]
    BY <1>8, PipeDrops DEF Drops
  <2>2. ~OwnAt(Pipe[Len(stream) + 1], t)  BY <2>1 DEF OwnAt
  <2>3. served'[t].emitted = E  BY <1>8 DEF Drops
  <2> HIDE DEF E
  <2>4. Holds(Pipe, t, E, n) /\ n \in 0..Len(E)  BY DEF E
  <2>5. Holds(Pipe', t, E, n)  BY <2>1, <2>2, <2>4, <1>0, <1>1, <1>2, HoldsWithout
  <2> QED BY <2>3, <2>5
<1>9. CASE RoutesNote
  <2>1. DOMAIN Pipe' = DOMAIN Pipe /\ \A k \in DOMAIN Pipe : Pipe'[k] = Pipe[k]
    BY <1>9, PipeRoutes DEF RoutesNote
  <2>2. served'[t].emitted = E  BY <1>9 DEF RoutesNote
  <2>3. Holds(Pipe', t, E, n)  BY <2>1, HoldsUpTo
  <2> QED BY <2>2, <2>3
<1>10. CASE Quiet
  <2>1. Pipe' = Pipe /\ served' = served  BY <1>10, PipeStays DEF Quiet
  <2> QED BY <2>1
<1>11. ASSUME NEW turn \in 1..Len(served), SaysEvent(turn) PROVE Holds(Pipe', t, served'[t].emitted, n)
  <2>1. PICK event \in Event :
          /\ OwnAt(event, turn)
          /\ Say([kind |-> "note", event |-> event]) /\ stream' = stream
          /\ served'[turn].emitted = Append(served[turn].emitted, event)
          /\ \A s \in 1..Len(served) : s # turn => served'[s] = served[s]
    BY <1>11 DEF SaysEvent
  <2> DEFINE line == [kind |-> "note", event |-> event]
  <2>2. line \in Line /\ Content(line) = event  BY NoteIsLine
  <2> HIDE DEF line
  <2>3. Say(line)  BY <2>1 DEF line
  <2>4. CASE t # turn
    <3>1. ~OwnAt(event, t)  BY <2>1, <2>4 DEF OwnAt
    <3>2. served'[t] = served[t]  BY <2>1, <2>4
    <3> QED BY <2>1, <2>2, <2>3, <3>1, <3>2, <1>4
  <2>5. CASE t = turn
    <3>1. /\ DOMAIN Pipe' = 1..(Piped + 1) /\ \A k \in 1..Piped : Pipe'[k] = Pipe[k]
          /\ Pipe'[Piped + 1] = event
      BY <2>1, <2>2, <2>3, PipeSays
    <3>2. served'[t].emitted = Append(E, Pipe'[Piped + 1])  BY <2>1, <2>5, <3>1
    <3> HIDE DEF E
    <3>3. Holds(Pipe, t, E, n) /\ n \in 0..Len(E)  BY DEF E
    <3>4. Holds(Pipe', t, Append(E, Pipe'[Piped + 1]), n)
      BY <3>1, <3>3, <1>0, <1>1, HoldsOwn
    <3> QED BY <3>2, <3>4
  <2> QED BY <2>4, <2>5
<1> QED BY <1>5, <1>6, <1>7, <1>8, <1>9, <1>10, <1>11 DEF EffectOnPipe

\* The events of a turn are its own, with its end last.
EmittedFit(t, turns) ==
  \A i \in DOMAIN turns[t].emitted :
    /\ OwnAt(turns[t].emitted[i], t)
    /\ turns[t].emitted[i].kind = "turn_completed" =>
         i = Len(turns[t].emitted) /\ turns[t].status # "inProgress"

\* ServedInOrder with that name.
LEMMA ServedInOrderParts ==
  ServedInOrder <=>
    /\ Len(served) <= step
    /\ \A k \in DOMAIN Pipe : Pipe[k].kind # "malformed" => Pipe[k].turn <= Len(served)
    /\ \A t \in DOMAIN served : EmittedFit(t, served)
BY DEF ServedInOrder, EmittedFit

\* A turn that does not change keeps it.
LEMMA EmittedSame ==
  ASSUME NEW t, EmittedFit(t, served),
         served'[t].emitted = served[t].emitted, served'[t].status = served[t].status
  PROVE  EmittedFit(t, served')
BY DEF EmittedFit

\* Every effect keeps ServedInOrder.
LEMMA ServedEffect ==
  ASSUME ConnectionTypeOK, ServedInOrder, EffectOnPipe, step' \in Nat, step <= step'
  PROVE  ServedInOrder'
<1> DEFINE Bounded(e) == e.kind # "malformed" => e.turn <= Len(served)
<1>0. /\ served \in Seq(TurnRecord) /\ Len(served) \in Nat /\ DOMAIN served = 1..Len(served)
      /\ \A s \in 1..Len(served) : served[s] \in TurnRecord /\ served[s].emitted \in Seq(Event)
      /\ step \in Nat
  BY TurnsType DEF ConnectionTypeOK, Turns, CodexClientAssumption
<1>1. Piped \in Nat /\ DOMAIN Pipe = 1..Piped /\ \A k \in 1..Piped : Pipe[k] \in Event  BY PipeType
<1>2. /\ Len(served) <= step /\ \A k \in 1..Piped : Bounded(Pipe[k])
      /\ \A t \in 1..Len(served) : EmittedFit(t, served)
  BY <1>0, <1>1, ServedInOrderParts
<1>3. (ServedInOrder <=>
        /\ Len(served) <= step
        /\ \A k \in DOMAIN Pipe : Pipe[k].kind # "malformed" => Pipe[k].turn <= Len(served)
        /\ \A t \in DOMAIN served : EmittedFit(t, served))'
  BY DEF ServedInOrder, EmittedFit
<1>4. ASSUME NEW line \in Line, Say(line), stream' = stream
      PROVE  /\ DOMAIN Pipe' = 1..(Piped + 1) /\ \A k \in 1..Piped : Pipe'[k] = Pipe[k]
             /\ Pipe'[Piped + 1] = Content(line)
  BY <1>4, PipeSays
<1>5. ASSUME Len(served') = Len(served), served' \in Seq(TurnRecord),
             \A t \in 1..Len(served) : EmittedFit(t, served'),
             \A k \in DOMAIN Pipe' : Bounded(Pipe'[k])
      PROVE  ServedInOrder'
  <2>1. (Len(served) <= step)'  BY <1>5, <1>2, <1>0
  <2>2. (\A k \in DOMAIN Pipe : Pipe[k].kind # "malformed" => Pipe[k].turn <= Len(served))'
    BY <1>5
  <2>3. (\A t \in DOMAIN served : EmittedFit(t, served))'
    <3>1. DOMAIN served' = 1..Len(served)  BY <1>5, <1>0
    <3> QED BY <1>5, <3>1 DEF EmittedFit
  <2> QED BY <1>3, <2>1, <2>2, <2>3
<1>6. ASSUME served' = served PROVE /\ Len(served') = Len(served) /\ served' \in Seq(TurnRecord)
                                    /\ \A t \in 1..Len(served) : EmittedFit(t, served')
  BY <1>6, <1>0, <1>2
<1>7. CASE SaysAnswer
  <2>1. PICK line \in Answer : Say(line)  BY <1>7 DEF SaysAnswer
  <2>2. line \in Line /\ Bounded(Content(line))  BY AnswerIsLine
  <2>3. stream' = stream /\ SameTurns  BY <1>7 DEF SaysAnswer
  <2>4. \A k \in DOMAIN Pipe' : Bounded(Pipe'[k])  BY <2>1, <2>2, <2>3, <1>1, <1>2, <1>4
  <2>5. \A t \in 1..Len(served) : EmittedFit(t, served')  BY <2>3, <1>2, EmittedSame DEF SameTurns
  <2> QED BY <2>3, <2>4, <2>5, <1>5 DEF SameTurns
<1>8. CASE SaysTurn
  <2> DEFINE new == [status |-> "inProgress", emitted |-> <<>>, interrupted |-> FALSE]
  <2>1. PICK line \in TurnAnswer : Say(line)  BY <1>8 DEF SaysTurn
  <2>2. line \in Line /\ Bounded(Content(line))  BY AnswerIsLine
  <2>3. stream' = stream /\ served' = Append(served, new) /\ Len(served) < step  BY <1>8 DEF SaysTurn
  <2>4. new \in TurnRecord /\ new.emitted = <<>>  BY DEF TurnRecord, TurnStatus
  <2> HIDE DEF new
  <2>5. /\ Len(served') = Len(served) + 1 /\ DOMAIN served' = 1..(Len(served) + 1)
        /\ served'[Len(served) + 1] = new /\ \A t \in 1..Len(served) : served'[t] = served[t]
    BY <2>3, <2>4, <1>0
  <2>6. \A k \in DOMAIN Pipe' : Bounded(Pipe'[k])  BY <2>1, <2>2, <2>3, <1>1, <1>2, <1>4
  <2>7. (\A k \in DOMAIN Pipe : Pipe[k].kind # "malformed" => Pipe[k].turn <= Len(served))'
    <3> SUFFICES ASSUME NEW k \in DOMAIN Pipe', Pipe'[k].kind # "malformed"
                 PROVE  Pipe'[k].turn <= Len(served')
      OBVIOUS
    <3>1. Pipe'[k].turn <= Len(served)  BY <2>6
    <3>2. Pipe'[k] \in Event
      <4>1. CASE k \in 1..Piped  BY <4>1, <2>1, <2>2, <2>3, <1>1, <1>4
      <4>2. CASE k = Piped + 1  BY <4>2, <2>1, <2>2, <2>3, <1>4, ContentType
      <4> QED BY <4>1, <4>2, <2>1, <2>2, <2>3, <1>1, <1>4
    <3>3. Pipe'[k].turn \in Nat  BY <3>2 DEF Event
    <3> QED BY <3>1, <3>3, <2>5, <1>0
  <2>8. (\A t \in DOMAIN served : EmittedFit(t, served))'
    <3> SUFFICES ASSUME NEW t \in DOMAIN served' PROVE EmittedFit(t, served')  BY DEF EmittedFit
    <3>1. CASE t \in 1..Len(served)  BY <3>1, <2>5, <1>2, EmittedSame
    <3>2. CASE t = Len(served) + 1  BY <3>2, <2>4, <2>5 DEF EmittedFit
    <3> QED BY <3>1, <3>2, <2>5, <1>0
  <2>9. (Len(served) <= step)'  BY <2>3, <2>5, <1>0
  <2> QED BY <1>3, <2>7, <2>8, <2>9
<1>9. CASE SaysNoise
  <2>1. PICK event \in Event :
          /\ event.kind # "malformed" => event.turn = 0
          /\ Say([kind |-> "note", event |-> event])
    BY <1>9 DEF SaysNoise
  <2> DEFINE line == [kind |-> "note", event |-> event]
  <2>2. line \in Line /\ Content(line) = event  BY NoteIsLine
  <2> HIDE DEF line
  <2>3. Bounded(event)  BY <2>1, <1>0
  <2>4. Say(line)  BY <2>1 DEF line
  <2>5. stream' = stream /\ served' = served  BY <1>9 DEF SaysNoise
  <2>6. \A k \in DOMAIN Pipe' : Bounded(Pipe'[k])  BY <2>2, <2>3, <2>4, <2>5, <1>1, <1>2, <1>4
  <2> QED BY <2>5, <2>6, <1>5, <1>6
<1>10. CASE Drops
  <2>1. LET p == Len(stream) + 1 IN
        /\ DOMAIN Pipe' = 1..(Piped - 1)
        /\ \A k \in 1..(Piped - 1) : Pipe'[k] = IF k < p THEN Pipe[k] ELSE Pipe[k + 1]
    BY <1>10, PipeDrops DEF Drops
  <2>2. \A k \in DOMAIN Pipe' : Bounded(Pipe'[k])
    <3> SUFFICES ASSUME NEW k \in 1..(Piped - 1) PROVE Bounded(Pipe'[k])  BY <2>1
    <3>1. k \in 1..Piped /\ k + 1 \in 1..Piped  BY <1>1
    <3>2. Pipe'[k] = Pipe[k] \/ Pipe'[k] = Pipe[k + 1]  BY <2>1
    <3> QED BY <3>1, <3>2, <1>2
  <2>3. served' = served  BY <1>10 DEF Drops
  <2> QED BY <2>2, <2>3, <1>5, <1>6
<1>11. CASE RoutesNote
  <2>1. DOMAIN Pipe' = DOMAIN Pipe /\ \A k \in DOMAIN Pipe : Pipe'[k] = Pipe[k]
    BY <1>11, PipeRoutes DEF RoutesNote
  <2>2. \A k \in DOMAIN Pipe' : Bounded(Pipe'[k])  BY <2>1, <1>1, <1>2
  <2>3. served' = served  BY <1>11 DEF RoutesNote
  <2> QED BY <2>2, <2>3, <1>5, <1>6
<1>12. CASE Quiet
  <2>1. Pipe' = Pipe /\ served' = served  BY <1>12, PipeStays DEF Quiet
  <2>2. \A k \in DOMAIN Pipe' : Bounded(Pipe'[k])  BY <2>1, <1>1, <1>2
  <2> QED BY <2>1, <2>2, <1>5, <1>6
<1>13. ASSUME NEW turn \in 1..Len(served), SaysEvent(turn) PROVE ServedInOrder'
  <2>1. PICK event \in Event :
          /\ OwnAt(event, turn) /\ served[turn].status = "inProgress"
          /\ Say([kind |-> "note", event |-> event]) /\ stream' = stream
          /\ served' \in Seq(TurnRecord) /\ Len(served') = Len(served)
          /\ served'[turn].emitted = Append(served[turn].emitted, event)
          /\ event.kind = "turn_completed" => served'[turn].status # "inProgress"
          /\ \A t \in 1..Len(served) : t # turn => served'[t] = served[t]
    BY <1>13 DEF SaysEvent
  <2> DEFINE line == [kind |-> "note", event |-> event]
             E == served[turn].emitted
  <2>2. line \in Line /\ Content(line) = event  BY NoteIsLine
  <2> HIDE DEF line
  <2>3. Bounded(event)  BY <2>1, <1>0 DEF OwnAt
  <2>4. Say(line)  BY <2>1 DEF line
  <2>5. \A k \in DOMAIN Pipe' : Bounded(Pipe'[k])  BY <2>1, <2>2, <2>3, <2>4, <1>1, <1>2, <1>4
  <2>6. ASSUME NEW t \in 1..Len(served) PROVE EmittedFit(t, served')
    <3>1. CASE t # turn  BY <3>1, <2>1, <1>2, EmittedSame
    <3>2. CASE t = turn
      <4>1. E \in Seq(Event) /\ EmittedFit(turn, served)  BY <1>0, <1>2
      <4>2. served'[turn].emitted = Append(E, event)  BY <2>1
      <4> HIDE DEF E
      <4>3. /\ Len(served'[turn].emitted) = Len(E) + 1
            /\ DOMAIN served'[turn].emitted = 1..(Len(E) + 1)
            /\ served'[turn].emitted[Len(E) + 1] = event
            /\ \A i \in 1..Len(E) : served'[turn].emitted[i] = E[i]
            /\ Len(E) \in Nat /\ DOMAIN E = 1..Len(E)
        BY <4>1, <4>2
      <4>4. \A i \in 1..Len(E) : OwnAt(E[i], turn) /\ E[i].kind # "turn_completed"
        BY <4>1, <4>3, <2>1 DEF E, EmittedFit
      <4> QED BY <3>2, <4>3, <4>4, <2>1 DEF EmittedFit
    <3> QED BY <3>1, <3>2
  <2> QED BY <2>1, <2>5, <2>6, <1>5
<1> QED BY <1>7, <1>8, <1>9, <1>10, <1>11, <1>12, <1>13 DEF EffectOnPipe

\* Reading one event of the stream.
Reads == stream # <<>> /\ stream' = Tail(stream) /\ stdout' = stdout /\ served' = served

\* The steps that take the answer they wait for.
AcceptsAny(line) ==
  Initialized(line) \/ ThreadOpened(line) \/ TurnStarted(line) \/ Interrupted(line)

\* They take the first line of the pipe, an answer to the request under way.
LEMMA AcceptDrops ==
  ASSUME NEW line, AcceptsAny(line)
  PROVE  Drops /\ line = Head(stdout) /\ line.nr = request.nr /\ pc = "await"
BY DEF AcceptsAny, Initialized, ThreadOpened, TurnStarted, Interrupted, Accepted, Drops, server

\* stream_events reads one event at a time.
LEMMA ReadEffect ==
  ASSUME ReadMalformed \/ ReadEvent PROVE Reads
BY DEF ReadMalformed, ReadEvent, Reads, server

\* The other steps of a caller touch neither pipe nor stream.
LEMMA QuietEffect ==
  ASSUME \/ Open \/ StartTurn \/ Judge \/ Fallback \/ Close
         \/ RequestFails \/ Deadline \/ Grace \/ RefuseAsk
  PROVE  Quiet
BY DEF Open, StartTurn, Judge, Fallback, Close, RequestFails, Deadline, Grace, RefuseAsk, Quiet, server

\* So a step of the caller has one of three effects.
LEMMA ClientEffect ==
  ASSUME ClientStep PROVE Quiet \/ Drops \/ Reads
BY AcceptDrops, ReadEffect, QuietEffect DEF ClientStep, AcceptsAny

\* Every step has one of the effects, or reads.
LEMMA ConnectionEffect ==
  ASSUME ConnectionTypeOK, RequestsInOrder, [ConnectionNext]_connection
  PROVE  EffectOnPipe \/ Reads
<1>1. CASE UNCHANGED connection  BY <1>1 DEF connection, server, EffectOnPipe, Quiet
<1>2. CASE ClientStep  BY <1>2, ClientEffect DEF EffectOnPipe
<1>3. CASE ServerStep  BY <1>3, ServerEffect DEF EffectOnPipe
<1> QED BY <1>1, <1>2, <1>3, NextSplits

\* The count of turns asked for only grows, up to its bound.
LEMMA StepGrows ==
  ASSUME ConnectionTypeOK, [ConnectionNext]_connection
  PROVE  step' \in Nat /\ step <= step' /\ caller' = caller /\ step' <= Turns'
<1>0. step \in Nat /\ step <= Turns /\ Turns \in Nat
  BY CodexClientAssumption DEF ConnectionTypeOK, Turns
<1>1. caller' = caller
  BY NextSplits, ServerKeepsClient, ClientKeepsServed DEF connection, client
<1>2. Turns' = Turns  BY <1>1 DEF Turns
<1>3. step' = step \/ (step < Turns /\ step' = step + 1)
  <2>1. CASE ClientStep
    BY <2>1 DEF ClientStep, Open, StartTurn, ReadMalformed, ReadEvent, Judge, Fallback, Close, Initialized,
       ThreadOpened, TurnStarted, Interrupted, RequestFails, Deadline, Grace, RefuseAsk
  <2> QED BY <2>1, NextSplits, ServerKeepsClient DEF connection, client
<1> QED BY <1>0, <1>1, <1>2, <1>3

\* Every step keeps ServedInOrder.
LEMMA ServedStep ==
  ASSUME ConnectionTypeOK, RequestsInOrder, ServedInOrder, [ConnectionNext]_connection
  PROVE  ServedInOrder'
<1>1. step' \in Nat /\ step <= step'  BY StepGrows
<1>2. CASE EffectOnPipe  BY <1>1, <1>2, ServedEffect
<1>3. CASE Reads
  <2>0. step \in Nat /\ Len(served) \in Nat
    BY TurnsType DEF ConnectionTypeOK, Turns, CodexClientAssumption
  <2>1. /\ DOMAIN Pipe' = 1..(Piped - 1) /\ \A k \in 1..(Piped - 1) : Pipe'[k] = Pipe[k + 1]
        /\ Piped \in Nat /\ DOMAIN Pipe = 1..Piped
    BY <1>3, PipeReads, PipeType DEF Reads
  <2>2. served' = served  BY <1>3 DEF Reads
  <2>3. (Len(served) <= step)'  BY <2>0, <2>2, <1>1 DEF ServedInOrder
  <2>4. \A k \in 1..Piped : Pipe[k].kind # "malformed" => Pipe[k].turn <= Len(served)
    BY <2>1, ServedInOrderParts
  <2>5. (\A k \in DOMAIN Pipe : Pipe[k].kind # "malformed" => Pipe[k].turn <= Len(served))'
    <3> SUFFICES ASSUME NEW k \in 1..(Piped - 1), Pipe'[k].kind # "malformed"
                 PROVE  Pipe'[k].turn <= Len(served')
      BY <2>1
    <3>1. Pipe'[k] = Pipe[k + 1] /\ k + 1 \in 1..Piped  BY <2>1
    <3> QED BY <3>1, <2>2, <2>4
  <2>6. \A t \in DOMAIN served : EmittedFit(t, served)  BY ServedInOrderParts
  <2>7. (\A t \in DOMAIN served : EmittedFit(t, served))'  BY <2>2, <2>6 DEF EmittedFit
  <2> QED BY <2>3, <2>5, <2>7 DEF ServedInOrder, EmittedFit
<1> QED BY <1>2, <1>3, ConnectionEffect

\* What is left of the pipe was in it.
LEMMA TailElements ==
  ASSUME ConnectionTypeOK, stdout # <<>>, stdout' = Tail(stdout)
  PROVE  \A k \in DOMAIN stdout' : k + 1 \in DOMAIN stdout /\ stdout'[k] = stdout[k + 1]
<1>1. stdout \in Seq(Line)  BY DEF ConnectionTypeOK
<1>2. Len(stdout) \in Nat /\ Len(stdout) > 0 /\ DOMAIN stdout = 1..Len(stdout)  BY <1>1
<1>3. /\ Len(stdout') = Len(stdout) - 1 /\ DOMAIN stdout' = 1..(Len(stdout) - 1)
      /\ \A j \in 1..(Len(stdout) - 1) : stdout'[j] = stdout[j + 1]
  BY <1>1, <1>2
<1> QED BY <1>2, <1>3

\* What is in the pipe was in it, or was just written.
LEMMA SaidElements ==
  ASSUME ConnectionTypeOK, NEW line \in Line, Say(line)
  PROVE  \A k \in DOMAIN stdout' :
           \/ k \in DOMAIN stdout /\ stdout'[k] = stdout[k]
           \/ k = Len(stdout) + 1 /\ stdout'[k] = line
<1>1. stdout \in Seq(Line)  BY DEF ConnectionTypeOK
<1>2. Len(stdout) \in Nat /\ DOMAIN stdout = 1..Len(stdout)  BY <1>1
<1>3. /\ Len(stdout') = Len(stdout) + 1 /\ DOMAIN stdout' = 1..(Len(stdout) + 1)
      /\ stdout'[Len(stdout) + 1] = line /\ \A j \in 1..Len(stdout) : stdout'[j] = stdout[j]
  BY <1>1, <1>2 DEF Say
<1> QED BY <1>2, <1>3

\* No effect brings an answer to a request that was not made.
LEMMA RepliesEffect ==
  ASSUME ConnectionTypeOK, RequestsInOrder, EffectOnPipe \/ Reads
  PROVE  \A k \in DOMAIN stdout' : stdout'[k].kind = "reply" => stdout'[k].nr <= sent
<1>0. \A k \in DOMAIN stdout : stdout[k].kind = "reply" => stdout[k].nr <= sent
  BY DEF RequestsInOrder
<1>1. CASE Quiet \/ Reads  BY <1>0, <1>1 DEF Quiet, Reads
<1>2. CASE Drops \/ RoutesNote  BY <1>0, <1>2, TailElements DEF Drops, RoutesNote
<1>3. ASSUME NEW line \in Line, Say(line), line.kind = "reply" => line.nr = sent
      PROVE \A k \in DOMAIN stdout' : stdout'[k].kind = "reply" => stdout'[k].nr <= sent
  <2>1. sent \in Nat  BY DEF ConnectionTypeOK
  <2> QED BY <1>0, <1>3, <2>1, SaidElements
<1>4. pc = "await" => request.nr = sent  BY DEF RequestsInOrder
<1>5. CASE SaysAnswer
  <2>1. PICK line \in Answer : line.nr = request.nr /\ Say(line)  BY <1>5 DEF SaysAnswer
  <2>2. line \in Line /\ line.nr = sent  BY <2>1, <1>4, <1>5, AnswerIsLine DEF SaysAnswer
  <2> QED BY <2>1, <2>2, <1>3
<1>6. CASE SaysTurn
  <2>1. PICK line \in TurnAnswer : line.nr = request.nr /\ Say(line)  BY <1>6 DEF SaysTurn
  <2>2. line \in Line /\ line.nr = sent  BY <2>1, <1>4, <1>6, AnswerIsLine DEF SaysTurn, Asks
  <2> QED BY <2>1, <2>2, <1>3
<1>7. ASSUME NEW event \in Event, Say([kind |-> "note", event |-> event])
      PROVE \A k \in DOMAIN stdout' : stdout'[k].kind = "reply" => stdout'[k].nr <= sent
  <2> DEFINE line == [kind |-> "note", event |-> event]
  <2>1. line \in Line /\ line.kind = "note"  BY NoteIsLine
  <2> HIDE DEF line
  <2>2. Say(line)  BY <1>7 DEF line
  <2>3. line.kind = "reply" => line.nr = sent  BY <2>1
  <2> QED BY <2>1, <2>2, <2>3, <1>3
<1>8. CASE SaysNoise  BY <1>8, <1>7 DEF SaysNoise
<1>9. ASSUME NEW turn \in 1..Len(served), SaysEvent(turn)
      PROVE \A k \in DOMAIN stdout' : stdout'[k].kind = "reply" => stdout'[k].nr <= sent
  BY <1>9, <1>7 DEF SaysEvent
<1> QED BY <1>1, <1>2, <1>5, <1>6, <1>8, <1>9 DEF EffectOnPipe

\* The part of RequestsInOrder about the caller.
RequestFits ==
  /\ pc = "open" => sent = 0
  /\ pc = "await" <=> request # Nil
  /\ request # Nil => request.nr = sent

\* request() numbers its requests upwards.
LEMMA SendFits ==
  ASSUME ConnectionTypeOK, NEW method \in Method, Send(method)
  PROVE  RequestFits' /\ sent' = sent + 1
<1>1. sent \in Nat  BY DEF ConnectionTypeOK
<1>2. [method |-> method, nr |-> sent + 1] # Nil
  BY <1>1, NilIsNoValue DEF Request
<1> QED BY <1>1, <1>2 DEF Send, RequestFits

\* Every step keeps RequestsInOrder.
LEMMA RequestsStep ==
  ASSUME ConnectionTypeOK, ConnectionTypeOK', RequestsInOrder, [ConnectionNext]_connection
  PROVE  RequestsInOrder'
<1>0. sent \in Nat /\ sent' \in Nat /\ stdout' \in Seq(Line)  BY DEF ConnectionTypeOK
<1>1. RequestFits  BY DEF RequestsInOrder, RequestFits
<1>2. \A k \in DOMAIN stdout' : stdout'[k].kind = "reply" => stdout'[k].nr <= sent
  BY ConnectionEffect, RepliesEffect
<1>3. ASSUME RequestFits', sent <= sent' PROVE RequestsInOrder'
  <2>1. \A k \in DOMAIN stdout' : stdout'[k].kind = "reply" => stdout'[k].nr \in Nat
    <3> SUFFICES ASSUME NEW k \in DOMAIN stdout', stdout'[k].kind = "reply" PROVE stdout'[k].nr \in Nat
      OBVIOUS
    <3>1. stdout'[k] \in Line  BY <1>0
    <3> QED BY <3>1 DEF Line, Answer, TurnAnswer
  <2>2. \A k \in DOMAIN stdout' : stdout'[k].kind = "reply" => stdout'[k].nr <= sent'
    BY <1>0, <1>2, <1>3, <2>1
  <2> QED BY <2>2, <1>3 DEF RequestsInOrder, RequestFits
<1>4. ASSUME NEW method \in Method, Send(method) PROVE RequestsInOrder'
  BY <1>0, <1>3, <1>4, SendFits
<1>5. ASSUME sent' = sent, request' = Nil, pc' \notin {"await", "open"}
      PROVE  RequestsInOrder'
  BY <1>0, <1>3, <1>5 DEF RequestFits
<1>6. ASSUME sent' = sent, request' = request, pc # "await", pc' \notin {"await", "open"}
      PROVE  RequestsInOrder'
  BY <1>0, <1>1, <1>3, <1>6 DEF RequestFits
<1>7. CASE UNCHANGED client
  <2>1. sent' = sent /\ request' = request /\ pc' = pc  BY <1>7 DEF client
  <2>2. RequestFits'  BY <2>1, <1>1 DEF RequestFits
  <2> QED BY <2>1, <2>2, <1>0, <1>3
<1>8. CASE Open
  <2>1. request' = [method |-> "initialize", nr |-> 1] /\ sent' = 1 /\ pc' = "await"  BY <1>8 DEF Open
  <2>2. request' # Nil  BY <2>1, NilIsNoValue DEF Request, Method
  <2>3. sent = 0  BY <1>8 DEF Open, RequestsInOrder
  <2>4. RequestFits'  BY <2>1, <2>2 DEF RequestFits
  <2> QED BY <2>1, <2>3, <2>4, <1>3
<1>9. CASE StartTurn  BY <1>9, <1>4 DEF StartTurn, Method
<1>10. CASE ReadMalformed  BY <1>10, <1>6 DEF ReadMalformed
<1>11. CASE ReadEvent
  <2>1. pc' \notin {"await", "open"}  BY <1>11 DEF ReadEvent
  <2> QED BY <1>11, <2>1, <1>6 DEF ReadEvent
<1>12. CASE Judge
  <2>1. Judged \notin {"await", "open"}  BY JudgedRange DEF ConnectionTypeOK
  <2> QED BY <1>12, <2>1, <1>6 DEF Judge
<1>13. CASE Fallback  BY <1>13, <1>6 DEF Fallback
<1>14. CASE Close  BY <1>14, <1>6 DEF Close
<1>15. CASE RequestFails
  <2>1. CASE caller = "interview" /\ request.method = "thread/resume"
    BY <1>15, <2>1, <1>4 DEF RequestFails, Method
  <2>2. CASE ~(caller = "interview" /\ request.method = "thread/resume")
    BY <1>15, <2>2, <1>5 DEF RequestFails
  <2> QED BY <2>1, <2>2
<1>16. CASE Deadline  BY <1>16, <1>4 DEF Deadline, Method
<1>17. CASE Grace  BY <1>17, <1>6 DEF Grace, Graced
<1>18. CASE RefuseAsk  BY <1>18, <1>5 DEF RefuseAsk
<1>19. ASSUME NEW line, Initialized(line) PROVE RequestsInOrder'
  BY <1>19, <1>4 DEF Initialized, Method
<1>20. ASSUME NEW line, ThreadOpened(line) \/ TurnStarted(line) \/ Interrupted(line)
       PROVE  RequestsInOrder'
  BY <1>20, <1>5 DEF ThreadOpened, TurnStarted, Interrupted
<1> QED BY <1>7, <1>8, <1>9, <1>10, <1>11, <1>12, <1>13, <1>14, <1>15, <1>16, <1>17, <1>18, <1>19, <1>20,
           NextSplits, ServerKeepsClient DEF ClientStep, connection, client

\* But for new answers, the answers in the pipe are those of before.
LEMMA OldReplyKept ==
  ASSUME ConnectionTypeOK,
         \/ SaysNoise \/ Drops \/ RoutesNote \/ Quiet
         \/ \E turn \in 1..Len(served) : SaysEvent(turn),
         NEW k \in DOMAIN stdout', stdout'[k].kind = "reply"
  PROVE  (\E j \in DOMAIN stdout : stdout'[k] = stdout[j]) /\ Len(served') = Len(served)
<1>1. CASE Quiet  BY <1>1 DEF Quiet
<1>2. CASE Drops \/ RoutesNote  BY <1>2, TailElements DEF Drops, RoutesNote
<1>3. ASSUME NEW event \in Event, Say([kind |-> "note", event |-> event])
      PROVE \E j \in DOMAIN stdout : stdout'[k] = stdout[j]
  <2> DEFINE line == [kind |-> "note", event |-> event]
  <2>1. line \in Line /\ line.kind = "note"  BY NoteIsLine
  <2> HIDE DEF line
  <2>2. Say(line)  BY <1>3 DEF line
  <2> QED BY <2>1, <2>2, SaidElements
<1>4. CASE SaysNoise  BY <1>4, <1>3 DEF SaysNoise
<1>5. CASE \E turn \in 1..Len(served) : SaysEvent(turn)  BY <1>5, <1>3 DEF SaysEvent
<1> QED BY <1>1, <1>2, <1>4, <1>5

\* The answer that starts a turn is due: nothing of the new turn is in the queue.
LEMMA NewTurnIsDue ==
  ASSUME ConnectionTypeOK, ServedInOrder, SaysTurn,
         NEW k \in DOMAIN stdout', stdout'[k].kind = "reply", stdout'[k].nr = request.nr
  PROVE  Due(stdout[k])'
<1> DEFINE record == [status |-> "inProgress", emitted |-> <<>>, interrupted |-> FALSE]
           new == Len(served) + 1
<1>0. served \in Seq(TurnRecord) /\ Len(served) \in Nat /\ Piped \in Nat /\ DOMAIN Pipe = 1..Piped
  BY TurnsType, PipeType
<1>1. PICK line \in TurnAnswer : line.nr = request.nr /\ line.turn = new /\ Say(line)
  BY DEF SaysTurn
<1>2. line \in Line /\ Content(line).kind = "malformed"  BY AnswerIsLine
<1>3. ~\E i \in DOMAIN stdout : stdout[i].kind = "reply" /\ stdout[i].nr = request.nr
  BY DEF SaysTurn
<1>4. stdout'[k] = line  BY <1>1, <1>2, <1>3, SaidElements
<1>5. served' = Append(served, record) /\ stream' = stream  BY DEF SaysTurn
<1>6. record.emitted = <<>>  OBVIOUS
<1> HIDE DEF record
<1>7. Len(served') = new /\ served'[new] = record  BY <1>0, <1>5
<1>8. /\ DOMAIN Pipe' = 1..(Piped + 1) /\ \A i \in 1..Piped : Pipe'[i] = Pipe[i]
      /\ Pipe'[Piped + 1] = Content(line)
  BY <1>1, <1>2, <1>5, PipeSays
<1>9. \A i \in 1..Piped : Pipe[i].kind # "malformed" => Pipe[i].turn <= Len(served)
  BY <1>0 DEF ServedInOrder
<1>10. \A i \in DOMAIN Pipe' : ~OwnAt(Pipe'[i], new)
  <2> SUFFICES ASSUME NEW i \in 1..(Piped + 1) PROVE ~OwnAt(Pipe'[i], new)  BY <1>8
  <2>1. CASE i = Piped + 1  BY <2>1, <1>2, <1>8 DEF OwnAt
  <2>2. CASE i # Piped + 1
    <3>1. i \in 1..Piped /\ Pipe'[i] = Pipe[i]  BY <2>2, <1>0, <1>8
    <3>2. Pipe[i] \in Event  BY <3>1, PipeType
    <3>3. Pipe[i].kind # "malformed" => Pipe[i].turn \in Nat  BY <3>2 DEF Event
    <3> QED BY <3>1, <3>3, <1>0, <1>9 DEF OwnAt
  <2> QED BY <2>1, <2>2
<1>11. Holds(Pipe', new, <<>>, 0)  BY <1>10, HoldsNothing
<1>12. new > 0  BY <1>0
<1> HIDE DEF new
<1> QED BY <1>1, <1>4, <1>6, <1>7, <1>11, <1>12 DEF Due

\* It stays due while the turn goes on and nothing is read.
LEMMA OldTurnIsDue ==
  ASSUME ConnectionTypeOK, ServedInOrder, EffectOnPipe, Len(served') = Len(served), NEW line, Due(line)
  PROVE  /\ (line \in TurnAnswer /\ line.turn = Len(served) /\ Len(served) > 0)'
         /\ Holds(Pipe', Len(served'), served'[Len(served')].emitted, 0)
<1> DEFINE t == Len(served)
<1>1. t \in 1..Len(served) /\ 0 \in 0..Len(served[t].emitted)
  BY TurnsType DEF Due
<1>2. Holds(Pipe, t, served[t].emitted, 0)  BY DEF Due
<1>3. Holds(Pipe', t, served'[t].emitted, 0)  BY <1>1, <1>2, StillHolds
<1> QED BY <1>3 DEF Due

\* The caller comes to wait for turn/start with a request that has no answer yet.
LEMMA ClientAsks ==
  ASSUME ConnectionTypeOK, ClientStep, Asks("turn/start")'
  PROVE  request'.nr = sent + 1 /\ stdout' = stdout
<1>1. Judged # "await"  BY JudgedRange DEF ConnectionTypeOK
<1>2. CASE StartTurn  BY <1>2 DEF StartTurn, Send, Asks
<1>3. CASE Open  BY <1>3 DEF Open, Asks
<1>4. CASE ReadMalformed \/ ReadEvent  BY <1>4 DEF ReadMalformed, ReadEvent, Asks
<1>5. CASE Judge  BY <1>1, <1>5 DEF Judge, Asks
<1>6. CASE Fallback \/ Close \/ Grace \/ RefuseAsk
  BY <1>6 DEF Fallback, Close, Grace, RefuseAsk, Asks
<1>7. CASE RequestFails \/ Deadline  BY <1>7 DEF RequestFails, Deadline, Send, Asks
<1>8. ASSUME NEW line, Initialized(line) \/ ThreadOpened(line) \/ TurnStarted(line) \/ Interrupted(line)
      PROVE FALSE
  BY <1>8 DEF Initialized, ThreadOpened, TurnStarted, Interrupted, Send, Asks
<1> QED BY <1>2, <1>3, <1>4, <1>5, <1>6, <1>7, <1>8 DEF ClientStep

\* Every step keeps AnsweredInTime.
LEMMA AnsweredStep ==
  ASSUME ConnectionTypeOK, RequestsInOrder, ServedInOrder, AnsweredInTime, [ConnectionNext]_connection
  PROVE  AnsweredInTime'
<1> SUFFICES ASSUME Asks("turn/start")', NEW k \in DOMAIN stdout', stdout'[k].kind = "reply",
                    stdout'[k].nr = request'.nr
             PROVE  Due(stdout[k])'
  BY DEF AnsweredInTime
<1>1. CASE ClientStep
  <2>1. request'.nr = sent + 1 /\ stdout' = stdout  BY <1>1, ClientAsks
  <2>2. stdout'[k].nr <= sent /\ sent \in Nat  BY <2>1 DEF RequestsInOrder, ConnectionTypeOK
  <2> QED BY <2>1, <2>2
<1>2. ASSUME UNCHANGED client, EffectOnPipe PROVE Due(stdout[k])'
  <2>1. Asks("turn/start") /\ request' = request  BY <1>2 DEF client, Asks
  <2>2. CASE SaysAnswer  BY <2>1, <2>2 DEF SaysAnswer, Asks
  <2>3. CASE SaysTurn  BY <2>1, <2>3, NewTurnIsDue
  <2>4. CASE SaysNoise \/ Drops \/ RoutesNote \/ Quiet \/ \E turn \in 1..Len(served) : SaysEvent(turn)
    <3>1. PICK j \in DOMAIN stdout : stdout'[k] = stdout[j]  BY <2>4, OldReplyKept
    <3>2. Len(served') = Len(served)  BY <2>4, OldReplyKept
    <3>3. Due(stdout[j])  BY <2>1, <3>1 DEF AnsweredInTime
    <3> QED BY <1>2, <3>1, <3>2, <3>3, OldTurnIsDue DEF Due
  <2> QED BY <1>2, <2>2, <2>3, <2>4 DEF EffectOnPipe
<1>3. CASE ServerStep  BY <1>3, <1>2, ServerEffect, ServerKeepsClient DEF EffectOnPipe
<1>4. CASE UNCHANGED connection
  BY <1>4, <1>2 DEF connection, server, EffectOnPipe, Quiet
<1> QED BY <1>1, <1>3, <1>4, NextSplits

\* The events the server has sent for a turn.
Sent(t) == served[t].emitted

\* StreamedInOrder, with the types a reader of it needs.
LEMMA StreamingFacts ==
  ASSUME ConnectionTypeOK, StreamedInOrder, pc = "streaming"
  PROVE  /\ current \in 1..Len(served) /\ Sent(current) \in Seq(Event) /\ events \in Seq(Event)
         /\ Len(events) \in 0..Len(Sent(current)) /\ Len(Sent(current)) \in Nat
         /\ \A i \in 1..Len(events) : events[i] = Sent(current)[i]
         /\ Holds(Pipe, current, Sent(current), Len(events))
<1>1. current \in 1..Len(served) /\ Sent(current) \in Seq(Event)  BY TurnsType DEF StreamedInOrder, Sent
<1>2. events \in Seq(Event)  BY DEF ConnectionTypeOK
<1>3. Len(events) \in 0..Len(Sent(current)) /\ Len(Sent(current)) \in Nat
  BY <1>1, <1>2 DEF StreamedInOrder, Sent
<1>4. \A i \in 1..Len(events) : events[i] = Sent(current)[i]  BY <1>2 DEF StreamedInOrder, Sent
<1> QED BY <1>1, <1>2, <1>3, <1>4 DEF StreamedInOrder, Sent

\* An event of the awaited turn is the next the server sent for it.
LEMMA ReadOwn ==
  ASSUME ConnectionTypeOK, StreamedInOrder, pc = "streaming", Reads,
         Head(stream).kind # "malformed", Own(Head(stream)), events' = Append(events, Head(stream))
  PROVE  LET n == Len(events) IN
         /\ n + 1 \in 1..Len(Sent(current)) /\ Head(stream) = Sent(current)[n + 1]
         /\ Len(events') = n + 1
         /\ \A i \in 1..(n + 1) : events'[i] = Sent(current)[i]
         /\ Holds(Pipe', current, Sent(current), n + 1)
<1> DEFINE E == Sent(current)
           n == Len(events)
<1>1. /\ E \in Seq(Event) /\ events \in Seq(Event) /\ n \in 0..Len(E) /\ Len(E) \in Nat
      /\ \A i \in 1..n : events[i] = E[i]
      /\ Holds(Pipe, current, E, n)
  BY StreamingFacts
<1>2. /\ Piped > 0 /\ Pipe[1] = Head(stream) /\ DOMAIN Pipe' = 1..(Piped - 1)
      /\ \A k \in 1..(Piped - 1) : Pipe'[k] = Pipe[k + 1]
      /\ Piped \in Nat /\ DOMAIN Pipe = 1..Piped
  BY PipeReads, PipeType DEF Reads
<1>3. OwnAt(Pipe[1], current)  BY <1>2 DEF OwnAt, Own
<1> HIDE DEF E
<1>4. n < Len(E) /\ Pipe[1] = E[n + 1] /\ Holds(Pipe', current, E, n + 1)
  BY <1>1, <1>2, <1>3, HoldsNext
<1>5. Head(stream) \in Event  BY <1>1, <1>2, <1>4
<1>6. /\ Len(events') = n + 1 /\ events'[n + 1] = Head(stream)
      /\ \A i \in 1..n : events'[i] = events[i]
  BY <1>1, <1>5
<1>7. n \in Nat /\ n + 1 \in 1..Len(E)  BY <1>1, <1>4
<1>8. \A i \in 1..(n + 1) : events'[i] = E[i]  BY <1>1, <1>2, <1>4, <1>6, <1>7
<1> QED BY <1>2, <1>4, <1>6, <1>7, <1>8 DEF E

\* An event of another turn is dropped, and nothing of the awaited one with it.
LEMMA ReadOther ==
  ASSUME ConnectionTypeOK, ServedInOrder, StreamedInOrder, pc = "streaming", Reads, ~Own(Head(stream))
  PROVE  Holds(Pipe', current, Sent(current), Len(events))
<1> DEFINE E == Sent(current)
           n == Len(events)
<1>1. /\ current \in 1..Len(served) /\ E \in Seq(Event) /\ n \in 0..Len(E) /\ Holds(Pipe, current, E, n)
  BY StreamingFacts
<1>2. \A i \in 1..Len(E) : OwnAt(E[i], current)  BY <1>1 DEF ServedInOrder, Sent
<1>3. /\ Piped > 0 /\ Pipe[1] = Head(stream) /\ DOMAIN Pipe' = 1..(Piped - 1)
      /\ \A k \in 1..(Piped - 1) : Pipe'[k] = Pipe[k + 1]
      /\ Piped \in Nat /\ DOMAIN Pipe = 1..Piped
  BY PipeReads, PipeType DEF Reads
<1>4. ~OwnAt(Pipe[1], current)  BY <1>3 DEF OwnAt, Own
<1>5. 1 \in 1..Piped /\ \A k \in 1..(Piped - 1) : Pipe'[k] = IF k < 1 THEN Pipe[k] ELSE Pipe[k + 1]
  BY <1>3
<1> HIDE DEF E, n
<1> QED BY <1>1, <1>2, <1>3, <1>4, <1>5, HoldsWithout DEF E, n

\* What happens beside the caller leaves the rest of the turn in the queue.
LEMMA StreamKept ==
  ASSUME ConnectionTypeOK, ServedInOrder, StreamedInOrder, EffectOnPipe, UNCHANGED client
  PROVE  StreamedInOrder'
<1> SUFFICES ASSUME pc = "streaming" PROVE StreamedInOrder'
  BY DEF StreamedInOrder, client
<1>1. UNCHANGED <<pc, current, events>>  BY DEF client
<1>2. /\ current \in 1..Len(served) /\ Sent(current) \in Seq(Event) /\ events \in Seq(Event)
      /\ Len(events) \in 0..Len(Sent(current)) /\ Len(Sent(current)) \in Nat
      /\ \A i \in 1..Len(events) : events[i] = Sent(current)[i]
      /\ Holds(Pipe, current, Sent(current), Len(events))
  BY StreamingFacts
<1>3. Grown(current)  BY <1>2, Growth
<1>4. Holds(Pipe', current, served'[current].emitted, Len(events))  BY <1>2, StillHolds DEF Sent
<1>5. Len(served[current].emitted) <= Len(served'[current].emitted) /\ current \in DOMAIN served'
  BY <1>3 DEF Grown
<1>6. \A i \in 1..Len(events) : events[i] = served'[current].emitted[i]
  <2> SUFFICES ASSUME NEW i \in 1..Len(events) PROVE events[i] = served'[current].emitted[i]
    OBVIOUS
  <2>1. i \in DOMAIN served[current].emitted  BY <1>2 DEF Sent
  <2>2. served'[current].emitted[i] = served[current].emitted[i]  BY <2>1, <1>3 DEF Grown
  <2> QED BY <2>2, <1>2 DEF Sent
<1>7. Len(served'[current].emitted) \in Nat  BY <1>2, <1>5
<1>8. Len(events) <= Len(served'[current].emitted)  BY <1>2, <1>5, <1>7 DEF Sent
<1>9. DOMAIN events = 1..Len(events)  BY <1>2
<1> QED BY <1>1, <1>4, <1>5, <1>6, <1>8, <1>9 DEF StreamedInOrder

\* When streaming starts, the queue has the whole turn.
LEMMA TurnStartedStreams ==
  ASSUME ConnectionTypeOK, ServedInOrder, AnsweredInTime, NEW line, TurnStarted(line)
  PROVE  StreamedInOrder'
<1>1. Drops /\ line = Head(stdout)  BY AcceptDrops DEF AcceptsAny
<1>2. /\ Asks("turn/start") /\ line.kind = "reply" /\ line.nr = request.nr
      /\ current' = line.turn /\ events' = <<>> /\ served' = served
  BY DEF TurnStarted, Awaits, Accepted, Asks, server
<1>3. 1 \in DOMAIN stdout /\ line = stdout[1]
  <2>1. stdout \in Seq(Line) /\ stdout # <<>>  BY <1>1 DEF ConnectionTypeOK, Drops
  <2> QED BY <2>1, <1>1
<1>4. Due(line)  BY <1>2, <1>3 DEF AnsweredInTime
<1>5. current' \in 1..Len(served) /\ served[current'].emitted \in Seq(Event)
      /\ Holds(Pipe, current', served[current'].emitted, 0)
  BY <1>2, <1>4, TurnsType DEF Due
<1>6. 0 \in 0..Len(served[current'].emitted)  BY <1>5
<1>7. EffectOnPipe  BY <1>1 DEF EffectOnPipe
<1>8. Holds(Pipe', current', served'[current'].emitted, 0)  BY <1>5, <1>6, <1>7, StillHolds
<1>9. current' \in DOMAIN served'  BY <1>2, <1>5, TurnsType
<1>10. Len(events') = 0 /\ DOMAIN events' = {}  BY <1>2
<1> QED BY <1>2, <1>6, <1>8, <1>9, <1>10 DEF StreamedInOrder

\* Each event that is read keeps StreamedInOrder.
LEMMA ReadEventStreams ==
  ASSUME ConnectionTypeOK, ServedInOrder, StreamedInOrder, ReadEvent
  PROVE  StreamedInOrder'
<1> SUFFICES ASSUME pc' = "streaming" PROVE StreamedInOrder'  BY DEF StreamedInOrder
<1>1. /\ pc = "streaming" /\ Reads /\ Head(stream).kind # "malformed" /\ current' = current
      /\ events' = IF Own(Head(stream)) THEN Append(events, Head(stream)) ELSE events
  BY ReadEffect DEF ReadEvent
<1>2. /\ current \in 1..Len(served) /\ Sent(current) \in Seq(Event) /\ events \in Seq(Event)
      /\ Len(events) \in 0..Len(Sent(current)) /\ Len(Sent(current)) \in Nat
      /\ \A i \in 1..Len(events) : events[i] = Sent(current)[i]
  BY <1>1, StreamingFacts
<1>3. served' = served /\ DOMAIN served = 1..Len(served)  BY <1>1, TurnsType DEF Reads
<1>4. CASE Own(Head(stream))
  <2>1. events' = Append(events, Head(stream))  BY <1>1, <1>4
  <2>2. LET n == Len(events) IN
        /\ n + 1 \in 1..Len(Sent(current)) /\ Len(events') = n + 1
        /\ \A i \in 1..(n + 1) : events'[i] = Sent(current)[i]
        /\ Holds(Pipe', current, Sent(current), n + 1)
    BY <2>1, <1>1, <1>4, ReadOwn
  <2>3. DOMAIN events' = 1..(Len(events) + 1)  BY <2>1, <1>2
  <2> QED BY <2>2, <2>3, <1>1, <1>2, <1>3 DEF StreamedInOrder, Sent
<1>5. CASE ~Own(Head(stream))
  <2>1. events' = events  BY <1>1, <1>5
  <2>2. Holds(Pipe', current, Sent(current), Len(events))  BY <1>1, <1>5, ReadOther
  <2> QED BY <2>1, <2>2, <1>1, <1>2, <1>3 DEF StreamedInOrder, Sent
<1> QED BY <1>4, <1>5

\* Every step keeps StreamedInOrder.
LEMMA StreamedStep ==
  ASSUME ConnectionTypeOK, RequestsInOrder, ServedInOrder, AnsweredInTime, StreamedInOrder,
         [ConnectionNext]_connection
  PROVE  StreamedInOrder'
<1>1. CASE ServerStep  BY <1>1, ServerEffect, ServerKeepsClient, StreamKept DEF EffectOnPipe
<1>2. CASE UNCHANGED connection
  BY <1>2, StreamKept DEF connection, server, EffectOnPipe, Quiet
<1>3. CASE ClientStep
  <2>1. Judged # "streaming"  BY JudgedRange DEF ConnectionTypeOK
  <2>2. CASE \E line \in {Head(stdout)} : TurnStarted(line)  BY <2>2, TurnStartedStreams
  <2>3. CASE ReadEvent  BY <2>3, ReadEventStreams
  <2>4. CASE Open \/ StartTurn \/ ReadMalformed \/ Fallback \/ Close
    BY <2>4 DEF Open, StartTurn, ReadMalformed, Fallback, Close, Send, StreamedInOrder
  <2>5. CASE Judge  BY <2>1, <2>5 DEF Judge, StreamedInOrder
  <2>6. CASE RequestFails \/ Deadline \/ Grace \/ RefuseAsk
    BY <2>6 DEF RequestFails, Deadline, Grace, RefuseAsk, Send, StreamedInOrder
  <2>7. ASSUME NEW line, Initialized(line) \/ ThreadOpened(line) \/ Interrupted(line)
        PROVE StreamedInOrder'
    BY <2>7 DEF Initialized, ThreadOpened, Interrupted, Send, StreamedInOrder
  <2> QED BY <1>3, <2>2, <2>3, <2>4, <2>5, <2>6, <2>7 DEF ClientStep
<1> QED BY <1>1, <1>2, <1>3, NextSplits

\* A turn is returned at its turn_completed, which is the last of its events.
LEMMA ReturnedStep ==
  ASSUME ConnectionTypeOK, RequestsInOrder, ServedInOrder, StreamedInOrder, ReturnedWhole,
         [ConnectionNext]_connection
  PROVE  ReturnedWhole'
<1>1. ASSUME EffectOnPipe, UNCHANGED client PROVE ReturnedWhole'
  <2> SUFFICES ASSUME pc = "returned" PROVE ReturnedWhole'  BY <1>1 DEF ReturnedWhole, client
  <2>1. UNCHANGED <<pc, current, events>>  BY <1>1 DEF client
  <2>2. /\ current \in 1..Len(served) /\ events = served[current].emitted
        /\ served[current].status # "inProgress"
    BY TurnsType DEF ReturnedWhole
  <2>3. Grown(current)  BY <2>2, <1>1, Growth
  <2> QED BY <2>1, <2>2, <2>3 DEF ReturnedWhole, Grown
<1>2. CASE ServerStep  BY <1>1, <1>2, ServerEffect, ServerKeepsClient DEF EffectOnPipe
<1>3. CASE UNCHANGED connection
  BY <1>1, <1>3 DEF connection, server, EffectOnPipe, Quiet
<1>4. CASE ReadEvent
  <2> SUFFICES ASSUME pc' = "returned" PROVE ReturnedWhole'  BY DEF ReturnedWhole
  <2>1. /\ pc = "streaming" /\ Reads /\ Head(stream).kind = "turn_completed" /\ Own(Head(stream))
        /\ current' = current /\ events' = Append(events, Head(stream))
    BY <1>4, ReadEffect DEF ReadEvent
  <2> DEFINE E == Sent(current)
             n == Len(events)
  <2>2. /\ n + 1 \in 1..Len(E) /\ Head(stream) = E[n + 1] /\ Len(events') = n + 1
        /\ \A i \in 1..(n + 1) : events'[i] = E[i]
    BY <2>1, ReadOwn
  <2>3. current \in 1..Len(served) /\ E \in Seq(Event) /\ events \in Seq(Event) /\ n \in Nat
    BY <2>1, StreamingFacts
  <2>4. n + 1 = Len(E) /\ served[current].status # "inProgress"
    <3>1. EmittedFit(current, served)  BY <2>3, TurnsType, ServedInOrderParts
    <3>2. n + 1 \in DOMAIN served[current].emitted  BY <2>2, <2>3 DEF Sent
    <3> QED BY <2>1, <2>2, <3>1, <3>2 DEF EmittedFit, Sent
  <2>5. events' = E
    <3>1. events' \in Seq(Event)
      <4>1. Head(stream) \in Event  BY <2>2, <2>3
      <4> QED BY <4>1, <2>1, <2>3
    <3> HIDE DEF E
    <3>2. DOMAIN events' = 1..(n + 1) /\ DOMAIN E = 1..(n + 1)  BY <3>1, <2>2, <2>3, <2>4
    <3>3. events' = [i \in 1..(n + 1) |-> events'[i]] /\ E = [i \in 1..(n + 1) |-> E[i]]
      BY <3>1, <3>2, <2>3
    <3> QED BY <3>3, <2>2
  <2>6. served' = served /\ DOMAIN served = 1..Len(served)  BY <2>1, TurnsType DEF Reads
  <2> QED BY <2>1, <2>3, <2>4, <2>5, <2>6 DEF ReturnedWhole, Sent
<1>5. CASE ClientStep /\ ~ReadEvent
  <2>1. Judged # "returned"  BY JudgedRange DEF ConnectionTypeOK
  <2>2. pc' # "returned"
    BY <1>5, <2>1 DEF ClientStep, Open, StartTurn, ReadMalformed, Judge, Fallback, Close,
       Initialized, ThreadOpened, TurnStarted, Interrupted, RequestFails, Deadline, Grace, RefuseAsk, Send
  <2> QED BY <2>2 DEF ReturnedWhole
<1> QED BY <1>2, <1>3, <1>4, <1>5, NextSplits

\* ConnectionTypeOK in four parts, by who changes them.
PipeTypeOK ==
  /\ stream \in Seq(Event) /\ Len(stream) <= StreamSize /\ stdout \in Seq(Line)
  /\ served \in Seq(TurnRecord)

ServerTypeOK ==
  /\ process \in {"none", "up", "dead", "reaped"}
  /\ ask \in ApprovalRequest \cup {Nil} /\ noise \in 0..MaxNoise

CallerTypeOK ==
  /\ pc \in {"open", "await", "ready", "streaming", "draining", "returned", "fallback",
             "raise", "close", "closed"}
  /\ sent \in Nat /\ request \in Request \cup {Nil}
  /\ started \in BOOLEAN
  /\ events \in Seq(Event)
  /\ result \in {Nil, "valid", "invalid"}
  /\ run \in {"running", "completed", "failed"}

CountersOK ==
  caller \in {"spike", "task", "interview"} /\ step \in 0..Turns
  /\ audited \in 0..step /\ current \in 1..Turns \cup {Nil}

\* Together they are ConnectionTypeOK.
LEMMA ConnectionTypes ==
  ConnectionTypeOK <=> PipeTypeOK /\ ServerTypeOK /\ CallerTypeOK /\ CountersOK
BY DEF ConnectionTypeOK, PipeTypeOK, ServerTypeOK, CallerTypeOK, CountersOK, TurnRecord

\* Every effect keeps the types of pipe, stream and turns.
LEMMA PipeTypeStep ==
  ASSUME ConnectionTypeOK, EffectOnPipe \/ Reads PROVE PipeTypeOK'
<1>0. /\ stream \in Seq(Event) /\ Len(stream) <= StreamSize /\ stdout \in Seq(Line)
      /\ served \in Seq(TurnRecord) /\ StreamSize \in Nat /\ Len(stream) \in Nat
  BY CodexClientAssumption, TurnsType DEF ConnectionTypeOK
<1>1. CASE Quiet  BY <1>0, <1>1 DEF Quiet, PipeTypeOK
<1>2. CASE Reads
  <2>1. stream # <<>> /\ stream' = Tail(stream)  BY <1>2 DEF Reads
  <2>2. Tail(stream) \in Seq(Event) /\ Len(Tail(stream)) = Len(stream) - 1  BY <2>1, <1>0
  <2> QED BY <1>0, <1>2, <2>1, <2>2 DEF Reads, PipeTypeOK
<1>3. CASE Drops
  <2>1. Tail(stdout) \in Seq(Line)  BY <1>0, <1>3 DEF Drops
  <2> QED BY <1>0, <1>3, <2>1 DEF Drops, PipeTypeOK
<1>4. CASE RoutesNote
  <2> DEFINE e == Head(stdout).event
  <2>1. Tail(stdout) \in Seq(Line)  BY <1>0, <1>4 DEF RoutesNote
  <2>2. e \in Event
    <3>1. Head(stdout) \in Line  BY <1>0, <1>4 DEF RoutesNote
    <3> QED BY <3>1, <1>4 DEF RoutesNote, Line, Answer, TurnAnswer
  <2>3. /\ stream' = Append(stream, e) /\ Len(stream) < StreamSize
        /\ stdout' = Tail(stdout) /\ served' = served
    BY <1>4 DEF RoutesNote
  <2> HIDE DEF e
  <2>4. Append(stream, e) \in Seq(Event) /\ Len(Append(stream, e)) = Len(stream) + 1  BY <1>0, <2>2
  <2>5. Len(stream') <= StreamSize  BY <1>0, <2>3, <2>4
  <2> QED BY <1>0, <2>1, <2>3, <2>4, <2>5 DEF PipeTypeOK
<1>5. ASSUME NEW line \in Line, Say(line), stream' = stream, served' \in Seq(TurnRecord)
      PROVE  PipeTypeOK'
  <2>1. Append(stdout, line) \in Seq(Line)  BY <1>0
  <2> QED BY <1>0, <1>5, <2>1 DEF Say, PipeTypeOK
<1>6. CASE SaysAnswer  BY <1>6, <1>5, AnswerIsLine DEF SaysAnswer, SameTurns
<1>7. CASE SaysTurn
  <2> DEFINE record == [status |-> "inProgress", emitted |-> <<>>, interrupted |-> FALSE]
  <2>1. record \in TurnRecord
    <3>1. <<>> \in Seq(Event)  OBVIOUS
    <3> QED BY <3>1 DEF TurnRecord, TurnStatus
  <2>2. served' = Append(served, record)  BY <1>7 DEF SaysTurn
  <2> HIDE DEF record
  <2>3. served' \in Seq(TurnRecord)  BY <2>1, <2>2, <1>0
  <2> QED BY <1>7, <2>3, <1>5, AnswerIsLine DEF SaysTurn
<1>8. CASE SaysNoise
  <2>1. served' \in Seq(TurnRecord)  BY <1>0, <1>8 DEF SaysNoise
  <2> QED BY <1>8, <2>1, <1>5, NoteIsLine DEF SaysNoise
<1>9. ASSUME NEW turn \in 1..Len(served), SaysEvent(turn) PROVE PipeTypeOK'
  BY <1>9, <1>5, NoteIsLine DEF SaysEvent
<1> QED BY <1>1, <1>2, <1>3, <1>4, <1>6, <1>7, <1>8, <1>9 DEF EffectOnPipe

\* Every step keeps the types of the process, the approval and the noise.
LEMMA ServerTypeStep ==
  ASSUME ConnectionTypeOK, [ConnectionNext]_connection PROVE ServerTypeOK'
<1>0. /\ process \in {"none", "up", "dead", "reaped"}
      /\ ask \in ApprovalRequest \cup {Nil} /\ noise \in 0..MaxNoise /\ MaxNoise \in Nat
  BY CodexClientAssumption DEF ConnectionTypeOK
<1>1. CASE ClientStep
  <2>1. UNCHANGED <<ask, noise>> /\ process' \in {process, "up", "reaped"}
    BY <1>1 DEF ClientStep, Open, StartTurn, ReadMalformed, ReadEvent, Judge, Fallback, Close,
       Initialized, ThreadOpened, TurnStarted, Interrupted, RequestFails, Deadline, Grace, RefuseAsk,
       server
  <2> QED BY <1>0, <2>1 DEF ServerTypeOK
<1>2. CASE ServerStep
  <2>1. /\ process' \in {process, "dead"} /\ ask' \in ApprovalRequest \cup {ask, Nil}
        /\ noise' = noise \/ (noise < MaxNoise /\ noise' = noise + 1)
    BY <1>2 DEF ServerStep, Server, AnswerAsk, Route, ServerAnswer, ServerStartsTurn,
       ServerInterrupts, ServerNoise, ServerAsks, ServerDies, ServerItem, ServerEndsTurn, server
  <2> QED BY <1>0, <2>1 DEF ServerTypeOK
<1>3. CASE UNCHANGED connection  BY <1>0, <1>3 DEF connection, server, ServerTypeOK
<1> QED BY <1>1, <1>2, <1>3, NextSplits

\* request() keeps the types.
LEMMA SendTypes ==
  ASSUME sent \in Nat, NEW method \in Method, Send(method)
  PROVE  pc' \in {"await", "raise"} /\ sent' \in Nat /\ request' \in Request \cup {Nil}
BY DEF Send, Request

\* Every step keeps the types of the caller's own variables.
LEMMA CallerTypeStep ==
  ASSUME ConnectionTypeOK, [ConnectionNext]_connection PROVE CallerTypeOK'
<1>0. CallerTypeOK /\ caller \in {"spike", "task", "interview"}
  BY ConnectionTypes DEF ConnectionTypeOK
<1>1. CASE UNCHANGED client  BY <1>0, <1>1 DEF client, CallerTypeOK
<1>2. CASE Open  BY <1>0, <1>2 DEF Open, CallerTypeOK, Request, Method
<1>3. CASE StartTurn
  <2>1. Send("turn/start") /\ "turn/start" \in Method  BY <1>3 DEF StartTurn, Method
  <2> QED BY <1>0, <1>3, <2>1, SendTypes DEF StartTurn, CallerTypeOK
<1>4. CASE ReadMalformed  BY <1>0, <1>4 DEF ReadMalformed, CallerTypeOK
<1>5. CASE ReadEvent
  <2>1. Head(stream) \in Event
    <3>1. stream \in Seq(Event) /\ stream # <<>>  BY <1>5 DEF ReadEvent, ConnectionTypeOK
    <3> QED BY <3>1
  <2>2. events' = Append(events, Head(stream)) \/ events' = events  BY <1>5 DEF ReadEvent
  <2>3. events' \in Seq(Event)  BY <1>0, <2>1, <2>2 DEF CallerTypeOK
  <2>4. pc' \in {"streaming", "draining", "returned", "raise"}  BY <1>5 DEF ReadEvent
  <2> QED BY <1>0, <1>5, <2>3, <2>4 DEF ReadEvent, CallerTypeOK
<1>6. CASE Judge
  <2>1. Judged \in {"ready", "raise", "close", "fallback"}  BY <1>0, JudgedRange
  <2>2. Message \in {Nil, "valid", "invalid"}  BY <1>0, LastMessage DEF CallerTypeOK
  <2>3. result' \in {Nil, "valid", "invalid"}  BY <1>0, <1>6, <2>2 DEF Judge, CallerTypeOK
  <2> QED BY <1>0, <1>6, <2>1, <2>3 DEF Judge, CallerTypeOK
<1>7. CASE Fallback  BY <1>0, <1>7 DEF Fallback, CallerTypeOK
<1>8. CASE Close  BY <1>0, <1>8 DEF Close, CallerTypeOK
<1>9. CASE RequestFails
  <2>1. "thread/start" \in Method  BY DEF Method
  <2> QED BY <1>0, <1>9, <2>1, SendTypes DEF RequestFails, CallerTypeOK
<1>10. CASE Deadline
  <2>1. Send("turn/interrupt") /\ "turn/interrupt" \in Method  BY <1>10 DEF Deadline, Method
  <2> QED BY <1>0, <1>10, <2>1, SendTypes DEF Deadline, CallerTypeOK
<1>11. CASE Grace  BY <1>0, <1>11 DEF Grace, CallerTypeOK
<1>12. CASE RefuseAsk  BY <1>0, <1>12 DEF RefuseAsk, CallerTypeOK
<1>13. ASSUME NEW line, Initialized(line) PROVE CallerTypeOK'
  <2>1. PICK method \in {"thread/start", "thread/resume"} : Send(method)
    BY <1>13 DEF Initialized
  <2>2. method \in Method  BY DEF Method
  <2> QED BY <1>0, <1>13, <2>1, <2>2, SendTypes DEF Initialized, CallerTypeOK
<1>14. ASSUME NEW line, ThreadOpened(line) \/ Interrupted(line) PROVE CallerTypeOK'
  BY <1>0, <1>14 DEF ThreadOpened, Interrupted, CallerTypeOK
<1>15. ASSUME NEW line, TurnStarted(line) PROVE CallerTypeOK'
  <2>1. <<>> \in Seq(Event)  OBVIOUS
  <2> QED BY <1>0, <1>15, <2>1 DEF TurnStarted, CallerTypeOK
<1> QED BY <1>1, <1>2, <1>3, <1>4, <1>5, <1>6, <1>7, <1>8, <1>9, <1>10, <1>11, <1>12, <1>13, <1>14,
           <1>15, NextSplits, ServerKeepsClient DEF ClientStep, connection, client

\* Every step keeps the counts in their bounds.
LEMMA CountersStep ==
  ASSUME ConnectionTypeOK, ServedInOrder, AnsweredInTime, AuditedSoFar, [ConnectionNext]_connection
  PROVE  CountersOK'
<1>0. /\ caller \in {"spike", "task", "interview"} /\ step \in Nat /\ step <= Turns /\ Turns \in Nat
      /\ audited \in Nat /\ audited <= step /\ current \in 1..Turns \cup {Nil}
  BY CodexClientAssumption DEF ConnectionTypeOK, Turns
<1>1. step' \in Nat /\ step <= step' /\ caller' = caller /\ step' <= Turns' /\ Turns' = Turns
  BY StepGrows DEF Turns
<1>2. audited' \in Nat /\ audited' <= step'
  <2>1. CASE Judge /\ caller = "spike"
    <3>1. step = audited + 1 /\ audited' = audited + 1  BY <2>1 DEF Judge, AuditedSoFar, Underway
    <3> QED BY <3>1, <1>0, <1>1
  <2>2. CASE ~(Judge /\ caller = "spike")
    <3>1. CASE ClientStep
      <4>1. audited' = audited
        BY <2>2, <3>1 DEF ClientStep, Open, StartTurn, ReadMalformed, ReadEvent, Judge, Fallback, Close,
           Initialized, ThreadOpened, TurnStarted, Interrupted, RequestFails, Deadline, Grace, RefuseAsk
      <4> QED BY <4>1, <1>0, <1>1
    <3>2. CASE UNCHANGED client  BY <3>2, <1>0, <1>1 DEF client
    <3> QED BY <3>1, <3>2, NextSplits, ServerKeepsClient DEF connection
  <2> QED BY <2>1, <2>2
<1>3. current' \in 1..Turns \cup {Nil}
  <2>1. CASE \E line \in {Head(stdout)} : TurnStarted(line)
    <3>1. PICK line \in {Head(stdout)} : TurnStarted(line)  BY <2>1
    <3>2. Drops  BY <3>1, AcceptDrops DEF AcceptsAny
    <3>3. 1 \in DOMAIN stdout /\ line = stdout[1]
      <4>1. stdout \in Seq(Line) /\ stdout # <<>>  BY <3>2 DEF ConnectionTypeOK, Drops
      <4> QED BY <4>1
    <3>4. Due(line)  BY <3>1, <3>3 DEF TurnStarted, Awaits, Accepted, Asks, AnsweredInTime
    <3>5. current' = Len(served) /\ Len(served) > 0 /\ Len(served) <= step /\ Len(served) \in Nat
      BY <3>1, <3>4, TurnsType DEF TurnStarted, Due, ServedInOrder
    <3> QED BY <3>5, <1>0
  <2>2. CASE ClientStep /\ ~(\E line \in {Head(stdout)} : TurnStarted(line))
    <3>1. current' = current
      BY <2>2 DEF ClientStep, Open, StartTurn, ReadMalformed, ReadEvent, Judge, Fallback, Close,
         Initialized, ThreadOpened, Interrupted, RequestFails, Deadline, Grace, RefuseAsk
    <3> QED BY <3>1, <1>0
  <2>3. CASE UNCHANGED client  BY <2>3, <1>0 DEF client
  <2> QED BY <2>1, <2>2, <2>3, NextSplits, ServerKeepsClient DEF connection
<1> QED BY <1>0, <1>1, <1>2, <1>3 DEF CountersOK

\* Every step keeps ConnectionTypeOK.
LEMMA TypesStep ==
  ASSUME ConnectionTypeOK, RequestsInOrder, ServedInOrder, AnsweredInTime, AuditedSoFar,
         [ConnectionNext]_connection
  PROVE  ConnectionTypeOK'
<1>1. PipeTypeOK' /\ ServerTypeOK' /\ CallerTypeOK' /\ CountersOK'
  BY ConnectionEffect, PipeTypeStep, ServerTypeStep, CallerTypeStep, CountersStep
<1> QED BY <1>1 DEF ConnectionTypeOK, PipeTypeOK, ServerTypeOK, CallerTypeOK, CountersOK, TurnRecord

\* A fresh connection satisfies the invariant.
LEMMA ConnectionBegins ==
  ConnectionInit => ConnectionInv
<1> SUFFICES ASSUME ConnectionInit PROVE ConnectionInv  OBVIOUS
<1> USE DEF ConnectionInit
<1>1. ConnectionTypeOK
  <2>1. CountersOK
    <3>1. Turns \in Nat  BY CodexClientAssumption DEF Turns
    <3> QED BY <3>1 DEF CountersOK
  <2>2. PipeTypeOK
    <3>1. Len(<<>>) <= StreamSize  BY CodexClientAssumption
    <3> QED BY <3>1 DEF PipeTypeOK
  <2>3. ServerTypeOK  BY CodexClientAssumption DEF ServerTypeOK
  <2>4. CallerTypeOK
    <3>1. started \in BOOLEAN  BY Zenon
    <3>2. sent \in Nat /\ request \in Request \cup {Nil} /\ events \in Seq(Event)  OBVIOUS
    <3>3. pc = "open" /\ result = Nil /\ run = "running"  OBVIOUS
    <3> HIDE DEF ConnectionInit
    <3> QED BY <3>1, <3>2, <3>3 DEF CallerTypeOK
  <2> QED BY <2>1, <2>2, <2>3, <2>4, ConnectionTypes
<1>2. RequestsInOrder  BY DEF RequestsInOrder
<1>3. ServedInOrder
  <2>1. Piped = 0 /\ Len(served) = 0 /\ DOMAIN served = {}  BY DEF Piped
  <2>2. DOMAIN Pipe = {}  BY <2>1 DEF Pipe
  <2> QED BY <2>1, <2>2 DEF ServedInOrder
<1>4. AnsweredInTime /\ StreamedInOrder /\ ReturnedWhole
  BY DEF AnsweredInTime, StreamedInOrder, ReturnedWhole, Asks
<1>5. AuditedSoFar
  <2>1. Nil # "valid"  BY NilIsNoValue
  <2> QED BY <2>1 DEF AuditedSoFar, Underway, Asks
<1>6. StartedUnlessFirst /\ NoServerLeftBehind /\ SpikeIsSettled
  BY DEF StartedUnlessFirst, NoServerLeftBehind, SpikeIsSettled
<1> QED BY <1>1, <1>2, <1>3, <1>4, <1>5, <1>6 DEF ConnectionInv

\* Every step keeps the invariant.
LEMMA ConnectionKeeps ==
  ConnectionInv /\ [ConnectionNext]_connection => ConnectionInv'
<1> SUFFICES ASSUME ConnectionInv, [ConnectionNext]_connection PROVE ConnectionInv'  OBVIOUS
<1> USE DEF ConnectionInv
<1>1. ConnectionTypeOK'  BY TypesStep
<1>2. RequestsInOrder'  BY <1>1, RequestsStep
<1>3. ServedInOrder'  BY ServedStep
<1>4. AnsweredInTime'  BY AnsweredStep
<1>5. StreamedInOrder' /\ ReturnedWhole'  BY StreamedStep, ReturnedStep
<1>6. AuditedSoFar' /\ StartedUnlessFirst'  BY AuditedStep, StartedStep
<1>7. NoServerLeftBehind' /\ SpikeIsSettled'  BY ReapedStep, SettledStep
<1> QED BY <1>1, <1>2, <1>3, <1>4, <1>5, <1>6, <1>7

\* The invariant holds of every connection, its transport and its server.
THEOREM ConnectionInvariance == ConnectionSpec => []ConnectionInv
BY ConnectionBegins, ConnectionKeeps, PTL DEF ConnectionSpec

\* Type correctness: counts stay in their bounds, the stream within its slots.
THEOREM ConnectionTypeCorrect == ConnectionSpec => []ConnectionTypeOK
<1>1. ConnectionInv => ConnectionTypeOK  BY DEF ConnectionInv
<1> QED BY <1>1, ConnectionInvariance, PTL

\* A turn that run_turn returns has exactly the events the server sent for it, in order, for
\* streams of any size, any number of turns, and whatever else comes over the pipe
\* (app_server.py:138-178).
THEOREM TurnsAreWhole == ConnectionSpec => []OwnEvents
<1>1. ConnectionInv => OwnEvents  BY DEF ConnectionInv, ReturnedWhole, OwnEvents
<1> QED BY <1>1, ConnectionInvariance, PTL

\* No app-server outlives its caller, except that of a task whose initialize failed
\* (run.py:55-80).
THEOREM ServersAreReaped == ConnectionSpec => []NoServerLeftBehind
<1>1. ConnectionInv => NoServerLeftBehind  BY DEF ConnectionInv
<1> QED BY <1>1, ConnectionInvariance, PTL

\* A spike that ended has settled its record truthfully, with an audit record for each turn
\* that came back (spike_codex.py:56-117).
THEOREM SpikesAreSettled == ConnectionSpec => []SpikeIsSettled
<1>1. ConnectionInv => SpikeIsSettled  BY DEF ConnectionInv
<1> QED BY <1>1, ConnectionInvariance, PTL
=============================================================================
