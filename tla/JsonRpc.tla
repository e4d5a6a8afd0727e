------------------------------ MODULE JsonRpc ------------------------------
(***************************************************************************)
(* JsonRpcSubprocessClient (codex/jsonrpc.py): requests of several tasks   *)
(* over the pipes of one subprocess.  One task reads the lines of stdout   *)
(* and routes them: a response to the request that waits for its id,       *)
(* notifications and server requests into two bounded streams that other   *)
(* tasks consume.  Writers take turns by a lock.  The server reads, answers*)
(* in any order, asks, writes rubbish and dies as it likes.                *)
(*                                                                         *)
(* The tasks are coroutines of one event loop: a step is what happens      *)
(* between two awaits.  Task t sends one request; the responder (as        *)
(* _deny_approval_requests in conversation/runner.py) answers the server's *)
(* requests one after the other.                                           *)
(***************************************************************************)
EXTENDS Integers, Sequences, FiniteSets

CONSTANTS
  Task,        \* tasks with a request to make
  Responder,
  StreamSize,  \* slots of a memory object stream (100 in the code)
  PipeSize,    \* messages a pipe takes before its writer has to wait
  MaxAsks,     \* bound: requests by the server
  MaxNotes,    \* bound: notifications by the server
  None

VARIABLES
  state,    \* of every writer: idle, send, drain, wait, done
  id,       \* the id a writer sends under
  outcome,  \* how the request of a task ended
  nextId, pending, terminal, closing,
  lock,     \* the writer that holds the write lock
  reader,   \* the task _read_stdout: read, exit (awaiting the exit), done, or lost to an error
            \* that it raised itself
  notes,    \* notifications in their stream
  asks,     \* server requests in theirs
  stdin, stdout,
  server,   \* up or dead
  unanswered, \* requests the server has read and not answered
  asked,    \* server requests made so far
  noted,    \* notifications sent so far
  replied   \* server requests whose response the server has read

client == <<nextId, pending, terminal, closing, lock, reader, notes, asks>>
world  == <<stdin, stdout, server, unanswered, asked, noted, replied>>
vars   == <<state, id, outcome, client, world>>

Writer == Task \cup {Responder}
Id     == 1..Cardinality(Task)
Ask    == 1..MaxAsks
Failure == {"malformed", "exit"}
Waiting == [set: BOOLEAN, result: Task \cup {None}, error: Failure \cup {None}]

ASSUME JsonRpcAssumption ==
  /\ IsFiniteSet(Task) /\ Responder \notin Task
  /\ StreamSize \in Nat \ {0} /\ PipeSize \in Nat \ {0}
  /\ MaxAsks \in Nat /\ MaxNotes \in Nat

\* The values that stand for "no id", "no result" or "no error", and the ways a request can
\* fail, are not mistaken for others.
ASSUME DistinctAssumption ==
  /\ None \notin Nat \cup Writer \cup Failure \cup Waiting
  /\ Task \cap (Failure \cup {"timeout", "refused", "cancelled"}) = {}

Line == [kind: {"request"}, id: Id, of: Task] \cup [kind: {"response"}, id: Id, of: Task]
        \cup [kind: {"ask", "reply"}, id: Ask] \cup [kind: {"note", "rubbish"}]

TypeOK ==
  /\ state \in [Writer -> {"idle", "send", "drain", "wait", "done"}]
  /\ id \in [Writer -> Id \cup Ask \cup {None}] /\ \A t \in Task : id[t] \in Id \cup {None}
  /\ id[Responder] \in Ask \cup {None}
  /\ outcome \in [Task -> Task \cup Failure \cup {"timeout", "refused", "cancelled", None}]
  /\ nextId \in 1..(Cardinality(Task) + 1)
  /\ pending \in [Id -> Waiting \cup {None}]
  /\ terminal \in Failure \cup {None}
  /\ closing \in BOOLEAN
  /\ lock \in Writer \cup {None}
  /\ reader \in {"read", "exit", "done", "lost"}
  /\ notes \in 0..StreamSize
  /\ asks \in Seq(Ask) /\ Len(asks) <= StreamSize
  /\ stdin \in Seq(Line) /\ stdout \in Seq(Line) /\ Len(stdout) <= PipeSize
  /\ server \in {"up", "dead"}
  /\ unanswered \subseteq [id: Id, of: Task]
  /\ asked \in 0..MaxAsks /\ noted \in 0..MaxNotes
  /\ replied \subseteq Ask

Init ==
  /\ state = [w \in Writer |-> "idle"] /\ id = [w \in Writer |-> None]
  /\ outcome = [t \in Task |-> None]
  /\ nextId = 1 /\ pending = [i \in Id |-> None]
  /\ terminal = None /\ closing = FALSE
  /\ lock = None /\ reader = "read" /\ notes = 0 /\ asks = <<>>
  /\ stdin = <<>> /\ stdout = <<>> /\ server = "up"
  /\ unanswered = {} /\ asked = 0 /\ noted = 0 /\ replied = {}

-----------------------------------------------------------------------------
(***************************************************************************)
(* _ensure_usable.  (mutant) It does not look at the terminal error.       *)
(***************************************************************************)
UsableUntilClosed == ~closing
Usable == terminal = None /\ ~closing

(***************************************************************************)
(* The id of a new request.  (mutant) The lowest one that is free.         *)
(***************************************************************************)
LowestFreeId == CHOOSE i \in Id : pending[i] = None /\ \A j \in 1..(i - 1) : pending[j] # None
NewId == nextId

(***************************************************************************)
(* _fail: the first error is final, and every waiter is told.              *)
(***************************************************************************)
Told(p, failure) ==
  [i \in Id |-> IF p[i] = None THEN None ELSE [p[i] EXCEPT !.error = failure, !.set = TRUE]]

AfterFailure(failure) == IF terminal = None THEN Told(pending, failure) ELSE pending

Fail(failure) == terminal' = IF terminal = None THEN failure ELSE terminal

End(t, result) ==
  /\ state' = [state EXCEPT ![t] = "done"]
  /\ outcome' = [outcome EXCEPT ![t] = result]

\* request, up to the first await: a slot for the response, then the lock.
Request(t) ==
  /\ state[t] = "idle" /\ Usable
  /\ id' = [id EXCEPT ![t] = NewId]
  /\ nextId' = nextId + 1
  /\ pending' = [pending EXCEPT ![NewId] = [set |-> FALSE, result |-> None, error |-> None]]
  /\ state' = [state EXCEPT ![t] = "send"]
  /\ UNCHANGED <<outcome, terminal, closing, lock, reader, notes, asks, world>>

Refused(t) ==
  /\ state[t] = "idle" /\ ~Usable
  /\ End(t, "refused")
  /\ UNCHANGED <<id, client, world>>

Message(w) == IF w = Responder THEN [kind |-> "reply", id |-> id[w]]
              ELSE [kind |-> "request", id |-> id[w], of |-> w]

\* _send: the payload goes to the buffer of the pipe, whether or not it will be read.
Write(w) ==
  /\ state[w] = "send" /\ lock = None /\ ~closing
  /\ stdin' = IF server = "dead" THEN stdin ELSE Append(stdin, Message(w))
  /\ lock' = w
  /\ state' = [state EXCEPT ![w] = "drain"]
  /\ UNCHANGED <<id, outcome, nextId, pending, terminal, closing, reader, notes, asks,
                 stdout, server, unanswered, asked, noted, replied>>

\* The buffer has room again: the task starts to wait, the responder is through.
Drained(w) ==
  /\ state[w] = "drain"
  /\ Len(stdin) <= PipeSize \/ server = "dead"
  /\ lock' = None
  /\ state' = [state EXCEPT ![w] = IF w = Responder THEN "idle" ELSE "wait"]
  /\ id' = IF w = Responder THEN [id EXCEPT ![w] = None] ELSE id
  /\ UNCHANGED <<outcome, nextId, pending, terminal, closing, reader, notes, asks, world>>

\* The pipe is broken or closed; the exit of the process is awaited and reported.
BrokenSend(w) ==
  /\ state[w] \in {"send", "drain"} /\ lock \in {w, None} /\ server = "dead"
  /\ Fail("exit")
  /\ lock' = None
  /\ pending' = IF w = Responder THEN AfterFailure("exit")
                ELSE [AfterFailure("exit") EXCEPT ![id[w]] = None]
  /\ state' = [state EXCEPT ![w] = "done"]
  /\ outcome' = IF w = Responder THEN outcome ELSE [outcome EXCEPT ![w] = "exit"]
  /\ UNCHANGED <<id, nextId, closing, reader, notes, asks, world>>

\* The event is set: the error, if there is one, else the result.
Return(t) ==
  /\ state[t] = "wait" /\ pending[id[t]].set
  /\ End(t, IF pending[id[t]].error # None THEN pending[id[t]].error ELSE pending[id[t]].result)
  /\ pending' = [pending EXCEPT ![id[t]] = None]
  /\ UNCHANGED <<id, nextId, terminal, closing, lock, reader, notes, asks, world>>

(***************************************************************************)
(* fail_after.  (mutant) A wait without a limit.                           *)
(***************************************************************************)
NoLimit(t) == FALSE
Expires(t) == ~pending[id[t]].set

Timeout(t) ==
  /\ state[t] = "wait" /\ Expires(t)
  /\ End(t, "timeout")
  /\ pending' = [pending EXCEPT ![id[t]] = None]
  /\ UNCHANGED <<id, nextId, terminal, closing, lock, reader, notes, asks, world>>

-----------------------------------------------------------------------------
(***************************************************************************)
(* _route_response: an id that nobody waits for is ignored.                *)
(***************************************************************************)
Answered(line) ==
  IF pending[line.id] = None THEN pending
  ELSE [pending EXCEPT ![line.id] = [@ EXCEPT !.result = line.of, !.set = TRUE]]

\* What the reader finds first on stdout.
Found(kind) == reader = "read" /\ stdout # <<>> /\ Head(stdout).kind = kind

ReadResponse ==
  /\ Found("response")
  /\ pending' = Answered(Head(stdout))
  /\ stdout' = Tail(stdout)
  /\ UNCHANGED <<state, id, outcome, nextId, terminal, closing, lock, reader, notes, asks,
                 stdin, server, unanswered, asked, noted, replied>>

\* A stream that is full holds up the reader, and all lines behind this one.
ReadNote ==
  /\ Found("note") /\ notes < StreamSize
  /\ notes' = notes + 1
  /\ stdout' = Tail(stdout)
  /\ UNCHANGED <<state, id, outcome, nextId, pending, terminal, closing, lock, reader, asks,
                 stdin, server, unanswered, asked, noted, replied>>

Full(queue) == Len(queue) = StreamSize

RestOfReadAsk ==
  /\ stdout' = Tail(stdout)
  /\ UNCHANGED <<state, id, outcome, nextId, pending, terminal, closing, lock, reader, notes,
                 stdin, server, unanswered, asked, noted, replied>>

\* (mutant) A server request that finds its stream full is dropped.
ReadAskOrDrop ==
  /\ Found("ask")
  /\ asks' = IF Full(asks) THEN asks ELSE Append(asks, Head(stdout).id)
  /\ RestOfReadAsk

ReadAsk ==
  /\ Found("ask") /\ ~Full(asks)
  /\ asks' = Append(asks, Head(stdout).id)
  /\ RestOfReadAsk

ReadRubbish ==
  /\ Found("rubbish")
  /\ Fail("malformed") /\ pending' = AfterFailure("malformed")
  /\ reader' = "done"
  /\ stdout' = <<>>
  /\ UNCHANGED <<state, id, outcome, nextId, closing, lock, notes, asks,
                 stdin, server, unanswered, asked, noted, replied>>

\* End of stream with nothing left in the buffer: unless the client is closing, the exit is
\* awaited, then reported.
AtEnd == reader = "read" /\ stdout = <<>> /\ server = "dead"

ReadEof ==
  /\ AtEnd
  /\ reader' = IF closing THEN "done" ELSE "exit"
  /\ UNCHANGED <<state, id, outcome, nextId, pending, terminal, closing, lock, notes, asks, world>>

\* End of stream in the middle of a line.  What there is of it is no message, and the error of
\* _route_line is raised inside the handler of the end of stream: the handler beside it, which
\* would call _fail, does not see it, and the error ends the reader.
ReadCutLine ==
  /\ AtEnd
  /\ reader' = "lost"
  /\ UNCHANGED <<state, id, outcome, nextId, pending, terminal, closing, lock, notes, asks, world>>

ReportExit ==
  /\ reader = "exit"
  /\ Fail("exit") /\ pending' = AfterFailure("exit")
  /\ reader' = "done"
  /\ UNCHANGED <<state, id, outcome, nextId, closing, lock, notes, asks, world>>

\* The error has left the reader, so the task group of start cancels its host: the task that
\* opened the client and those below it, at the await they are at.  Others are not cancelled.
Cancelled(w) ==
  /\ reader = "lost"
  /\ state[w] \in {"send", "drain", "wait"} \/ (w = Responder /\ state[w] = "idle")
  /\ state' = [state EXCEPT ![w] = "done"]
  /\ outcome' = IF w = Responder THEN outcome ELSE [outcome EXCEPT ![w] = "cancelled"]
  /\ pending' = IF w = Responder THEN pending ELSE [pending EXCEPT ![id[w]] = None]
  /\ lock' = IF lock = w THEN None ELSE lock
  /\ UNCHANGED <<id, nextId, terminal, closing, reader, notes, asks, world>>

\* The consumer of notifications (stream_events, codex/app_server.py).
TakeNote ==
  /\ notes > 0
  /\ notes' = notes - 1
  /\ UNCHANGED <<state, id, outcome, nextId, pending, terminal, closing, lock, reader, asks, world>>

\* The responder takes a server request; it ends when it finds the client unusable.
TakeAsk ==
  /\ state[Responder] = "idle" /\ asks # <<>>
  /\ asks' = Tail(asks)
  /\ state' = [state EXCEPT ![Responder] = IF Usable THEN "send" ELSE "done"]
  /\ id' = [id EXCEPT ![Responder] = IF Usable THEN Head(asks) ELSE None]
  /\ UNCHANGED <<outcome, nextId, pending, terminal, closing, lock, reader, notes, world>>

\* close: stdin is closed; the process exits, or is terminated or killed.
Close ==
  /\ ~closing
  /\ closing' = TRUE
  /\ UNCHANGED <<state, id, outcome, nextId, pending, terminal, lock, reader, notes, asks, world>>

Reap ==
  /\ closing /\ server = "dead" /\ reader \in {"read", "exit"}
  /\ reader' = "done"
  /\ stdout' = <<>>
  /\ UNCHANGED <<state, id, outcome, nextId, pending, terminal, closing, lock, notes, asks,
                 stdin, server, unanswered, asked, noted, replied>>

-----------------------------------------------------------------------------
(***************************************************************************)
(* The server.  What it prints when nobody reads is left out, and so is    *)
(* what it has not read or not answered when it dies.                      *)
(***************************************************************************)
Emit(line) ==
  server = "up" /\ reader # "done" /\ Len(stdout) < PipeSize /\ stdout' = Append(stdout, line)
Unmoved == UNCHANGED <<state, id, outcome, client>>

ServerRead ==
  /\ server = "up" /\ stdin # <<>>
  /\ stdin' = Tail(stdin)
  /\ LET m == Head(stdin) IN
       IF m.kind = "request"
       THEN /\ unanswered' = unanswered \cup {[id |-> m.id, of |-> m.of]}
            /\ UNCHANGED replied
       ELSE /\ replied' = replied \cup {m.id}
            /\ UNCHANGED unanswered
  /\ UNCHANGED <<stdout, server, asked, noted>> /\ Unmoved

ServerAnswer ==
  /\ \E r \in unanswered :
       /\ Emit([kind |-> "response", id |-> r.id, of |-> r.of])
       /\ unanswered' = unanswered \ {r}
  /\ UNCHANGED <<stdin, server, asked, noted, replied>> /\ Unmoved

ServerAsk ==
  /\ asked < MaxAsks
  /\ Emit([kind |-> "ask", id |-> asked + 1])
  /\ asked' = asked + 1
  /\ UNCHANGED <<stdin, server, unanswered, noted, replied>> /\ Unmoved

ServerNote ==
  /\ noted < MaxNotes
  /\ Emit([kind |-> "note"])
  /\ noted' = noted + 1
  /\ UNCHANGED <<stdin, server, unanswered, asked, replied>> /\ Unmoved

ServerRubbish ==
  /\ \A i \in DOMAIN stdout : stdout[i].kind # "rubbish"
  /\ Emit([kind |-> "rubbish"])
  /\ UNCHANGED <<stdin, server, unanswered, asked, noted, replied>> /\ Unmoved

ServerDie ==
  /\ server = "up"
  /\ server' = "dead" /\ stdin' = <<>> /\ unanswered' = {}
  /\ UNCHANGED <<stdout, asked, noted, replied>> /\ Unmoved

-----------------------------------------------------------------------------
TaskStep(t) == Request(t) \/ Refused(t) \/ Return(t) \/ Timeout(t)
Sending(w)  == Write(w) \/ Drained(w) \/ BrokenSend(w)
Reading     == ReadResponse \/ ReadNote \/ ReadAsk \/ ReadRubbish
               \/ ReadEof \/ ReadCutLine \/ ReportExit
Serving     == ServerAnswer \/ ServerAsk \/ ServerNote \/ ServerRubbish

Next ==
  \/ \E t \in Task : TaskStep(t)
  \/ \E w \in Writer : Sending(w) \/ Cancelled(w)
  \/ Reading \/ TakeNote \/ TakeAsk \/ Close \/ Reap
  \/ ServerRead \/ Serving \/ ServerDie

(***************************************************************************)
(* The event loop resumes every coroutine that can go on, timers fire, the *)
(* consumers consume, and close terminates the process.  Of the server it  *)
(* is assumed only that it reads its input while it lives.                 *)
(***************************************************************************)
Fairness ==
  /\ \A t \in Task : WF_vars(Return(t) \/ Timeout(t))
  /\ \A w \in Writer : WF_vars(Sending(w))
  /\ WF_vars(Reading) /\ WF_vars(TakeNote) /\ WF_vars(TakeAsk)
  /\ WF_vars(ServerRead) /\ WF_vars(closing /\ ServerDie)

Spec == Init /\ [][Next]_vars /\ Fairness

-----------------------------------------------------------------------------
(***************************************************************************)
(* A response reaches the request it answers, and no other: not one that   *)
(* came after the first had timed out, whatever order the server answers   *)
(* in and however late.                                                    *)
(***************************************************************************)
OwnAnswer == \A t \in Task : outcome[t] \in Task => outcome[t] = t

(***************************************************************************)
(* Once the transport has failed nobody is left waiting for it: a request  *)
(* that is under way, at whatever await, finds its event set; and a reader *)
(* that came to its end without a close has reported why.  The exception   *)
(* is a reader that is lost to the error of a last line that was cut off:  *)
(* it reports nothing, terminal may stay None, and whoever is neither      *)
(* cancelled with the task group nor sends again has only the timeout      *)
(* (EveryRequestEnds).                                                     *)
(***************************************************************************)
EveryWaiterIsTold ==
  /\ terminal # None => \A t \in Task :
       state[t] \in {"send", "drain", "wait"} => pending[id[t]].set
  /\ reader = "done" /\ ~closing => terminal # None

(***************************************************************************)
(* Every request ends: the server may answer late, never, or die, as long  *)
(* as it reads its input until then (the timeout does not cover the send). *)
(***************************************************************************)
EveryRequestEnds == \A t \in Task : state[t] = "send" ~> state[t] = "done"

(***************************************************************************)
(* Every request the server makes is answered, unless the transport fails, *)
(* is closed or its process ends: bounded streams delay, they do not drop. *)
(***************************************************************************)
EveryAskIsAnswered ==
  \A a \in Ask :
    asked >= a ~> (a \in replied \/ terminal # None \/ closing \/ server = "dead")
=============================================================================
