---------------------------- MODULE CodexClient ----------------------------
(***************************************************************************)
(* One connection to the Codex app-server: CodexAppServerClient            *)
(* (codex/app_server.py) over the transport that JsonRpc models in detail, *)
(* and the three callers that own one:                                     *)
(*   spike      run_spike (commands/spike_codex.py): a context turn, a     *)
(*              result turn, at most one repair, then codex exec;          *)
(*   task       CodexTaskAppServer (commands/run.py): one turn per phase;  *)
(*   interview  ConversationRunner.run: turns beside a task that answers   *)
(*              the server's requests for approval, then codex exec.       *)
(*                                                                         *)
(* Of the transport, what its callers rely on: one request at a time, each *)
(* with a time limit; notifications in the order of the pipe, through a    *)
(* stream of StreamSize slots whose reader stops while it is full; an end  *)
(* of the server that fails requests but does not end the stream.  The     *)
(* server answers or not, fails turns, talks of other turns and dies.      *)
(***************************************************************************)
EXTENDS Integers, Sequences

CONSTANTS
  StreamSize,  \* slots of the notification stream (100 in the code)
  Phases,      \* phases of the task that reach execute_phase
  MaxItems,    \* bound: item events of a turn
  MaxNoise,    \* bound: notifications that are no event of an own turn
  Nil          \* no value

ASSUME CodexClientAssumption ==
  StreamSize \in Nat \ {0} /\ Phases \in Nat \ {0} /\ MaxItems \in Nat /\ MaxNoise \in Nat

VARIABLES
  caller,      \* whose connection this is
  pc,          \* where the caller is
  step,        \* turns the caller has asked for so far
  request,     \* the request under way, or Nil
  sent,        \* requests sent so far
  started,     \* CodexTaskAppServer.started
  current,     \* the turn whose events are awaited
  events,      \* its events so far
  result,      \* the structured result: Nil, valid, invalid (to be repaired)
  run,         \* status of the spike's run record
  audited,     \* audit records of the spike
  process,     \* none, up, dead (not yet reaped), reaped
  stdout,      \* lines the transport has not routed yet
  stream,      \* notifications in their stream
  served,      \* what the server has made of turn/start: [status, emitted, interrupted]
  ask,         \* the server request the running turn waits for
  noise        \* notifications of no turn so far

client == <<caller, pc, step, request, sent, started, current, events, result, run, audited>>
server == <<served, ask, noise>>
connection == <<client, process, stdout, stream, server>>

TurnStatus == {"inProgress", "completed", "interrupted", "failed"}
Event == [kind: {"item_completed"}, turn: Nat, message: {"valid", "invalid", Nil}]
         \cup [kind: {"turn_completed"}, turn: Nat, status: TurnStatus \ {"inProgress"}]
         \cup [kind: {"malformed"}]
Method == {"initialize", "thread/start", "thread/resume", "turn/start", "turn/interrupt"}
Request == [method: Method, nr: Nat]

\* What the server writes: an answer, that to turn/start with its turn, or a notification.
Answer     == [kind: {"reply"}, nr: Nat, ok: {TRUE}]
TurnAnswer == [kind: {"reply"}, nr: Nat, ok: {TRUE}, turn: Nat]
Line       == Answer \cup TurnAnswer \cup [kind: {"note"}, event: Event]

(***************************************************************************)
(* A request of the server for an approval or a dynamic tool, as far as    *)
(* parse_approval looks at it: a method it does not know needs no params,  *)
(* a known one must have its ids.                                          *)
(***************************************************************************)
ApprovalRequest == [known: BOOLEAN, wellFormed: BOOLEAN]
Parses(approval) == approval.known => approval.wellFormed

ASSUME NilIsNoValue == Nil \notin Nat \cup {"valid", "invalid"} /\ Nil \notin Request \cup ApprovalRequest

Turns == IF caller = "task" THEN Phases ELSE IF caller = "spike" THEN 3 ELSE 2

ConnectionTypeOK ==
  /\ caller \in {"spike", "task", "interview"}
  /\ pc \in {"open", "await", "ready", "streaming", "draining", "returned", "fallback",
             "raise", "close", "closed"}
  /\ step \in 0..Turns /\ sent \in Nat /\ audited \in 0..step /\ noise \in 0..MaxNoise
  /\ request \in Request \cup {Nil}
  /\ started \in BOOLEAN
  /\ current \in 1..Turns \cup {Nil}
  /\ events \in Seq(Event) /\ stream \in Seq(Event) /\ Len(stream) <= StreamSize
  /\ result \in {Nil, "valid", "invalid"}
  /\ run \in {"running", "completed", "failed"}
  /\ process \in {"none", "up", "dead", "reaped"}
  /\ served \in Seq([status: TurnStatus, emitted: Seq(Event), interrupted: BOOLEAN])
  /\ ask \in ApprovalRequest \cup {Nil}
  /\ stdout \in Seq(Line)

ConnectionInit ==
  /\ caller \in {"spike", "task", "interview"}
  /\ pc = "open" /\ step = 0 /\ request = Nil /\ sent = 0 /\ started = FALSE
  /\ current = Nil /\ events = <<>> /\ result = Nil /\ run = "running" /\ audited = 0
  /\ process = "none" /\ stdout = <<>> /\ stream = <<>>
  /\ served = <<>> /\ ask = Nil /\ noise = 0

-----------------------------------------------------------------------------
\* request(): refused once the transport has noticed that the server is gone.
Send(method) ==
  /\ sent' = sent + 1
  /\ \/ request' = [method |-> method, nr |-> sent + 1] /\ pc' = "await"
     \/ process = "dead" /\ request' = Nil /\ pc' = "raise"

\* transport.start and the initialize request.
Open ==
  /\ pc = "open"
  /\ process' = "up"
  /\ request' = [method |-> "initialize", nr |-> 1] /\ sent' = 1 /\ pc' = "await"
  /\ UNCHANGED <<caller, step, started, current, events, result, run, audited,
                 stdout, stream, server>>

Awaits(method) == pc = "await" /\ request # Nil /\ request.method = method

Accepted(line) ==
  /\ pc = "await" /\ stdout # <<>> /\ line = Head(stdout)
  /\ line.kind = "reply" /\ line.nr = request.nr /\ line.ok
  /\ stdout' = Tail(stdout)

\* The answer to initialize; the client then notifies "initialized" and opens a thread.
Initialized(line) ==
  /\ Awaits("initialize") /\ Accepted(line)
  /\ started' = TRUE
  /\ \E method \in {"thread/start", "thread/resume"} :
       (caller = "spike" => method = "thread/start") /\ Send(method)
  /\ UNCHANGED <<caller, step, current, events, result, run, audited, process, stream, server>>

ThreadOpened(line) ==
  /\ \E method \in {"thread/start", "thread/resume"} : Awaits(method)
  /\ Accepted(line)
  /\ pc' = "ready" /\ request' = Nil
  /\ UNCHANGED <<caller, step, sent, started, current, events, result, run, audited,
                 process, stream, server>>

TurnStarted(line) ==
  /\ Awaits("turn/start") /\ Accepted(line)
  /\ pc' = "streaming" /\ request' = Nil
  /\ current' = line.turn /\ events' = <<>>
  /\ UNCHANGED <<caller, step, sent, started, result, run, audited, process, stream, server>>

Interrupted(line) ==
  /\ Awaits("turn/interrupt") /\ Accepted(line)
  /\ pc' = "draining" /\ request' = Nil
  /\ UNCHANGED <<caller, step, sent, started, current, events, result, run, audited,
                 process, stream, server>>

(***************************************************************************)
(* A request fails: an error or a result of the wrong shape, the end of    *)
(* the server, or 30 seconds.  Only the interview survives one, a thread   *)
(* that cannot be resumed.  Its answer may come later; nobody waits for it.*)
(***************************************************************************)
RequestFails ==
  /\ pc = "await"
  /\ IF caller = "interview" /\ request.method = "thread/resume"
     THEN Send("thread/start")
     ELSE pc' = "raise" /\ request' = Nil /\ UNCHANGED sent
  /\ UNCHANGED <<caller, step, started, current, events, result, run, audited,
                 process, stdout, stream, server>>

\* _read_stdout: answers nobody waits for are dropped, notifications queued while there is room.
Route ==
  /\ process # "reaped" /\ stdout # <<>>
  /\ LET line == Head(stdout) IN
     \/ /\ line.kind = "reply"
        /\ IF request = Nil THEN TRUE ELSE line.nr # request.nr
        /\ UNCHANGED stream
     \/ /\ line.kind = "note" /\ Len(stream) < StreamSize
        /\ stream' = Append(stream, line.event)
  /\ stdout' = Tail(stdout)
  /\ UNCHANGED <<client, process, server>>

-----------------------------------------------------------------------------
\* start_turn, by run_turn.
StartTurn ==
  /\ pc = "ready" /\ step < Turns
  /\ step' = step + 1
  /\ Send("turn/start")
  /\ UNCHANGED <<caller, started, current, events, result, run, audited, process,
                 stdout, stream, server>>

\* stream_events looks at thread and turn.  (mutant) It looks at neither.
OwnAny(event) == TRUE
Own(event) == event.turn = current

\* _normalize_event raises on what breaks the protocol, also for another turn.
ReadMalformed ==
  /\ pc \in {"streaming", "draining"} /\ stream # <<>> /\ Head(stream).kind = "malformed"
  /\ stream' = Tail(stream) /\ pc' = "raise"
  /\ UNCHANGED <<caller, step, request, sent, started, current, events, result, run, audited,
                 process, stdout, server>>

ReadEvent ==
  /\ pc \in {"streaming", "draining"} /\ stream # <<>> /\ Head(stream).kind # "malformed"
  /\ LET event == Head(stream)
         ends  == Own(event) /\ event.kind = "turn_completed" IN
     /\ events' = IF pc = "streaming" /\ Own(event) THEN Append(events, event) ELSE events
     /\ pc' = IF ~ends THEN pc ELSE IF pc = "streaming" THEN "returned" ELSE "raise"
  /\ stream' = Tail(stream)
  /\ UNCHANGED <<caller, step, request, sent, started, current, result, run, audited,
                 process, stdout, server>>

\* fail_after(timeout): the turn is interrupted before the timeout is reported.
Deadline ==
  /\ pc = "streaming"
  /\ Send("turn/interrupt")
  /\ UNCHANGED <<caller, step, started, current, events, result, run, audited, process,
                 stdout, stream, server>>

\* move_on_after(2): the end of the interrupted turn is awaited for two seconds.
NoGrace == FALSE   \* (mutant) or without a limit
Graced == pc = "draining"
Grace ==
  /\ Graced
  /\ pc' = "raise"
  /\ UNCHANGED <<caller, step, request, sent, started, current, events, result, run, audited,
                 process, stdout, stream, server>>

-----------------------------------------------------------------------------
\* agent_message_text: the last agent message among the events, Nil if there is none.
Messages == {i \in DOMAIN events :
               events[i].kind = "item_completed" /\ events[i].message # Nil}
Message == IF Messages = {} THEN Nil
           ELSE events[CHOOSE i \in Messages : \A j \in Messages : j <= i].message

(***************************************************************************)
(* What the caller makes of a turn that ended; run_turn returns whatever   *)
(* status it ended with.  The spike writes an audit record first; the      *)
(* interview leaves the block of its connection before it looks.  (mutant) *)
(* An answer that does not validate after the repair will do.              *)
(***************************************************************************)
JudgedLenient ==
  IF caller \in {"spike", "interview"} /\ step = 1 THEN "ready"
  ELSE CASE caller = "interview" -> IF Message = "valid" THEN "close" ELSE "fallback"
         [] caller # "interview" /\ Message = Nil -> "raise"
         [] caller = "task" /\ Message # Nil ->
              IF Message = "invalid" THEN "raise" ELSE IF step = Turns THEN "close" ELSE "ready"
         [] caller = "spike" /\ Message # Nil ->
              IF Message = "valid" \/ step = Turns THEN "close" ELSE "ready"
Judged ==
  IF caller \in {"spike", "interview"} /\ step = 1 THEN "ready"
  ELSE CASE caller = "interview" -> IF Message = "valid" THEN "close" ELSE "fallback"
         [] caller # "interview" /\ Message = Nil -> "raise"
         [] caller = "task" /\ Message # Nil ->
              IF Message = "invalid" THEN "raise" ELSE IF step = Turns THEN "close" ELSE "ready"
         [] caller = "spike" /\ Message # Nil ->
              IF Message = "valid" THEN "close" ELSE IF step = Turns THEN "fallback" ELSE "ready"

Judge ==
  /\ pc = "returned"
  /\ pc' = Judged
  /\ result' = IF Judged = "close" THEN Message ELSE result
  /\ audited' = IF caller = "spike" THEN audited + 1 ELSE audited
  /\ process' = IF caller = "interview" /\ step = Turns THEN "reaped" ELSE process
  /\ UNCHANGED <<caller, step, request, sent, started, current, events, run, stdout, stream, server>>

\* codex exec: a result that validates, or StructuredResultError.
Fallback ==
  /\ pc = "fallback"
  /\ \/ pc' = "close" /\ result' = "valid"
     \/ pc' = "raise" /\ result' = Nil
  /\ UNCHANGED <<caller, step, request, sent, started, current, events, run, audited,
                 process, stdout, stream, server>>

(***************************************************************************)
(* The connection goes with its block ("async with", or close() in the     *)
(* finally of TaskRunner); then the spike settles its record.  (mutant)    *)
(* Only an orderly end closes it.                                          *)
(***************************************************************************)
ReapsOrderly == pc = "close"
Reaps == IF caller = "task" THEN started ELSE TRUE

Close ==
  /\ pc \in {"close", "raise"}
  /\ pc' = "closed"
  /\ process' = IF Reaps THEN "reaped" ELSE process
  /\ started' = FALSE
  /\ run' = IF caller # "spike" THEN run ELSE IF pc = "close" THEN "completed" ELSE "failed"
  /\ UNCHANGED <<caller, step, request, sent, current, events, result, audited,
                 stdout, stream, server>>

(***************************************************************************)
(* _deny_approval_requests, beside the turns of an interview: with its     *)
(* empty policy every answer is a denial and the turn goes on; a request   *)
(* that does not parse ends the interview.                                 *)
(***************************************************************************)
Responding == caller = "interview" /\ pc \in {"await", "ready", "streaming", "draining"} /\ step > 0

AnswerAsk ==
  /\ Responding /\ ask # Nil /\ process = "up" /\ Parses(ask)
  /\ ask' = Nil
  /\ UNCHANGED <<client, process, stdout, stream, served, noise>>

RefuseAsk ==
  /\ Responding /\ ask # Nil /\ ~Parses(ask)
  /\ pc' = "raise" /\ request' = Nil
  /\ UNCHANGED <<caller, step, sent, started, current, events, result, run, audited,
                 process, stdout, stream, server>>

-----------------------------------------------------------------------------
(***************************************************************************)
(* The server.                                                             *)
(***************************************************************************)
Say(line) == stdout' = Append(stdout, line)
Answers(method) ==
  /\ process = "up" /\ Awaits(method)
  /\ ~\E i \in DOMAIN stdout : stdout[i].kind = "reply" /\ stdout[i].nr = request.nr

ServerAnswer ==
  /\ \E method \in {"initialize", "thread/start", "thread/resume"} : Answers(method)
  /\ Say([kind |-> "reply", nr |-> request.nr, ok |-> TRUE])
  /\ UNCHANGED <<client, process, stream, server>>

ServerStartsTurn ==
  /\ Answers("turn/start") /\ Len(served) < step
  /\ served' = Append(served, [status |-> "inProgress", emitted |-> <<>>, interrupted |-> FALSE])
  /\ Say([kind |-> "reply", nr |-> request.nr, ok |-> TRUE, turn |-> Len(served) + 1])
  /\ UNCHANGED <<client, process, stream, ask, noise>>

ServerInterrupts ==
  /\ Answers("turn/interrupt")
  /\ served' = [served EXCEPT ![current].interrupted = TRUE]
  /\ Say([kind |-> "reply", nr |-> request.nr, ok |-> TRUE])
  /\ UNCHANGED <<client, process, stream, ask, noise>>

Emits(turn, event) ==
  /\ process = "up" /\ served[turn].status = "inProgress" /\ ask = Nil
  /\ Say([kind |-> "note", event |-> event])

ServerItem(turn) ==
  /\ Len(served[turn].emitted) < MaxItems
  /\ \E message \in {"valid", "invalid", Nil} :
       LET event == [kind |-> "item_completed", turn |-> turn, message |-> message] IN
       /\ Emits(turn, event)
       /\ served' = [served EXCEPT ![turn].emitted = Append(@, event)]
  /\ UNCHANGED <<client, process, stream, ask, noise>>

ServerEndsTurn(turn) ==
  /\ \E status \in IF served[turn].interrupted THEN {"interrupted"} ELSE {"completed", "failed"} :
       LET event == [kind |-> "turn_completed", turn |-> turn, status |-> status] IN
       /\ Emits(turn, event)
       /\ served' = [served EXCEPT ![turn].status = status, ![turn].emitted = Append(@, event)]
  /\ UNCHANGED <<client, process, stream, ask, noise>>

ServerNoise ==
  /\ process = "up" /\ noise < MaxNoise /\ noise' = noise + 1
  /\ \E event \in {[kind |-> "malformed"],
                   [kind |-> "item_completed", turn |-> 0, message |-> "valid"],
                   [kind |-> "turn_completed", turn |-> 0, status |-> "completed"]} :
       Say([kind |-> "note", event |-> event])
  /\ UNCHANGED <<client, process, stream, served, ask>>

ServerAsks ==
  /\ process = "up" /\ ask = Nil
  /\ \E turn \in DOMAIN served : served[turn].status = "inProgress" /\ served[turn].emitted = <<>>
  /\ ask' \in ApprovalRequest
  /\ UNCHANGED <<client, process, stdout, stream, served, noise>>

ServerDies ==
  /\ process = "up" /\ process' = "dead"
  /\ UNCHANGED <<client, stdout, stream, server>>

-----------------------------------------------------------------------------
Caller ==
  \/ Open \/ StartTurn \/ ReadMalformed \/ ReadEvent \/ Judge \/ Fallback \/ Close
  \/ pc = "await" /\ stdout # <<>> /\
       LET line == Head(stdout) IN
       Initialized(line) \/ ThreadOpened(line) \/ TurnStarted(line) \/ Interrupted(line)
Timer == RequestFails \/ Deadline \/ Grace
Server ==
  \/ ServerAnswer \/ ServerStartsTurn \/ ServerInterrupts \/ ServerNoise \/ ServerAsks \/ ServerDies
  \/ \E turn \in DOMAIN served : ServerItem(turn) \/ ServerEndsTurn(turn)

ConnectionNext == Caller \/ Timer \/ Route \/ AnswerAsk \/ RefuseAsk \/ Server

(***************************************************************************)
(* The event loop runs what is ready and its timers expire; codex exec     *)
(* ends (it has no time limit).  Nothing is asked of the server.           *)
(***************************************************************************)
Fairness == WF_connection(Caller) /\ WF_connection(Timer) /\ WF_connection(Route)
ConnectionSpec == ConnectionInit /\ [][ConnectionNext]_connection /\ Fairness

-----------------------------------------------------------------------------
(***************************************************************************)
(* A turn that run_turn returns has exactly the events the server sent for *)
(* it, all of them and in order, whatever else came over the pipe and      *)
(* however full the stream was (stream_events, app_server.py:138-147).     *)
(***************************************************************************)
OwnEvents == pc = "returned" => events = served[current].emitted

(***************************************************************************)
(* Every connection comes to its end, with a server that does not answer,  *)
(* floods the stream, waits for an approval nobody gives, or is dead: each *)
(* wait of the client has a limit (run_turn, app_server.py:149-178).       *)
(***************************************************************************)
EveryConnectionEnds == <>(pc = "closed")

(***************************************************************************)
(* No app-server outlives its caller, except that of a task whose          *)
(* initialize failed: close() looks at started, which is set after it      *)
(* (commands/run.py:55-80).                                                *)
(***************************************************************************)
NoServerLeftBehind ==
  pc = "closed" => process = "reaped" \/ (caller = "task" /\ sent = 1)

(***************************************************************************)
(* A spike that ended has settled its record, and truthfully: completed    *)
(* with a result that validated, else failed, and an audit record for each *)
(* turn that came back (run_spike, spike_codex.py:56-117).                 *)
(***************************************************************************)
SpikeIsSettled ==
  caller = "spike" /\ pc = "closed" =>
    /\ run = (IF result = "valid" THEN "completed" ELSE "failed")
    /\ result = "valid" => audited >= 2 /\ audited = step
=============================================================================
