---------------------------- MODULE JsonRpcProofs ----------------------------
(***************************************************************************)
(* Proofs about JsonRpcSubprocessClient for any number of tasks, any sizes *)
(* of the pipes and streams, and a server that answers in any order.       *)
(***************************************************************************)
EXTENDS JsonRpc, FiniteSetTheorems, TLAPS

-----------------------------------------------------------------------------
(***************************************************************************)
(* The inductive invariant                                                 *)
(***************************************************************************)

\* A request that is under way: it has an id and a slot for its response.
UnderWay(t) == state[t] \in {"send", "drain", "wait"}

\* The tasks that have been given an id.
Issued == {t \in Task : id[t] # None}

\* Ids are given out in turn, one to each request, and never again.
Numbered ==
  /\ nextId = Cardinality(Issued) + 1
  /\ \A t \in Issued : id[t] < nextId
  /\ \A t, u \in Issued : id[t] = id[u] => t = u
  /\ \A t \in Task : (state[t] = "idle" => t \notin Issued) /\ (UnderWay(t) => t \in Issued)

\* A request or a response names a task under the id that task has; the client sends
\* nothing but requests and replies.
Genuine(line) == line.kind \in {"request", "response"} => id[line.of] = line.id

AllGenuine ==
  /\ \A k \in 1..Len(stdin) : stdin[k].kind \in {"request", "reply"} /\ Genuine(stdin[k])
  /\ \A k \in 1..Len(stdout) : Genuine(stdout[k])
  /\ \A r \in unanswered : id[r.of] = r.id

\* A slot belongs to one request, from before it is sent until it ends.
Slots ==
  \A t \in Issued :
    /\ UnderWay(t) => pending[id[t]] # None
    /\ pending[id[t]] # None => pending[id[t]].result \in {None, t}

\* The responder answers one request of the server at a time.
Responding ==
  /\ state[Responder] # "wait"
  /\ state[Responder] \in {"send", "drain"} => id[Responder] # None

IInv ==
  /\ TypeOK
  /\ Numbered /\ AllGenuine /\ Slots /\ Responding
  /\ OwnAnswer
  /\ EveryWaiterIsTold

USE JsonRpcAssumption, DistinctAssumption

-----------------------------------------------------------------------------
(***************************************************************************)
(* Lemmas about the operators of the model                                 *)
(***************************************************************************)

\* A line's kind tells what it holds.
LEMMA LineFields ==
  ASSUME NEW l \in Line
  PROVE  /\ l.kind \in {"request", "response"} => l.id \in Id /\ l.of \in Task
         /\ l.kind \in {"ask", "reply"} => l.id \in Ask
         /\ l.kind \in {"request", "response", "ask", "reply", "note", "rubbish"}
BY DEF Line

LEMMA LineForms ==
  /\ \A i \in Id, t \in Task :
       [kind |-> "request", id |-> i, of |-> t] \in Line /\ [kind |-> "response", id |-> i, of |-> t] \in Line
  /\ \A a \in Ask : [kind |-> "ask", id |-> a] \in Line /\ [kind |-> "reply", id |-> a] \in Line
  /\ [kind |-> "note"] \in Line /\ [kind |-> "rubbish"] \in Line
BY DEF Line

\* What the three ways to write a slot make of it.
FreshSlot == [set |-> FALSE, result |-> None, error |-> None]

AnsweredSlot(x, t) == [x EXCEPT !.result = t, !.set = TRUE]

FailedSlot(x, f) == [x EXCEPT !.error = f, !.set = TRUE]

LEMMA Fresh == FreshSlot \in Waiting /\ FreshSlot.result = None
BY DEF Waiting, FreshSlot

LEMMA Answering ==
  ASSUME NEW x \in Waiting, NEW t \in Task
  PROVE  AnsweredSlot(x, t) \in Waiting /\ AnsweredSlot(x, t).result = t /\ AnsweredSlot(x, t).set
<1>1. AnsweredSlot(x, t) \in Waiting
  BY DEF Waiting, AnsweredSlot
<1>2. AnsweredSlot(x, t).result = t
  BY DEF Waiting, AnsweredSlot
<1>3. AnsweredSlot(x, t).set
  BY DEF Waiting, AnsweredSlot
<1>. QED
  BY <1>1, <1>2, <1>3

LEMMA Failing ==
  ASSUME NEW x \in Waiting, NEW f \in Failure
  PROVE  FailedSlot(x, f) \in Waiting /\ FailedSlot(x, f).result = x.result /\ FailedSlot(x, f).set
<1>1. FailedSlot(x, f) \in Waiting
  BY DEF Waiting, FailedSlot
<1>2. FailedSlot(x, f).result = x.result
  BY DEF Waiting, FailedSlot
<1>3. FailedSlot(x, f).set
  BY DEF Waiting, FailedSlot
<1>. QED
  BY <1>1, <1>2, <1>3

\* _fail keeps every slot and what is in it, and sets the event of each if it is the first.
LEMMA FailureSets ==
  ASSUME TypeOK, NEW f \in Failure, NEW i \in Id
  PROVE  /\ AfterFailure(f) \in [Id -> Waiting \cup {None}]
         /\ (AfterFailure(f)[i] = None) <=> (pending[i] = None)
         /\ pending[i] # None => AfterFailure(f)[i].result = pending[i].result
         /\ pending[i] # None /\ terminal = None => AfterFailure(f)[i].set
         /\ terminal # None => AfterFailure(f) = pending
<1>1. CASE terminal # None
  BY <1>1 DEF TypeOK, AfterFailure
<1>2. CASE terminal = None
  <2>1. AfterFailure(f) = Told(pending, f)
    BY <1>2 DEF AfterFailure
  <2>2. ASSUME NEW j \in Id PROVE
           /\ Told(pending, f)[j] \in Waiting \cup {None}
           /\ (Told(pending, f)[j] = None) <=> (pending[j] = None)
           /\ pending[j] # None => Told(pending, f)[j].result = pending[j].result
           /\ pending[j] # None => Told(pending, f)[j].set
    <3>1. CASE pending[j] = None
      BY <3>1 DEF Told
    <3>2. CASE pending[j] # None
      <4>1. pending[j] \in Waiting
        BY <3>2 DEF TypeOK
      <4>. DEFINE y == FailedSlot(pending[j], f)
      <4>3. Told(pending, f)[j] = y
        BY <3>2 DEF Told, FailedSlot
      <4>4. y \in Waiting /\ y.result = pending[j].result /\ y.set
        BY <4>1, Failing
      <4>. HIDE DEF y
      <4>5. y # None
        BY <4>4
      <4>6. Told(pending, f)[j].set
        BY <4>3, <4>4, Zenon
      <4>. QED
        BY <3>2, <4>3, <4>4, <4>5, <4>6, Zenon
    <3>. QED
      BY <3>1, <3>2
  <2>3. Told(pending, f) \in [Id -> Waiting \cup {None}]
    <3>1. Told(pending, f) = [j \in Id |-> Told(pending, f)[j]]
      BY DEF Told
    <3>. QED
      BY <2>2, <3>1
  <2>. QED
    BY <1>2, <2>1, <2>2, <2>3
<1>. QED
  BY <1>1, <1>2

\* A task without an id leaves one to be given out.
LEMMA IdsLeft ==
  ASSUME TypeOK, Numbered, NEW t \in Task, t \notin Issued
  PROVE  nextId \in Id
<1>1. IsFiniteSet(Issued) /\ Cardinality(Issued) <= Cardinality(Task)
      /\ (Cardinality(Issued) = Cardinality(Task) => Issued = Task)
  BY FS_Subset DEF Issued
<1>2. Cardinality(Issued) \in Nat /\ Cardinality(Task) \in Nat
  BY <1>1, FS_CardinalityType
<1>. QED
  BY <1>1, <1>2 DEF Numbered, Id

\* Lines stay genuine as long as ids stay, and each line is an old one or a genuine new one.
LEMMA StaysGenuine ==
  ASSUME TypeOK, AllGenuine, \A u \in Issued : id'[u] = id[u],
         \A k \in 1..Len(stdin') :
           \/ \E j \in 1..Len(stdin) : stdin'[k] = stdin[j]
           \/ stdin'[k].kind \in {"request", "reply"} /\ Genuine(stdin[k])',
         \A k \in 1..Len(stdout') :
           \/ \E j \in 1..Len(stdout) : stdout'[k] = stdout[j]
           \/ Genuine(stdout[k])',
         \A r \in unanswered' : r \in unanswered \/ id'[r.of] = r.id
  PROVE  AllGenuine'
<1>1. ASSUME NEW l \in Line, Genuine(l) PROVE l.kind \in {"request", "response"} => id'[l.of] = l.id
  <2>1. SUFFICES ASSUME l.kind \in {"request", "response"} PROVE id'[l.of] = l.id
    OBVIOUS
  <2>2. l.id \in Id /\ l.of \in Task /\ id[l.of] = l.id
    BY <1>1, <2>1, LineFields DEF Genuine
  <2>3. l.of \in Issued
    BY <2>2 DEF Issued, Id
  <2>. QED
    BY <2>2, <2>3
<1>2. /\ \A j \in 1..Len(stdin) : stdin[j] \in Line
      /\ \A j \in 1..Len(stdout) : stdout[j] \in Line
  BY DEF TypeOK
<1>3. ASSUME NEW k \in 1..Len(stdin')
      PROVE  stdin'[k].kind \in {"request", "reply"} /\ Genuine(stdin[k])'
  <2>1. CASE \E j \in 1..Len(stdin) : stdin'[k] = stdin[j]
    <3>1. PICK j \in 1..Len(stdin) : stdin'[k] = stdin[j]
      BY <2>1
    <3>2. stdin[j] \in Line /\ stdin[j].kind \in {"request", "reply"} /\ Genuine(stdin[j])
      BY <1>2 DEF AllGenuine
    <3>3. stdin[j].kind \in {"request", "response"} => id'[stdin[j].of] = stdin[j].id
      BY <1>1, <3>2
    <3>. QED
      BY <3>1, <3>2, <3>3 DEF Genuine
  <2>. QED
    BY <1>3, <2>1
<1>4. ASSUME NEW k \in 1..Len(stdout') PROVE Genuine(stdout[k])'
  <2>1. CASE \E j \in 1..Len(stdout) : stdout'[k] = stdout[j]
    <3>1. PICK j \in 1..Len(stdout) : stdout'[k] = stdout[j]
      BY <2>1
    <3>2. stdout[j] \in Line /\ Genuine(stdout[j])
      BY <1>2 DEF AllGenuine
    <3>3. stdout[j].kind \in {"request", "response"} => id'[stdout[j].of] = stdout[j].id
      BY <1>1, <3>2
    <3>. QED
      BY <3>1, <3>3 DEF Genuine
  <2>. QED
    BY <1>4, <2>1
<1>5. ASSUME NEW r \in unanswered' PROVE id'[r.of] = r.id
  <2>1. CASE r \in unanswered
    <3>1. r.of \in Task /\ r.id \in Id /\ id[r.of] = r.id
      BY <2>1 DEF TypeOK, AllGenuine
    <3>2. r.of \in Issued
      BY <3>1 DEF Issued, Id
    <3>. QED
      BY <3>1, <3>2
  <2>. QED
    BY <2>1
<1>. QED
  BY <1>3, <1>4, <1>5 DEF AllGenuine

-----------------------------------------------------------------------------
(***************************************************************************)
(* The invariant through steps of the reader, the consumers and the server *)
(* that end no request and fail nothing                                    *)
(***************************************************************************)
LEMMA NobodyInvolved ==
  ASSUME IInv, UNCHANGED <<state, id, outcome, nextId, pending, terminal>>,
         TypeOK', AllGenuine', reader' = "done" /\ ~closing' => terminal' # None
  PROVE  IInv'
<1>1. Numbered' /\ Slots'
  BY DEF IInv, Numbered, Slots, Issued, UnderWay
<1>2. Responding' /\ OwnAnswer'
  BY DEF IInv, Responding, OwnAnswer
<1>3. EveryWaiterIsTold'
  BY DEF IInv, EveryWaiterIsTold
<1>. QED
  BY <1>1, <1>2, <1>3 DEF IInv

\* One line is taken off stdout.
LEMMA ReaderStep ==
  ASSUME IInv, ReadNote \/ ReadAsk
  PROVE  IInv'
<1>1. stdout \in Seq(Line) /\ stdout # <<>> /\ stdout' = Tail(stdout)
  BY DEF IInv, TypeOK, ReadNote, ReadAsk, Found, RestOfReadAsk
<1>2. /\ stdout' \in Seq(Line) /\ Len(stdout') = Len(stdout) - 1
      /\ \A k \in 1..Len(stdout') : stdout'[k] = stdout[k + 1]
  BY <1>1
<1>3. /\ UNCHANGED <<state, id, outcome, nextId, pending, terminal, closing, lock, reader,
                     stdin, server, unanswered, asked, noted, replied>>
      /\ notes' \in 0..StreamSize
  BY DEF IInv, TypeOK, ReadNote, ReadAsk, RestOfReadAsk
<1>4. asks' \in Seq(Ask) /\ Len(asks') <= StreamSize
  <2>1. CASE ReadNote
    BY <2>1 DEF IInv, TypeOK, ReadNote
  <2>2. CASE ReadAsk
    <3>1. Head(stdout) \in Line /\ Head(stdout).kind = "ask"
      BY <1>1, <2>2 DEF ReadAsk, Found
    <3>2. Head(stdout).id \in Ask
      BY <3>1, LineFields
    <3>3. asks \in Seq(Ask) /\ Len(asks) < StreamSize
      BY <2>2 DEF IInv, TypeOK, ReadAsk, Full
    <3>4. asks' = Append(asks, Head(stdout).id)
      BY <2>2 DEF ReadAsk
    <3>. QED
      BY <3>2, <3>3, <3>4
  <2>. QED
    BY <2>1, <2>2
<1>5. TypeOK'
  BY <1>1, <1>2, <1>3, <1>4 DEF IInv, TypeOK
<1>6. \A k \in 1..Len(stdout') : \E j \in 1..Len(stdout) : stdout'[k] = stdout[j]
  <2>1. \A k \in 1..Len(stdout') : k + 1 \in 1..Len(stdout)
    BY <1>1, <1>2
  <2>. QED
    BY <1>2, <2>1
<1>7. AllGenuine'
  BY <1>3, <1>6, StaysGenuine DEF IInv
<1>. QED
  BY <1>3, <1>5, <1>7, NobodyInvolved DEF IInv, EveryWaiterIsTold

LEMMA EndOfStreamStep ==
  ASSUME IInv, ReadEof \/ ReadCutLine \/ TakeNote \/ Close \/ Reap
  PROVE  IInv'
<1>1. UNCHANGED <<state, id, outcome, nextId, pending, terminal, lock, asks,
                  stdin, server, unanswered, asked, noted, replied>>
  BY DEF ReadEof, ReadCutLine, TakeNote, Close, Reap, client, world
<1>2. /\ stdout' = stdout \/ stdout' = <<>>
      /\ notes' \in 0..StreamSize
      /\ closing' \in BOOLEAN
      /\ reader' \in {"read", "exit", "done", "lost"}
  <2>1. stdout' = stdout \/ stdout' = <<>>
    BY DEF ReadEof, ReadCutLine, TakeNote, Close, Reap, world
  <2>2. notes' \in 0..StreamSize
    BY DEF IInv, TypeOK, ReadEof, ReadCutLine, TakeNote, Close, Reap
  <2>3. closing' \in BOOLEAN
    BY Zenon DEF IInv, TypeOK, ReadEof, ReadCutLine, TakeNote, Close, Reap
  <2>4. reader' \in {"read", "exit", "done", "lost"}
    BY DEF IInv, TypeOK, ReadEof, ReadCutLine, TakeNote, Close, Reap
  <2>. QED
    BY <2>1, <2>2, <2>3, <2>4
<1>3. reader' = "done" /\ ~closing' => terminal' # None
  BY DEF IInv, EveryWaiterIsTold, ReadEof, ReadCutLine, TakeNote, Close, Reap
<1>4. stdout' \in Seq(Line) /\ Len(stdout') <= PipeSize
  <2>1. CASE stdout' = stdout
    BY <2>1 DEF IInv, TypeOK
  <2>2. CASE stdout' = <<>>
    BY <2>2
  <2>. QED
    BY <1>2, <2>1, <2>2
<1>5. TypeOK'
  BY <1>1, <1>2, <1>4 DEF IInv, TypeOK
<1>6. AllGenuine'
  BY <1>1, <1>2 DEF IInv, AllGenuine, Genuine
<1>. QED
  BY <1>1, <1>3, <1>5, <1>6, NobodyInvolved

\* The server reads a line and keeps a request under the id and for the task it names.
LEMMA ServerReadStep == ASSUME IInv, ServerRead PROVE IInv'
<1>. DEFINE m == Head(stdin)
<1>1. stdin \in Seq(Line) /\ stdin # <<>> /\ stdin' = Tail(stdin) /\ m \in Line /\ m = stdin[1]
  BY DEF IInv, TypeOK, ServerRead
<1>2. /\ stdin' \in Seq(Line) /\ Len(stdin') = Len(stdin) - 1 /\ Len(stdin) >= 1
      /\ \A k \in 1..Len(stdin') : stdin'[k] = stdin[k + 1]
  BY <1>1
<1>3. UNCHANGED <<state, id, outcome, nextId, pending, terminal, closing, lock, reader, notes, asks,
                  stdout, server, asked, noted>>
  BY DEF ServerRead, Unmoved, client
<1>4. \A k \in 1..Len(stdin') : \E j \in 1..Len(stdin) : stdin'[k] = stdin[j]
  <2>1. \A k \in 1..Len(stdin') : k + 1 \in 1..Len(stdin)
    BY <1>2
  <2>. QED
    BY <1>2, <2>1
<1>5. Genuine(m)
  BY <1>1, <1>2 DEF IInv, AllGenuine
<1>6. CASE m.kind = "request"
  <2>1. unanswered' = unanswered \cup {[id |-> m.id, of |-> m.of]} /\ replied' = replied
    BY <1>6 DEF ServerRead
  <2>2. m.id \in Id /\ m.of \in Task /\ id[m.of] = m.id
    BY <1>1, <1>5, <1>6, LineFields DEF Genuine
  <2>. HIDE DEF m
  <2>3. TypeOK'
    BY <1>2, <1>3, <2>1, <2>2 DEF IInv, TypeOK
  <2>4. AllGenuine'
    BY <1>3, <1>4, <2>1, <2>2, StaysGenuine DEF IInv
  <2>. QED
    BY <1>3, <2>3, <2>4, NobodyInvolved DEF IInv, EveryWaiterIsTold
<1>7. CASE m.kind # "request"
  <2>1. unanswered' = unanswered /\ replied' = replied \cup {m.id}
    BY <1>7 DEF ServerRead
  <2>2. m.id \in Ask
    BY <1>1, <1>2, <1>7, LineFields DEF IInv, AllGenuine
  <2>. HIDE DEF m
  <2>3. TypeOK'
    BY <1>2, <1>3, <2>1, <2>2 DEF IInv, TypeOK
  <2>4. AllGenuine'
    BY <1>3, <1>4, <2>1, StaysGenuine DEF IInv
  <2>. QED
    BY <1>3, <2>3, <2>4, NobodyInvolved DEF IInv, EveryWaiterIsTold
<1>. QED
  BY <1>6, <1>7

\* The server prints a line: an answer names the task whose request it has read.
LEMMA EmitStep ==
  ASSUME IInv, Unmoved, NEW l \in Line, Emit(l), Genuine(l),
         UNCHANGED <<stdin, server>>, unanswered' \subseteq unanswered,
         asked' \in 0..MaxAsks, noted' \in 0..MaxNotes, replied' = replied
  PROVE  IInv'
<1>1. UNCHANGED <<state, id, outcome, nextId, pending, terminal, closing, lock, reader, notes, asks>>
  BY DEF Unmoved, client
<1>2. /\ stdout \in Seq(Line) /\ stdout' = Append(stdout, l) /\ Len(stdout) < PipeSize
  BY DEF IInv, TypeOK, Emit
<1>3. /\ stdout' \in Seq(Line) /\ Len(stdout') = Len(stdout) + 1
      /\ \A k \in 1..Len(stdout) : stdout'[k] = stdout[k]
      /\ stdout'[Len(stdout) + 1] = l
  BY <1>2
<1>4. Len(stdout') <= PipeSize
  BY <1>2, <1>3
<1>5. TypeOK'
  BY <1>1, <1>3, <1>4 DEF IInv, TypeOK
<1>6. \A k \in 1..Len(stdout') : k \in 1..Len(stdout) \/ k = Len(stdout) + 1
  BY <1>2, <1>3
<1>7. \A k \in 1..Len(stdout') :
        \/ \E j \in 1..Len(stdout) : stdout'[k] = stdout[j]
        \/ Genuine(stdout[k])'
  BY <1>1, <1>3, <1>6 DEF Genuine
<1>8. AllGenuine'
  BY <1>1, <1>7, StaysGenuine DEF IInv
<1>. QED
  BY <1>1, <1>5, <1>8, NobodyInvolved DEF IInv, EveryWaiterIsTold

LEMMA ServingStep == ASSUME IInv, Serving PROVE IInv'
<1>1. CASE ServerAnswer
  <2>1. PICK r \in unanswered : /\ Emit([kind |-> "response", id |-> r.id, of |-> r.of])
                                /\ unanswered' = unanswered \ {r}
    BY <1>1 DEF ServerAnswer
  <2>. DEFINE l == [kind |-> "response", id |-> r.id, of |-> r.of]
  <2>2. r.id \in Id /\ r.of \in Task /\ id[r.of] = r.id
    BY DEF IInv, TypeOK, AllGenuine
  <2>3. l \in Line /\ Genuine(l)
    BY <2>2, LineForms DEF Genuine
  <2>4. UNCHANGED <<stdin, server, asked, noted, replied>> /\ Unmoved
    BY <1>1 DEF ServerAnswer, Emit
  <2>. HIDE DEF l
  <2>. QED
    BY <2>1, <2>3, <2>4, EmitStep DEF l, IInv, TypeOK
<1>2. CASE ServerAsk
  <2>. DEFINE l == [kind |-> "ask", id |-> asked + 1]
  <2>1. asked + 1 \in Ask /\ asked' = asked + 1
    BY <1>2 DEF ServerAsk, IInv, TypeOK, Ask
  <2>2. l \in Line /\ Genuine(l)
    BY <2>1, LineForms DEF Genuine
  <2>3. UNCHANGED <<stdin, server, unanswered, noted, replied>> /\ Unmoved /\ Emit(l)
    BY <1>2 DEF ServerAsk, Emit
  <2>4. asked' \in 0..MaxAsks /\ noted' \in 0..MaxNotes /\ unanswered' \subseteq unanswered
    BY <2>1, <2>3 DEF IInv, TypeOK, Ask
  <2>. HIDE DEF l
  <2>. QED
    BY <2>2, <2>3, <2>4, EmitStep
<1>3. CASE ServerNote \/ ServerRubbish
  <2>1. PICK l \in {[kind |-> "note"], [kind |-> "rubbish"]} : Emit(l)
    BY <1>3 DEF ServerNote, ServerRubbish
  <2>2. l \in Line /\ Genuine(l)
    BY LineForms DEF Genuine
  <2>3. UNCHANGED <<stdin, server, unanswered, asked, replied>> /\ Unmoved /\ noted' \in 0..MaxNotes
    BY <1>3 DEF ServerNote, ServerRubbish, Emit, IInv, TypeOK
  <2>. QED
    BY <2>1, <2>2, <2>3, EmitStep DEF IInv, TypeOK
<1>. QED
  BY <1>1, <1>2, <1>3 DEF Serving

LEMMA ServerDieStep == ASSUME IInv, ServerDie PROVE IInv'
<1>1. UNCHANGED <<state, id, outcome, nextId, pending, terminal, closing, lock, reader, notes, asks,
                  stdout, asked, noted, replied>>
  BY DEF ServerDie, Unmoved, client
<1>2. stdin' = <<>> /\ server' = "dead" /\ unanswered' = {}
  BY DEF ServerDie
<1>3. TypeOK'
  BY <1>1, <1>2 DEF IInv, TypeOK
<1>4. AllGenuine'
  BY <1>1, <1>2 DEF IInv, AllGenuine, Genuine
<1>. QED
  BY <1>1, <1>3, <1>4, NobodyInvolved DEF IInv, EveryWaiterIsTold

-----------------------------------------------------------------------------
(***************************************************************************)
(* The invariant through the steps of a request                            *)
(***************************************************************************)

\* A new id: the slot under it is new, and nobody else has it.
LEMMA RequestStep == ASSUME IInv, NEW t \in Task, Request(t) PROVE IInv'
<1>1. /\ state[t] = "idle" /\ terminal = None /\ ~closing
      /\ id' = [id EXCEPT ![t] = nextId] /\ nextId' = nextId + 1
      /\ pending' = [pending EXCEPT ![nextId] = FreshSlot]
      /\ state' = [state EXCEPT ![t] = "send"]
      /\ UNCHANGED <<outcome, terminal, closing, lock, reader, notes, asks,
                     stdin, stdout, server, unanswered, asked, noted, replied>>
  BY DEF Request, Usable, NewId, FreshSlot, world
<1>2. t \in Task /\ t \in Writer /\ t # Responder /\ t \notin Issued
  BY <1>1 DEF IInv, Numbered, Writer
<1>3. nextId \in Id /\ nextId # None
  BY <1>2, IdsLeft DEF IInv, Id
<1>4. FreshSlot \in Waiting /\ FreshSlot # None /\ FreshSlot.result = None
  BY Fresh
<1>5. Issued' = Issued \cup {t}
  BY <1>1, <1>2, <1>3 DEF Issued, IInv, TypeOK
<1>6. Numbered'
  <2>1. IsFiniteSet(Issued)
    BY FS_Subset DEF Issued
  <2>2. Cardinality(Issued') = Cardinality(Issued) + 1
    BY <1>2, <1>5, <2>1, FS_AddElement
  <2>3. nextId' = Cardinality(Issued') + 1
    BY <1>1, <2>2 DEF IInv, Numbered
  <2>4. \A u \in Issued : id'[u] = id[u] /\ id[u] < nextId /\ u # t /\ id[u] \in Id
    BY <1>1, <1>2 DEF IInv, Numbered, TypeOK, Issued
  <2>5. id'[t] = nextId
    BY <1>1, <1>2 DEF IInv, TypeOK
  <2>6. \A u \in Issued' : id'[u] < nextId'
    BY <1>1, <1>3, <1>5, <2>4, <2>5 DEF Id
  <2>7. \A u, v \in Issued' : id'[u] = id'[v] => u = v
    BY <1>3, <1>5, <2>4, <2>5 DEF IInv, Numbered, Id
  <2>8. \A u \in Task : (state'[u] = "idle" => u \notin Issued') /\ (UnderWay(u)' => u \in Issued')
    BY <1>1, <1>2, <1>5 DEF IInv, Numbered, UnderWay, TypeOK
  <2>. QED
    BY <2>3, <2>6, <2>7, <2>8 DEF Numbered
<1>7. ASSUME NEW u \in Issued PROVE id'[u] = id[u] /\ id[u] # nextId /\ id[u] \in Id /\ u # t
  <2>1. u \in Task /\ id[u] # None /\ u # t /\ id[u] < nextId
    BY <1>2 DEF IInv, Numbered, Issued
  <2>2. id[u] \in Id
    BY <2>1 DEF IInv, TypeOK
  <2>3. id'[u] = id[u]
    BY <1>1, <2>1 DEF IInv, TypeOK, Writer
  <2>. QED
    BY <1>3, <2>1, <2>2, <2>3 DEF Id
<1>8. AllGenuine'
  BY <1>1, <1>7, StaysGenuine DEF IInv, AllGenuine
<1>9. TypeOK'
  <2>1. state' \in [Writer -> {"idle", "send", "drain", "wait", "done"}]
    BY <1>1, <1>2 DEF IInv, TypeOK
  <2>2. id' \in [Writer -> Id \cup Ask \cup {None}] /\ \A u \in Task : id'[u] \in Id \cup {None}
    BY <1>1, <1>2, <1>3 DEF IInv, TypeOK, Writer
  <2>3. pending' \in [Id -> Waiting \cup {None}]
    BY <1>1, <1>4 DEF IInv, TypeOK
  <2>4. nextId' \in 1..(Cardinality(Task) + 1)
    BY <1>1, <1>3, FS_CardinalityType DEF Id
  <2>. QED
    BY <1>1, <2>1, <2>2, <2>3, <2>4 DEF IInv, TypeOK
<1>10. pending'[nextId] = FreshSlot /\ \A i \in Id : i # nextId => pending'[i] = pending[i]
  BY <1>1, <1>3 DEF IInv, TypeOK
<1>11. Slots'
  <2>1. ASSUME NEW u \in Issued
        PROVE  /\ UnderWay(u)' => pending'[id'[u]] # None
               /\ pending'[id'[u]] # None => pending'[id'[u]].result \in {None, u}
    <3>1. pending'[id'[u]] = pending[id[u]] /\ state'[u] = state[u]
      BY <1>1, <1>7, <1>10
    <3>. QED
      BY <3>1 DEF IInv, Slots, UnderWay
  <2>2. /\ id'[t] = nextId /\ pending'[id'[t]] # None /\ pending'[id'[t]].result \in {None, t}
    BY <1>1, <1>2, <1>4, <1>10 DEF IInv, TypeOK
  <2>. QED
    BY <1>5, <2>1, <2>2 DEF Slots
<1>12. Responding' /\ OwnAnswer' /\ EveryWaiterIsTold'
  <2>1. state'[Responder] = state[Responder] /\ id'[Responder] = id[Responder]
    BY <1>1, <1>2 DEF IInv, TypeOK, Writer
  <2>. QED
    BY <1>1, <2>1 DEF IInv, Responding, OwnAnswer, EveryWaiterIsTold
<1>. QED
  BY <1>6, <1>8, <1>9, <1>11, <1>12 DEF IInv

\* What the end of a request leaves to show: its slot, and who has been told of a failure.
LEMMA EndStep ==
  ASSUME IInv, NEW t \in Task, NEW r \in Failure \cup {"timeout", "refused", "cancelled", None, t}, End(t, r),
         UNCHANGED <<id, nextId, closing, reader, notes, asks, world>>,
         lock' \in {lock, None}, terminal' \in Failure \cup {None},
         pending' \in [Id -> Waiting \cup {None}], Slots', EveryWaiterIsTold'
  PROVE  IInv'
<1>1. t \in Writer /\ t # Responder
  BY DEF Writer
<1>2. /\ state' = [state EXCEPT ![t] = "done"] /\ outcome' = [outcome EXCEPT ![t] = r]
      /\ UNCHANGED <<stdin, stdout, server, unanswered, asked, noted, replied>>
  BY DEF End, world
<1>3. TypeOK'
  <2>1. state' \in [Writer -> {"idle", "send", "drain", "wait", "done"}]
    BY <1>1, <1>2 DEF IInv, TypeOK
  <2>2. outcome' \in [Task -> Task \cup Failure \cup {"timeout", "refused", "cancelled", None}]
    BY <1>1, <1>2 DEF IInv, TypeOK
  <2>3. lock' \in Writer \cup {None}
    BY DEF IInv, TypeOK
  <2>. QED
    BY <1>2, <2>1, <2>2, <2>3 DEF IInv, TypeOK
<1>4. Numbered'
  <2>1. Issued' = Issued
    BY DEF Issued
  <2>2. \A u \in Task : (state'[u] = "idle" => u \notin Issued) /\ (UnderWay(u)' => u \in Issued)
    BY <1>1, <1>2 DEF IInv, TypeOK, Numbered, UnderWay, Writer
  <2>. QED
    BY <2>1, <2>2 DEF IInv, Numbered
<1>5. AllGenuine'
  BY <1>2 DEF IInv, AllGenuine, Genuine
<1>6. Responding'
  BY <1>1, <1>2 DEF IInv, TypeOK, Responding
<1>7. OwnAnswer'
  <2>1. r \in Task => r = t
    <3>1. r # None /\ r \notin Failure /\ r \notin {"timeout", "refused", "cancelled"} => r = t
      OBVIOUS
    <3>2. None \notin Task /\ Task \cap (Failure \cup {"timeout", "refused", "cancelled"}) = {}
      BY DEF Writer
    <3>. QED
      BY <3>1, <3>2
  <2>2. outcome'[t] = r /\ \A u \in Task : u # t => outcome'[u] = outcome[u]
    BY <1>2 DEF IInv, TypeOK
  <2>. QED
    BY <2>1, <2>2 DEF IInv, OwnAnswer
<1>. QED
  BY <1>3, <1>4, <1>5, <1>6, <1>7 DEF IInv

LEMMA RefusedStep == ASSUME IInv, NEW t \in Task, Refused(t) PROVE IInv'
<1>1. End(t, "refused") /\ UNCHANGED <<id, client, world>>
  BY DEF Refused
<1>2. UNCHANGED <<nextId, pending, terminal, closing, lock, reader, notes, asks>>
  BY <1>1 DEF client
<1>3. t \in Writer /\ state' = [state EXCEPT ![t] = "done"]
  BY <1>1 DEF End, Writer
<1>4. Slots' /\ EveryWaiterIsTold'
  BY <1>1, <1>2, <1>3 DEF IInv, TypeOK, Slots, Issued, UnderWay, EveryWaiterIsTold
<1>. QED
  BY <1>1, <1>2, <1>4, EndStep DEF IInv, TypeOK

\* The request of t ends and gives its slot back; the other slots stay.
LEMMA SlotGivenBack ==
  ASSUME IInv, NEW t \in Issued, state' = [state EXCEPT ![t] = "done"], id' = id,
         NEW filled \in [Id -> Waiting \cup {None}], pending' = [filled EXCEPT ![id[t]] = None],
         \A i \in Id : /\ pending[i] # None => filled[i] # None
                       /\ filled[i] # None => pending[i] # None /\ filled[i].result = pending[i].result
  PROVE  pending' \in [Id -> Waiting \cup {None}] /\ Slots'
<1>1. t \in Task /\ t \in Writer /\ id[t] \in Id
  BY DEF IInv, TypeOK, Issued, Writer
<1>2. pending' \in [Id -> Waiting \cup {None}]
  BY <1>1
<1>3. ASSUME NEW u \in Issued
      PROVE  /\ UnderWay(u)' => pending'[id'[u]] # None
             /\ pending'[id'[u]] # None => pending'[id'[u]].result \in {None, u}
  <2>1. u \in Task /\ u \in Writer /\ id[u] \in Id
    BY DEF IInv, TypeOK, Issued, Writer
  <2>2. CASE u = t
    BY <1>1, <2>2 DEF IInv, TypeOK, UnderWay
  <2>3. CASE u # t
    <3>1. id[u] # id[t]
      BY <2>3 DEF IInv, Numbered
    <3>2. pending'[id'[u]] = filled[id[u]] /\ state'[u] = state[u]
      BY <1>1, <2>1, <2>3, <3>1 DEF IInv, TypeOK
    <3>. QED
      BY <2>1, <3>2 DEF IInv, Slots, UnderWay
  <2>. QED
    BY <2>2, <2>3
<1>4. Slots'
  BY <1>3 DEF Slots, Issued
<1>. QED
  BY <1>2, <1>4

\* The end of a request takes the event of no other one.
LEMMA OthersStayTold ==
  ASSUME IInv, NEW t \in Issued, state' = [state EXCEPT ![t] = "done"],
         pending' = [pending EXCEPT ![id[t]] = None], UNCHANGED <<id, terminal, closing, reader>>
  PROVE  EveryWaiterIsTold'
<1>1. t \in Writer /\ id[t] \in Id
  BY DEF IInv, TypeOK, Issued, Writer
<1>2. ASSUME terminal # None, NEW u \in Task, state'[u] \in {"send", "drain", "wait"}
      PROVE  pending'[id[u]].set
  <2>1. u # t /\ u \in Writer /\ state'[u] = state[u]
    BY <1>1, <1>2 DEF IInv, TypeOK, Writer
  <2>2. u \in Issued
    BY <1>2, <2>1 DEF IInv, Numbered, UnderWay
  <2>3. id[u] # id[t] /\ id[u] \in Id
    BY <2>1, <2>2 DEF IInv, Numbered, Issued, TypeOK
  <2>4. pending'[id[u]] = pending[id[u]]
    BY <1>1, <2>3 DEF IInv, TypeOK
  <2>. QED
    BY <1>2, <2>1, <2>4 DEF IInv, EveryWaiterIsTold
<1>. QED
  BY <1>2 DEF IInv, EveryWaiterIsTold

\* The request returns the failure it was told of, or its own answer, or times out.
LEMMA ReturnStep == ASSUME IInv, NEW t \in Task, Return(t) \/ Timeout(t) PROVE IInv'
<1>1. /\ state[t] = "wait" /\ pending' = [pending EXCEPT ![id[t]] = None]
      /\ UNCHANGED <<id, nextId, terminal, closing, lock, reader, notes, asks, world>>
      /\ state' = [state EXCEPT ![t] = "done"]
  BY DEF Return, Timeout, End
<1>2. t \in Issued /\ t \in Writer /\ id[t] \in Id
  BY <1>1 DEF IInv, TypeOK, Numbered, UnderWay, Issued, Writer
<1>3. pending[id[t]] \in Waiting /\ pending[id[t]].result \in {None, t}
  BY <1>1, <1>2 DEF IInv, TypeOK, Slots, UnderWay
<1>4. pending[id[t]].error \in Failure \cup {None}
  BY <1>3 DEF Waiting
<1>5. PICK r \in Failure \cup {"timeout", "refused", "cancelled", None, t} : End(t, r)
  BY <1>3, <1>4 DEF Return, Timeout
<1>6. pending \in [Id -> Waiting \cup {None}] /\ pending' \in [Id -> Waiting \cup {None}] /\ Slots'
  <2>1. pending \in [Id -> Waiting \cup {None}]
    BY DEF IInv, TypeOK
  <2>. QED
    BY <1>1, <1>2, <2>1, SlotGivenBack
<1>7. EveryWaiterIsTold'
  BY <1>1, <1>2, <1>6, OthersStayTold
<1>. QED
  BY <1>1, <1>5, <1>6, <1>7, EndStep DEF IInv, TypeOK

\* A request that is cancelled gives back its slot, and the lock if it has it.
LEMMA CancelledRequest == ASSUME IInv, NEW t \in Task, Cancelled(t) PROVE IInv'
<1>1. /\ UnderWay(t) /\ pending' = [pending EXCEPT ![id[t]] = None]
      /\ End(t, "cancelled") /\ state' = [state EXCEPT ![t] = "done"]
      /\ UNCHANGED <<id, nextId, terminal, closing, reader, notes, asks, world>>
      /\ lock' \in {lock, None}
  BY DEF Cancelled, End, UnderWay
<1>2. t \in Issued /\ t \in Writer /\ id[t] \in Id
  BY <1>1 DEF IInv, TypeOK, Numbered, Issued, Writer
<1>3. pending \in [Id -> Waiting \cup {None}] /\ terminal \in Failure \cup {None}
  BY DEF IInv, TypeOK
<1>4. pending' \in [Id -> Waiting \cup {None}] /\ Slots'
  BY <1>1, <1>2, <1>3, SlotGivenBack
<1>5. EveryWaiterIsTold'
  BY <1>1, <1>2, <1>4, OthersStayTold
<1>. QED
  BY <1>1, <1>3, <1>4, <1>5, EndStep

\* A step that only moves requests on, from one await to the next.
LEMMA SameTasks ==
  ASSUME IInv, UNCHANGED <<outcome, nextId, pending, terminal, closing, reader>>,
         \A u \in Task : id'[u] = id[u],
         \A u \in Task : state'[u] = state[u] \/ (UnderWay(u) /\ UnderWay(u)'),
         TypeOK', AllGenuine', Responding'
  PROVE  IInv'
<1>1. Issued' = Issued
  BY DEF Issued
<1>2. \A u \in Task : /\ state'[u] = "idle" <=> state[u] = "idle"
                      /\ UnderWay(u)' <=> UnderWay(u)
  BY DEF UnderWay
<1>3. Numbered'
  BY <1>1, <1>2 DEF IInv, Numbered, Issued
<1>4. Slots'
  BY <1>1, <1>2 DEF IInv, Slots, Issued
<1>5. OwnAnswer' /\ EveryWaiterIsTold'
  BY <1>2 DEF IInv, OwnAnswer, EveryWaiterIsTold, UnderWay
<1>. QED
  BY <1>3, <1>4, <1>5 DEF IInv

\* A message goes out under the id its writer has.
LEMMA WriteStep == ASSUME IInv, NEW w \in Writer, Write(w) PROVE IInv'
<1>. DEFINE m == Message(w)
<1>1. /\ state[w] = "send" /\ state' = [state EXCEPT ![w] = "drain"] /\ lock' = w
      /\ stdin' = stdin \/ stdin' = Append(stdin, m)
      /\ UNCHANGED <<id, outcome, nextId, pending, terminal, closing, reader, notes, asks,
                     stdout, server, unanswered, asked, noted, replied>>
  BY DEF Write
<1>2. m \in Line /\ m.kind \in {"request", "reply"} /\ Genuine(m)
  <2>1. CASE w = Responder
    <3>1. id[w] \in Ask
      BY <1>1, <2>1 DEF IInv, TypeOK, Responding, Ask, Id
    <3>2. m = [kind |-> "reply", id |-> id[w]]
      BY <2>1 DEF Message
    <3>3. m \in Line
      BY <3>1, <3>2, LineForms, Zenon
    <3>4. m.kind = "reply"
      BY <3>2
    <3>. QED
      BY <3>3, <3>4 DEF Genuine
  <2>2. CASE w \in Task
    <3>1. id[w] \in Id
      BY <1>1, <2>2 DEF IInv, TypeOK, Numbered, UnderWay, Issued
    <3>2. m = [kind |-> "request", id |-> id[w], of |-> w]
      BY <2>2 DEF Message
    <3>3. m \in Line
      BY <2>2, <3>1, <3>2, LineForms, Zenon
    <3>4. m.kind = "request" /\ m.id = id[w] /\ m.of = w
      BY <3>2
    <3>. QED
      BY <3>3, <3>4 DEF Genuine
  <2>. QED
    BY <2>1, <2>2 DEF Writer
<1>. HIDE DEF m
<1>3. stdin \in Seq(Line)
  BY DEF IInv, TypeOK
<1>4. /\ stdin' \in Seq(Line)
      /\ \A k \in 1..Len(stdin') :
           \/ \E j \in 1..Len(stdin) : stdin'[k] = stdin[j]
           \/ stdin'[k].kind \in {"request", "reply"} /\ Genuine(stdin[k])'
  <2>1. CASE stdin' = stdin
    BY <1>3, <2>1
  <2>2. CASE stdin' = Append(stdin, m)
    <3>1. /\ stdin' \in Seq(Line) /\ Len(stdin') = Len(stdin) + 1 /\ stdin'[Len(stdin) + 1] = m
          /\ \A k \in 1..Len(stdin) : stdin'[k] = stdin[k]
      BY <1>2, <1>3, <2>2
    <3>2. \A k \in 1..Len(stdin') : k \in 1..Len(stdin) \/ k = Len(stdin) + 1
      BY <1>3, <3>1
    <3>. QED
      BY <1>1, <1>2, <3>1, <3>2 DEF Genuine
  <2>. QED
    BY <1>1, <2>1, <2>2
<1>5. AllGenuine'
  BY <1>1, <1>4, StaysGenuine DEF IInv, AllGenuine
<1>6. state' \in [Writer -> {"idle", "send", "drain", "wait", "done"}]
  BY <1>1 DEF IInv, TypeOK
<1>7. TypeOK'
  BY <1>1, <1>4, <1>6 DEF IInv, TypeOK
<1>8. \A u \in Writer : state'[u] = state[u] \/ (state[u] = "send" /\ state'[u] = "drain")
  BY <1>1 DEF IInv, TypeOK
<1>9. \A u \in Task : state'[u] = state[u] \/ (UnderWay(u) /\ UnderWay(u)')
  BY <1>8 DEF UnderWay, Writer
<1>10. Responding'
  BY <1>1, <1>8 DEF IInv, Responding, Writer
<1>. QED
  BY <1>1, <1>5, <1>7, <1>9, <1>10, SameTasks

\* The buffer has been drained: the responder is free again, a task waits.
LEMMA DrainedStep == ASSUME IInv, NEW w \in Writer, Drained(w) PROVE IInv'
<1>. DEFINE s == IF w = Responder THEN "idle" ELSE "wait"
<1>1. /\ state[w] = "drain" /\ state' = [state EXCEPT ![w] = s] /\ lock' = None
      /\ UNCHANGED <<outcome, nextId, pending, terminal, closing, reader, notes, asks,
                     stdin, stdout, server, unanswered, asked, noted, replied>>
  BY DEF Drained, world
<1>2. id' = IF w = Responder THEN [id EXCEPT ![w] = None] ELSE id
  BY DEF Drained
<1>3. /\ id' \in [Writer -> Id \cup Ask \cup {None}] /\ \A u \in Task : id'[u] = id[u]
      /\ w # Responder => id' = id
      /\ id'[Responder] \in Ask \cup {None}
  BY <1>2 DEF IInv, TypeOK, Writer
<1>4. s \in {"idle", "wait"} /\ (s = "idle" <=> w = Responder)
  OBVIOUS
<1>. HIDE DEF s
<1>5. /\ state' \in [Writer -> {"idle", "send", "drain", "wait", "done"}] /\ state'[w] = s
      /\ \A u \in Writer : u # w => state'[u] = state[u]
  BY <1>1, <1>4 DEF IInv, TypeOK
<1>6. TypeOK'
  BY <1>1, <1>3, <1>5 DEF IInv, TypeOK
<1>7. AllGenuine'
  BY <1>1, <1>3, StaysGenuine DEF IInv, AllGenuine, Issued
<1>8. /\ \A u \in Task : state'[u] = state[u] \/ (UnderWay(u) /\ UnderWay(u)')
      /\ Responding'
  <2>1. ASSUME NEW u \in Task PROVE state'[u] = state[u] \/ (UnderWay(u) /\ UnderWay(u)')
    BY <1>1, <1>4, <1>5 DEF UnderWay, Writer
  <2>2. Responding'
    BY <1>1, <1>3, <1>4, <1>5 DEF IInv, Responding, Writer
  <2>. QED
    BY <2>1, <2>2
<1>. QED
  BY <1>1, <1>3, <1>6, <1>7, <1>8, SameTasks DEF IInv

\* The responder takes a request of the server, if the client can still send.
LEMMA TakeAskStep == ASSUME IInv, TakeAsk PROVE IInv'
<1>1. /\ state[Responder] = "idle" /\ asks # <<>> /\ asks' = Tail(asks)
      /\ UNCHANGED <<outcome, nextId, pending, terminal, closing, lock, reader, notes,
                     stdin, stdout, server, unanswered, asked, noted, replied>>
  BY DEF TakeAsk, world
<1>2. asks \in Seq(Ask) /\ Len(asks) <= StreamSize /\ Head(asks) \in Ask
  BY <1>1 DEF IInv, TypeOK
<1>3. asks' \in Seq(Ask) /\ Len(asks') <= StreamSize
  BY <1>1, <1>2
<1>4. /\ id' \in [Writer -> Id \cup Ask \cup {None}] /\ \A u \in Task : id'[u] = id[u]
      /\ state' \in [Writer -> {"idle", "send", "drain", "wait", "done"}]
      /\ \A u \in Task : state'[u] = state[u]
      /\ state'[Responder] \in {"send", "done"}
      /\ state'[Responder] = "send" => id'[Responder] \in Ask
      /\ id'[Responder] \in Ask \cup {None}
  BY <1>2 DEF TakeAsk, IInv, TypeOK, Writer
<1>5. TypeOK'
  BY <1>1, <1>3, <1>4 DEF IInv, TypeOK
<1>6. AllGenuine'
  BY <1>1, <1>4, StaysGenuine DEF IInv, AllGenuine, Issued
<1>7. Responding'
  BY <1>4 DEF Responding, Ask
<1>. QED
  BY <1>1, <1>4, <1>5, <1>6, <1>7, SameTasks DEF IInv

\* The responder is cancelled, at whatever await.
LEMMA CancelledResponder == ASSUME IInv, Cancelled(Responder) PROVE IInv'
<1>1. /\ state' = [state EXCEPT ![Responder] = "done"] /\ lock' \in {lock, None}
      /\ UNCHANGED <<id, outcome, pending, nextId, terminal, closing, reader, notes, asks,
                     stdin, stdout, server, unanswered, asked, noted, replied>>
  BY DEF Cancelled, world
<1>2. /\ state' \in [Writer -> {"idle", "send", "drain", "wait", "done"}]
      /\ \A u \in Task : state'[u] = state[u]
      /\ state'[Responder] = "done"
  BY <1>1 DEF IInv, TypeOK, Writer
<1>3. lock' \in Writer \cup {None}
  BY <1>1 DEF IInv, TypeOK
<1>4. TypeOK'
  BY <1>1, <1>2, <1>3 DEF IInv, TypeOK
<1>5. AllGenuine'
  BY <1>1 DEF IInv, AllGenuine, Genuine
<1>6. Responding'
  BY <1>2 DEF Responding
<1>. QED
  BY <1>1, <1>2, <1>4, <1>5, <1>6, SameTasks

-----------------------------------------------------------------------------
(***************************************************************************)
(* The invariant through answers and failures                              *)
(***************************************************************************)

\* Once _fail has run, every request that is under way has been told.
LEMMA EveryoneIsTold ==
  ASSUME IInv, NEW f \in Failure, NEW u \in Task, UnderWay(u)
  PROVE  AfterFailure(f)[id[u]].set
<1>1. u \in Issued /\ id[u] \in Id
  BY DEF IInv, Numbered, Issued, TypeOK
<1>2. CASE terminal # None
  <2>1. AfterFailure(f) = pending
    BY <1>2 DEF AfterFailure
  <2>2. pending[id[u]].set
    BY <1>2 DEF IInv, EveryWaiterIsTold, UnderWay
  <2>. QED
    BY <2>1, <2>2, Zenon
<1>3. CASE terminal = None
  <2>1. pending[id[u]] # None
    BY <1>1 DEF IInv, Slots
  <2>. QED
    BY <1>1, <1>3, <2>1, FailureSets DEF IInv
<1>. QED
  BY <1>2, <1>3

\* The transport fails, and no request ends with it.
LEMMA TransportFails ==
  ASSUME IInv, NEW f \in Failure, Fail(f), pending' = AfterFailure(f),
         UNCHANGED <<id, outcome, nextId, closing, notes, asks, stdin, server, unanswered,
                     asked, noted, replied>>,
         \A u \in Task : state'[u] = state[u],
         state' \in [Writer -> {"idle", "send", "drain", "wait", "done"}],
         state'[Responder] \in {state[Responder], "done"},
         lock' \in {lock, None}, reader' \in {reader, "done"}, stdout' = stdout \/ stdout' = <<>>
  PROVE  IInv'
<1>1. terminal' \in Failure
  BY DEF Fail, IInv, TypeOK
<1>2. \A i \in Id : /\ AfterFailure(f) \in [Id -> Waiting \cup {None}]
                    /\ (AfterFailure(f)[i] = None) <=> (pending[i] = None)
                    /\ pending[i] # None => AfterFailure(f)[i].result = pending[i].result
  BY FailureSets DEF IInv
<1>3. pending' \in [Id -> Waiting \cup {None}]
  <2>1. CASE terminal # None
    BY <2>1 DEF AfterFailure, IInv, TypeOK
  <2>2. CASE terminal = None
    <3>1. CASE Id = {}
      BY <2>2, <3>1 DEF AfterFailure, Told
    <3>. QED
      BY <1>2, <3>1
  <2>. QED
    BY <2>1, <2>2
<1>4. stdout' \in Seq(Line) /\ Len(stdout') <= PipeSize
  <2>1. CASE stdout' = stdout
    BY <2>1 DEF IInv, TypeOK
  <2>2. CASE stdout' = <<>>
    BY <2>2
  <2>. QED
    BY <2>1, <2>2
<1>5. lock' \in Writer \cup {None} /\ reader' \in {"read", "exit", "done", "lost"}
  BY DEF IInv, TypeOK
<1>6. TypeOK'
  BY <1>1, <1>3, <1>4, <1>5 DEF IInv, TypeOK
<1>7. Numbered'
  BY DEF IInv, Numbered, Issued, UnderWay
<1>8. AllGenuine'
  BY DEF IInv, AllGenuine, Genuine
<1>9. Slots'
  <2>1. ASSUME NEW u \in Issued
        PROVE  /\ UnderWay(u)' => pending'[id[u]] # None
               /\ pending'[id[u]] # None => pending'[id[u]].result \in {None, u}
    <3>1. u \in Task /\ id[u] \in Id
      BY DEF IInv, TypeOK, Issued
    <3>. QED
      BY <1>2, <3>1 DEF IInv, Slots, UnderWay
  <2>. QED
    BY <2>1 DEF Slots, Issued
<1>10. EveryWaiterIsTold'
  <2>1. \A u \in Task : state'[u] \in {"send", "drain", "wait"} => pending'[id[u]].set
    BY EveryoneIsTold DEF UnderWay
  <2>. QED
    BY <1>1, <2>1 DEF EveryWaiterIsTold
<1>11. Responding' /\ OwnAnswer'
  BY DEF IInv, Responding, OwnAnswer
<1>. QED
  BY <1>6, <1>7, <1>8, <1>9, <1>10, <1>11 DEF IInv

LEMMA ReaderFailsStep == ASSUME IInv, ReadRubbish \/ ReportExit PROVE IInv'
<1>1. CASE ReadRubbish
  <2>1. /\ Fail("malformed") /\ pending' = AfterFailure("malformed") /\ "malformed" \in Failure
        /\ reader' = "done" /\ stdout' = <<>>
        /\ UNCHANGED <<state, id, outcome, nextId, closing, lock, notes, asks,
                       stdin, server, unanswered, asked, noted, replied>>
    BY <1>1 DEF ReadRubbish, Failure
  <2>. QED
    BY <2>1, TransportFails DEF IInv, TypeOK
<1>2. CASE ReportExit
  <2>1. /\ Fail("exit") /\ pending' = AfterFailure("exit") /\ "exit" \in Failure
        /\ reader' = "done" /\ stdout' = stdout
        /\ UNCHANGED <<state, id, outcome, nextId, closing, lock, notes, asks,
                       stdin, server, unanswered, asked, noted, replied>>
    BY <1>2 DEF ReportExit, Failure, world
  <2>. QED
    BY <2>1, TransportFails DEF IInv, TypeOK
<1>. QED
  BY <1>1, <1>2

LEMMA BrokenSendStep == ASSUME IInv, NEW w \in Writer, BrokenSend(w) PROVE IInv'
<1>1. /\ state[w] \in {"send", "drain"} /\ Fail("exit") /\ "exit" \in Failure /\ lock' = None
      /\ state' = [state EXCEPT ![w] = "done"]
      /\ UNCHANGED <<id, nextId, closing, reader, notes, asks,
                     stdin, stdout, server, unanswered, asked, noted, replied>>
  BY DEF BrokenSend, Failure, world
<1>2. CASE w = Responder
  <2>1. pending' = AfterFailure("exit") /\ outcome' = outcome
    BY <1>2 DEF BrokenSend
  <2>2. /\ state' \in [Writer -> {"idle", "send", "drain", "wait", "done"}]
        /\ \A u \in Task : state'[u] = state[u]
        /\ state'[Responder] = "done"
    BY <1>1, <1>2 DEF IInv, TypeOK, Writer
  <2>. QED
    BY <1>1, <2>1, <2>2, TransportFails
<1>3. CASE w \in Task
  <2>. DEFINE filled == AfterFailure("exit")
  <2>1. /\ pending' = [filled EXCEPT ![id[w]] = None] /\ outcome' = [outcome EXCEPT ![w] = "exit"]
    BY <1>3 DEF BrokenSend
  <2>2. w \in Issued /\ id[w] \in Id
    BY <1>1, <1>3 DEF IInv, Numbered, UnderWay, TypeOK, Issued
  <2>3. /\ filled \in [Id -> Waiting \cup {None}]
        /\ \A i \in Id : /\ pending[i] # None => filled[i] # None
                         /\ filled[i] # None => pending[i] # None /\ filled[i].result = pending[i].result
    BY <1>1, <2>2, FailureSets DEF IInv
  <2>4. \A u \in Task : UnderWay(u) => filled[id[u]].set
    BY <1>1, EveryoneIsTold
  <2>. HIDE DEF filled
  <2>5. pending' \in [Id -> Waiting \cup {None}] /\ Slots'
    BY <1>1, <2>1, <2>2, <2>3, SlotGivenBack
  <2>6. terminal' \in Failure
    BY <1>1 DEF Fail, IInv, TypeOK
  <2>7. ASSUME NEW u \in Task, state'[u] \in {"send", "drain", "wait"} PROVE pending'[id[u]].set
    <3>1. u # w /\ UnderWay(u)
      BY <1>1, <1>3, <2>7 DEF IInv, TypeOK, Writer, UnderWay
    <3>2. id[u] # id[w] /\ id[u] \in Id
      BY <2>2, <3>1 DEF IInv, Numbered, Issued, TypeOK
    <3>3. pending'[id[u]] = filled[id[u]]
      BY <2>1, <2>2, <2>3, <3>2
    <3>. QED
      BY <2>4, <3>1, <3>3, Zenon
  <2>8. EveryWaiterIsTold'
    BY <1>1, <2>6, <2>7 DEF EveryWaiterIsTold
  <2>. QED
    BY <1>1, <1>3, <2>1, <2>5, <2>6, <2>8, EndStep DEF End, world
<1>. QED
  BY <1>2, <1>3 DEF Writer

\* An answer is put in the slot under its id, if that is there: it is the slot of the task it
\* answers, because the id is that task's and nobody else's.
LEMMA ReadResponseStep == ASSUME IInv, ReadResponse PROVE IInv'
<1>. DEFINE l == Head(stdout)
<1>1. /\ stdout \in Seq(Line) /\ stdout # <<>> /\ stdout' = Tail(stdout)
      /\ l \in Line /\ l = stdout[1] /\ l.kind = "response"
  BY DEF IInv, TypeOK, ReadResponse, Found
<1>2. /\ stdout' \in Seq(Line) /\ Len(stdout') = Len(stdout) - 1 /\ Len(stdout) >= 1
      /\ \A k \in 1..Len(stdout') : stdout'[k] = stdout[k + 1]
  BY <1>1
<1>3. UNCHANGED <<state, id, outcome, nextId, terminal, closing, lock, reader, notes, asks,
                  stdin, server, unanswered, asked, noted, replied>>
  BY DEF ReadResponse
<1>4. l.id \in Id /\ l.of \in Task /\ id[l.of] = l.id
  <2>1. Genuine(l)
    BY <1>1, <1>2 DEF IInv, AllGenuine
  <2>. QED
    BY <1>1, <2>1, LineFields DEF Genuine
<1>5. l.of \in Issued
  BY <1>4 DEF Issued, Id
<1>6. AllGenuine'
  <2>1. \A k \in 1..Len(stdout') : k + 1 \in 1..Len(stdout)
    BY <1>2
  <2>2. \A k \in 1..Len(stdout') : \E j \in 1..Len(stdout) : stdout'[k] = stdout[j]
    BY <1>2, <2>1
  <2>. QED
    BY <1>3, <2>2, StaysGenuine DEF IInv, AllGenuine
<1>7. CASE pending[l.id] = None
  <2>1. pending' = pending
    BY <1>7 DEF ReadResponse, Answered
  <2>. HIDE DEF l
  <2>2. TypeOK'
    BY <1>2, <1>3, <2>1 DEF IInv, TypeOK
  <2>. QED
    BY <1>3, <1>6, <2>1, <2>2, NobodyInvolved DEF IInv, EveryWaiterIsTold
<1>8. CASE pending[l.id] # None
  <2>. DEFINE y == AnsweredSlot(pending[l.id], l.of)
  <2>1. pending' = [pending EXCEPT ![l.id] = y]
    BY <1>8 DEF ReadResponse, Answered, AnsweredSlot
  <2>2. y \in Waiting /\ y.result = l.of /\ y.set
    <3>1. pending[l.id] \in Waiting
      BY <1>4, <1>8 DEF IInv, TypeOK
    <3>. QED
      BY <1>4, <3>1, Answering
  <2>. HIDE DEF l, y
  <2>3. /\ pending' \in [Id -> Waiting \cup {None}] /\ pending'[l.id] = y
        /\ \A i \in Id : i # l.id => pending'[i] = pending[i]
    BY <1>4, <2>1, <2>2 DEF IInv, TypeOK
  <2>4. TypeOK'
    BY <1>2, <1>3, <2>3 DEF IInv, TypeOK
  <2>5. ASSUME NEW u \in Issued
        PROVE  /\ UnderWay(u)' => pending'[id[u]] # None
               /\ pending'[id[u]] # None => pending'[id[u]].result \in {None, u}
    <3>1. id[u] \in Id
      BY DEF IInv, TypeOK, Issued
    <3>2. CASE u = l.of
      BY <1>4, <2>2, <2>3, <3>2
    <3>3. CASE u # l.of
      <4>1. id[u] # l.id
        BY <1>4, <1>5, <3>3 DEF IInv, Numbered
      <4>. QED
        BY <1>3, <2>3, <3>1, <4>1 DEF IInv, Slots, UnderWay
    <3>. QED
      BY <3>2, <3>3
  <2>6. Slots' /\ Numbered'
    BY <1>3, <2>5 DEF IInv, Slots, Numbered, Issued, UnderWay
  <2>7. ASSUME terminal # None, NEW u \in Task, state[u] \in {"send", "drain", "wait"}
        PROVE  pending'[id[u]].set
    <3>1. id[u] \in Id
      BY <2>7 DEF IInv, TypeOK, Numbered, UnderWay, Issued
    <3>2. CASE id[u] = l.id
      BY <2>2, <2>3, <3>2, Zenon
    <3>3. CASE id[u] # l.id
      <4>1. pending'[id[u]] = pending[id[u]]
        BY <2>3, <3>1, <3>3
      <4>2. pending[id[u]].set
        BY <2>7 DEF IInv, EveryWaiterIsTold
      <4>. QED
        BY <4>1, <4>2, Zenon
    <3>. QED
      BY <3>2, <3>3
  <2>8. EveryWaiterIsTold' /\ Responding' /\ OwnAnswer'
    BY <1>3, <2>7 DEF IInv, EveryWaiterIsTold, Responding, OwnAnswer
  <2>. QED
    BY <1>6, <2>4, <2>6, <2>8 DEF IInv
<1>. QED
  BY <1>7, <1>8

-----------------------------------------------------------------------------
LEMMA InitEstablishes == Init => IInv
<1>. SUFFICES ASSUME Init PROVE IInv
  OBVIOUS
<1>1. /\ Cardinality(Task) \in Nat /\ Cardinality({}) = 0
  BY FS_CardinalityType, FS_EmptySet
<1>2. Issued = {}
  BY DEF Init, Issued, Writer
<1>3. TypeOK
  <2>1. nextId \in 1..(Cardinality(Task) + 1)
    BY <1>1 DEF Init
  <2>2. /\ state \in [Writer -> {"idle", "send", "drain", "wait", "done"}]
        /\ id \in [Writer -> Id \cup Ask \cup {None}] /\ (\A t \in Task : id[t] \in Id \cup {None})
        /\ id[Responder] \in Ask \cup {None}
        /\ outcome \in [Task -> Task \cup Failure \cup {"timeout", "refused", "cancelled", None}]
        /\ pending \in [Id -> Waiting \cup {None}]
    BY DEF Init, Writer
  <2>3. /\ notes \in 0..StreamSize /\ asked \in 0..MaxAsks /\ noted \in 0..MaxNotes
    BY DEF Init
  <2>4. /\ asks \in Seq(Ask) /\ Len(asks) <= StreamSize
        /\ stdin \in Seq(Line) /\ stdout \in Seq(Line) /\ Len(stdout) <= PipeSize
    BY DEF Init
  <2>5. closing \in BOOLEAN
    BY DEF Init
  <2>. QED
    BY <2>1, <2>2, <2>3, <2>4, <2>5 DEF Init, TypeOK
<1>4. Numbered
  BY <1>1, <1>2 DEF Init, Numbered, UnderWay, Writer
<1>5. AllGenuine /\ Slots
  BY <1>2 DEF Init, AllGenuine, Slots
<1>6. Responding /\ OwnAnswer /\ EveryWaiterIsTold
  BY DEF Init, Responding, OwnAnswer, EveryWaiterIsTold, Writer
<1>. QED
  BY <1>3, <1>4, <1>5, <1>6 DEF IInv

LEMMA StepPreserves == IInv /\ [Next]_vars => IInv'
<1>1. ASSUME IInv, UNCHANGED vars PROVE IInv'
  BY <1>1 DEF vars, client, world, IInv, TypeOK, Numbered, AllGenuine, Genuine, Slots, Responding,
     OwnAnswer, EveryWaiterIsTold, Issued, UnderWay
<1>2. ASSUME IInv, Next PROVE IInv'
  BY <1>2, RequestStep, RefusedStep, ReturnStep, WriteStep, DrainedStep, BrokenSendStep,
     CancelledRequest, CancelledResponder, ReadResponseStep, ReaderStep, ReaderFailsStep,
     EndOfStreamStep, TakeAskStep, ServerReadStep, ServingStep, ServerDieStep
  DEF Next, TaskStep, Sending, Reading, Writer
<1>. QED
  BY <1>1, <1>2

LEMMA InvariantHolds == Spec => []IInv
BY InitEstablishes, StepPreserves, PTL DEF Spec

-----------------------------------------------------------------------------
(***************************************************************************)
(* Theorems                                                                *)
(***************************************************************************)

\* Ids, slots, streams and pipes keep their types and sizes; in particular every id the
\* counter of request() gives out is one of as many as there are tasks.
THEOREM TypeCorrect == Spec => []TypeOK
<1>1. IInv => TypeOK
  BY DEF IInv
<1>. QED
  BY <1>1, InvariantHolds, PTL

\* _route_response gives every response to the request it answers and to no other, in any
\* order of the answers and of the timeouts, with any number of requests at once.
THEOREM AnswersAreRouted == Spec => []OwnAnswer
<1>1. IInv => OwnAnswer
  BY DEF IInv
<1>. QED
  BY <1>1, InvariantHolds, PTL

\* _fail leaves no request waiting for a transport that has failed, wherever the request is:
\* waiting for the lock, for the pipe, or for its response; and _read_stdout ends only with the
\* failure reported, with a close, or with the error it raises itself when the last line of the
\* stream was cut off (jsonrpc.py:227-229), which is reported to nobody.
THEOREM FailureReachesAll == Spec => []EveryWaiterIsTold
<1>1. IInv => EveryWaiterIsTold
  BY DEF IInv
<1>. QED
  BY <1>1, InvariantHolds, PTL
=============================================================================
