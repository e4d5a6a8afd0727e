----------------------------- MODULE Interview -----------------------------
(***************************************************************************)
(* ConversationRunner.run (conversation/runner.py): the interview of "vibe *)
(* init".  The questions are asked in order; each answer is told to a Codex*)
(* thread in a turn and then saved with the run's checkpoint.  The user    *)
(* may also revise an earlier question or lock an answer.  An invocation   *)
(* goes on from the progress that is saved, on the saved thread or, when   *)
(* that cannot be resumed, on a new one to which it tells everything again.*)
(* The last turn asks the model for the result, and the answers are laid   *)
(* over what it returns.                                                   *)
(*                                                                         *)
(* Two invocations may be in the interview of one run at the same time.    *)
(* Each may die or fail between any two steps.  A turn either reaches the  *)
(* thread or not; what the model says in it, except for the last, is unused*)
(*                                                                         *)
(* told, context and said are kept only while invocations do not overlap;  *)
(* no step of the code depends on them.                                    *)
(***************************************************************************)
EXTENDS Integers, FiniteSetsExt

CONSTANTS
  Process,
  Questions,   \* how many there are
  Field,       \* those that answer a field of the blueprint (and can be locked)
  Permission,  \* those that answer a permission (writing, running commands, the network)
  Unasked,     \* the permissions of that kind whose question this interview lacks
  PassedOn,    \* the decisions no question can answer (runner.py: outside _PERMISSION_QUESTIONS)
  Text,        \* answers in words
  Typed,       \* those a user may type to each question
  Reading,     \* how the permission patterns classify a text
  Default,     \* the recommended default of a question
  Judgement,   \* what a model may make of the decisions: functions from Decisions to Tri
  MaxInvocations,  \* bound: invocations
  MaxThreads,      \* bound: threads they start
  None

Question == 1..Questions
Source == {"user-response", "recommended-default"}
Tri == {"unknown", "denied", "allowed"}

ASSUME InterviewAssumption ==
  /\ Questions \in Nat \ {0} /\ MaxThreads \in Nat /\ MaxInvocations \in Nat
  /\ Field \subseteq Question /\ Permission \subseteq Question \ Field
  /\ Question \cap (Unasked \cup PassedOn) = {} /\ Unasked \cap PassedOn = {}
  /\ Reading \in [Text -> [uncertain : BOOLEAN, denied : BOOLEAN, allowed : BOOLEAN]]
  /\ Typed \in [Question -> SUBSET Text]
  /\ Default \in [Question -> Text \cup {None}] /\ None \notin Text

Thread == 1..MaxThreads
Said == [value : Text, source : Source]
Answers == [Question -> Said \cup {None}]
Decisions == Permission \cup Unasked \cup PassedOn
Result == [fields : [Field -> Said], permissions : [Decisions -> Tri],
           locked : SUBSET Field, answered : SUBSET Question]

ASSUME JudgementAssumption == Judgement \subseteq [Decisions -> Tri]

\* What stands for "no thread", "no answer" and "no result" is none of them.
ASSUME NoneAssumption == None \notin Thread \cup Said \cup Result

VARIABLES
  saved,     \* the interview columns of the checkpoint
  pc,
  thread,    \* the thread an invocation talks to
  answers,   \* its answers
  stale,     \* history: those given before an earlier one that has changed
  locked,    \* its locked questions
  index,     \* its position in the questions
  threads,   \* how many threads have been started
  told,      \* history: what each thread was told last about each question
  context,   \* history: the threads that have been told the context
  result,    \* the first result, which ends the interview
  said,      \* history: the last answer the user gave to each question
  granted,   \* history: permissions the user has ever allowed
  overlap,   \* history: two invocations have been in the interview at once
  skipped,   \* history: a question ahead of the current one was "revised"
  lost,      \* history: what the death of an invocation has lost
  invocations

vars == <<saved, pc, thread, answers, stale, locked, index, threads, told, context,
          result, said, granted, overlap, skipped, lost, invocations>>
threadVars == <<threads, told, context>>
past == <<overlap, lost, invocations>>
user == <<said, granted, skipped>>

Nothing == [q \in Question |-> None]
PC == {"idle", "connect", "context", "replay", "ask", "turn", "save"}

TypeOK ==
  /\ saved \in [thread : Thread \cup {None}, answers : Answers, stale : SUBSET Question,
                locked : SUBSET Field]
  /\ pc \in [Process -> PC]
  /\ thread \in [Process -> Thread \cup {None}]
  /\ answers \in [Process -> Answers] /\ stale \in [Process -> SUBSET Question]
  /\ locked \in [Process -> SUBSET Field]
  /\ index \in [Process -> 1..(Questions + 1)]
  /\ threads \in 0..MaxThreads
  /\ told \in [Thread -> Answers] /\ context \subseteq Thread
  /\ result \in Result \cup {None}
  /\ said \in Answers /\ granted \subseteq Permission
  /\ overlap \in BOOLEAN /\ skipped \in BOOLEAN
  /\ lost \subseteq {"replay", "revision"}
  /\ invocations \in 0..MaxInvocations

Init ==
  /\ saved = [thread |-> None, answers |-> Nothing, stale |-> {}, locked |-> {}]
  /\ pc = [p \in Process |-> "idle"]
  /\ thread = [p \in Process |-> None]
  /\ answers = [p \in Process |-> Nothing]
  /\ stale = [p \in Process |-> {}]
  /\ locked = [p \in Process |-> {}]
  /\ index = [p \in Process |-> 1]
  /\ threads = 0
  /\ told = [t \in Thread |-> Nothing] /\ context = {}
  /\ result = None
  /\ said = Nothing /\ granted = {}
  /\ overlap = FALSE /\ skipped = FALSE /\ lost = {}
  /\ invocations = 0

-----------------------------------------------------------------------------
Answered(a) == {q \in Question : a[q] # None}

(***************************************************************************)
(* The loop passes over the questions that have an answer.                 *)
(***************************************************************************)
From(i, a) == Min({q \in i..Questions : a[q] = None} \cup {Questions + 1})

Progress(p) == [thread |-> thread[p], answers |-> answers[p], stale |-> stale[p],
                locked |-> locked[p]]

Goes(p, from, to) == pc[p] = from /\ pc' = [pc EXCEPT ![p] = to]

Tells(p, q) ==
  told' = IF overlap THEN told ELSE [told EXCEPT ![thread[p]][q] = answers[p][q]]

-----------------------------------------------------------------------------
(***************************************************************************)
(* The saved progress is loaded before the app-server is started.          *)
(***************************************************************************)
Load(p) ==
  /\ invocations < MaxInvocations /\ invocations' = invocations + 1
  /\ Goes(p, "idle", "connect")
  /\ thread' = [thread EXCEPT ![p] = saved.thread]
  /\ answers' = [answers EXCEPT ![p] = saved.answers]
  /\ stale' = [stale EXCEPT ![p] = saved.stale]
  /\ locked' = [locked EXCEPT ![p] = saved.locked]
  /\ overlap' = (overlap \/ \E o \in Process \ {p} : pc[o] # "idle")
  /\ IF overlap'
     THEN said' = Nothing /\ told' = [t \in Thread |-> Nothing] /\ context' = {}
     ELSE UNCHANGED <<said, told, context>>
  /\ UNCHANGED <<saved, index, threads, result, granted, skipped, lost>>

(***************************************************************************)
(* The saved thread is resumed ...                                         *)
(***************************************************************************)
ResumeThread(p) ==
  /\ thread[p] # None
  /\ Goes(p, "connect", "ask")
  /\ saved' = Progress(p)
  /\ index' = [index EXCEPT ![p] = From(1, answers[p])]
  /\ UNCHANGED <<thread, answers, stale, locked, threadVars, result, user, past>>

(***************************************************************************)
(* ... or, when there is none or that fails, a new one takes its place.    *)
(***************************************************************************)
StartThread(p) ==
  /\ threads < MaxThreads
  /\ Goes(p, "connect", "context")
  /\ threads' = threads + 1
  /\ thread' = [thread EXCEPT ![p] = threads + 1]
  /\ saved' = [Progress(p) EXCEPT !.thread = threads + 1]
  /\ UNCHANGED <<answers, stale, locked, index, told, context, result, user, past>>

TellContext(p) ==
  /\ Goes(p, "context", "replay")
  /\ context' = IF overlap THEN context ELSE context \cup {thread[p]}
  /\ UNCHANGED <<saved, thread, answers, stale, locked, index, threads, told, result, user, past>>

(***************************************************************************)
(* The answers so far are told one turn at a time, here in the order of the*)
(* questions; then the questions are taken up.                             *)
(***************************************************************************)
UntoldButTheFirst(p) == {q \in Answered(answers[p]) : q > index[p]}

Untold(p) == {q \in Answered(answers[p]) : q >= index[p]}

Replay(p) ==
  /\ pc[p] = "replay"
  /\ IF Untold(p) # {}
     THEN /\ Tells(p, Min(Untold(p)))
          /\ index' = [index EXCEPT ![p] = Min(Untold(p)) + 1]
          /\ UNCHANGED pc
     ELSE /\ pc' = [pc EXCEPT ![p] = "ask"]
          /\ index' = [index EXCEPT ![p] = From(1, answers[p])]
          /\ UNCHANGED told
  /\ UNCHANGED <<saved, thread, answers, stale, locked, threads, context, result, user, past>>

-----------------------------------------------------------------------------
(***************************************************************************)
(* The user answers the current question, or accepts its default.          *)
(***************************************************************************)
Responses(q) ==
  {[value |-> t, source |-> "user-response"] : t \in Typed[q]} \cup
  {[value |-> t, source |-> "recommended-default"] : t \in {Default[q]} \ {None}}

(***************************************************************************)
(* _parse_permission_answer: a text that is uncertain, or both denies and  *)
(* allows, or neither, leaves the permission unknown.                      *)
(***************************************************************************)
Parse(t) ==
  IF Reading[t].uncertain \/ Reading[t].denied = Reading[t].allowed THEN "unknown"
  ELSE IF Reading[t].denied THEN "denied" ELSE "allowed"

Respond(p) ==
  /\ index[p] \in Question
  /\ Goes(p, "ask", "turn")
  /\ LET q == index[p] IN
     \E r \in Responses(q) :
       /\ answers' = [answers EXCEPT ![p][q] = r]
       /\ stale' = [stale EXCEPT ![p] =
                      (@ \ {q}) \cup {o \in Answered(answers[p]) : o > q}]
       /\ said' = IF overlap THEN said ELSE [said EXCEPT ![q] = r]
       /\ granted' = granted \cup
            IF q \in Permission /\ Parse(r.value) = "allowed" THEN {q} ELSE {}
  /\ UNCHANGED <<saved, thread, locked, index, threadVars, result, skipped, past>>

(***************************************************************************)
(* "lock q": of an answered question that stands for a field.              *)
(***************************************************************************)
Lock(p) ==
  /\ pc[p] = "ask" /\ index[p] \in Question
  /\ \E q \in (Field \cap Answered(answers[p])) \ locked[p] :
       locked' = [locked EXCEPT ![p] = @ \cup {q}]
  /\ UNCHANGED <<saved, pc, thread, answers, stale, index, threadVars, result, user, past>>

(***************************************************************************)
(* "revise q": refused (by an exception) when q itself is locked.  It and  *)
(* every later question lose their answers, and the loop goes on with it.  *)
(***************************************************************************)
DropOne(a, q) == [a EXCEPT ![q] = None]

Keep(a, q) == [o \in Question |-> IF o < q THEN a[o] ELSE None]

Revise(p) ==
  /\ pc[p] = "ask" /\ index[p] \in Question
  /\ \E q \in Question \ locked[p] :
       /\ answers' = [answers EXCEPT ![p] = Keep(@, q)]
       /\ stale' = [stale EXCEPT ![p] = @ \cap 1..(q - 1)]
       /\ index' = [index EXCEPT ![p] = q]
       /\ skipped' = (skipped \/ q > index[p])
  /\ UNCHANGED <<saved, pc, thread, locked, threadVars, result, said, granted, past>>

(***************************************************************************)
(* The turn of an answer completes, and then the progress is saved.        *)
(***************************************************************************)
TellAnswer(p) ==
  /\ Goes(p, "turn", "save")
  /\ Tells(p, index[p])
  /\ UNCHANGED <<saved, thread, answers, stale, locked, index, threads, context, result, user, past>>

SaveProgress(p) ==
  /\ Goes(p, "save", "ask")
  /\ saved' = Progress(p)
  /\ index' = [index EXCEPT ![p] = From(@ + 1, answers[p])]
  /\ UNCHANGED <<thread, answers, stale, locked, threadVars, result, user, past>>

-----------------------------------------------------------------------------
(***************************************************************************)
(* _reconcile_answers, over whatever the last turn (or codex exec in its   *)
(* place) returns: answered fields take the answer and its provenance,     *)
(* the three permissions that questions answer are unknown unless an answer*)
(* decides them, every other decision is the model's, and the locks are the*)
(* user's and those of the model on fields that have no answer.            *)
(***************************************************************************)
LaidByTheUser(model, a) ==
  [q \in Field |->
     IF a[q] # None /\ a[q].source = "user-response" THEN a[q] ELSE model[q]]

Laid(model, a) ==
  [q \in Field |-> IF a[q] # None THEN a[q] ELSE model[q]]

\* (mutant) Without an answer the decision of the model stands.
ModelPermissions(model, a) ==
  [d \in Decisions |-> IF d \in Permission /\ a[d] # None THEN Parse(a[d].value) ELSE model[d]]

Permissions(model, a) ==
  [d \in Decisions |->
     IF d \in PassedOn THEN model[d]
     ELSE IF d \in Permission /\ a[d] # None THEN Parse(a[d].value) ELSE "unknown"]

Locks(model, a, l) == (model \ Answered(a)) \cup l

Reconcile(p) ==
  /\ index[p] = Questions + 1
  /\ Goes(p, "ask", "idle")
  /\ \E r \in Said, g \in Judgement, l \in {{}, Field} :
       result' = [fields |-> Laid([q \in Field |-> r], answers[p]),
                  permissions |-> Permissions(g, answers[p]),
                  locked |-> Locks(l, answers[p], locked[p]),
                  answered |-> Answered(answers[p])]
  /\ UNCHANGED <<saved, thread, answers, stale, locked, index, threadVars, user, past>>

(***************************************************************************)
(* A kill, an abort of the user, a refused command or a failed turn: what  *)
(* is not saved is gone.                                                   *)
(***************************************************************************)
Leave(p) ==
  /\ pc[p] # "idle"
  /\ pc' = [pc EXCEPT ![p] = "idle"]
  /\ thread' = [thread EXCEPT ![p] = None]
  /\ answers' = [answers EXCEPT ![p] = Nothing]
  /\ stale' = [stale EXCEPT ![p] = {}]
  /\ locked' = [locked EXCEPT ![p] = {}]
  /\ index' = [index EXCEPT ![p] = 1]
  /\ lost' = lost \cup
       (IF pc[p] \in {"context", "replay"} THEN {"replay"} ELSE {}) \cup
       (IF pc[p] \in {"turn", "save"} /\ saved.answers[index[p]] # None
        THEN {"revision"} ELSE {})
  /\ UNCHANGED <<saved, threadVars, result, user, overlap, invocations>>

Step(p) ==
  \/ Load(p) \/ ResumeThread(p) \/ StartThread(p) \/ TellContext(p) \/ Replay(p)
  \/ Respond(p) \/ Lock(p) \/ Revise(p) \/ TellAnswer(p) \/ SaveProgress(p)
  \/ Reconcile(p) \/ Leave(p)

Next == result = None /\ \E p \in Process : Step(p)

Spec == Init /\ [][Next]_vars

-----------------------------------------------------------------------------
(***************************************************************************)
(* No saved answer outlives a revision of a question it was given after,   *)
(* in whatever order two invocations save.  (A revision of a question that *)
(* was not reached yet skips those before it, which may be answered later.)*)
(***************************************************************************)
AnsweredInOrder ==
  ~skipped => saved.stale = {}

(***************************************************************************)
(* The result holds the last thing the user said about every field and     *)
(* permission that has an answer, however the model contradicts it and     *)
(* however often the interview was interrupted.  (The death of an          *)
(* invocation may lose a revised answer, which is then not asked again.)   *)
(***************************************************************************)
ResultIsWhatWasSaid ==
  result # None /\ ~overlap /\ "revision" \notin lost =>
    /\ \A q \in Field \cap result.answered : result.fields[q] = said[q]
    /\ \A q \in Permission \cap result.answered :
         result.permissions[q] = Parse(said[q].value)

(***************************************************************************)
(* An invocation that asks, or lets the model conclude, does so on a       *)
(* thread that knows the context and every answer as it stands.  (Not so   *)
(* after a death inside the replay, whose thread was saved before it.  A   *)
(* turn that comes back with the status "failed" counts as told, as        *)
(* runner.py:247 counts it.)                                               *)
(***************************************************************************)
ThreadIsInformed ==
  ~overlap /\ lost = {} =>
    \A p \in Process : pc[p] = "ask" =>
      /\ thread[p] \in context
      /\ \A q \in Answered(answers[p]) : told[thread[p]][q] = answers[p][q]

(***************************************************************************)
(* Of the three permissions that questions answer, write_project,          *)
(* execute_command and network_policy, the result allows only those that a *)
(* user has allowed in answer to their question, whatever the model says of*)
(* them and whether or not the interview asks.  Nothing of the kind holds  *)
(* of the other decisions: those are the model's (PassedOn).               *)
(***************************************************************************)
NoGrantWithoutUser ==
  result # None =>
    \A d \in Permission \cup Unasked : result.permissions[d] = "allowed" => d \in granted
=============================================================================
