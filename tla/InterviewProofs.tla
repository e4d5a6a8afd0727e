--------------------------- MODULE InterviewProofs ---------------------------
(***************************************************************************)
(* Proofs about the interview of "vibe init" for any number of questions,  *)
(* any texts and their readings, and any number of invocations and threads.*)
(***************************************************************************)
EXTENDS Interview, WellFoundedInduction, TLAPS

-----------------------------------------------------------------------------
(***************************************************************************)
(* The inductive invariant                                                 *)
(***************************************************************************)

Active(p) == pc[p] # "idle"

\* Invocations that are not in the interview have nothing and start at the beginning.
AtRest ==
  /\ result = None => \A p \in Process :
       pc[p] \in {"idle", "connect", "context"} => index[p] = 1
  /\ \A p \in Process : pc[p] \in {"context", "replay", "ask", "turn", "save"} => thread[p] # None
  /\ \A p \in Process : pc[p] \in {"turn", "save"} => index[p] \in Question

\* Unless two invocations have met, there is one at most.
Single == ~overlap => \A p, o \in Process : Active(p) /\ Active(o) => p = o

\* The questions answered are the first few.
Leading(a, k) == \A q \in Question : a[q] # None <=> q < k

InOrder ==
  ~skipped =>
    /\ saved.stale = {} /\ \E k \in 1..(Questions + 1) : Leading(saved.answers, k)
    /\ \A p \in Process :
         /\ stale[p] = {} /\ \E k \in 1..(Questions + 1) : Leading(answers[p], k)
         /\ pc[p] = "ask" => Leading(answers[p], index[p])
         /\ pc[p] \in {"turn", "save"} => Leading(answers[p], index[p] + 1)

\* What an invocation holds, or has saved, is what was said last; one answer may not be
\* saved yet.
AsSaid ==
  ~overlap /\ "revision" \notin lost =>
    /\ \A p \in Process : Active(p) =>
         \A q \in Question : answers[p][q] # None => answers[p][q] = said[q]
    /\ \A q \in Question : saved.answers[q] # None =>
         \/ saved.answers[q] = said[q]
         \/ \E p \in Process : pc[p] \in {"turn", "save"} /\ index[p] = q

\* Thread t knows what a says about question q.
Knows(t, a, q) == a[q] # None => told[t][q] = a[q]

\* What the thread of an invocation has been told so far, and what the saved thread has.
Informed ==
  ~overlap /\ lost = {} =>
    /\ \A p \in Process :
         /\ pc[p] = "connect" => thread[p] = saved.thread /\ answers[p] = saved.answers
         /\ pc[p] \in {"context", "replay"} =>
              saved.thread = thread[p] /\ saved.answers = answers[p]
         /\ pc[p] \in {"replay", "ask", "turn", "save"} => thread[p] \in context
         /\ pc[p] = "replay" =>
              \A q \in Question : q < index[p] => Knows(thread[p], answers[p], q)
         /\ pc[p] \in {"ask", "save"} =>
              \A q \in Question : Knows(thread[p], answers[p], q)
         /\ pc[p] = "turn" =>
              \A q \in Question \ {index[p]} : Knows(thread[p], answers[p], q)
    /\ saved.thread # None /\ (\A p \in Process : pc[p] \notin {"context", "replay"}) =>
         /\ saved.thread \in context
         /\ \A q \in Question :
              \/ Knows(saved.thread, saved.answers, q)
              \/ \E p \in Process : pc[p] = "save" /\ index[p] = q

\* An answer that allows a permission was given by the user.
GivenByUser(a) ==
  \A q \in Permission : a[q] # None /\ Parse(a[q].value) = "allowed" => q \in granted

Granted == GivenByUser(saved.answers) /\ \A p \in Process : GivenByUser(answers[p])

IInv ==
  /\ TypeOK
  /\ AtRest /\ Single /\ InOrder /\ AsSaid /\ Informed /\ Granted
  /\ ResultIsWhatWasSaid
  /\ NoGrantWithoutUser

USE InterviewAssumption, NoneAssumption DEF Thread

-----------------------------------------------------------------------------
(***************************************************************************)
(* Lemmas about the operators of the model                                 *)
(***************************************************************************)
LEMMA LeastExists == ASSUME NEW S, S \subseteq Nat, S # {} PROVE \E x \in S : \A y \in S : x <= y
<1>1. \E x \in S : \A y \in S : ~(<<y, x>> \in OpToRel(<, Nat))
  BY NatLessThanWellFounded, WFMin, Zenon
<1>2. PICK x \in S : \A y \in S : ~(<<y, x>> \in OpToRel(<, Nat))
  BY <1>1, Zenon
<1>3. ASSUME NEW y \in S PROVE x <= y
  <2>1. ~(<<y, x>> \in OpToRel(<, Nat))
    BY <1>2, Zenon
  <2>2. ~(y < x)
    BY <2>1 DEF OpToRel
  <2>. QED
    BY <2>2
<1>. QED
  BY <1>3

LEMMA LeastOf == ASSUME NEW S, S \subseteq Nat, S # {} PROVE Min(S) \in S /\ \A y \in S : Min(S) <= y
BY LeastExists DEF Min

\* The loop stops at the first question from i on that has no answer, or behind the last.
LEMMA FirstOpen ==
  ASSUME NEW a \in Answers, NEW i \in 1..(Questions + 1)
  PROVE  /\ From(i, a) \in i..(Questions + 1)
         /\ From(i, a) # Questions + 1 => a[From(i, a)] = None
         /\ \A q \in i..Questions : q < From(i, a) => a[q] # None
<1>. DEFINE S == {q \in i..Questions : a[q] = None} \cup {Questions + 1}
<1>1. S \subseteq Nat /\ S # {} /\ From(i, a) = Min(S)
  BY DEF From
<1>2. Min(S) \in S /\ \A y \in S : Min(S) <= y
  BY <1>1, LeastOf
<1>3. From(i, a) \in S /\ \A y \in S : From(i, a) <= y
  BY <1>1, <1>2, Zenon
<1>. QED
  BY <1>3

\* If the questions answered are the first k - 1, the loop stops at question k.
LEMMA FirstOpenOfLeading ==
  ASSUME NEW a \in Answers, NEW k \in 1..(Questions + 1), Leading(a, k), NEW i \in 1..k
  PROVE  From(i, a) = k
<1>1. i \in 1..(Questions + 1)
  OBVIOUS
<1>. DEFINE f == From(i, a)
<1>2. /\ f \in i..(Questions + 1)
      /\ f # Questions + 1 => a[f] = None
      /\ \A q \in i..Questions : q < f => a[q] # None
  BY <1>1, FirstOpen
<1>. HIDE DEF f
<1>3. f >= k
  BY <1>2 DEF Leading, Question
<1>4. ASSUME k < f PROVE FALSE
  <2>1. k \in i..Questions /\ k \in Question
    BY <1>2, <1>4 DEF Question
  <2>2. a[k] # None
    BY <1>2, <1>4, <2>1
  <2>. QED
    BY <2>1, <2>2 DEF Leading
<1>5. f = k
  <2>1. f \in Int /\ k \in Int
    BY <1>2
  <2>. QED
    BY <1>3, <1>4, <2>1
<1>. QED
  BY <1>5 DEF f

LEMMA ParseType == \A t \in Text : Parse(t) \in Tri
BY DEF Parse, Tri

\* A response is something the user may say.
LEMMA ResponsesAreSaid == \A q \in Question : Responses(q) \subseteq Said
BY DEF Responses, Said, Source

\* An answer of the thread that is told next.
LEMMA NextUntold ==
  ASSUME TypeOK, NEW p \in Process, Untold(p) # {}
  PROVE  /\ Min(Untold(p)) \in Question /\ answers[p][Min(Untold(p))] \in Said
         /\ \A q \in Question : answers[p][q] # None /\ q < Min(Untold(p)) => q < index[p]
<1>1. Untold(p) \subseteq Nat
  BY DEF Untold, Answered, Question
<1>2. Min(Untold(p)) \in Untold(p) /\ \A y \in Untold(p) : Min(Untold(p)) <= y
  BY <1>1, LeastOf
<1>3. index[p] \in Nat /\ answers[p] \in Answers
  BY DEF TypeOK
<1>. DEFINE m == Min(Untold(p))
<1>. HIDE DEF m
<1>4. m \in Untold(p) /\ \A y \in Untold(p) : m <= y
  BY <1>2 DEF m
<1>5. m \in Question /\ answers[p][m] \in Said
  BY <1>3, <1>4 DEF Untold, Answered, Answers
<1>6. ASSUME NEW q \in Question, answers[p][q] # None, q < m PROVE q < index[p]
  <2>1. q \notin Untold(p)
    BY <1>4, <1>5, <1>6 DEF Question
  <2>. QED
    BY <1>3, <1>6, <2>1 DEF Untold, Answered, Question
<1>. QED
  BY <1>5, <1>6 DEF m

\* Tells writes what the invocation holds into what its thread has been told.
LEMMA TellsType ==
  ASSUME TypeOK, NEW p \in Process, thread[p] \in Thread, NEW q \in Question, Tells(p, q)
  PROVE  /\ told' \in [Thread -> Answers]
         /\ ~overlap => /\ told'[thread[p]][q] = answers[p][q]
                        /\ \A t \in Thread, o \in Question :
                             (t # thread[p] \/ o # q) => told'[t][o] = told[t][o]
         /\ overlap => told' = told
<1>1. answers[p][q] \in Said \cup {None} /\ told \in [Thread -> Answers]
  BY DEF TypeOK, Answers
<1>2. CASE overlap
  BY <1>1, <1>2 DEF Tells
<1>3. CASE ~overlap
  <2>. DEFINE v == answers[p][q]
  <2>1. told' = [told EXCEPT ![thread[p]][q] = v]
    BY <1>3 DEF Tells
  <2>2. v \in Said \cup {None}
    BY <1>1
  <2>. HIDE DEF v
  <2>3. told'[thread[p]] = [told[thread[p]] EXCEPT ![q] = v] /\ told[thread[p]] \in Answers
    BY <1>1, <2>1
  <2>4. told'[thread[p]] \in Answers /\ told'[thread[p]][q] = v
        /\ \A o \in Question : o # q => told'[thread[p]][o] = told[thread[p]][o]
    BY <2>2, <2>3 DEF Answers
  <2>5. told' \in [Thread -> Answers] /\ \A t \in Thread : t # thread[p] => told'[t] = told[t]
    BY <1>1, <2>1, <2>4
  <2>. QED
    BY <1>3, <2>4, <2>5 DEF v
<1>. QED
  BY <1>2, <1>3

-----------------------------------------------------------------------------
(***************************************************************************)
(* Types                                                                   *)
(***************************************************************************)
LEMMA ProgressType ==
  ASSUME TypeOK, NEW p \in Process
  PROVE  /\ Progress(p) \in [thread : Thread \cup {None}, answers : Answers, stale : SUBSET Question,
                             locked : SUBSET Field]
         /\ Progress(p).thread = thread[p] /\ Progress(p).answers = answers[p]
         /\ Progress(p).stale = stale[p] /\ Progress(p).locked = locked[p]
BY DEF Progress, TypeOK

LEMMA LoadType == ASSUME TypeOK, NEW p \in Process, Load(p) PROVE TypeOK'
<1>1. /\ invocations' \in 0..MaxInvocations
      /\ pc' \in [Process -> PC]
  BY DEF Load, Goes, TypeOK, PC
<1>2. /\ thread' \in [Process -> Thread \cup {None}] /\ answers' \in [Process -> Answers]
      /\ stale' \in [Process -> SUBSET Question] /\ locked' \in [Process -> SUBSET Field]
  BY DEF Load, TypeOK
<1>3. overlap' \in BOOLEAN
  BY Zenon DEF Load, TypeOK
<1>4. Nothing \in Answers /\ [t \in Thread |-> Nothing] \in [Thread -> Answers]
  BY DEF Nothing, Answers
<1>5. /\ said' = Nothing /\ told' = [t \in Thread |-> Nothing] /\ context' = {}
      \/ UNCHANGED <<said, told, context>>
  BY DEF Load
<1>6. said' \in Answers /\ told' \in [Thread -> Answers] /\ context' \subseteq Thread
  BY <1>4, <1>5 DEF TypeOK
<1>7. UNCHANGED <<saved, index, threads, result, granted, skipped, lost>>
  BY DEF Load
<1>. QED
  BY <1>1, <1>2, <1>3, <1>6, <1>7 DEF TypeOK

LEMMA ConnectType ==
  ASSUME TypeOK, AtRest, NEW p \in Process, ResumeThread(p) \/ StartThread(p) \/ TellContext(p)
  PROVE  TypeOK'
<1>1. /\ UNCHANGED <<answers, stale, locked, told, result, said, granted, skipped,
                     overlap, lost, invocations>>
  BY DEF ResumeThread, StartThread, TellContext, threadVars, user, past
<1>2. pc' \in [Process -> PC]
  <2>1. PICK c \in PC : pc' = [pc EXCEPT ![p] = c]
    BY DEF ResumeThread, StartThread, TellContext, Goes, PC
  <2>. QED
    BY <2>1 DEF TypeOK
<1>3. CASE ResumeThread(p)
  <2>1. saved' = Progress(p) /\ UNCHANGED <<thread, threads, context>>
    BY <1>3 DEF ResumeThread, threadVars
  <2>2. From(1, answers[p]) \in 1..(Questions + 1)
    <3>1. answers[p] \in Answers /\ 1 \in 1..(Questions + 1)
      BY DEF TypeOK
    <3>. QED
      BY <3>1, FirstOpen
  <2>3. index' \in [Process -> 1..(Questions + 1)]
    BY <1>3, <2>2 DEF ResumeThread, TypeOK
  <2>. QED
    BY <1>1, <1>2, <2>1, <2>3, ProgressType DEF TypeOK
<1>4. CASE StartThread(p)
  <2>1. threads' = threads + 1 /\ threads + 1 \in Thread /\ UNCHANGED <<index, context>>
        /\ thread' = [thread EXCEPT ![p] = threads + 1]
    BY <1>4 DEF StartThread, TypeOK
  <2>2. PICK t \in Thread : t = threads + 1
    BY <2>1
  <2>3. saved' = [Progress(p) EXCEPT !.thread = t]
    BY <1>4, <2>2 DEF StartThread
  <2>4. saved' \in [thread : Thread \cup {None}, answers : Answers, stale : SUBSET Question,
                    locked : SUBSET Field]
    BY <2>3, ProgressType
  <2>5. thread' \in [Process -> Thread \cup {None}]
    BY <2>1, <2>2 DEF TypeOK
  <2>6. threads' \in 0..MaxThreads /\ context' \subseteq Thread
    BY <2>1 DEF TypeOK
  <2>. QED
    BY <1>1, <1>2, <2>1, <2>4, <2>5, <2>6 DEF TypeOK
<1>5. CASE TellContext(p)
  <2>1. UNCHANGED <<saved, thread, index, threads>> /\ context' \subseteq context \cup {thread[p]}
    BY <1>5 DEF TellContext
  <2>2. thread[p] \in Thread
    BY <1>5 DEF TellContext, Goes, AtRest, TypeOK
  <2>. QED
    BY <1>1, <1>2, <2>1, <2>2 DEF TypeOK
<1>. QED
  BY <1>3, <1>4, <1>5

\* The state variables of an invocation as the interview goes on.
LEMMA AskType ==
  ASSUME TypeOK, NEW p \in Process, Respond(p) \/ Lock(p) \/ Revise(p)
  PROVE  TypeOK'
<1>1. /\ UNCHANGED <<saved, thread, threads, told, context, result, overlap, lost, invocations>>
  BY DEF Respond, Lock, Revise, threadVars, past
<1>2. CASE Respond(p)
  <2>. DEFINE q == index[p]
  <2>1. PICK r \in Responses(q) :
          /\ q \in Question /\ answers' = [answers EXCEPT ![p][q] = r]
          /\ stale' = [stale EXCEPT ![p] = (@ \ {q}) \cup {o \in Answered(answers[p]) : o > q}]
          /\ said' = IF overlap THEN said ELSE [said EXCEPT ![q] = r]
          /\ granted' \subseteq granted \cup Permission
    BY <1>2 DEF Respond
  <2>. HIDE DEF q
  <2>2. r \in Said
    BY <2>1, ResponsesAreSaid
  <2>3. answers' \in [Process -> Answers] /\ said' \in Answers
    BY <2>1, <2>2 DEF TypeOK, Answers
  <2>4. stale' \in [Process -> SUBSET Question]
    BY <2>1 DEF TypeOK, Answered
  <2>5. pc' \in [Process -> PC]
    BY <1>2 DEF Respond, Goes, TypeOK, PC
  <2>6. UNCHANGED <<locked, index, skipped>> /\ granted' \subseteq Permission
    BY <1>2, <2>1 DEF Respond, TypeOK
  <2>. QED
    BY <1>1, <2>3, <2>4, <2>5, <2>6 DEF TypeOK
<1>3. CASE Lock(p)
  <2>1. locked' \in [Process -> SUBSET Field]
    BY <1>3 DEF Lock, TypeOK
  <2>2. UNCHANGED <<pc, answers, stale, index, said, granted, skipped>>
    BY <1>3 DEF Lock, user
  <2>. QED
    BY <1>1, <2>1, <2>2 DEF TypeOK
<1>4. CASE Revise(p)
  <2>1. PICK q \in Question : /\ answers' = [answers EXCEPT ![p] = Keep(@, q)]
                              /\ stale' = [stale EXCEPT ![p] = @ \cap 1..(q - 1)]
                              /\ index' = [index EXCEPT ![p] = q]
                              /\ skipped' = (skipped \/ q > index[p])
    BY <1>4 DEF Revise
  <2>2. Keep(answers[p], q) \in Answers
    BY DEF Keep, Answers, TypeOK
  <2>3. answers' \in [Process -> Answers]
    BY <2>1, <2>2 DEF TypeOK
  <2>4. stale' \in [Process -> SUBSET Question] /\ index' \in [Process -> 1..(Questions + 1)]
    BY <2>1 DEF TypeOK, Question
  <2>5. skipped' \in BOOLEAN
    BY <2>1, Zenon DEF TypeOK
  <2>6. UNCHANGED <<pc, locked, said, granted>>
    BY <1>4 DEF Revise
  <2>. QED
    BY <1>1, <2>3, <2>4, <2>5, <2>6 DEF TypeOK
<1>. QED
  BY <1>2, <1>3, <1>4

LEMMA TellType ==
  ASSUME TypeOK, AtRest, NEW p \in Process, Replay(p) \/ TellAnswer(p) \/ SaveProgress(p)
  PROVE  TypeOK'
<1>1. UNCHANGED <<thread, answers, stale, locked, threads, context, result, said, granted, skipped,
                  overlap, lost, invocations>>
  BY DEF Replay, TellAnswer, SaveProgress, threadVars, user, past
<1>2. pc' \in [Process -> PC]
  <2>1. pc' = pc \/ \E c \in PC : pc' = [pc EXCEPT ![p] = c]
    BY DEF Replay, TellAnswer, SaveProgress, Goes, PC
  <2>. QED
    BY <2>1 DEF TypeOK
<1>3. thread[p] \in Thread
  BY DEF Replay, TellAnswer, SaveProgress, Goes, AtRest, TypeOK
<1>4. CASE Replay(p)
  <2>1. saved' = saved
    BY <1>4 DEF Replay
  <2>2. CASE Untold(p) # {}
    <3>. DEFINE m == Min(Untold(p))
    <3>1. Tells(p, m) /\ index' = [index EXCEPT ![p] = m + 1]
      BY <1>4, <2>2 DEF Replay
    <3>2. m \in Question
      BY <2>2, NextUntold
    <3>. HIDE DEF m
    <3>3. told' \in [Thread -> Answers]
      BY <1>3, <3>1, <3>2, TellsType
    <3>4. index' \in [Process -> 1..(Questions + 1)]
      BY <3>1, <3>2 DEF TypeOK, Question
    <3>. QED
      BY <1>1, <1>2, <2>1, <3>3, <3>4 DEF TypeOK
  <2>3. CASE Untold(p) = {}
    <3>1. index' = [index EXCEPT ![p] = From(1, answers[p])] /\ told' = told
      BY <1>4, <2>3 DEF Replay
    <3>2. From(1, answers[p]) \in 1..(Questions + 1)
      <4>1. answers[p] \in Answers /\ 1 \in 1..(Questions + 1)
        BY DEF TypeOK
      <4>. QED
        BY <4>1, FirstOpen
    <3>. QED
      BY <1>1, <1>2, <2>1, <3>1, <3>2 DEF TypeOK
  <2>. QED
    BY <2>2, <2>3
<1>5. CASE TellAnswer(p)
  <2>1. Tells(p, index[p]) /\ UNCHANGED <<saved, index>> /\ index[p] \in Question
    BY <1>5 DEF TellAnswer, Goes, AtRest
  <2>2. told' \in [Thread -> Answers]
    BY <1>3, <2>1, TellsType
  <2>. QED
    BY <1>1, <1>2, <2>1, <2>2 DEF TypeOK
<1>6. CASE SaveProgress(p)
  <2>1. saved' = Progress(p) /\ told' = told /\ index[p] \in Question
        /\ index' = [index EXCEPT ![p] = From(@ + 1, answers[p])]
    BY <1>6 DEF SaveProgress, Goes, AtRest, threadVars
  <2>2. From(index[p] + 1, answers[p]) \in 1..(Questions + 1)
    <3>1. index[p] + 1 \in 1..(Questions + 1) /\ answers[p] \in Answers
      BY <2>1 DEF TypeOK, Question
    <3>. QED
      BY <3>1, FirstOpen
  <2>. QED
    BY <1>1, <1>2, <2>1, <2>2, ProgressType DEF TypeOK
<1>. QED
  BY <1>4, <1>5, <1>6

LEMMA ReconcileType == ASSUME TypeOK, NEW p \in Process, Reconcile(p) PROVE result' \in Result
<1>1. PICK r \in Said, g \in Judgement, l \in {{}, Field} :
     result' = [fields |-> Laid([q \in Field |-> r], answers[p]),
                permissions |-> Permissions(g, answers[p]),
                locked |-> Locks(l, answers[p], locked[p]),
                answered |-> Answered(answers[p])]
  BY DEF Reconcile
<1>2. Laid([q \in Field |-> r], answers[p]) \in [Field -> Said]
  BY DEF Laid, TypeOK, Answers
<1>3. Permissions(g, answers[p]) \in [Decisions -> Tri]
  <2>1. ASSUME NEW q \in Permission, answers[p][q] # None PROVE Parse(answers[p][q].value) \in Tri
    <3>1. answers[p][q] \in Said
      BY <2>1 DEF TypeOK, Answers
    <3>2. answers[p][q].value \in Text
      BY <3>1 DEF Said
    <3>. QED
      BY <3>2, ParseType
  <2>2. "unknown" \in Tri
    BY DEF Tri
  <2>3. \A d \in PassedOn : g[d] \in Tri
    BY JudgementAssumption DEF Decisions
  <2>. QED
    BY <2>1, <2>2, <2>3 DEF Permissions
<1>4. Locks(l, answers[p], locked[p]) \in SUBSET Field /\ Answered(answers[p]) \in SUBSET Question
  BY DEF Locks, Answered, TypeOK
<1>. QED
  BY <1>1, <1>2, <1>3, <1>4 DEF Result

LEMMA EndType == ASSUME TypeOK, NEW p \in Process, Reconcile(p) \/ Leave(p) PROVE TypeOK'
<1>1. UNCHANGED <<saved, threads, told, context, said, granted, skipped, overlap, invocations>>
      /\ pc' \in [Process -> PC]
  BY DEF Reconcile, Leave, Goes, threadVars, user, past, TypeOK, PC
<1>2. CASE Reconcile(p)
  <2>1. result' \in Result
    BY <1>2, ReconcileType
  <2>2. UNCHANGED <<thread, answers, stale, locked, index, lost>>
    BY <1>2 DEF Reconcile, past
  <2>. QED
    BY <1>1, <2>1, <2>2 DEF TypeOK
<1>3. CASE Leave(p)
  <2>1. /\ thread' \in [Process -> Thread \cup {None}] /\ stale' \in [Process -> SUBSET Question]
        /\ locked' \in [Process -> SUBSET Field] /\ index' \in [Process -> 1..(Questions + 1)]
    BY <1>3 DEF Leave, TypeOK
  <2>2. Nothing \in Answers
    BY DEF Nothing, Answers
  <2>3. answers' \in [Process -> Answers]
    BY <1>3, <2>2 DEF Leave, TypeOK
  <2>4. lost' \subseteq {"replay", "revision"} /\ result' = result
    BY <1>3 DEF Leave, TypeOK
  <2>. QED
    BY <1>1, <2>1, <2>3, <2>4 DEF TypeOK
<1>. QED
  BY <1>2, <1>3

LEMMA TypeStep == ASSUME TypeOK, AtRest, NEW p \in Process, Step(p) PROVE TypeOK'
BY LoadType, ConnectType, AskType, TellType, EndType DEF Step

\* A step of one invocation changes no variable of another.
LEMMA Others ==
  ASSUME TypeOK, NEW p \in Process, Step(p), NEW o \in Process, o # p
  PROVE  /\ pc'[o] = pc[o] /\ thread'[o] = thread[o] /\ answers'[o] = answers[o]
         /\ stale'[o] = stale[o] /\ index'[o] = index[o]
<1>1. CASE Load(p) \/ Leave(p) \/ Reconcile(p)
  BY <1>1 DEF Load, Leave, Reconcile, Goes, TypeOK
<1>2. CASE ResumeThread(p) \/ StartThread(p) \/ TellContext(p)
  BY <1>2 DEF ResumeThread, StartThread, TellContext, Goes, TypeOK
<1>3. CASE Replay(p) \/ TellAnswer(p) \/ SaveProgress(p)
  BY <1>3 DEF Replay, TellAnswer, SaveProgress, Goes, TypeOK
<1>4. CASE Respond(p) \/ Lock(p) \/ Revise(p)
  <2>1. /\ \A a : pc' = [pc EXCEPT ![p] = a] => pc'[o] = pc[o]
        /\ \A a : answers' = [answers EXCEPT ![p] = a] => answers'[o] = answers[o]
        /\ \A a : stale' = [stale EXCEPT ![p] = a] => stale'[o] = stale[o]
        /\ \A a : index' = [index EXCEPT ![p] = a] => index'[o] = index[o]
    BY DEF TypeOK
  <2>. QED
    BY <1>4, <2>1 DEF Respond, Lock, Revise, Goes
<1>. QED
  BY <1>1, <1>2, <1>3, <1>4 DEF Step

\* Where a step takes its invocation, and what it leaves alone of what all share.
LEMMA Moves ==
  ASSUME TypeOK, NEW p \in Process, Step(p)
  PROVE  /\ Load(p) => pc[p] = "idle" /\ pc'[p] = "connect"
         /\ ResumeThread(p) => pc[p] = "connect" /\ pc'[p] = "ask"
         /\ StartThread(p) => pc[p] = "connect" /\ pc'[p] = "context"
         /\ TellContext(p) => pc[p] = "context" /\ pc'[p] = "replay"
         /\ Replay(p) => pc[p] = "replay" /\ pc'[p] \in {"replay", "ask"}
         /\ Respond(p) => pc[p] = "ask" /\ pc'[p] = "turn"
         /\ Lock(p) \/ Revise(p) => pc[p] = "ask" /\ pc'[p] = "ask"
         /\ TellAnswer(p) => pc[p] = "turn" /\ pc'[p] = "save"
         /\ SaveProgress(p) => pc[p] = "save" /\ pc'[p] = "ask"
         /\ Reconcile(p) => pc[p] = "ask" /\ pc'[p] = "idle"
         /\ Leave(p) => pc[p] # "idle" /\ pc'[p] = "idle"
BY DEF TypeOK, Load, ResumeThread, StartThread, TellContext, Replay, Respond, Lock, Revise, TellAnswer,
   SaveProgress, Reconcile, Leave, Goes

-----------------------------------------------------------------------------
(***************************************************************************)
(* Rest and overlap                                                        *)
(***************************************************************************)
LEMMA OverlapStays ==
  ASSUME NEW p \in Process, Step(p)
  PROVE  /\ ~overlap' => ~overlap
         /\ ~Load(p) => overlap' = overlap
         /\ Load(p) /\ ~overlap' => \A o \in Process : pc[o] = "idle"
<1>1. ASSUME Load(p), ~overlap' PROVE ~overlap /\ \A o \in Process : pc[o] = "idle"
  <2>1. /\ pc[p] = "idle"
        /\ overlap' = (overlap \/ \E o \in Process \ {p} : pc[o] # "idle")
    BY <1>1 DEF Load, Goes
  <2>. QED
    BY <1>1, <2>1, Zenon
<1>2. ASSUME ~Load(p) PROVE overlap' = overlap
  BY <1>2 DEF Step, ResumeThread, StartThread, TellContext, Replay, Respond, Lock, Revise, TellAnswer,
     SaveProgress, Reconcile, Leave, past
<1>. QED
  BY <1>1, <1>2

LEMMA SingleStep == ASSUME TypeOK, Single, NEW p \in Process, Step(p) PROVE Single'
<1>1. SUFFICES ASSUME ~overlap', NEW o \in Process, NEW u \in Process, Active(o)', Active(u)'
               PROVE  o = u
  BY DEF Single
<1>2. CASE Load(p)
  BY <1>1, <1>2, OverlapStays, Others DEF Active
<1>3. CASE ~Load(p)
  <2>1. Active(o) /\ Active(u)
    BY <1>1, <1>3, Moves, Others DEF Active, Step
  <2>. QED
    BY <1>1, <2>1, OverlapStays DEF Single
<1>. QED
  BY <1>2, <1>3

\* While invocations have not met, a step is that of the only one in the interview.
LEMMA Alone ==
  ASSUME IInv, NEW p \in Process, Step(p), ~overlap', NEW o \in Process, o # p
  PROVE  pc[o] = "idle" /\ pc'[o] = "idle"
<1>1. pc[o] = "idle"
  <2>1. CASE Load(p)
    BY <2>1, OverlapStays
  <2>2. CASE ~Load(p)
    BY <2>2, OverlapStays, Moves DEF IInv, Single, Active, Step
  <2>. QED
    BY <2>1, <2>2
<1>. QED
  BY <1>1, Others DEF IInv

LEMMA AtRestStep ==
  ASSUME IInv, TypeOK', result = None, NEW p \in Process, Step(p)
  PROVE  AtRest'
<1>1. \A o \in Process \ {p} : /\ pc'[o] = pc[o] /\ thread'[o] = thread[o] /\ index'[o] = index[o]
  BY Others DEF IInv
<1>2. /\ result' = None /\ pc'[p] \in {"idle", "connect", "context"} => index'[p] = 1
      /\ pc'[p] \in {"context", "replay", "ask", "turn", "save"} => thread'[p] # None
      /\ pc'[p] \in {"turn", "save"} => index'[p] \in Question
  <2>1. CASE Load(p)
    <3>1. pc[p] = "idle" /\ pc'[p] = "connect" /\ index' = index
      BY <2>1, Moves DEF Load, IInv
    <3>. QED
      BY <3>1 DEF IInv, AtRest
  <2>2. CASE ResumeThread(p) \/ TellContext(p)
    <3>1. /\ pc'[p] \in {"ask", "replay"} /\ thread' = thread /\ thread[p] # None
      BY <2>2, Moves DEF ResumeThread, TellContext, IInv, AtRest
    <3>. QED
      BY <3>1
  <2>3. CASE StartThread(p)
    <3>1. /\ pc[p] = "connect" /\ pc'[p] = "context" /\ index' = index
      BY <2>3, Moves DEF StartThread, IInv
    <3>2. thread'[p] = threads + 1 /\ threads + 1 \in Thread
      BY <2>3 DEF StartThread, IInv, TypeOK
    <3>3. thread'[p] # None
      BY <3>2
    <3>. QED
      BY <3>1, <3>3 DEF IInv, AtRest
  <2>4. CASE Replay(p) \/ SaveProgress(p) \/ Lock(p) \/ Revise(p)
    <3>1. /\ pc[p] \in {"replay", "ask", "save"} /\ pc'[p] \in {"replay", "ask"} /\ thread' = thread
      BY <2>4, Moves DEF Replay, SaveProgress, Lock, Revise, IInv
    <3>. QED
      BY <3>1 DEF IInv, AtRest
  <2>5. CASE Respond(p) \/ TellAnswer(p)
    <3>1. /\ pc[p] \in {"ask", "turn"} /\ pc'[p] \in {"turn", "save"} /\ thread' = thread /\ index' = index
          /\ index[p] \in Question
      BY <2>5, Moves DEF Respond, TellAnswer, IInv, AtRest
    <3>. QED
      BY <3>1 DEF IInv, AtRest
  <2>6. CASE Reconcile(p)
    <3>1. pc'[p] = "idle" /\ result' # None
      BY <2>6, ReconcileType, Moves DEF IInv
    <3>. QED
      BY <3>1
  <2>7. CASE Leave(p)
    <3>1. pc'[p] = "idle" /\ index'[p] = 1
      BY <2>7 DEF Leave, IInv, TypeOK
    <3>. QED
      BY <3>1
  <2>. QED
    BY <2>1, <2>2, <2>3, <2>4, <2>5, <2>6, <2>7 DEF Step
<1>3. result' = None => result = None
  OBVIOUS
<1>. QED
  BY <1>1, <1>2, <1>3 DEF IInv, AtRest

-----------------------------------------------------------------------------
(***************************************************************************)
(* The order of the answers                                                *)
(***************************************************************************)

\* What a step has to keep of its own invocation and of what it saves.
OrderedOwn(p) ==
  /\ stale[p] = {} /\ \E k \in 1..(Questions + 1) : Leading(answers[p], k)
  /\ pc[p] = "ask" => Leading(answers[p], index[p])
  /\ pc[p] \in {"turn", "save"} => Leading(answers[p], index[p] + 1)

OrderedSaved == saved.stale = {} /\ \E k \in 1..(Questions + 1) : Leading(saved.answers, k)

LEMMA SkippedStays ==
  ASSUME NEW p \in Process, Step(p) PROVE ~skipped' => ~skipped
<1>1. CASE Revise(p)
  <2>1. PICK q \in Question : skipped' = (skipped \/ q > index[p])
    BY <1>1 DEF Revise
  <2>. QED
    BY <2>1, Zenon
<1>2. CASE ~Revise(p)
  BY <1>2 DEF Step, Load, ResumeThread, StartThread, TellContext, Replay, Respond, Lock, TellAnswer,
     SaveProgress, Reconcile, Leave, user
<1>. QED
  BY <1>1, <1>2

LEMMA InOrderStep ==
  ASSUME IInv, TypeOK', NEW p \in Process, Step(p)
  PROVE  InOrder'
<1>1. SUFFICES ASSUME ~skipped' PROVE OrderedSaved' /\ OrderedOwn(p)'
  <2>1. \A o \in Process \ {p} : pc'[o] = pc[o] /\ answers'[o] = answers[o]
                                /\ stale'[o] = stale[o] /\ index'[o] = index[o]
    BY Others DEF IInv
  <2>2. ~skipped' => ~skipped
    BY SkippedStays
  <2>3. ~skipped' => \A o \in Process \ {p} : OrderedOwn(o)'
    BY <2>1, <2>2 DEF IInv, InOrder, OrderedOwn
  <2>. QED
    BY <1>1, <2>3 DEF InOrder, OrderedOwn, OrderedSaved
<1>2. OrderedSaved /\ OrderedOwn(p)
  BY <1>1, SkippedStays DEF IInv, InOrder, OrderedOwn, OrderedSaved
<1>3. /\ answers[p] \in Answers /\ index[p] \in 1..(Questions + 1) /\ p \in DOMAIN pc
      /\ answers \in [Process -> Answers] /\ stale \in [Process -> SUBSET Question]
      /\ index \in [Process -> 1..(Questions + 1)]
  BY DEF IInv, TypeOK
<1>4. CASE Load(p)
  <2>1. /\ pc'[p] = "connect" /\ answers'[p] = saved.answers /\ stale'[p] = saved.stale /\ saved' = saved
    BY <1>3, <1>4, Moves DEF Load, IInv
  <2>. QED
    BY <1>2, <2>1 DEF OrderedSaved, OrderedOwn
<1>5. CASE ResumeThread(p)
  <2>1. /\ pc'[p] = "ask" /\ UNCHANGED <<answers, stale>> /\ index'[p] = From(1, answers[p])
        /\ saved'.answers = answers[p] /\ saved'.stale = stale[p]
    BY <1>3, <1>5, Moves, ProgressType DEF ResumeThread, IInv
  <2>2. PICK k \in 1..(Questions + 1) : Leading(answers[p], k)
    BY <1>2 DEF OrderedOwn
  <2>3. index'[p] = k
    <3>1. 1 \in 1..k
      OBVIOUS
    <3>. QED
      BY <1>3, <2>1, <2>2, <3>1, FirstOpenOfLeading
  <2>. QED
    BY <1>2, <2>1, <2>2, <2>3 DEF OrderedSaved, OrderedOwn
<1>6. CASE StartThread(p)
  <2>1. /\ pc'[p] = "context" /\ UNCHANGED <<answers, stale>>
        /\ saved' = [Progress(p) EXCEPT !.thread = threads + 1]
    BY <1>6, Moves DEF StartThread, IInv
  <2>2. saved'.answers = answers[p] /\ saved'.stale = stale[p]
    BY <2>1 DEF Progress
  <2>. QED
    BY <1>2, <2>1, <2>2 DEF OrderedSaved, OrderedOwn
<1>7. CASE TellContext(p) \/ Reconcile(p)
  <2>1. pc'[p] \in {"replay", "idle"} /\ UNCHANGED <<saved, answers, stale>>
    BY <1>7, Moves DEF TellContext, Reconcile, IInv
  <2>. QED
    BY <1>2, <2>1 DEF OrderedSaved, OrderedOwn
<1>8. CASE Replay(p)
  <2>1. UNCHANGED <<saved, answers, stale>>
    BY <1>8 DEF Replay
  <2>2. CASE Untold(p) # {}
    <3>1. pc'[p] = "replay"
      BY <1>8, <2>2 DEF Replay
    <3>. QED
      BY <1>2, <2>1, <3>1 DEF OrderedSaved, OrderedOwn
  <2>3. CASE Untold(p) = {}
    <3>1. pc'[p] = "ask" /\ index'[p] = From(1, answers[p])
      BY <1>3, <1>8, <2>3 DEF Replay, IInv, TypeOK
    <3>2. PICK k \in 1..(Questions + 1) : Leading(answers[p], k)
      BY <1>2 DEF OrderedOwn
    <3>3. index'[p] = k
      <4>1. 1 \in 1..k
        OBVIOUS
      <4>. QED
        BY <1>3, <3>1, <3>2, <4>1, FirstOpenOfLeading
    <3>. QED
      BY <1>2, <2>1, <3>1, <3>2, <3>3 DEF OrderedSaved, OrderedOwn
  <2>. QED
    BY <2>2, <2>3
<1>9. CASE Respond(p)
  <2>. DEFINE q == index[p]
  <2>1. PICK r \in Responses(q) :
          /\ q \in Question /\ answers' = [answers EXCEPT ![p][q] = r]
          /\ stale' = [stale EXCEPT ![p] = (@ \ {q}) \cup {o \in Answered(answers[p]) : o > q}]
    BY <1>9 DEF Respond
  <2>2. r \in Said /\ pc[p] = "ask" /\ pc'[p] = "turn" /\ UNCHANGED <<saved, index>>
    BY <1>9, <2>1, ResponsesAreSaid, Moves DEF Respond, IInv
  <2>3. Leading(answers[p], q) /\ q \in Nat
    BY <1>2, <1>3, <2>2 DEF OrderedOwn
  <2>. HIDE DEF q
  <2>4. {o \in Answered(answers[p]) : o > q} = {}
    BY <2>3 DEF Answered, Leading, Question
  <2>5. stale'[p] = {}
    BY <1>2, <1>3, <2>1, <2>4 DEF OrderedOwn
  <2>6. answers'[p] = [answers[p] EXCEPT ![q] = r] /\ r # None
    BY <1>3, <2>1, <2>2
  <2>7. Leading(answers'[p], q + 1)
    BY <1>3, <2>1, <2>3, <2>6 DEF Leading, Answers, Question
  <2>8. q + 1 \in 1..(Questions + 1) /\ q = index'[p]
    BY <2>1, <2>2 DEF q, Question
  <2>. QED
    BY <1>2, <2>2, <2>5, <2>7, <2>8 DEF OrderedSaved, OrderedOwn
<1>10. CASE Lock(p)
  BY <1>2, <1>10 DEF Lock, OrderedSaved, OrderedOwn
<1>11. CASE Revise(p)
  <2>1. PICK q \in Question : /\ answers' = [answers EXCEPT ![p] = Keep(@, q)]
                              /\ stale' = [stale EXCEPT ![p] = @ \cap 1..(q - 1)]
                              /\ index' = [index EXCEPT ![p] = q]
                              /\ skipped' = (skipped \/ q > index[p])
    BY <1>11 DEF Revise
  <2>2. pc[p] = "ask" /\ pc'[p] = "ask" /\ saved' = saved
    BY <1>11, Moves DEF Revise, IInv
  <2>3. ~(q > index[p])
    BY <1>1, <2>1, Zenon
  <2>4. answers'[p] = Keep(answers[p], q) /\ index'[p] = q /\ stale'[p] = {}
    BY <1>2, <1>3, <2>1 DEF OrderedOwn
  <2>5. Leading(answers[p], index[p])
    BY <1>2, <2>2 DEF OrderedOwn
  <2>6. Leading(answers'[p], q) /\ q \in 1..(Questions + 1)
    BY <1>3, <2>3, <2>4, <2>5 DEF Leading, Keep, Question
  <2>. QED
    BY <1>2, <2>2, <2>4, <2>6 DEF OrderedSaved, OrderedOwn
<1>12. CASE TellAnswer(p)
  <2>1. /\ pc[p] = "turn" /\ pc'[p] = "save" /\ UNCHANGED <<saved, answers, stale, index>>
    BY <1>12, Moves DEF TellAnswer, IInv
  <2>. QED
    BY <1>2, <2>1 DEF OrderedSaved, OrderedOwn
<1>13. CASE SaveProgress(p)
  <2>1. /\ pc[p] = "save" /\ pc'[p] = "ask" /\ UNCHANGED <<answers, stale>>
        /\ index'[p] = From(index[p] + 1, answers[p])
        /\ saved'.answers = answers[p] /\ saved'.stale = stale[p]
    BY <1>3, <1>13, Moves, ProgressType DEF SaveProgress, IInv
  <2>2. Leading(answers[p], index[p] + 1) /\ index[p] \in Question
    BY <1>2, <2>1 DEF OrderedOwn, IInv, AtRest
  <2>3. PICK k \in 1..(Questions + 1) : k = index[p] + 1 /\ k \in 1..k
    BY <2>2 DEF Question
  <2>4. From(k, answers[p]) = k
    BY <1>3, <2>2, <2>3, FirstOpenOfLeading
  <2>. QED
    BY <1>2, <2>1, <2>2, <2>3, <2>4 DEF OrderedSaved, OrderedOwn
<1>14. CASE Leave(p)
  <2>1. /\ pc'[p] = "idle" /\ answers'[p] = Nothing /\ stale'[p] = {} /\ saved' = saved
    BY <1>3, <1>14, Moves DEF Leave, IInv
  <2>2. Leading(Nothing, 1) /\ 1 \in 1..(Questions + 1)
    BY DEF Leading, Nothing, Question
  <2>. QED
    BY <1>2, <2>1, <2>2 DEF OrderedSaved, OrderedOwn
<1>. QED
  BY <1>4, <1>5, <1>6, <1>7, <1>8, <1>9, <1>10, <1>11, <1>12, <1>13, <1>14 DEF Step

-----------------------------------------------------------------------------
(***************************************************************************)
(* Permissions                                                             *)
(***************************************************************************)
LEMMA GrantsStay == ASSUME NEW p \in Process, Step(p) PROVE granted \subseteq granted'
<1>1. CASE Respond(p)
  BY <1>1 DEF Respond
<1>2. CASE ~Respond(p)
  BY <1>2 DEF Step, Load, ResumeThread, StartThread, TellContext, Replay, Lock, Revise, TellAnswer,
     SaveProgress, Reconcile, Leave, user
<1>. QED
  BY <1>1, <1>2

\* Taking answers away, or allowing more, breaks nothing.
LEMMA GivenStays ==
  ASSUME NEW a, GivenByUser(a), granted \subseteq granted', NEW b,
         \A q \in Permission : b[q] # None => b[q] = a[q]
  PROVE  \A q \in Permission : b[q] # None /\ Parse(b[q].value) = "allowed" => q \in granted'
BY DEF GivenByUser

LEMMA GrantedStep ==
  ASSUME IInv, TypeOK', NEW p \in Process, Step(p)
  PROVE  Granted'
<1>. DEFINE Ok(b) == \A q \in Permission : b[q] # None /\ Parse(b[q].value) = "allowed" => q \in granted'
<1>1. granted \subseteq granted' /\ GivenByUser(saved.answers) /\ GivenByUser(answers[p])
  BY GrantsStay DEF IInv, Granted
<1>2. SUFFICES Ok(saved'.answers) /\ Ok(answers'[p])
  <2>1. \A o \in Process \ {p} : answers'[o] = answers[o]
    BY Others DEF IInv
  <2>2. \A o \in Process \ {p} : Ok(answers'[o])
    BY <1>1, <2>1 DEF IInv, Granted, GivenByUser
  <2>3. \A o \in Process : Ok(answers'[o])
    BY <1>2, <2>2
  <2>. QED
    BY <1>2, <2>3 DEF Granted, GivenByUser
<1>3. Ok(saved.answers) /\ Ok(answers[p])
  BY <1>1 DEF GivenByUser
<1>4. answers \in [Process -> Answers] /\ answers[p] \in Answers
  BY DEF IInv, TypeOK
<1>5. saved'.answers \in {saved.answers, answers[p]}
  <2>1. CASE ResumeThread(p) \/ SaveProgress(p)
    BY <2>1, ProgressType DEF ResumeThread, SaveProgress, IInv
  <2>2. CASE StartThread(p)
    BY <2>2 DEF StartThread, Progress
  <2>3. CASE ~(ResumeThread(p) \/ SaveProgress(p) \/ StartThread(p))
    BY <2>3 DEF Step, Load, TellContext, Replay, Respond, Lock, Revise, TellAnswer, Reconcile, Leave
  <2>. QED
    BY <2>1, <2>2, <2>3
<1>6. Ok(saved'.answers)
  BY <1>3, <1>5
<1>7. Ok(answers'[p])
  <2>1. CASE Load(p)
    <3>1. answers'[p] = saved.answers
      BY <1>4, <2>1 DEF Load
    <3>. QED
      BY <1>3, <3>1
  <2>2. CASE Respond(p)
    <3>. DEFINE q == index[p]
    <3>1. PICK r \in Responses(q) :
            /\ q \in Question /\ answers' = [answers EXCEPT ![p][q] = r]
            /\ granted' = granted \cup IF q \in Permission /\ Parse(r.value) = "allowed" THEN {q} ELSE {}
      BY <2>2 DEF Respond
    <3>. HIDE DEF q
    <3>2. answers'[p] = [answers[p] EXCEPT ![q] = r]
      BY <1>4, <3>1
    <3>3. answers'[p][q] = r /\ \A o \in Question : o # q => answers'[p][o] = answers[p][o]
      BY <1>4, <3>1, <3>2 DEF Answers
    <3>4. q \in Permission /\ Parse(r.value) = "allowed" => q \in granted'
      BY <3>1
    <3>. QED
      BY <1>3, <3>3, <3>4
  <2>3. CASE Revise(p)
    <3>1. PICK q \in Question : answers' = [answers EXCEPT ![p] = Keep(@, q)]
      BY <2>3 DEF Revise
    <3>2. answers'[p] = Keep(answers[p], q)
      BY <1>4, <3>1
    <3>3. \A o \in Permission : answers'[p][o] # None => answers'[p][o] = answers[p][o]
      BY <3>2 DEF Keep
    <3>. QED
      BY <1>1, <3>3, GivenStays
  <2>4. CASE Leave(p)
    <3>1. answers'[p] = Nothing
      BY <1>4, <2>4 DEF Leave
    <3>2. \A o \in Permission : Nothing[o] = None
      BY DEF Nothing
    <3>. QED
      BY <3>1, <3>2
  <2>5. CASE ~(Load(p) \/ Respond(p) \/ Revise(p) \/ Leave(p))
    <3>1. answers' = answers
      BY <2>5 DEF Step, ResumeThread, StartThread, TellContext, Replay, Lock, TellAnswer, SaveProgress,
         Reconcile
    <3>. QED
      BY <1>3, <3>1
  <2>. QED
    BY <2>1, <2>2, <2>3, <2>4, <2>5
<1>. QED
  BY <1>6, <1>7

-----------------------------------------------------------------------------
(***************************************************************************)
(* What was said                                                           *)
(***************************************************************************)
SaidOwn(p) ==
  Active(p) => \A q \in Question : answers[p][q] # None => answers[p][q] = said[q]

SaidSaved(p) ==
  \A q \in Question : saved.answers[q] # None =>
    saved.answers[q] = said[q] \/ (pc[p] \in {"turn", "save"} /\ index[p] = q)

LEMMA LostStays == ASSUME NEW p \in Process, Step(p) PROVE lost \subseteq lost'
<1>1. CASE Leave(p)
  BY <1>1 DEF Leave
<1>2. CASE ~Leave(p)
  BY <1>2 DEF Step, Load, ResumeThread, StartThread, TellContext, Replay, Respond, Lock, Revise, TellAnswer,
     SaveProgress, Reconcile, past
<1>. QED
  BY <1>1, <1>2

LEMMA AsSaidStep ==
  ASSUME IInv, TypeOK', NEW p \in Process, Step(p)
  PROVE  AsSaid'
<1>1. SUFFICES ASSUME ~overlap', "revision" \notin lost' PROVE SaidOwn(p)' /\ SaidSaved(p)'
  <2>1. ~overlap' => \A o \in Process : o # p => pc'[o] = "idle"
    BY Alone
  <2>. QED
    BY <1>1, <2>1 DEF AsSaid, SaidOwn, SaidSaved, Active
<1>2. ~overlap /\ "revision" \notin lost
  BY <1>1, OverlapStays, LostStays
<1>3. \A o \in Process : o # p => pc[o] = "idle"
  BY <1>1, Alone
<1>4. SaidOwn(p) /\ SaidSaved(p)
  BY <1>2, <1>3 DEF IInv, AsSaid, SaidOwn, SaidSaved
<1>5. answers \in [Process -> Answers] /\ answers[p] \in Answers /\ said \in Answers
  BY DEF IInv, TypeOK
<1>6. CASE Load(p)
  <2>1. /\ pc[p] = "idle" /\ answers'[p] = saved.answers /\ saved' = saved /\ said' = said
    BY <1>1, <1>5, <1>6 DEF Load, Goes
  <2>. QED
    BY <1>4, <2>1 DEF SaidOwn, SaidSaved
<1>7. CASE ResumeThread(p) \/ StartThread(p) \/ SaveProgress(p)
  <2>1. /\ pc[p] \in {"connect", "save"} /\ answers' = answers /\ said' = said
    BY <1>7, Moves DEF ResumeThread, StartThread, SaveProgress, user, IInv
  <2>2. saved'.answers = answers[p]
    <3>1. CASE ResumeThread(p) \/ SaveProgress(p)
      BY <3>1, ProgressType DEF ResumeThread, SaveProgress, IInv
    <3>2. CASE StartThread(p)
      BY <3>2 DEF StartThread, Progress
    <3>. QED
      BY <1>7, <3>1, <3>2
  <2>. QED
    BY <1>4, <2>1, <2>2 DEF SaidOwn, SaidSaved, Active
<1>8. CASE TellContext(p) \/ Replay(p) \/ Lock(p)
  <2>1. /\ pc[p] \in {"context", "replay", "ask"} /\ UNCHANGED <<saved, answers, said>>
    BY <1>8, Moves DEF TellContext, Replay, Lock, user, IInv
  <2>. QED
    BY <1>4, <2>1 DEF SaidOwn, SaidSaved, Active
<1>9. CASE Respond(p)
  <2>. DEFINE q == index[p]
  <2>1. PICK r \in Responses(q) :
          /\ q \in Question /\ answers' = [answers EXCEPT ![p][q] = r]
          /\ said' = IF overlap THEN said ELSE [said EXCEPT ![q] = r]
    BY <1>9 DEF Respond
  <2>2. pc[p] = "ask" /\ pc'[p] = "turn" /\ UNCHANGED <<saved, index>>
    BY <1>9, Moves DEF Respond, IInv
  <2>. HIDE DEF q
  <2>3. answers'[p] = [answers[p] EXCEPT ![q] = r] /\ said' = [said EXCEPT ![q] = r]
    BY <1>2, <1>5, <2>1
  <2>4. /\ answers'[p][q] = r /\ said'[q] = r
        /\ \A o \in Question : o # q => answers'[p][o] = answers[p][o] /\ said'[o] = said[o]
    BY <1>5, <2>1, <2>3 DEF Answers
  <2>5. SaidOwn(p)'
    BY <1>4, <2>2, <2>4 DEF SaidOwn, Active
  <2>6. SaidSaved(p)'
    BY <1>4, <2>2, <2>4 DEF SaidSaved, q
  <2>. QED
    BY <2>5, <2>6
<1>10. CASE Revise(p)
  <2>1. PICK q \in Question : answers' = [answers EXCEPT ![p] = Keep(@, q)]
    BY <1>10 DEF Revise
  <2>2. pc[p] = "ask" /\ UNCHANGED <<saved, said>>
    BY <1>10, Moves DEF Revise, IInv
  <2>3. \A o \in Question : answers'[p][o] # None => answers'[p][o] = answers[p][o]
    BY <1>5, <2>1 DEF Keep
  <2>. QED
    BY <1>4, <2>2, <2>3 DEF SaidOwn, SaidSaved, Active
<1>11. CASE TellAnswer(p)
  <2>1. pc[p] = "turn" /\ pc'[p] = "save" /\ UNCHANGED <<saved, answers, said, index>>
    BY <1>11, Moves DEF TellAnswer, user, IInv
  <2>. QED
    BY <1>4, <2>1 DEF SaidOwn, SaidSaved, Active
<1>12. CASE Reconcile(p)
  <2>1. pc[p] = "ask" /\ pc'[p] = "idle" /\ UNCHANGED <<saved, answers, said, index>>
    BY <1>12, Moves DEF Reconcile, user, IInv
  <2>. QED
    BY <1>4, <2>1 DEF SaidOwn, SaidSaved, Active
<1>13. CASE Leave(p)
  <2>1. pc'[p] = "idle" /\ UNCHANGED <<saved, said>>
    BY <1>13, Moves DEF Leave, user, IInv
  <2>2. pc[p] \in {"turn", "save"} => saved.answers[index[p]] = None
    BY <1>1, <1>13 DEF Leave
  <2>. QED
    BY <1>4, <2>1, <2>2 DEF SaidOwn, SaidSaved, Active
<1>. QED
  BY <1>6, <1>7, <1>8, <1>9, <1>10, <1>11, <1>12, <1>13 DEF Step

-----------------------------------------------------------------------------
(***************************************************************************)
(* What the threads have been told                                         *)
(***************************************************************************)
KnowsAll(t, a) == \A q \in Question : Knows(t, a, q)

InformedOwn(p) ==
  /\ pc[p] = "connect" => thread[p] = saved.thread /\ answers[p] = saved.answers
  /\ pc[p] \in {"context", "replay"} => saved.thread = thread[p] /\ saved.answers = answers[p]
  /\ pc[p] \in {"replay", "ask", "turn", "save"} => thread[p] \in context
  /\ pc[p] = "replay" => \A q \in Question : q < index[p] => Knows(thread[p], answers[p], q)
  /\ pc[p] \in {"ask", "save"} => KnowsAll(thread[p], answers[p])
  /\ pc[p] = "turn" => \A q \in Question \ {index[p]} : Knows(thread[p], answers[p], q)

InformedSaved(p) ==
  saved.thread # None /\ pc[p] \notin {"context", "replay"} =>
    /\ saved.thread \in context
    /\ \A q \in Question : Knows(saved.thread, saved.answers, q) \/ (pc[p] = "save" /\ index[p] = q)

\* With every other invocation idle, that is all there is to say.
LEMMA InformedAlone ==
  ASSUME NEW p \in Process, \A o \in Process : o # p => pc[o] = "idle", ~overlap, lost = {}
  PROVE  Informed <=> InformedOwn(p) /\ InformedSaved(p)
<1>1. (\A o \in Process : pc[o] \notin {"context", "replay"}) <=> pc[p] \notin {"context", "replay"}
  OBVIOUS
<1>2. \A q : (\E o \in Process : pc[o] = "save" /\ index[o] = q) <=> pc[p] = "save" /\ index[p] = q
  OBVIOUS
<1>3. \A o \in Process : o # p => InformedOwn(o)
  BY DEF InformedOwn
<1>4. InformedOwn(p) <=> \A o \in Process : InformedOwn(o)
  BY <1>3
<1>5. Informed <=> (\A o \in Process : InformedOwn(o)) /\ InformedSaved(p)
  BY <1>1, <1>2 DEF Informed, InformedOwn, InformedSaved, KnowsAll
<1>. QED
  BY <1>4, <1>5

LEMMA ConnectInforms ==
  ASSUME IInv, result = None, NEW p \in Process, InformedOwn(p), InformedSaved(p), ~overlap, ~overlap',
         Step(p), Load(p) \/ ResumeThread(p) \/ StartThread(p) \/ TellContext(p)
  PROVE  InformedOwn(p)' /\ InformedSaved(p)'
<1>1. /\ answers \in [Process -> Answers] /\ answers[p] \in Answers /\ thread \in [Process -> Thread \cup {None}]
      /\ index \in [Process -> 1..(Questions + 1)]
  BY DEF IInv, TypeOK
<1>2. CASE Load(p)
  <2>1. /\ pc[p] = "idle" /\ pc'[p] = "connect" /\ UNCHANGED <<saved, told, context>>
        /\ thread'[p] = saved.thread /\ answers'[p] = saved.answers
    BY <1>1, <1>2, Moves DEF Load, IInv
  <2>. QED
    BY <2>1 DEF InformedOwn, InformedSaved, Knows, KnowsAll
<1>3. CASE ResumeThread(p)
  <2>1. /\ pc[p] = "connect" /\ pc'[p] = "ask" /\ UNCHANGED <<told, context, thread, answers>>
        /\ saved'.thread = thread[p] /\ saved'.answers = answers[p] /\ thread[p] # None
    BY <1>3, Moves, ProgressType DEF ResumeThread, IInv, threadVars
  <2>. QED
    BY <2>1 DEF InformedOwn, InformedSaved, Knows, KnowsAll
<1>4. CASE StartThread(p)
  <2>1. /\ pc[p] = "connect" /\ pc'[p] = "context" /\ answers' = answers
        /\ saved' = [Progress(p) EXCEPT !.thread = threads + 1] /\ thread'[p] = threads + 1
    BY <1>1, <1>4, Moves DEF StartThread, IInv
  <2>2. saved'.answers = answers[p] /\ saved'.thread = threads + 1
    BY <2>1 DEF Progress
  <2>. QED
    BY <2>1, <2>2 DEF InformedOwn, InformedSaved
<1>5. CASE TellContext(p)
  <2>1. /\ pc[p] = "context" /\ pc'[p] = "replay" /\ UNCHANGED <<saved, told, thread, answers, index>>
        /\ context' = context \cup {thread[p]}
    BY <1>5, Moves DEF TellContext, IInv
  <2>2. index[p] = 1
    BY <2>1 DEF IInv, AtRest
  <2>3. \A q \in Question : ~(q < 1)
    BY DEF Question
  <2>. QED
    BY <2>1, <2>2, <2>3 DEF InformedOwn, InformedSaved
<1>. QED
  BY <1>2, <1>3, <1>4, <1>5

LEMMA ReplayInforms ==
  ASSUME IInv, NEW p \in Process, InformedOwn(p), InformedSaved(p), ~overlap, Step(p), Replay(p)
  PROVE  InformedOwn(p)' /\ InformedSaved(p)'
<1>1. /\ answers[p] \in Answers /\ index \in [Process -> 1..(Questions + 1)] /\ index[p] \in Nat
  BY DEF IInv, TypeOK
<1>2. pc[p] = "replay" /\ UNCHANGED <<saved, thread, answers, context>>
  BY DEF Replay
<1>3. /\ saved.thread = thread[p] /\ saved.answers = answers[p] /\ thread[p] \in context
      /\ \A q \in Question : q < index[p] => Knows(thread[p], answers[p], q)
  BY <1>2 DEF InformedOwn
<1>4. CASE Untold(p) # {}
  <2>1. PICK m : m = Min(Untold(p))
    OBVIOUS
  <2>2. /\ m \in Question /\ \A q \in Question : answers[p][q] # None /\ q < m => q < index[p]
    BY <1>4, <2>1, NextUntold DEF IInv
  <2>3. /\ Tells(p, m) /\ index' = [index EXCEPT ![p] = m + 1] /\ pc'[p] = "replay"
    BY <1>2, <1>4, <2>1 DEF Replay
  <2>4. thread[p] \in Thread
    BY <1>2 DEF IInv, AtRest, TypeOK
  <2>5. /\ told'[thread[p]][m] = answers[p][m]
        /\ \A q \in Question : q # m => told'[thread[p]][q] = told[thread[p]][q]
    BY <2>2, <2>3, <2>4, TellsType DEF IInv
  <2>6. index'[p] = m + 1
    BY <1>1, <2>3
  <2>7. ASSUME NEW q \in Question, q < m + 1 PROVE Knows(thread[p], answers[p], q)'
    <3>1. CASE q = m
      BY <1>2, <2>5, <3>1 DEF Knows
    <3>2. CASE q # m
      <4>1. q < m
        BY <2>2, <2>7, <3>2 DEF Question
      <4>. QED
        BY <1>2, <1>3, <2>2, <2>5, <3>2, <4>1 DEF Knows
    <3>. QED
      BY <3>1, <3>2
  <2>. QED
    BY <1>2, <1>3, <2>3, <2>6, <2>7 DEF InformedOwn, InformedSaved
<1>5. CASE Untold(p) = {}
  <2>1. pc'[p] = "ask" /\ told' = told
    BY <1>5, Moves DEF Replay, IInv, TypeOK
  <2>2. \A q \in Question : answers[p][q] # None => q < index[p]
    BY <1>1, <1>5 DEF Untold, Answered, Question
  <2>3. \A q \in Question : Knows(thread[p], answers[p], q)'
    BY <1>2, <1>3, <2>1, <2>2 DEF Knows
  <2>. QED
    BY <1>2, <1>3, <2>1, <2>3 DEF InformedOwn, InformedSaved, KnowsAll, Knows
<1>. QED
  BY <1>4, <1>5

LEMMA AnswerInforms ==
  ASSUME IInv, NEW p \in Process, InformedOwn(p), InformedSaved(p), ~overlap, Step(p),
         Respond(p) \/ Lock(p) \/ Revise(p)
  PROVE  InformedOwn(p)' /\ InformedSaved(p)'
<1>1. answers \in [Process -> Answers] /\ answers[p] \in Answers
  BY DEF IInv, TypeOK
<1>2. pc[p] = "ask" /\ UNCHANGED <<saved, thread, told, context>>
  BY Moves DEF Respond, Lock, Revise, threadVars, IInv
<1>3. thread[p] \in context /\ KnowsAll(thread[p], answers[p])
  BY <1>2 DEF InformedOwn
<1>4. InformedSaved(p)'
  BY <1>2, Moves DEF InformedSaved, Knows, IInv
<1>5. CASE Respond(p)
  <2>1. PICK q \in Question : \E r \in Responses(q) : q = index[p] /\ answers' = [answers EXCEPT ![p][q] = r]
    BY <1>5 DEF Respond
  <2>2. pc'[p] = "turn" /\ index' = index
    BY <1>5, Moves DEF Respond, IInv
  <2>3. \A o \in Question : o # q => answers'[p][o] = answers[p][o]
    BY <1>1, <2>1 DEF Answers
  <2>4. \A o \in Question \ {index'[p]} : Knows(thread[p], answers[p], o)'
    BY <1>2, <1>3, <2>1, <2>2, <2>3 DEF Knows, KnowsAll
  <2>. QED
    BY <1>2, <1>3, <1>4, <2>2, <2>4 DEF InformedOwn
<1>6. CASE Lock(p)
  BY <1>2, <1>3, <1>4, <1>6 DEF Lock, InformedOwn, KnowsAll, Knows
<1>7. CASE Revise(p)
  <2>1. PICK q \in Question : answers' = [answers EXCEPT ![p] = Keep(@, q)]
    BY <1>7 DEF Revise
  <2>2. \A o \in Question : answers'[p][o] # None => answers'[p][o] = answers[p][o]
    BY <1>1, <2>1 DEF Keep
  <2>3. KnowsAll(thread[p], answers[p])'
    BY <1>2, <1>3, <2>2 DEF KnowsAll, Knows
  <2>4. pc'[p] = "ask"
    BY <1>7, Moves DEF IInv
  <2>. QED
    BY <1>2, <1>3, <1>4, <2>3, <2>4 DEF InformedOwn
<1>. QED
  BY <1>5, <1>6, <1>7

LEMMA EndInforms ==
  ASSUME IInv, NEW p \in Process, InformedOwn(p), InformedSaved(p), ~overlap, lost' = {}, Step(p),
         TellAnswer(p) \/ SaveProgress(p) \/ Reconcile(p) \/ Leave(p)
  PROVE  InformedOwn(p)' /\ InformedSaved(p)'
<1>1. CASE TellAnswer(p)
  <2>1. /\ pc[p] = "turn" /\ pc'[p] = "save" /\ Tells(p, index[p])
        /\ UNCHANGED <<saved, thread, answers, index, context>>
    BY <1>1, Moves DEF TellAnswer, IInv
  <2>2. thread[p] \in Thread /\ index[p] \in Question
    BY <2>1 DEF IInv, AtRest, TypeOK
  <2>3. /\ told'[thread[p]][index[p]] = answers[p][index[p]]
        /\ \A t \in Thread, o \in Question : (t # thread[p] \/ o # index[p]) => told'[t][o] = told[t][o]
    BY <2>1, <2>2, TellsType DEF IInv
  <2>4. \A q \in Question \ {index[p]} : Knows(thread[p], answers[p], q)
    BY <2>1 DEF InformedOwn
  <2>5. \A q \in Question : Knows(thread[p], answers[p], q)'
    BY <2>1, <2>2, <2>3, <2>4 DEF Knows
  <2>6. InformedOwn(p)'
    BY <2>1, <2>5 DEF InformedOwn, KnowsAll
  <2>7. saved.thread # None => saved.thread \in Thread
    BY DEF IInv, TypeOK
  <2>8. InformedSaved(p)'
    BY <2>1, <2>2, <2>3, <2>7 DEF InformedSaved, Knows
  <2>. QED
    BY <2>6, <2>8
<1>2. CASE SaveProgress(p)
  <2>1. /\ pc[p] = "save" /\ pc'[p] = "ask" /\ UNCHANGED <<thread, answers, told, context>>
        /\ saved'.thread = thread[p] /\ saved'.answers = answers[p]
    BY <1>2, Moves, ProgressType DEF SaveProgress, threadVars, IInv
  <2>. QED
    BY <2>1 DEF InformedOwn, InformedSaved, KnowsAll, Knows
<1>3. CASE Reconcile(p)
  <2>1. pc[p] = "ask" /\ pc'[p] = "idle" /\ UNCHANGED <<saved, told, context>>
    BY <1>3, Moves DEF Reconcile, threadVars, IInv
  <2>. QED
    BY <2>1 DEF InformedOwn, InformedSaved, KnowsAll, Knows
<1>4. CASE Leave(p)
  <2>1. pc'[p] = "idle" /\ UNCHANGED <<saved, told, context>>
    BY <1>4, Moves DEF Leave, threadVars, IInv
  <2>2. pc[p] \notin {"context", "replay"} /\ (pc[p] = "save" => saved.answers[index[p]] = None)
    BY <1>4 DEF Leave
  <2>3. InformedOwn(p)'
    BY <2>1 DEF InformedOwn
  <2>4. InformedSaved(p)'
    BY <2>1, <2>2 DEF InformedSaved, Knows
  <2>. QED
    BY <2>3, <2>4
<1>. QED
  BY <1>1, <1>2, <1>3, <1>4

LEMMA InformedStep ==
  ASSUME IInv, result = None, NEW p \in Process, Step(p)
  PROVE  Informed'
<1>1. SUFFICES ASSUME ~overlap', lost' = {} PROVE Informed'
  BY DEF Informed
<1>2. ~overlap /\ lost = {}
  BY <1>1, OverlapStays, LostStays
<1>3. \A o \in Process : o # p => pc[o] = "idle" /\ pc'[o] = "idle"
  BY <1>1, Alone
<1>4. InformedOwn(p) /\ InformedSaved(p)
  BY <1>2, <1>3, InformedAlone DEF IInv
<1>5. InformedOwn(p)' /\ InformedSaved(p)'
  BY <1>1, <1>2, <1>4, ConnectInforms, ReplayInforms, AnswerInforms, EndInforms DEF Step
<1>6. (\A o \in Process : pc'[o] \notin {"context", "replay"}) <=> pc'[p] \notin {"context", "replay"}
  BY <1>3
<1>7. \A o \in Process : o # p => InformedOwn(o)'
  BY <1>3 DEF InformedOwn
<1>8. \A o \in Process : InformedOwn(o)'
  BY <1>5, <1>7
<1>. QED
  BY <1>1, <1>5, <1>6, <1>8 DEF Informed, InformedOwn, InformedSaved, KnowsAll

-----------------------------------------------------------------------------
(***************************************************************************)
(* The result                                                              *)
(***************************************************************************)
LEMMA NoResultYet ==
  ASSUME NEW p \in Process, Step(p), ~Reconcile(p) PROVE result' = result
BY DEF Step, Load, ResumeThread, StartThread, TellContext, Replay, Respond, Lock, Revise, TellAnswer,
   SaveProgress, Leave

LEMMA ResultStep ==
  ASSUME IInv, result = None, NEW p \in Process, Step(p)
  PROVE  ResultIsWhatWasSaid' /\ NoGrantWithoutUser'
<1>1. CASE ~Reconcile(p)
  BY <1>1, NoResultYet DEF ResultIsWhatWasSaid, NoGrantWithoutUser
<1>2. CASE Reconcile(p)
  <2>1. PICK r \in Said, g \in Judgement, l \in {{}, Field} :
          result' = [fields |-> Laid([q \in Field |-> r], answers[p]),
                     permissions |-> Permissions(g, answers[p]),
                     locked |-> Locks(l, answers[p], locked[p]),
                     answered |-> Answered(answers[p])]
    BY <1>2 DEF Reconcile
  <2>2. /\ result'.fields = Laid([q \in Field |-> r], answers[p])
        /\ result'.permissions = Permissions(g, answers[p])
        /\ result'.answered = Answered(answers[p])
    BY <2>1
  <2>3. Active(p) /\ UNCHANGED <<said, granted, overlap, lost>>
    BY <1>2 DEF Reconcile, Goes, user, past, Active
  <2>4. Field \subseteq Question /\ Permission \subseteq Question
    BY InterviewAssumption
  <2>5. ASSUME ~overlap, "revision" \notin lost
        PROVE  /\ \A q \in Field \cap result'.answered : result'.fields[q] = said'[q]
               /\ \A q \in Permission \cap result'.answered :
                    result'.permissions[q] = Parse(said'[q].value)
    <3>1. \A q \in Question : answers[p][q] # None => answers[p][q] = said[q]
      BY <2>3, <2>5 DEF IInv, AsSaid
    <3>2. \A q \in Field \cap result'.answered : result'.fields[q] = said'[q]
      BY <2>2, <2>3, <2>4, <3>1 DEF Laid, Answered
    <3>3. \A q \in Permission \cap result'.answered : result'.permissions[q] = Parse(said'[q].value)
      BY <2>2, <2>3, <2>4, <3>1, InterviewAssumption DEF Permissions, Decisions, Answered
    <3>. QED
      BY <3>2, <3>3
  <2>6. ASSUME NEW d \in Permission \cup Unasked, result'.permissions[d] = "allowed"
        PROVE  d \in granted'
    <3>1. d \notin PassedOn
      BY <2>4, InterviewAssumption
    <3>2. d \in Permission /\ answers[p][d] # None /\ Parse(answers[p][d].value) = "allowed"
      BY <2>2, <2>6, <3>1 DEF Permissions, Decisions
    <3>. QED
      BY <2>3, <3>2 DEF IInv, Granted, GivenByUser
  <2>7. ResultIsWhatWasSaid'
    BY <2>3, <2>5 DEF ResultIsWhatWasSaid
  <2>8. NoGrantWithoutUser'
    BY <2>6 DEF NoGrantWithoutUser
  <2>. QED
    BY <2>7, <2>8
<1>. QED
  BY <1>1, <1>2

-----------------------------------------------------------------------------
(***************************************************************************)
(* The theorems                                                            *)
(***************************************************************************)
LEMMA InitEstablishes == Init => IInv
<1>. SUFFICES ASSUME Init PROVE IInv
  OBVIOUS
<1>1. /\ 1 \in 1..(Questions + 1) /\ 1 \in Nat /\ Questions \in Nat
      /\ Nothing \in Answers /\ \A q \in Question : Nothing[q] = None
  BY InterviewAssumption DEF Nothing, Answers, Question
<1>2. TypeOK
  <2>1. pc \in [Process -> PC] /\ index \in [Process -> 1..(Questions + 1)]
    BY <1>1 DEF Init, PC
  <2>2. threads \in 0..MaxThreads /\ invocations \in 0..MaxInvocations
    BY InterviewAssumption DEF Init
  <2>3. saved \in [thread : Thread \cup {None}, answers : Answers, stale : SUBSET Question,
                   locked : SUBSET Field]
    BY <1>1 DEF Init
  <2>. QED
    BY <1>1, <2>1, <2>2, <2>3 DEF Init, TypeOK
<1>3. AtRest /\ Single
  BY DEF Init, AtRest, Single, Active
<1>4. InOrder
  <2>1. Leading(Nothing, 1)
    BY <1>1 DEF Leading, Question
  <2>. QED
    BY <1>1, <2>1 DEF Init, InOrder
<1>5. AsSaid
  BY <1>1 DEF Init, AsSaid, Active
<1>6. Informed
  BY <1>1 DEF Init, Informed
<1>7. Granted
  <2>1. \A q \in Permission : Nothing[q] = None
    BY <1>1, InterviewAssumption
  <2>. QED
    BY <2>1 DEF Init, Granted, GivenByUser
<1>8. ResultIsWhatWasSaid /\ NoGrantWithoutUser
  BY DEF Init, ResultIsWhatWasSaid, NoGrantWithoutUser
<1>. QED
  BY <1>2, <1>3, <1>4, <1>5, <1>6, <1>7, <1>8 DEF IInv

LEMMA StepPreserves == IInv /\ [Next]_vars => IInv'
<1>1. ASSUME IInv, result = None, NEW p \in Process, Step(p) PROVE IInv'
  <2>1. TypeOK'
    BY <1>1, TypeStep DEF IInv
  <2>2. AtRest' /\ Single'
    BY <1>1, <2>1, AtRestStep, SingleStep DEF IInv
  <2>3. InOrder' /\ AsSaid' /\ Informed' /\ Granted'
    BY <1>1, <2>1, InOrderStep, AsSaidStep, InformedStep, GrantedStep
  <2>4. ResultIsWhatWasSaid' /\ NoGrantWithoutUser'
    BY <1>1, ResultStep
  <2>. QED
    BY <2>1, <2>2, <2>3, <2>4 DEF IInv
<1>2. ASSUME IInv, UNCHANGED vars PROVE IInv'
  <2>1. UNCHANGED <<saved, pc, thread, answers, stale, locked, index, threads, told, context,
                    result, said, granted, overlap, skipped, lost, invocations>>
    BY <1>2 DEF vars
  <2>2. TypeOK'
    BY <1>2, <2>1 DEF IInv, TypeOK
  <2>3. AtRest' /\ Single' /\ InOrder'
    BY <1>2, <2>1 DEF IInv, AtRest, Single, Active, InOrder, Leading
  <2>4. AsSaid' /\ Granted'
    BY <1>2, <2>1 DEF IInv, AsSaid, Active, Granted, GivenByUser
  <2>5. Informed'
    BY <1>2, <2>1 DEF IInv, Informed, Knows
  <2>6. ResultIsWhatWasSaid' /\ NoGrantWithoutUser'
    BY <1>2, <2>1 DEF IInv, ResultIsWhatWasSaid, NoGrantWithoutUser
  <2>. QED
    BY <2>2, <2>3, <2>4, <2>5, <2>6 DEF IInv
<1>. QED
  BY <1>1, <1>2 DEF Next

\* In every reachable state the inductive invariant holds.
THEOREM InvariantHolds == Spec => []IInv
BY InitEstablishes, StepPreserves, PTL DEF Spec

\* Every variable has its type: what is saved, what each invocation of
\* ConversationRunner.run holds, and what each thread has been told.
THEOREM TypeCorrect == Spec => []TypeOK
<1>1. IInv => TypeOK
  BY DEF IInv
<1>. QED
  BY <1>1, InvariantHolds, PTL

\* As long as no question is revised ahead of the current one, the checkpoint holds no answer
\* that was given before an earlier one it rests on was changed, in whatever order two
\* invocations save.
THEOREM OrderKept == Spec => []AnsweredInOrder
<1>1. IInv => AnsweredInOrder
  BY DEF IInv, InOrder, AnsweredInOrder
<1>. QED
  BY <1>1, InvariantHolds, PTL

\* The reconciled result is what the user said last about each field and permission that is
\* answered, whatever the model returns and however often an invocation died and was resumed
\* (invocations that overlap, and a revised answer lost unsaved, are excepted).
THEOREM ResultFaithful == Spec => []ResultIsWhatWasSaid
<1>1. IInv => ResultIsWhatWasSaid
  BY DEF IInv
<1>. QED
  BY <1>1, InvariantHolds, PTL

\* A thread on which an invocation asks has been told the context and every answer as it
\* stands, as long as no two invocations have overlapped and none has died inside a replay
\* or with a revised answer unsaved.
THEOREM ThreadKnows == Spec => []ThreadIsInformed
<1>1. IInv => ThreadIsInformed
  BY DEF IInv, Informed, ThreadIsInformed, Knows, Answered
<1>. QED
  BY <1>1, InvariantHolds, PTL

\* The result allows writing, running commands or the network only if the user has allowed it
\* in answer to its question, whatever the model decides and however the invocations that
\* share the saved answers overwrite them.  (The decisions that no question can answer are the
\* model's: Permissions passes them on.)
THEOREM NoSilentGrant == Spec => []NoGrantWithoutUser
<1>1. IInv => NoGrantWithoutUser
  BY DEF IInv
<1>. QED
  BY <1>1, InvariantHolds, PTL
=============================================================================
