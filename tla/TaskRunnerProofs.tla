-------------------------- MODULE TaskRunnerProofs --------------------------
(***************************************************************************)
(* Proofs about TaskRunner, for any set of plans the classification of a   *)
(* task can give and any versions of the inputs.                           *)
(*                                                                         *)
(* The argument.  A plan lists its phases in one order, so that none       *)
(* repeats and the approval precedes the implementation.  Whoever is       *)
(* between two saves holds exactly the checkpoint that is stored, or, at   *)
(* the start of an invocation, one that claims the same.  So the stored    *)
(* position only passes a phase that was executed, the approval among them.*)
(***************************************************************************)
EXTENDS TaskRunner, SequenceTheorems, TLAPS

-----------------------------------------------------------------------------
(***************************************************************************)
(* The order in which every plan lists its phases.                         *)
(***************************************************************************)
Rank == [p \in Phase |->
  IF p = "inspect" THEN 1 ELSE IF p = "design" THEN 2 ELSE IF p = "approval" THEN 3
  ELSE IF p = "rollback" THEN 4 ELSE IF p = "implement" THEN 5 ELSE IF p = "verify" THEN 6
  ELSE 7]

InOrder(s, low, high) ==
  /\ s \in Seq(Phase)
  /\ \A i \in DOMAIN s : Rank[s[i]] \in low..high
  /\ \A i, j \in DOMAIN s : i < j => Rank[s[i]] < Rank[s[j]]

(***************************************************************************)
(* Every phase has a place in the order.                                   *)
(***************************************************************************)
LEMMA RankType == Rank \in [Phase -> 1..7]
BY DEF Rank, Phase

(***************************************************************************)
(* An optional phase is in order.                                          *)
(***************************************************************************)
LEMMA WhenInOrder ==
  ASSUME NEW phase \in Phase, NEW condition
  PROVE  InOrder(When(condition, phase), Rank[phase], Rank[phase])
BY RankType DEF InOrder, When

(***************************************************************************)
(* Two parts of a plan in order, the second after the first, join in order. *)
(***************************************************************************)
LEMMA JoinInOrder ==
  ASSUME NEW s, NEW t, NEW a \in Nat, NEW b \in Nat, NEW c \in Nat, NEW d \in Nat,
         InOrder(s, a, b), InOrder(t, c, d), b < c, a <= c, b <= d
  PROVE  InOrder(s \o t, a, d)
<1> DEFINE st == s \o t
<1>1. /\ st \in Seq(Phase)
      /\ Len(st) = Len(s) + Len(t)
      /\ \A i \in 1..Len(st) : st[i] = IF i <= Len(s) THEN s[i] ELSE t[i - Len(s)]
  BY ConcatProperties DEF InOrder
<1>2. /\ Len(s) \in Nat /\ Len(t) \in Nat
      /\ DOMAIN s = 1..Len(s) /\ DOMAIN t = 1..Len(t) /\ DOMAIN st = 1..Len(st)
  BY <1>1 DEF InOrder
<1>3. ASSUME NEW i \in DOMAIN s
      PROVE  i \in DOMAIN st /\ st[i] = s[i] /\ Rank[st[i]] \in a..b
  BY <1>1, <1>2, <1>3 DEF InOrder
<1>4. ASSUME NEW i \in DOMAIN st, i \notin DOMAIN s
      PROVE  i - Len(s) \in DOMAIN t /\ st[i] = t[i - Len(s)] /\ Rank[st[i]] \in c..d
  BY <1>1, <1>2, <1>4 DEF InOrder
<1>5. \A i \in DOMAIN st : Rank[st[i]] \in a..d
  BY <1>3, <1>4
<1>6. ASSUME NEW i \in DOMAIN st, NEW j \in DOMAIN st, i < j
      PROVE  Rank[st[i]] < Rank[st[j]]
  <2>1. CASE j \in DOMAIN s
    BY <1>1, <1>2, <1>3, <1>6, <2>1 DEF InOrder
  <2>2. CASE i \in DOMAIN s /\ j \notin DOMAIN s
    BY <1>3, <1>4, <1>6, <2>2
  <2>3. CASE i \notin DOMAIN s
    <3>1. j \notin DOMAIN s
      BY <1>2, <1>6, <2>3
    <3>2. i - Len(s) < j - Len(s)
      BY <1>2, <1>6
    <3> QED BY <1>4, <1>6, <2>3, <3>1, <3>2 DEF InOrder
  <2> QED BY <2>1, <2>2, <2>3
<1> QED BY <1>1, <1>5, <1>6 DEF InOrder

(***************************************************************************)
(* _phase_ids: every plan is in order.                                     *)
(***************************************************************************)
LEMMA PlanInOrder ==
  ASSUME NEW c
  PROVE  InOrder(PhaseIds(c), 1, 7)
<1>1. /\ InOrder(<<"inspect">>, 1, 1) /\ InOrder(<<"inspect", "design">>, 1, 2)
      /\ InOrder(<<"verify">>, 6, 6) /\ InOrder(<<"verify", "review">>, 6, 7)
  BY DEF InOrder, Rank, Phase
<1>2. \A b : /\ InOrder(When(b, "approval"), 3, 3)
             /\ InOrder(When(b, "rollback"), 4, 4)
             /\ InOrder(When(b, "implement"), 5, 5)
  <2>1. /\ {"approval", "rollback", "implement"} \subseteq Phase
        /\ Rank["approval"] = 3 /\ Rank["rollback"] = 4 /\ Rank["implement"] = 5
    BY DEF Rank, Phase
  <2> QED BY <2>1, WhenInOrder
<1>3. CASE c.mode = "fast"
  <2> DEFINE upto3 == <<"inspect">> \o When(c.approval, "approval")
             upto5 == upto3 \o When(c.write, "implement")
  <2> HIDE DEF upto3, upto5
  <2>1. InOrder(upto3, 1, 3)  BY <1>1, <1>2, JoinInOrder DEF upto3
  <2>2. InOrder(upto5, 1, 5)  BY <1>2, <2>1, JoinInOrder DEF upto5
  <2>3. InOrder(upto5 \o <<"verify">>, 1, 6)  BY <1>1, <2>2, JoinInOrder
  <2>4. PhaseIds(c) = upto5 \o <<"verify">>
    BY <1>3 DEF PhaseIds, upto3, upto5
  <2> QED BY <2>3, <2>4 DEF InOrder
<1>4. CASE c.mode # "fast"
  <2> DEFINE upto3 == <<"inspect", "design">> \o When(c.approval, "approval")
             upto4 == upto3 \o When(c.write /\ (c.mode = "rigorous" \/ c.rollback), "rollback")
             upto5 == upto4 \o When(c.write, "implement")
  <2> HIDE DEF upto3, upto4, upto5
  <2>1. InOrder(upto3, 1, 3)  BY <1>1, <1>2, JoinInOrder DEF upto3
  <2>2. InOrder(upto4, 1, 4)  BY <1>2, <2>1, JoinInOrder DEF upto4
  <2>3. InOrder(upto5, 1, 5)  BY <1>2, <2>2, JoinInOrder DEF upto5
  <2>4. InOrder(upto5 \o <<"verify", "review">>, 1, 7)  BY <1>1, <2>3, JoinInOrder
  <2>5. PhaseIds(c) = upto5 \o <<"verify", "review">>
    BY <1>4 DEF PhaseIds, upto3, upto4, upto5
  <2> QED BY <2>4, <2>5
<1> QED BY <1>3, <1>4

(***************************************************************************)
(* The highest of the five levels of a request.                            *)
(***************************************************************************)
LEMMA HighestOfFive ==
  ASSUME NEW a \in RiskLevel, NEW b \in RiskLevel, NEW c \in RiskLevel, NEW d \in RiskLevel,
         NEW e \in RiskLevel
  PROVE  LET levels == {a, b, c, d, e}
         IN  /\ Highest(levels) \in levels /\ Highest(levels) \in RiskLevel
             /\ \A l \in levels : l <= Highest(levels)
<1> DEFINE levels == {a, b, c, d, e}
<1>1. levels \subseteq RiskLevel /\ RiskLevel = 0..3
  BY DEF RiskLevel, Low, Critical
<1>2. \E l \in levels : \A m \in levels : m <= l
  <2>1. CASE 3 \in levels  BY <1>1, <2>1
  <2>2. CASE 3 \notin levels /\ 2 \in levels  BY <1>1, <2>2
  <2>3. CASE 3 \notin levels /\ 2 \notin levels /\ 1 \in levels  BY <1>1, <2>3
  <2>4. CASE 3 \notin levels /\ 2 \notin levels /\ 1 \notin levels  BY <1>1, <2>4
  <2> QED BY <2>1, <2>2, <2>3, <2>4
<1>3. Highest(levels) \in levels /\ \A m \in levels : m <= Highest(levels)
  <2> HIDE DEF levels
  <2> QED BY <1>2 DEF Highest
<1> QED BY <1>1, <1>3

(***************************************************************************)
(* Each factor of the risk is a level.                                     *)
(***************************************************************************)
LEMMA FactorLevels ==
  ASSUME NEW r \in Request
  PROVE  /\ ScopeRisk[r.scope] \in RiskLevel
         /\ SensitivityRisk[r.data] \in RiskLevel
         /\ ReversibilityRisk[r.reversibility] \in RiskLevel
         /\ OperationsRisk(r.operations) \in RiskLevel
         /\ MinimumRisk(r.scenario) \in RiskLevel
<1>1. /\ r.scope \in DOMAIN ScopeRisk /\ r.data \in DOMAIN SensitivityRisk
      /\ r.reversibility \in DOMAIN ReversibilityRisk
  BY DEF Request
<1>2. Low \in RiskLevel /\ Medium \in RiskLevel /\ High \in RiskLevel /\ Critical \in RiskLevel
  BY DEF RiskLevel, Low, Medium, High, Critical
<1>3. \A x \in DOMAIN ScopeRisk : ScopeRisk[x] \in RiskLevel
  BY <1>2, Zenon DEF ScopeRisk
<1>4. \A x \in DOMAIN SensitivityRisk : SensitivityRisk[x] \in RiskLevel
  BY <1>2, Zenon DEF SensitivityRisk
<1>5. \A x \in DOMAIN ReversibilityRisk : ReversibilityRisk[x] \in RiskLevel
  BY <1>2, Zenon DEF ReversibilityRisk
<1> QED BY <1>1, <1>2, <1>3, <1>4, <1>5 DEF OperationsRisk, MinimumRisk

(***************************************************************************)
(* A classification that is as high as each factor, and asks for approval  *)
(* and rigour from high risk on.                                           *)
(***************************************************************************)
LEMMA ClassifyFacts ==
  ASSUME NEW r \in Request
  PROVE  LET c == Classify(r)
         IN  /\ c \in Classification
             /\ c.write = (r.operations \cap WriteOperations # {})
             /\ MinimumRisk(r.scenario) <= c.level /\ OperationsRisk(r.operations) <= c.level
             /\ ScopeRisk[r.scope] <= c.level /\ SensitivityRisk[r.data] <= c.level
             /\ ReversibilityRisk[r.reversibility] <= c.level
             /\ High <= c.level => c.approval /\ c.mode = "rigorous"
<1> DEFINE factors == {ScopeRisk[r.scope], SensitivityRisk[r.data],
                       ReversibilityRisk[r.reversibility],
                       OperationsRisk(r.operations), MinimumRisk(r.scenario)}
           level == Highest(factors)
           approval == \/ ForceApproval(r.scenario)
                       \/ level >= High
                       \/ "handle-payment" \in r.operations
           rollback == \/ ForceRollback(r.scenario)
                       \/ r.reversibility = "irreversible"
                       \/ "migrate-data" \in r.operations
           write == r.operations \cap WriteOperations # {}
<1>1. level \in RiskLevel /\ \A l \in factors : l <= level
  BY FactorLevels, HighestOfFive
<1>2. Classify(r) = [level |-> level, approval |-> approval, rollback |-> rollback,
                     write |-> write, mode |-> WorkflowMode(level)]
  BY DEF Classify
<1>3. approval \in BOOLEAN /\ rollback \in BOOLEAN /\ write \in BOOLEAN
  OBVIOUS
<1>4. /\ WorkflowMode(level) \in {"fast", "standard", "rigorous"}
      /\ High <= level => WorkflowMode(level) = "rigorous"
  BY <1>1 DEF WorkflowMode, RiskLevel, Low, Medium, High, Critical
<1>5. High <= level => approval
  BY <1>1 DEF RiskLevel, Low, High, Critical
<1> HIDE DEF level, approval, rollback, write
<1>6. Classify(r) \in Classification
  BY <1>1, <1>2, <1>3, <1>4 DEF Classification
<1> QED BY <1>1, <1>2, <1>4, <1>5, <1>6 DEF write

(***************************************************************************)
(* Whatever the signals of a task and a model's opinion of its risk, it is *)
(* classified, so that PlansAssumption covers every plan there can be      *)
(* (classify_scenario, _validated_classification).                         *)
(***************************************************************************)
THEOREM EveryTaskIsClassified ==
  \A r \in Request, m \in RiskLevel : Validated(Classify(r), m) \in Classification
<1> SUFFICES ASSUME NEW r \in Request, NEW m \in RiskLevel
             PROVE  Validated(Classify(r), m) \in Classification
  OBVIOUS
<1>1. Classify(r) \in Classification
  BY ClassifyFacts
<1> HIDE DEF Classification
<1> QED
  BY <1>1 DEF Validated, Classification, RiskLevel, Low, High, Critical

(***************************************************************************)
(* The phases of two joined parts.                                         *)
(***************************************************************************)
LEMMA JoinPhases ==
  ASSUME NEW s \in Seq(Phase), NEW t \in Seq(Phase)
  PROVE  s \o t \in Seq(Phase) /\ PhasesOf(s \o t) = PhasesOf(s) \cup PhasesOf(t)
<1> DEFINE st == s \o t
<1>1. /\ st \in Seq(Phase)
      /\ Len(st) = Len(s) + Len(t)
      /\ \A i \in 1..Len(st) : st[i] = IF i <= Len(s) THEN s[i] ELSE t[i - Len(s)]
  BY ConcatProperties
<1>2. /\ Len(s) \in Nat /\ Len(t) \in Nat
      /\ DOMAIN s = 1..Len(s) /\ DOMAIN t = 1..Len(t) /\ DOMAIN st = 1..Len(st)
  BY <1>1
<1>3. \A i \in DOMAIN s : i \in DOMAIN st /\ st[i] = s[i]
  BY <1>1, <1>2
<1>4. \A i \in DOMAIN t : i + Len(s) \in DOMAIN st /\ st[i + Len(s)] = t[i]
  BY <1>1, <1>2
<1>5. \A i \in DOMAIN st : i \in DOMAIN s \/ (i - Len(s) \in DOMAIN t /\ st[i] = t[i - Len(s)])
  BY <1>1, <1>2
<1> HIDE DEF st
<1>6. PhasesOf(st) = PhasesOf(s) \cup PhasesOf(t)
  BY <1>3, <1>4, <1>5 DEF PhasesOf
<1> QED BY <1>1, <1>6 DEF st

(***************************************************************************)
(* The phases of a plan.                                                   *)
(***************************************************************************)
LEMMA PlanPhases ==
  ASSUME NEW c \in Classification
  PROVE  /\ c.approval => "approval" \in PhasesOf(PhaseIds(c))
         /\ c.write => "implement" \in PhasesOf(PhaseIds(c))
         /\ c.write /\ c.mode = "rigorous" => "rollback" \in PhasesOf(PhaseIds(c))
         /\ "verify" \in PhasesOf(PhaseIds(c))
<1>1. ASSUME NEW phase \in Phase, NEW b
      PROVE  When(b, phase) \in Seq(Phase) /\ (b => phase \in PhasesOf(When(b, phase)))
  BY <1>1 DEF When, PhasesOf
<1>2. {"approval", "rollback", "implement"} \subseteq Phase
  BY DEF Phase
<1>3. <<"inspect">> \in Seq(Phase) /\ <<"inspect", "design">> \in Seq(Phase)
  BY DEF Phase
<1>4. /\ <<"verify">> \in Seq(Phase) /\ "verify" \in PhasesOf(<<"verify">>)
      /\ <<"verify", "review">> \in Seq(Phase) /\ "verify" \in PhasesOf(<<"verify", "review">>)
  <2>1. <<"verify">>[1] = "verify" /\ 1 \in DOMAIN <<"verify">>
        /\ <<"verify", "review">>[1] = "verify" /\ 1 \in DOMAIN <<"verify", "review">>
    OBVIOUS
  <2> QED BY <2>1 DEF Phase, PhasesOf
<1>5. CASE c.mode = "fast"
  <2> DEFINE upto3 == <<"inspect">> \o When(c.approval, "approval")
             upto5 == upto3 \o When(c.write, "implement")
  <2> HIDE DEF upto3, upto5
  <2>1. upto3 \in Seq(Phase) /\ (c.approval => "approval" \in PhasesOf(upto3))
    BY <1>1, <1>2, <1>3, JoinPhases DEF upto3
  <2>2. /\ upto5 \in Seq(Phase) /\ PhasesOf(upto3) \subseteq PhasesOf(upto5)
        /\ c.write => "implement" \in PhasesOf(upto5)
    BY <1>1, <1>2, <2>1, JoinPhases DEF upto5
  <2>3. PhasesOf(upto5 \o <<"verify">>) = PhasesOf(upto5) \cup PhasesOf(<<"verify">>)
    BY <1>4, <2>2, JoinPhases
  <2>4. PhaseIds(c) = upto5 \o <<"verify">>
    BY <1>5 DEF PhaseIds, upto3, upto5
  <2> QED BY <1>4, <1>5, <2>1, <2>2, <2>3, <2>4
<1>6. CASE c.mode # "fast"
  <2> DEFINE upto3 == <<"inspect", "design">> \o When(c.approval, "approval")
             upto4 == upto3 \o When(c.write /\ (c.mode = "rigorous" \/ c.rollback), "rollback")
             upto5 == upto4 \o When(c.write, "implement")
  <2> HIDE DEF upto3, upto4, upto5
  <2>1. upto3 \in Seq(Phase) /\ (c.approval => "approval" \in PhasesOf(upto3))
    BY <1>1, <1>2, <1>3, JoinPhases DEF upto3
  <2>2. /\ upto4 \in Seq(Phase) /\ PhasesOf(upto3) \subseteq PhasesOf(upto4)
        /\ c.write /\ c.mode = "rigorous" => "rollback" \in PhasesOf(upto4)
    BY <1>1, <1>2, <2>1, JoinPhases DEF upto4
  <2>3. /\ upto5 \in Seq(Phase) /\ PhasesOf(upto4) \subseteq PhasesOf(upto5)
        /\ c.write => "implement" \in PhasesOf(upto5)
    BY <1>1, <1>2, <2>2, JoinPhases DEF upto5
  <2>4. PhasesOf(upto5 \o <<"verify", "review">>)
          = PhasesOf(upto5) \cup PhasesOf(<<"verify", "review">>)
    BY <1>4, <2>3, JoinPhases
  <2>5. PhaseIds(c) = upto5 \o <<"verify", "review">>
    BY <1>6 DEF PhaseIds, upto3, upto4, upto5
  <2> QED BY <1>4, <2>1, <2>2, <2>3, <2>4, <2>5
<1> QED BY <1>5, <1>6

(***************************************************************************)
(* No signal and no opinion of a model lowers the risk of a task, and      *)
(* whatever made it high, its plan has the approval, and a rollback before *)
(* it writes (classify_scenario, _validated_classification, _phase_ids).   *)
(***************************************************************************)
THEOREM HighRiskIsGated ==
  ASSUME NEW r \in Request, NEW m \in RiskLevel
  PROVE  LET c == Validated(Classify(r), m)
         IN  /\ m <= c.level /\ Classify(r).level <= c.level
             /\ MinimumRisk(r.scenario) <= c.level /\ OperationsRisk(r.operations) <= c.level
             /\ ScopeRisk[r.scope] <= c.level /\ SensitivityRisk[r.data] <= c.level
             /\ ReversibilityRisk[r.reversibility] <= c.level
             /\ High <= c.level => "approval" \in PhasesOf(PhaseIds(c))
             /\ High <= c.level /\ r.operations \cap WriteOperations # {} =>
                  {"rollback", "implement"} \subseteq PhasesOf(PhaseIds(c))
<1> DEFINE c == Validated(Classify(r), m)
<1>1. c \in Classification /\ Classify(r) \in Classification
  BY EveryTaskIsClassified, ClassifyFacts
<1>2. /\ m <= c.level /\ Classify(r).level <= c.level /\ c.write = Classify(r).write
      /\ High <= c.level => c.approval /\ c.mode = "rigorous"
  <2> DEFINE d == Classify(r)
  <2>1. d \in Classification /\ (High <= d.level => d.approval /\ d.mode = "rigorous")
    BY ClassifyFacts
  <2> HIDE DEF d
  <2>2. m \in Int /\ d.level \in Int /\ High \in Int
    BY <2>1 DEF Classification, RiskLevel, Low, High, Critical
  <2>3. CASE m <= d.level
    BY <2>1, <2>2, <2>3 DEF Validated, d
  <2>4. CASE ~(m <= d.level)
    <3> DEFINE approval == d.approval \/ m >= High
               mode == IF m >= High THEN "rigorous" ELSE "standard"
    <3>1. Validated(d, m) = [level |-> m, approval |-> approval, rollback |-> d.rollback,
                             write |-> d.write, mode |-> mode]
      BY <2>1, <2>4, Zenon DEF Validated, Classification
    <3>2. High <= m => approval /\ mode = "rigorous"
      BY <2>2
    <3> HIDE DEF approval, mode
    <3>3. /\ Validated(d, m).level = m /\ Validated(d, m).write = d.write
          /\ Validated(d, m).approval = approval /\ Validated(d, m).mode = mode
      BY <3>1
    <3> QED BY <2>2, <2>4, <3>2, <3>3 DEF d
  <2> QED BY <2>3, <2>4
<1>3. /\ MinimumRisk(r.scenario) <= c.level /\ OperationsRisk(r.operations) <= c.level
      /\ ScopeRisk[r.scope] <= c.level /\ SensitivityRisk[r.data] <= c.level
      /\ ReversibilityRisk[r.reversibility] <= c.level
  <2>1. Classify(r).level \in Int /\ c.level \in Int
    BY <1>1 DEF Classification, RiskLevel, Low, Critical
  <2>2. RiskLevel \subseteq Int
    BY DEF RiskLevel, Low, Critical
  <2>3. \A l \in RiskLevel : l <= Classify(r).level => l <= c.level
    BY <1>2, <2>1, <2>2
  <2> QED BY <2>3, ClassifyFacts, FactorLevels
<1> HIDE DEF c
<1>4. High <= c.level => "approval" \in PhasesOf(PhaseIds(c))
  BY <1>1, <1>2, PlanPhases
<1>5. High <= c.level /\ r.operations \cap WriteOperations # {} =>
        {"rollback", "implement"} \subseteq PhasesOf(PhaseIds(c))
  BY <1>1, <1>2, ClassifyFacts, PlanPhases
<1> QED BY <1>2, <1>3, <1>4, <1>5 DEF c

(***************************************************************************)
(* No plan repeats a phase, and the approval precedes the implementation.  *)
(***************************************************************************)
LEMMA PlanFacts ==
  ASSUME NEW p \in Plans
  PROVE  /\ p \in Seq(Phase) /\ Len(p) \in Nat /\ DOMAIN p = 1..Len(p)
         /\ \A i \in DOMAIN p : p[i] \in Phase
         /\ \A i, j \in DOMAIN p : p[i] = p[j] => i = j
         /\ \A i, j \in DOMAIN p : p[i] = "approval" /\ p[j] = "implement" => i < j
<1>1. InOrder(p, 1, 7)
  BY PlansAssumption, PlanInOrder
<1>2. p \in Seq(Phase) /\ Len(p) \in Nat /\ DOMAIN p = 1..Len(p)
  BY <1>1 DEF InOrder
<1>3. \A i, j \in DOMAIN p : i < j => Rank[p[i]] < Rank[p[j]]
  BY <1>1 DEF InOrder
<1>4. \A i \in DOMAIN p : p[i] \in Phase /\ Rank[p[i]] \in Nat
  BY <1>2, RankType
<1>5. Rank["approval"] = 3 /\ Rank["implement"] = 5
  BY DEF Rank, Phase
<1>6. ASSUME NEW i \in DOMAIN p, NEW j \in DOMAIN p, p[i] = p[j]
      PROVE  i = j
  BY <1>2, <1>3, <1>4, <1>6
<1>7. ASSUME NEW i \in DOMAIN p, NEW j \in DOMAIN p, p[i] = "approval", p[j] = "implement"
      PROVE  i < j
  <2>1. CASE i = j  BY <1>7, <2>1
  <2>2. CASE j < i  BY <1>3, <1>5, <1>7, <2>2
  <2> QED BY <1>2, <2>1, <2>2
<1> QED BY <1>2, <1>4, <1>6, <1>7

-----------------------------------------------------------------------------
Before(p, n) == {p[i] : i \in 1..(n - 1)}

(***************************************************************************)
(* Between the first save of an invocation and its end, what it holds is   *)
(* what is stored.                                                         *)
(***************************************************************************)
Attached == {"loop", "ask", "compile", "handoff", "execute", "returned", "record"}
InPhase == {"ask", "compile", "handoff", "execute", "returned"}

HoldsWhatIsStored ==
  pc \in Attached => /\ checkpoint \in Checkpoint /\ file = checkpoint
                     /\ ~strayed => plan = planned

(***************************************************************************)
(* Before that save, a resumed invocation holds the position and the claims*)
(* that are stored, a fresh one holds none.                                *)
(***************************************************************************)
HoldsWhatItOpened ==
  pc \in {"open", "save"} =>
    /\ checkpoint \in Checkpoint
    /\ checkpoint.status = "running"
    /\ ~resuming => checkpoint.next = 1 /\ checkpoint.completed = {}
    /\ resuming => /\ file \in Checkpoint
                   /\ checkpoint.next = file.next
                   /\ checkpoint.completed = file.completed
                   /\ ~strayed => plan = planned

HasPlan == pc # "idle" => plan \in Plans

PhaseUnderWay ==
  /\ pc \in InPhase => checkpoint.next <= Len(plan)
  /\ pc \in {"compile", "handoff", "execute", "returned"} /\ Current = "approval" => approved
  /\ pc = "returned" => Current \in executed
  /\ pc \in Attached \ {"record"} => checkpoint.status = "running"
  /\ pc = "record" => checkpoint.status = "completed"

ExposedPhase ==
  hard =>
    /\ pc \in {"handoff", "execute"} => allowlist = Current
    /\ pc = "execute" => /\ thread = Current /\ file.exposure = Current
                         /\ called \in {None, Current}

NothingCalled == pc # "execute" => called = None

(***************************************************************************)
(* What the stored checkpoint claims.                                      *)
(***************************************************************************)
Claims ==
  file \in Checkpoint =>
    /\ planned \in Plans
    /\ file.completed \subseteq executed
    /\ "approval" \in file.completed => approved
    /\ ~strayed => /\ file.next <= Len(planned) + 1
                   /\ file.completed = Before(planned, file.next)
                   /\ file.status = "completed" => file.next = Len(planned) + 1

RecordedAtTheEnd == recorded /\ ~strayed => PhasesOf(planned) \subseteq executed

IInv ==
  /\ TypeOK
  /\ HasPlan
  /\ HoldsWhatIsStored
  /\ HoldsWhatItOpened
  /\ PhaseUnderWay
  /\ ExposedPhase
  /\ NothingCalled
  /\ Claims
  /\ RecordedAtTheEnd

-----------------------------------------------------------------------------
\* The invariant holds at the start.
LEMMA InitEstablishes == Init => IInv
BY NoneAssumption
   DEF Init, IInv, TypeOK, PC, HasPlan, HoldsWhatIsStored, HoldsWhatItOpened, Attached,
       InPhase, PhaseUnderWay, ExposedPhase, NothingCalled, Claims, RecordedAtTheEnd

\* Every step preserves it: a fresh start.
LEMMA StartPreserves ==
  ASSUME IInv, Start
  PROVE  IInv'
<1>1. checkpoint' \in Checkpoint /\ plan' \in Plans
  BY DEF IInv, TypeOK, Start, Checkpoint, RunStatus
<1>2. TypeOK'
  BY <1>1 DEF IInv, TypeOK, Start, PC, history
<1>3. HoldsWhatItOpened'
  BY <1>1 DEF Start, HoldsWhatItOpened
<1>4. HoldsWhatIsStored' /\ PhaseUnderWay' /\ ExposedPhase' /\ HasPlan'
  BY <1>1 DEF Start, HoldsWhatIsStored, PhaseUnderWay, ExposedPhase, HasPlan, Attached, InPhase
<1>5. NothingCalled' /\ Claims' /\ RecordedAtTheEnd'
  BY DEF IInv, Start, NothingCalled, Claims, RecordedAtTheEnd, history
<1> QED BY <1>2, <1>3, <1>4, <1>5 DEF IInv

\* --resume, with whatever plan.
LEMMA ResumePreserves ==
  ASSUME IInv, Resume
  PROVE  IInv'
<1>1. file \in Checkpoint /\ plan' \in Plans
  BY DEF IInv, TypeOK, Resume
<1>2. /\ checkpoint' \in Checkpoint
      /\ checkpoint'.status = "running"
      /\ checkpoint'.next = file.next /\ checkpoint'.completed = file.completed
  BY <1>1 DEF IInv, TypeOK, Resume, Restored, Checkpoint, RunStatus
<1>3. thread' \in Phase \cup {"plain", None}
  BY <1>1 DEF Resume, Checkpoint
<1>4. TypeOK'
  BY <1>1, <1>2, <1>3 DEF IInv, TypeOK, Resume, PC
<1>5. HoldsWhatItOpened'
  BY <1>1, <1>2 DEF IInv, TypeOK, Resume, HoldsWhatItOpened
<1>6. HoldsWhatIsStored' /\ PhaseUnderWay' /\ ExposedPhase' /\ HasPlan'
  BY <1>1 DEF Resume, HoldsWhatIsStored, PhaseUnderWay, ExposedPhase, HasPlan, Attached, InPhase
<1>7. strayed => strayed'
  BY DEF Resume
<1>8. NothingCalled' /\ Claims' /\ RecordedAtTheEnd'
  BY <1>7 DEF IInv, Resume, NothingCalled, Claims, RecordedAtTheEnd
<1> QED BY <1>4, <1>5, <1>6, <1>8 DEF IInv

\* Opening a thread touches neither file nor claims.
LEMMA OpenThreadPreserves ==
  ASSUME IInv, OpenThread
  PROVE  IInv'
<1>1. TypeOK'
  BY DEF IInv, TypeOK, OpenThread, PC, history
<1>2. HoldsWhatItOpened' /\ HoldsWhatIsStored' /\ PhaseUnderWay' /\ ExposedPhase' /\ HasPlan'
  BY DEF IInv, OpenThread, HoldsWhatIsStored, HoldsWhatItOpened, PhaseUnderWay, ExposedPhase,
         HasPlan, Attached, InPhase, history
<1>3. NothingCalled' /\ Claims' /\ RecordedAtTheEnd'
  BY DEF IInv, OpenThread, NothingCalled, Claims, RecordedAtTheEnd, history
<1> QED BY <1>1, <1>2, <1>3 DEF IInv

\* The first save forgets the previous task, or stores what was resumed.
LEMMA SaveStartedPreserves ==
  ASSUME IInv, SaveStarted
  PROVE  IInv'
<1>1. checkpoint \in Checkpoint /\ checkpoint.status = "running" /\ plan \in Plans
  BY DEF IInv, HoldsWhatItOpened, HasPlan, SaveStarted
<1>2. /\ checkpoint' \in Checkpoint /\ file' = checkpoint'
      /\ checkpoint'.status = "running"
      /\ checkpoint'.next = checkpoint.next /\ checkpoint'.completed = checkpoint.completed
  BY <1>1 DEF IInv, TypeOK, SaveStarted, Save, Checkpoint
<1>3. TypeOK'
  BY <1>1, <1>2 DEF IInv, TypeOK, SaveStarted, PC, history
<1>4. /\ Len(plan) \in Nat
      /\ Before(plan, 1) = {}
  BY <1>1, PlanFacts DEF Before
<1>5. HoldsWhatIsStored' /\ Claims' /\ RecordedAtTheEnd'
  <2>1. CASE resuming
    <3>1. /\ file \in Checkpoint /\ UNCHANGED history
          /\ checkpoint.next = file.next /\ checkpoint.completed = file.completed
          /\ ~strayed => plan = planned
      BY <2>1 DEF IInv, HoldsWhatItOpened, SaveStarted
    <3>2. HoldsWhatIsStored'
      BY <1>2, <3>1 DEF HoldsWhatIsStored, SaveStarted, history
    <3>3. Claims'
      BY <1>2, <3>1 DEF IInv, Claims, history
    <3>4. RecordedAtTheEnd'
      BY <3>1 DEF IInv, RecordedAtTheEnd, history
    <3> QED BY <3>2, <3>3, <3>4
  <2>2. CASE ~resuming
    <3>1. /\ checkpoint.next = 1 /\ checkpoint.completed = {}
          /\ planned' = plan /\ executed' = {} /\ recorded' = FALSE
      BY <2>2 DEF IInv, HoldsWhatItOpened, SaveStarted
    <3>2. HoldsWhatIsStored'
      BY <1>2, <3>1 DEF HoldsWhatIsStored, SaveStarted
    <3>3. Claims'
      <4>1. plan \in Plans /\ file'.completed = {} /\ file'.next = 1 /\ file'.status = "running"
        BY <1>1, <1>2, <3>1
      <4>2. file'.next <= Len(plan) + 1 /\ file'.completed = Before(plan, file'.next)
        BY <1>4, <4>1
      <4> QED BY <3>1, <4>1, <4>2 DEF Claims
    <3>4. RecordedAtTheEnd'
      BY <3>1 DEF RecordedAtTheEnd
    <3> QED BY <3>2, <3>3, <3>4
  <2> QED BY <2>1, <2>2
<1>6. HoldsWhatItOpened' /\ PhaseUnderWay' /\ ExposedPhase' /\ HasPlan' /\ NothingCalled'
  BY <1>1, <1>2 DEF IInv, SaveStarted, HoldsWhatItOpened, PhaseUnderWay, ExposedPhase, HasPlan,
                NothingCalled, Attached, InPhase
<1> QED BY <1>3, <1>5, <1>6 DEF IInv

(***************************************************************************)
(* An invocation that ends leaves the file, or stores what it holds with   *)
(* another status.                                                         *)
(***************************************************************************)
LEMMA ReturnPreserves ==
  ASSUME IInv, Return, UNCHANGED <<input, hard, allowlist, planned, approved, executed, strayed>>,
         file' = file \/ (/\ file \in Checkpoint
                          /\ \E s \in RunStatus \ {"completed"} : file' = Paused(file, s)),
         recorded' \in BOOLEAN,
         recorded' /\ ~strayed => PhasesOf(planned) \subseteq executed
  PROVE  IInv'
<1>1. file \in Checkpoint => /\ file' \in Checkpoint
                             /\ file'.next = file.next /\ file'.completed = file.completed
                             /\ file'.status = "completed" => file.status = "completed"
  BY DEF Paused, Checkpoint
<1>2. file' \in Checkpoint \cup {None} /\ (file' \in Checkpoint => file \in Checkpoint)
  BY <1>1 DEF IInv, TypeOK
<1>3. TypeOK'
  BY <1>2 DEF IInv, TypeOK, Return, PC
<1>4. Claims'
  BY <1>1, <1>2 DEF IInv, Claims
<1>5. HoldsWhatIsStored' /\ HoldsWhatItOpened' /\ PhaseUnderWay' /\ ExposedPhase' /\ HasPlan'
      /\ NothingCalled'
  BY DEF Return, HoldsWhatIsStored, HoldsWhatItOpened, PhaseUnderWay, ExposedPhase, HasPlan,
         NothingCalled, Attached, InPhase
<1>6. RecordedAtTheEnd'
  BY DEF RecordedAtTheEnd
<1> QED BY <1>3, <1>4, <1>5, <1>6 DEF IInv

\* An invalidated or refused run keeps its position.
LEMMA PausePreserves ==
  ASSUME IInv, Invalidate \/ Refuse
  PROVE  IInv'
<1>1. file = checkpoint /\ checkpoint \in Checkpoint
  BY DEF IInv, HoldsWhatIsStored, Attached, Invalidate, Refuse
<1>2. \E s \in RunStatus \ {"completed"} : Pause(s)
  BY DEF Invalidate, Refuse, RunStatus
<1> QED
  BY <1>1, <1>2, ReturnPreserves DEF IInv, TypeOK, RecordedAtTheEnd, Pause, history

\* An exception or a kill stores nothing.
LEMMA ExitPreserves ==
  ASSUME IInv, Exit
  PROVE  IInv'
BY ReturnPreserves DEF IInv, TypeOK, RecordedAtTheEnd, Exit, history

(***************************************************************************)
(* The steps inside the loop.                                              *)
(***************************************************************************)
LEMMA InsideTheLoop ==
  ASSUME IInv, pc \in Attached
  PROVE  /\ checkpoint \in Checkpoint /\ file = checkpoint
         /\ plan \in Plans
         /\ Len(plan) \in Nat /\ checkpoint.next \in Nat \ {0}
         /\ checkpoint.next <= Len(plan) => checkpoint.next \in DOMAIN plan /\ Current \in Phase
         /\ ~strayed => plan = planned /\ checkpoint.completed = Before(plan, checkpoint.next)
<1>1. checkpoint \in Checkpoint /\ file = checkpoint /\ plan \in Plans
  BY DEF IInv, HoldsWhatIsStored, HasPlan, Attached
<1>2. ~strayed => plan = planned /\ checkpoint.completed = Before(plan, checkpoint.next)
  BY <1>1 DEF IInv, HoldsWhatIsStored, Claims
<1>3. checkpoint.next \in Nat \ {0}
  BY <1>1 DEF Checkpoint
<1> QED BY <1>1, <1>2, <1>3, PlanFacts DEF Current

\* The gates of a phase.
LEMMA EnterPhasePreserves ==
  ASSUME IInv, EnterPhase \/ Approve
  PROVE  IInv'
<1>1. /\ checkpoint \in Checkpoint /\ file = checkpoint /\ plan \in Plans
      /\ Len(plan) \in Nat /\ checkpoint.next \in Nat
      /\ pc \in {"loop", "ask"} /\ pc' \in {"ask", "compile"}
      /\ checkpoint.next <= Len(plan)
      /\ UNCHANGED <<input, hard, file, allowlist, invocation, planned, executed, recorded,
                     strayed>>
  BY InsideTheLoop DEF IInv, PhaseUnderWay, EnterPhase, Approve, Exhausted, Attached, InPhase,
                       history
<1>2. approved' \in BOOLEAN /\ (approved => approved')
  BY DEF IInv, TypeOK, EnterPhase, Approve, history
<1>3. TypeOK'
  BY <1>1, <1>2 DEF IInv, TypeOK, PC, invocation
<1>4. pc' = "compile" /\ Current = "approval" => approved'
  BY DEF EnterPhase, Approve, RequiresApproval
<1>5. PhaseUnderWay'
  BY <1>1, <1>4 DEF IInv, PhaseUnderWay, invocation, InPhase, Attached, Current
<1>6. HoldsWhatIsStored' /\ HoldsWhatItOpened' /\ ExposedPhase' /\ HasPlan'
  BY <1>1 DEF IInv, HoldsWhatIsStored, HoldsWhatItOpened, ExposedPhase, HasPlan, Attached,
              invocation
<1>7. NothingCalled' /\ Claims' /\ RecordedAtTheEnd'
  BY <1>1, <1>2 DEF IInv, NothingCalled, Claims, RecordedAtTheEnd, invocation
<1> QED BY <1>3, <1>5, <1>6, <1>7 DEF IInv

\* The capsule, and the allowlist of the gateway.
LEMMA CompilePreserves ==
  ASSUME IInv, Compile
  PROVE  IInv'
<1>1. /\ plan \in Plans /\ Current \in Phase /\ checkpoint.next <= Len(plan)
      /\ UNCHANGED <<input, hard, file, invocation, history>>
      /\ pc' \in {"handoff", "execute"} /\ (hard <=> pc' = "handoff")
  BY InsideTheLoop DEF IInv, PhaseUnderWay, Compile, Attached, InPhase
<1>2. TypeOK'
  BY <1>1 DEF IInv, TypeOK, PC, Compile, WriteAllowlist, invocation, history
<1>3. PhaseUnderWay' /\ HoldsWhatIsStored' /\ HoldsWhatItOpened' /\ HasPlan'
  BY <1>1 DEF IInv, PhaseUnderWay, HoldsWhatIsStored, HoldsWhatItOpened, HasPlan,
              Attached, InPhase, Compile, Current, invocation, history
<1>4. ExposedPhase'
  BY <1>1 DEF IInv, ExposedPhase, NothingCalled, Compile, WriteAllowlist, Current, invocation
<1>5. NothingCalled' /\ Claims' /\ RecordedAtTheEnd'
  BY <1>1 DEF IInv, NothingCalled, Claims, RecordedAtTheEnd, Compile, invocation, history
<1> QED BY <1>2, <1>3, <1>4, <1>5 DEF IInv

\* The thread of the phase and the saved exposure.
LEMMA HandoffPreserves ==
  ASSUME IInv, Handoff
  PROVE  IInv'
<1>1. /\ checkpoint \in Checkpoint /\ file = checkpoint /\ plan \in Plans
      /\ Current \in Phase /\ checkpoint.next <= Len(plan)
  BY InsideTheLoop DEF IInv, PhaseUnderWay, Handoff, Attached, InPhase
<1>2. /\ checkpoint' \in Checkpoint /\ file' = checkpoint'
      /\ checkpoint'.next = checkpoint.next /\ checkpoint'.completed = checkpoint.completed
      /\ checkpoint'.status = checkpoint.status /\ checkpoint'.exposure = Current
      /\ plan' = plan
  BY <1>1 DEF Handoff, Save, Checkpoint
<1>3. Current' = Current
  BY <1>2 DEF Current
<1>4. TypeOK'
  BY <1>1, <1>2 DEF IInv, TypeOK, PC, Handoff, history
<1>5. PhaseUnderWay' /\ HoldsWhatIsStored' /\ HoldsWhatItOpened' /\ HasPlan'
  BY <1>1, <1>2, <1>3 DEF IInv, PhaseUnderWay, HoldsWhatIsStored, HoldsWhatItOpened, HasPlan,
                     Attached, InPhase, Handoff, history
<1>6. ExposedPhase'
  BY <1>1, <1>2, <1>3 DEF IInv, ExposedPhase, NothingCalled, Handoff
<1>7. NothingCalled' /\ Claims' /\ RecordedAtTheEnd'
  BY <1>1, <1>2 DEF IInv, NothingCalled, Claims, RecordedAtTheEnd, Handoff, history
<1> QED BY <1>4, <1>5, <1>6, <1>7 DEF IInv

\* A tool call goes through only to the phase's own tool.
LEMMA CallToolPreserves ==
  ASSUME IInv, CallTool
  PROVE  IInv'
<1>1. /\ called' = allowlist /\ called' \in Phase
      /\ UNCHANGED <<input, hard, file, allowlist, pc, resuming, plan, checkpoint, thread, history>>
      /\ pc = "execute"
  BY DEF CallTool, Forwards
<1>2. Current' = Current
  BY <1>1 DEF Current
<1>3. TypeOK' /\ HasPlan' /\ HoldsWhatIsStored' /\ HoldsWhatItOpened' /\ PhaseUnderWay'
  BY <1>1, <1>2 DEF IInv, TypeOK, HasPlan, HoldsWhatIsStored, HoldsWhatItOpened, PhaseUnderWay,
                    history
<1>4. ExposedPhase' /\ NothingCalled' /\ Claims' /\ RecordedAtTheEnd'
  BY <1>1, <1>2 DEF IInv, ExposedPhase, NothingCalled, Claims, RecordedAtTheEnd, history
<1> QED BY <1>3, <1>4 DEF IInv

\* A turn that completes its phase.
LEMMA ExecutePreserves ==
  ASSUME IInv, Execute
  PROVE  IInv'
<1>1. /\ Current \in Phase /\ checkpoint.next <= Len(plan)
      /\ executed' = executed \cup {Current}
      /\ UNCHANGED <<input, hard, file, allowlist, resuming, plan, checkpoint, thread,
                     planned, approved, recorded, strayed>>
      /\ pc = "execute" /\ pc' = "returned" /\ called' = None
  BY InsideTheLoop DEF IInv, PhaseUnderWay, Execute, VerifyPhase, Attached, InPhase
<1>2. Current' = Current
  BY <1>1 DEF Current
<1>3. TypeOK'
  BY <1>1 DEF IInv, TypeOK, PC
<1>4. PhaseUnderWay' /\ HoldsWhatIsStored' /\ HoldsWhatItOpened' /\ HasPlan'
  BY <1>1, <1>2 DEF IInv, PhaseUnderWay, HoldsWhatIsStored, HoldsWhatItOpened, HasPlan,
                    Attached, InPhase
<1>5. ExposedPhase' /\ NothingCalled' /\ Claims' /\ RecordedAtTheEnd'
  BY <1>1, <1>2 DEF IInv, ExposedPhase, NothingCalled, Claims, RecordedAtTheEnd
<1> QED BY <1>3, <1>4, <1>5 DEF IInv

\* The position passes the phase that was executed.
LEMMA SavePhasePreserves ==
  ASSUME IInv, SavePhase
  PROVE  IInv'
<1>1. /\ checkpoint \in Checkpoint /\ file = checkpoint /\ plan \in Plans
      /\ Len(plan) \in Nat /\ checkpoint.next \in Nat \ {0}
      /\ Current \in Phase /\ checkpoint.next <= Len(plan)
      /\ ~strayed => plan = planned /\ checkpoint.completed = Before(plan, checkpoint.next)
  BY InsideTheLoop DEF IInv, PhaseUnderWay, SavePhase, Attached, InPhase
<1>2. /\ Current \in executed
      /\ Current = "approval" => approved
      /\ checkpoint.status = "running"
  BY DEF IInv, PhaseUnderWay, SavePhase, Attached, InPhase
<1>3. /\ checkpoint' \in Checkpoint /\ file' = checkpoint'
      /\ checkpoint'.next = checkpoint.next + 1
      /\ checkpoint'.completed = checkpoint.completed \cup {Current}
      /\ checkpoint'.status = "running"
      /\ pc' = "loop" /\ UNCHANGED <<plan, history>>
  <2>1. checkpoint.next + 1 \in Nat \ {0} /\ checkpoint.completed \cup {Current} \in SUBSET Phase
    BY <1>1 DEF Checkpoint
  <2>2. /\ file' = checkpoint' /\ pc' = "loop" /\ UNCHANGED <<plan, history>>
        /\ checkpoint' = [checkpoint EXCEPT !.completed = checkpoint.completed \cup {Current},
                                            !.next = checkpoint.next + 1]
    BY DEF SavePhase, Save
  <2> QED BY <1>1, <1>2, <2>1, <2>2 DEF Checkpoint
<1>4. Before(plan, checkpoint.next + 1) = Before(plan, checkpoint.next) \cup {Current}
  <2>1. 1..(checkpoint.next + 1 - 1) = 1..(checkpoint.next - 1) \cup {checkpoint.next}
    BY <1>1
  <2> QED BY <2>1 DEF Before, Current
<1>5. TypeOK'
  BY <1>1, <1>3 DEF IInv, TypeOK, PC, SavePhase, history
<1>6. HoldsWhatIsStored' /\ HoldsWhatItOpened' /\ HasPlan'
  BY <1>1, <1>3 DEF HoldsWhatIsStored, HoldsWhatItOpened, HasPlan, Attached, history
<1>7. PhaseUnderWay' /\ ExposedPhase' /\ NothingCalled'
  BY <1>3 DEF IInv, PhaseUnderWay, ExposedPhase, NothingCalled, InPhase, SavePhase
<1>8. Claims'
  <2>1. planned' \in Plans /\ file'.completed \subseteq executed'
    BY <1>1, <1>2, <1>3 DEF IInv, Claims, history
  <2>2. "approval" \in file'.completed => approved'
    BY <1>1, <1>2, <1>3 DEF IInv, Claims, history
  <2>3. ~strayed' => /\ file'.next <= Len(planned') + 1
                     /\ file'.completed = Before(planned', file'.next)
                     /\ file'.status = "completed" => file'.next = Len(planned') + 1
    BY <1>1, <1>3, <1>4 DEF history
  <2> QED BY <2>1, <2>2, <2>3 DEF Claims
<1>9. RecordedAtTheEnd'
  BY <1>3 DEF IInv, RecordedAtTheEnd, history
<1> QED BY <1>5, <1>6, <1>7, <1>8, <1>9 DEF IInv

\* The end of the plan.
LEMMA FinishPreserves ==
  ASSUME IInv, Finish
  PROVE  IInv'
<1>1. /\ checkpoint \in Checkpoint /\ file = checkpoint /\ plan \in Plans
      /\ Len(plan) \in Nat /\ checkpoint.next \in Nat \ {0}
      /\ ~strayed => plan = planned
  BY InsideTheLoop DEF Finish, Attached
<1>2. /\ checkpoint' \in Checkpoint /\ file' = checkpoint'
      /\ checkpoint'.next = checkpoint.next /\ checkpoint'.completed = checkpoint.completed
      /\ checkpoint'.status = "completed"
      /\ pc' = "record" /\ UNCHANGED <<plan, history>>
  BY <1>1 DEF Finish, Save, Checkpoint, RunStatus
<1>3. ~strayed => checkpoint.next = Len(planned) + 1
  BY <1>1 DEF IInv, Claims, Finish, Exhausted
<1>4. TypeOK'
  BY <1>1, <1>2 DEF IInv, TypeOK, PC, Finish, history
<1>5. HoldsWhatIsStored' /\ HoldsWhatItOpened' /\ HasPlan'
  BY <1>1, <1>2 DEF HoldsWhatIsStored, HoldsWhatItOpened, HasPlan, Attached, history
<1>6. PhaseUnderWay' /\ ExposedPhase' /\ NothingCalled'
  BY <1>2 DEF IInv, PhaseUnderWay, ExposedPhase, NothingCalled, InPhase, Attached, Finish
<1>7. Claims' /\ RecordedAtTheEnd'
  BY <1>1, <1>2, <1>3 DEF IInv, Claims, RecordedAtTheEnd, history
<1> QED BY <1>4, <1>5, <1>6, <1>7 DEF IInv

(***************************************************************************)
(* A position at the end of the plan has every phase behind it.            *)
(***************************************************************************)
LEMMA CompletedWholePlan ==
  ASSUME IInv, file \in Checkpoint, file.status = "completed", ~strayed
  PROVE  PhasesOf(planned) \subseteq executed
<1>1. /\ planned \in Plans /\ file.completed \subseteq executed
      /\ file.completed = Before(planned, file.next) /\ file.next = Len(planned) + 1
  BY DEF IInv, Claims
<1>2. DOMAIN planned = 1..(file.next - 1)
  BY <1>1, PlanFacts
<1> QED BY <1>1, <1>2 DEF PhasesOf, Before

\* The outcome is recorded after the whole plan.
LEMMA RecordOutcomePreserves ==
  ASSUME IInv, RecordOutcome
  PROVE  IInv'
<1>1. file \in Checkpoint /\ file.status = "completed"
  BY InsideTheLoop DEF IInv, PhaseUnderWay, RecordOutcome, Attached
<1>2. ~strayed => PhasesOf(planned) \subseteq executed
  BY <1>1, CompletedWholePlan
<1> QED BY <1>2, ReturnPreserves DEF RecordOutcome

\* The inputs of the context change by themselves.
LEMMA ChangeInputPreserves ==
  ASSUME IInv, ChangeInput
  PROVE  IInv'
<1>1. input' \in Input /\ UNCHANGED <<hard, file, allowlist, pc, invocation, history>>
  BY DEF ChangeInput
<1>2. TypeOK' /\ HasPlan' /\ HoldsWhatIsStored' /\ HoldsWhatItOpened'
  BY <1>1 DEF IInv, TypeOK, HasPlan, HoldsWhatIsStored, HoldsWhatItOpened, invocation, history
<1>3. PhaseUnderWay' /\ ExposedPhase' /\ NothingCalled' /\ Claims' /\ RecordedAtTheEnd'
  BY <1>1 DEF IInv, PhaseUnderWay, ExposedPhase, NothingCalled, Claims, RecordedAtTheEnd, Current,
              invocation, history
<1> QED BY <1>2, <1>3 DEF IInv

\* Every step.
LEMMA StepPreserves == IInv /\ [Next]_vars => IInv'
<1>1. CASE UNCHANGED vars
  BY <1>1 DEF vars, IInv, TypeOK, HasPlan, HoldsWhatIsStored, HoldsWhatItOpened, PhaseUnderWay,
              ExposedPhase, NothingCalled, Claims, RecordedAtTheEnd, Current
<1>2. ASSUME IInv, Next PROVE IInv'
  BY <1>2, StartPreserves, ResumePreserves, OpenThreadPreserves, SaveStartedPreserves,
     PausePreserves, EnterPhasePreserves, CompilePreserves, HandoffPreserves, CallToolPreserves,
     ExecutePreserves, SavePhasePreserves, FinishPreserves, RecordOutcomePreserves, ExitPreserves,
     ChangeInputPreserves DEF Next
<1> QED BY <1>1, <1>2

\* The inductive invariant holds in every state of every behaviour.
LEMMA Invariance == Spec => []IInv
BY InitEstablishes, StepPreserves, PTL DEF Spec

-----------------------------------------------------------------------------
(***************************************************************************)
(* Every variable keeps its type.                                          *)
(***************************************************************************)
THEOREM TypeCorrect == Spec => []TypeOK
<1>1. IInv => TypeOK  BY DEF IInv
<1> QED BY <1>1, Invariance, PTL

(***************************************************************************)
(* Nothing is implemented before the approval of a plan that asks for one, *)
(* however invocations are refused, invalidated, killed and resumed.       *)
(***************************************************************************)
THEOREM ApprovedFirst == Spec => []ApprovalBeforeImplement
<1>1. IInv => ApprovalBeforeImplement
  <2> SUFFICES ASSUME IInv, pc = "execute", Current = "implement",
                      "approval" \in PhasesOf(plan), ~strayed
               PROVE  approved
    BY DEF ApprovalBeforeImplement
  <2>1. /\ plan \in Plans /\ file \in Checkpoint /\ file.next \in Nat /\ file = checkpoint
        /\ checkpoint.next \in DOMAIN plan
        /\ file.completed = Before(plan, file.next)
    BY InsideTheLoop DEF IInv, PhaseUnderWay, Attached, InPhase
  <2>2. PICK i \in DOMAIN plan : plan[i] = "approval"
    BY DEF PhasesOf
  <2>3. i < file.next /\ i \in 1..Len(plan) /\ Len(plan) \in Nat
    BY <2>1, <2>2, PlanFacts DEF Current
  <2>4. i \in 1..(file.next - 1)
    BY <2>1, <2>3
  <2>5. "approval" \in file.completed
    BY <2>1, <2>2, <2>4 DEF Before
  <2> QED BY <2>1, <2>5 DEF IInv, Claims
<1> QED BY <1>1, Invariance, PTL

(***************************************************************************)
(* The checkpoint claims no phase that was not completed, and repeats none.*)
(***************************************************************************)
THEOREM HonestCheckpoint == Spec => []CheckpointIsHonest
<1>1. IInv => CheckpointIsHonest
  <2> SUFFICES ASSUME IInv PROVE CheckpointIsHonest
    OBVIOUS
  <2>1. ASSUME file # None
        PROVE  /\ file.completed \subseteq executed
               /\ ~strayed => /\ file.completed = {planned[i] : i \in 1..(file.next - 1)}
                              /\ file.status = "completed" => PhasesOf(planned) \subseteq executed
    <3>1. file \in Checkpoint
      BY <2>1 DEF IInv, TypeOK
    <3> QED BY <3>1, CompletedWholePlan DEF IInv, Claims, Before
  <2>2. recorded /\ ~strayed => PhasesOf(planned) \subseteq executed
    BY DEF IInv, RecordedAtTheEnd
  <2>3. ASSUME pc = "execute", ~strayed
        PROVE  Current \notin checkpoint.completed
    <3>1. /\ plan \in Plans /\ checkpoint.next \in DOMAIN plan /\ checkpoint.next \in Nat
          /\ checkpoint.completed = Before(plan, checkpoint.next)
      BY <2>3, InsideTheLoop DEF IInv, PhaseUnderWay, Attached, InPhase
    <3>2. \A i \in 1..(checkpoint.next - 1) : i \in DOMAIN plan /\ i # checkpoint.next
      BY <3>1, PlanFacts
    <3> QED BY <3>1, <3>2, PlanFacts DEF Before, Current
  <2> QED BY <2>1, <2>2, <2>3 DEF CheckpointIsHonest
<1> QED BY <1>1, Invariance, PTL

(***************************************************************************)
(* A turn under hard routing has the allowlist, the thread and the saved   *)
(* exposure of its own phase and gets through to no other tool.            *)
(***************************************************************************)
THEOREM OwnExposure == Spec => []TurnHasItsExposure
<1>1. IInv => TurnHasItsExposure
  BY DEF IInv, ExposedPhase, TurnHasItsExposure
<1> QED BY <1>1, Invariance, PTL
=============================================================================
