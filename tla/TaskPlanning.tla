---------------------------- MODULE TaskPlanning ----------------------------
(***************************************************************************)
(* From the signals of a task to its phases: classify_scenario             *)
(* (workflows/scenarios.py), the floor that a model's opinion of the risk  *)
(* cannot lower (_validated_classification, commands/run.py) and           *)
(* build_task_plan (workflows/task_graph.py).  A risk level is its rank.   *)
(***************************************************************************)
EXTENDS Integers, Sequences

Low == 0  Medium == 1  High == 2  Critical == 3
RiskLevel == Low..Critical

ScenarioId ==
  {"bug", "feature", "refactor", "security", "migration", "review", "performance",
   "dependency-upgrade", "testing", "ui-accessibility", "documentation", "release",
   "incident", "exploration"}

Guarded == {"security", "migration", "release", "incident"}

MinimumRisk(s)   == IF s \in Guarded THEN High ELSE Low
ForceApproval(s) == s \in Guarded
ForceRollback(s) == s = "migration"

ScopeRisk == [scope \in {"local", "multi-component", "cross-system"} |->
  CASE scope = "local" -> Low [] scope = "multi-component" -> Medium [] OTHER -> High]

SensitivityRisk == [data \in {"public", "internal", "sensitive", "regulated"} |->
  CASE data = "public" -> Low [] data = "internal" -> Medium
    [] data = "sensitive" -> High [] OTHER -> Critical]

ReversibilityRisk == [r \in {"reversible", "difficult", "irreversible"} |->
  CASE r = "reversible" -> Low [] r = "difficult" -> High [] OTHER -> Critical]

TaskOperation ==
  {"read-project", "write-project", "execute-command", "network", "deploy",
   "migrate-data", "modify-security", "handle-payment"}

WriteOperations ==
  {"write-project", "execute-command", "deploy", "migrate-data", "modify-security",
   "handle-payment"}

OperationsRisk(ops) ==
  IF "handle-payment" \in ops THEN Critical
  ELSE IF ops \cap {"network", "deploy", "migrate-data", "modify-security",
                    "execute-command"} # {} THEN High
  ELSE IF "write-project" \in ops THEN Medium ELSE Low

Request ==
  [scenario: ScenarioId, scope: DOMAIN ScopeRisk, data: DOMAIN SensitivityRisk,
   reversibility: DOMAIN ReversibilityRisk, operations: SUBSET TaskOperation]

Highest(levels) == CHOOSE l \in levels : \A m \in levels : m <= l

(***************************************************************************)
(* What is decided about a task.                                           *)
(***************************************************************************)
Classification ==
  [level: RiskLevel, approval: BOOLEAN, rollback: BOOLEAN, write: BOOLEAN,
   mode: {"fast", "standard", "rigorous"}]

(***************************************************************************)
(* classify_scenario and _workflow_mode.                                   *)
(***************************************************************************)
WorkflowMode(level) ==
  IF level = Low THEN "fast" ELSE IF level = Medium THEN "standard" ELSE "rigorous"

Classify(r) ==
  LET level == Highest({ScopeRisk[r.scope], SensitivityRisk[r.data],
                        ReversibilityRisk[r.reversibility],
                        OperationsRisk(r.operations), MinimumRisk(r.scenario)})
  IN  [level    |-> level,
       approval |-> \/ ForceApproval(r.scenario)
                    \/ level >= High
                    \/ "handle-payment" \in r.operations,
       rollback |-> \/ ForceRollback(r.scenario)
                    \/ r.reversibility = "irreversible"
                    \/ "migrate-data" \in r.operations,
       write    |-> r.operations \cap WriteOperations # {},
       mode     |-> WorkflowMode(level)]

(***************************************************************************)
(* _validated_classification: a model may raise the risk, never lower it.  *)
(* A level it raises to is at least MEDIUM.                                *)
(***************************************************************************)
Validated(c, modelLevel) ==
  IF modelLevel <= c.level THEN c
  ELSE [c EXCEPT !.level = modelLevel,
                 !.approval = @ \/ modelLevel >= High,
                 !.mode = IF modelLevel >= High THEN "rigorous" ELSE "standard"]

(***************************************************************************)
(* _phase_ids, and the phase that waits for an approval.                   *)
(***************************************************************************)
When(condition, phase) == IF condition THEN <<phase>> ELSE <<>>

PhaseIds(c) ==
  IF c.mode = "fast"
  THEN <<"inspect">> \o When(c.approval, "approval") \o When(c.write, "implement")
         \o <<"verify">>
  ELSE <<"inspect", "design">> \o When(c.approval, "approval")
         \o When(c.write /\ (c.mode = "rigorous" \/ c.rollback), "rollback")
         \o When(c.write, "implement") \o <<"verify", "review">>

Phase == {"inspect", "design", "approval", "rollback", "implement", "verify", "review"}

RequiresApproval(phase) == phase = "approval"
=============================================================================
