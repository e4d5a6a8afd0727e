SPECIFICATION Spec
CONSTANTS
  Plans <- MCPlans
  Input = {i1, i2}
  None = None
INVARIANTS
  ApprovalBeforeImplement
  CheckpointIsHonest
  TurnHasItsExposure
CHECK_DEADLOCK FALSE
