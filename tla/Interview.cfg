SPECIFICATION Spec
CONSTANTS
  Process = {p1, p2}
  Questions = 3
  Field = {3}
  Permission = {2}
  Unasked = {execute_command}
  PassedOn = {access_secrets}
  Text = {"grant", "hedge"}
  Typed <- MCTyped
  Reading <- MCReading
  Default <- MCDefault
  Judgement <- MCJudgement
  MaxInvocations = 3
  MaxThreads = 2
  None = None
SYMMETRY Symmetry
INVARIANTS
  AnsweredInOrder
  ResultIsWhatWasSaid
  ThreadIsInformed
  NoGrantWithoutUser
CHECK_DEADLOCK FALSE
