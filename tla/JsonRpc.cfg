SPECIFICATION Spec
CONSTANTS
  Task = {t1, t2}
  Responder = Responder
  StreamSize = 1
  PipeSize = 1
  MaxAsks = 2
  MaxNotes = 1
  None = None
INVARIANTS
  OwnAnswer
  EveryWaiterIsTold
PROPERTIES
  EveryRequestEnds
  EveryAskIsAnswered
CHECK_DEADLOCK FALSE
