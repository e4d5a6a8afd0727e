SPECIFICATION Spec
CONSTANTS
  r1 = r1  r2 = r2  t1 = t1
  p1 = p1  p2 = p2  p3 = p3
  d1 = d1  d2 = d2
  RunId <- MCRunId
  ThreadId <- MCThreadId
  Digest = {d1, d2}
  Process = {p1, p2, p3}
  None = None
SYMMETRY Symmetry
INVARIANTS
  RecordMatchesGraph
  RunningIsAttended
CHECK_DEADLOCK FALSE
