SPECIFICATION Spec
CONSTANTS
  Process = {p1, p2}
  StageCount = 9
  Digest = {d1, d2}
  Key = {}
  Answers = {a1}
  Gap = {g1, g2}
  Required = {g1}
  Nil = Nil
SYMMETRY Symmetry
INVARIANT InterruptedIsResumable
CHECK_DEADLOCK FALSE
