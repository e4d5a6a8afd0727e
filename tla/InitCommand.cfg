SPECIFICATION Spec
CONSTANTS
  Process = {p1, p2}
  StageCount = 9
  Digest = {d1, d2}
  Key = {}
  Answers = {a1}
  Gap = {g1, g2}
  Required = {g1}
  Nil = Nil
SYMMETRY Symmetry
INVARIANTS
  AppliedOnce
  OneRepositoryVersion
  ProjectFollowsRun
  PausedIsResumable
CHECK_DEADLOCK FALSE
