SPECIFICATION Spec
CONSTANTS
  Client = {c1, c2}
  NoCheckpoint = NoCheckpoint
  StageCount = 4
  Digest = {d1, d2}
  Key = {k1, k2}
  MaxRevision = 6
SYMMETRY Symmetry
INVARIANTS
  TypeOK
  RevisionIdentifiesState
  NoConfirmationLost
  NoEarlySideEffect
PROPERTIES
  TransitionsAreAtomic
CHECK_DEADLOCK FALSE
