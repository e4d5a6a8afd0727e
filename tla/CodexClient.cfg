SPECIFICATION ConnectionSpec
CONSTANTS
  StreamSize = 1
  Phases = 2
  MaxItems = 1
  MaxNoise = 1
  Nil = Nil
INVARIANTS
  OwnEvents
  NoServerLeftBehind
  
PROPERTIES
  EveryConnectionEnds
CHECK_DEADLOCK FALSE
