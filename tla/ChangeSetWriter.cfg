\* One other writer with one edit, two failing calls, a death at any time.
CONSTANTS
    c1 = c1
    c2 = c2
    Absent = Absent
    NOps = 2
    NDirs = 2
    DepthOf <- MCDepthOf
    Ownership <- MCOwnership
    Content <- MCContent
    NCommands = 1
    MaxEdits = 1
    MaxFaults = 2
SPECIFICATION Spec
INVARIANTS
    TypeOK
    ReportedRollbackIsComplete
    CrashLosesNothing
    NothingLeftBehind
PROPERTIES
    AppliesAtomically
CHECK_DEADLOCK FALSE
