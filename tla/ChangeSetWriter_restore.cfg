\* One failing call is enough: a rmtree of the clean-up.
CONSTANTS
    c1 = c1
    c2 = c2
    Absent = Absent
    NOps = 2
    NDirs = 2
    DepthOf <- MCDepthOf
    Ownership <- MCOwnership
    Content <- MCContent
    NCommands = 0
    MaxEdits = 0
    MaxFaults = 1
SPECIFICATION Spec
INVARIANTS
    ApplyOrRestore
CHECK_DEADLOCK FALSE
