SPECIFICATION MCSpec
CONSTANTS
  Client = {c1, c2}
  Cap = {a, b}
  MaxVersion = 2
  MaxCommits = 3
  MaxFaults = 2
  Updates = TRUE
  None = None
SYMMETRY Symmetry
INVARIANTS
  PinnedIsApprovedAndVerified
  InstalledIsRecorded
PROPERTY RoundTrip
CHECK_DEADLOCK FALSE
