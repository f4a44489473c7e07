CONSTANTS
  C2SCap = 1
  S2CCap = 1
  MaxRows = 1
  MaxSets = 1
  MaxNotes = 1
  MaxNoise = 1
  NoiseKinds = {"Malformed", "Unknown"}
  Crashes = FALSE
  Copies = FALSE
  Ops = {"query", "poll"}
  MaxCalls = 2
  Drops = TRUE
SPECIFICATION Spec
CHECK_DEADLOCK FALSE
INVARIANTS
  InSync
  RowsComplete
  NotificationsAccounted
PROPERTY KeepsPromise
