CONSTANTS
  C2SCap = 1
  S2CCap = 1
  MaxRows = 1
  MaxSets = 1
  MaxNotes = 1
  MaxNoise = 0
  NoiseKinds = {}
  Crashes = FALSE
  Copies = FALSE
  Ops = {"query", "poll"}
  MaxCalls = 1
  Drops = FALSE
SPECIFICATION Spec
CHECK_DEADLOCK FALSE
INVARIANT SubscribersGetNotifications
