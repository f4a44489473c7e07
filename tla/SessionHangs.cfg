CONSTANTS
  C2SCap = 1
  S2CCap = 1
  MaxRows = 1
  MaxSets = 1
  MaxNotes = 0
  MaxNoise = 1
  NoiseKinds = {"Unknown"}
  Crashes = FALSE
  Copies = TRUE
  Ops = {"query", "extended"}
  MaxCalls = 2
  Drops = TRUE
SPECIFICATION FairSpec
CHECK_DEADLOCK FALSE
PROPERTY HangsOnlyIf
