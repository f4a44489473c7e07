CONSTANTS
  MaxParams = 2
  MaxNotices = 1
SPECIFICATION FairSpec
CHECK_DEADLOCK FALSE
INVARIANTS
  TypeOK
  HandsOverInSync
  KeepsServerData
  SslModeKept
  ScramIsFinished
PROPERTIES
  RightPasswordConnects
  HangsOnlyIf
