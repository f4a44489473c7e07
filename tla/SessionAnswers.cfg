CONSTANTS
  C2SCap = 1
  S2CCap = 1
  MaxRows = 1
  MaxSets = 2
  MaxNotes = 0
  MaxNoise = 1
  NoiseKinds = {"NoticeResponse"}
  Crashes = TRUE
  Copies = FALSE
  Ops = {"query", "execute", "extended", "close"}
  MaxCalls = 2
  Drops = FALSE
SPECIFICATION FairSpec
CHECK_DEADLOCK FALSE
INVARIANTS
  TypeOK
  SyncInv
  AnswerIsOwn
  RowsComplete
  AffectedIsLastCount
PROPERTIES
  KeepsPromise
  CallReturns
