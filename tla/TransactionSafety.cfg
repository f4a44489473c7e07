CONSTANTS
  Names = {a, b}
  MaxWrites = 3
  MaxTxns = 2
  MaxDepth = 2
SPECIFICATION Spec
INVARIANTS
  TypeOK
  NothingLeftOpen
  CommitsItsOwn
  AllOrNothing
  ErrRollsBack
  OkCommits
  TransactionInv
PROPERTY SavepointRollbackUndoesNothing
