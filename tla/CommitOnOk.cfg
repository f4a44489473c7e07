CONSTANTS
  Names = {a, b}
  MaxWrites = 2
  MaxTxns = 1
  MaxDepth = 1
SPECIFICATION Spec
INVARIANT CommitsOnOk
