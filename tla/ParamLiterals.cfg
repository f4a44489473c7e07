CONSTANTS
  Texts <- MCTexts
  ParamLists <- MCParamLists
  BindLists = {}
  Names = {}
  Columns <- MCColumns
  Counts = 4
SPECIFICATION Spec
CHECK_DEADLOCK FALSE
INVARIANT ValuesAreLiterals
