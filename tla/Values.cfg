CONSTANTS
  Texts <- MCTexts
  ParamLists <- MCParamLists
  BindLists <- MCBindLists
  Names <- MCNames
  Columns <- MCColumns
  Counts = 4
SPECIFICATION Spec
CHECK_DEADLOCK FALSE
INVARIANTS
  TypeOK
  StatementKeepsMeaning
  QuotedReadsBack
  ExtendedKeepsValues
  RefusedOnlyIf
  NamesFindTheirColumn
