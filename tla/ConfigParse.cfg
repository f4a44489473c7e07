CONSTANTS
  Chars <- MCChars
  DsnLists <- MCDsnLists
  UriLists <- MCUriLists
  Envs <- MCEnvs
SPECIFICATION Spec
CHECK_DEADLOCK FALSE
INVARIANTS
  TypeOK
  DsnReadsBack
  UriReadsBack
  EnvReplacesOnlyDefaults
