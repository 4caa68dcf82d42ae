SPECIFICATION Spec
CONSTANTS
  N = 3
  Configs <- MCConfigs
  NoConf = "none"
  Values <- MCValues
  MinLen = 2
  Chars <- MCChars
  Texts <- MCTexts
  MaxFaults = 1
CHECK_DEADLOCK FALSE
INVARIANTS
  TypeOK
  PreflightComplete
  NothingPrinted
  VerdictEarned
  Agreement
