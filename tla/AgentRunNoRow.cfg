SPECIFICATION Spec
CONSTANTS
  N = 2
  Configs <- MCConfigs
  NoConf = "none"
  Values <- MCValues
  MinLen = 2
  Chars <- MCChars
  Texts <- MCTexts
  MaxFaults = 0
CHECK_DEADLOCK FALSE
INVARIANTS
  FailureShown
