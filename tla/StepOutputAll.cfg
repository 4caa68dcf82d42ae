SPECIFICATION FairSpec
CONSTANTS
  MaxLines = 2
  PipeCap = 1
  ChanCap = 2
  MaxFaults = 1
CHECK_DEADLOCK FALSE
INVARIANTS
  TypeOK
  LogIsOutput
  NoLineTwice
  PageIsLog
  JailTakenDown
PROPERTIES
  StepEnds
