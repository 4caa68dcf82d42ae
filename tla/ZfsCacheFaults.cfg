SPECIFICATION Spec
CONSTANTS
  Runs = {r1, r2, r3, r4}
  None = None
  NCaches = 2
  InWorkspace = {1}
  MaxFaults = 3
SYMMETRY Symmetry
CHECK_DEADLOCK FALSE
INVARIANTS
  TypeOK
  NeverPoisoned
  TidyRunsLeaveNothing
  WarmAfterSuccess
