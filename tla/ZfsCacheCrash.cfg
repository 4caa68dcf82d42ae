SPECIFICATION Spec
CONSTANTS
  Runs = {r1, r2, r3}
  None = None
  NCaches = 1
  InWorkspace = {1}
  MaxFaults = 1
SYMMETRY Symmetry
CHECK_DEADLOCK FALSE
INVARIANTS
  CommitTakesEffect
