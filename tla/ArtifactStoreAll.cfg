SPECIFICATION Spec
CONSTANTS
  Runs = {r1, r2, r3}
  Paths = {p1, p2}
  NoPath = NoPath
  NoRun = NoRun
  MaxAgents = 2
  Keep = 1
  MaxClock = 3
  MaxFaults = 1
SYMMETRY Symmetry
CHECK_DEADLOCK FALSE
INVARIANTS
  TypeOK
  RowsMatchFiles
  RetentionBounded
PROPERTIES
  OnlyStaleEvicted
