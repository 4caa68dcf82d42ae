SPECIFICATION Spec
CONSTANTS
  Runs = {r1, r2, r3}
  None = None
  Branches = {main, dev}
  Default = main
  MaxTip = 2
  MaxFaults = 2
SYMMETRY Symmetry
CHECK_DEADLOCK FALSE
INVARIANTS
  TypeOK
  BuildsWhatWasAsked
  LeftoversHaveCauses
