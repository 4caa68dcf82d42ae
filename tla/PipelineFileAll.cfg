SPECIFICATION MCSpec
CONSTANTS
  Steps = {a, b, c, d}
  Unknown = {x}
  Names = {"a", "workspace", "a:b", " "}
  Colons = {"a:b"}
  TrimStart <- MCTrim
  TrimEnd <- MCTrim
  MaxLen = 3
  MaxCaches = 2
SYMMETRY Symmetry
CHECK_DEADLOCK FALSE
INVARIANTS
  TypeOK
  AcceptsSound
  RefusesSound
  MountedApart
