SPECIFICATION Spec
CONSTANTS
  Agents = {a1, a2}
  Conns = {c1, c2, c3}
  Runs = {r1, r2}
  NoRun = NoRun
  NoAgent = NoAgent
  MaxReports = 1
  MaxFaults = 1
SYMMETRY Symmetry
INVARIANTS
  TypeOK
  SuccessIsEarned
  HeldNotQueued
  NoOvertaking
  SoloStartedOnce
  ReportedAtTeardown
PROPERTIES
  ImplementsLifecycle
