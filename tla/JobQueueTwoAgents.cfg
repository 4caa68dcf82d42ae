SPECIFICATION Spec
CONSTANTS
  Agents = {a1, a2}
  Conns = {c1, c2}
  Runs = {r1}
  NoRun = NoRun
  NoAgent = NoAgent
  MaxReports = 0
  MaxFaults = 0
INVARIANTS
  StartedOnce
