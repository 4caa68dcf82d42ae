SPECIFICATION FairSpec
CONSTANTS
  Agents = {a1, a2}
  Conns = {c1, c2}
  Runs = {r1, r2}
  NoRun = NoRun
  NoAgent = NoAgent
  MaxReports = 1
  MaxFaults = 0
PROPERTIES
  EveryRunSettles
