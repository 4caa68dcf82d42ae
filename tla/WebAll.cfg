SPECIFICATION MCSpec
CONSTANTS
  Tabs = {t1, t2}
  Pages = {home, p1, p2}
  Home = home
  None = None
  MaxVisits = 3
  MaxFaults = 1
  Projects = {"p", "q"}
  Urls = {"https", "ssh"}
  NameOf <- MCNameOf
  Branches = {b1, b2}
  PageSize = 1
  MaxRuns = 3
CHECK_DEADLOCK FALSE
INVARIANTS
  TypesOK
  LandsWhereAsked
  SignsInOnce
  PagesComplete
PROPERTIES
  SettlesAlone
  ProjectsListed
