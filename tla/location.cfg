SPECIFICATION FairSpec
CONSTANTS
  None = None
  e1 = e1
  e2 = e2
  home = home
  work = work
  Executor = {e1, e2}
  Place = {home, work}
  MaxTime = 1
INVARIANTS
  OneExecutor
PROPERTIES
  StopEndsReports
  RequestAnswered
  RandomGoesOn
