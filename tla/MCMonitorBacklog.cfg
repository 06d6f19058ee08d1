CONSTANTS
  CheckIds = {c1}
  Commands = {x, y}
  Slots = {h1, h2}
  MaxPending = 2
  BodyLimit = 1
  MaxParallel = 1
  MaxRuns = 2
  MaxLosses = 1
  MaxEdits = 0
  NoCheck = NoCheck
  NoRun = NoRun
  NoFlight = NoFlight
  Nothing = Nothing
SPECIFICATION FairSpec
PROPERTY EveryResultIsHeard
CHECK_DEADLOCK FALSE
