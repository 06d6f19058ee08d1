CONSTANTS
  CheckIds = {c1}
  Commands = {x, y}
  Slots = {h1, h2}
  MaxPending = 1
  BodyLimit = 2
  MaxParallel = 1
  MaxRuns = 2
  MaxLosses = 1
  MaxEdits = 1
  NoCheck = NoCheck
  NoRun = NoRun
  NoFlight = NoFlight
  Nothing = Nothing
SPECIFICATION FairSpec
INVARIANTS
  NoResultLost
  ChangeIsDue
PROPERTIES
  EveryResultIsHeard
  EveryChangeIsRun
  ImplementsOutbox
