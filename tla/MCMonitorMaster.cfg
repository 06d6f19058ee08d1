CONSTANTS
  c1 = c1
  WorkerIds = {w1, w2}
  CheckIds = {c1}
  Tokens = {t1, t2}
  Names = {a, b}
  Commands = {x, y}
  Handlers = {h1, h2}
  Batches <- MCBatches
  MaxFailures = 1
  NoWorker = NoWorker
  NoCheck = NoCheck
  NoCall = NoCall
  NoLoop = NoLoop
SPECIFICATION Spec
SYMMETRY MCSymmetry
INVARIANTS
  NoOrphans
  AlertsFollowStatus
  SilenceFollowsAlerts
  RestartIsHarmless
PROPERTIES
  OnlyOwnersReport
