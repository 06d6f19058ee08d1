CONSTANTS
  Projects = {p, q}
  MaxSwitches = 3
  MaxDrags = 1
  MaxEdits = 1
  MaxReloads = 2
  NoProject = NoProject
  NoCanvas = NoCanvas
  NoPending = NoPending
  Asked = Asked
  Failed = Failed
  NotRead = NotRead
  Machines = {h1}
  WithDocker = {h1}
  Loads = {"low", "high"}
  MaxPolls = 2
  MaxChanges = 2
  MaxFaults = 1
  Watches = {{}, {"ping", "metrics"}, {"ping", "services"}}
SPECIFICATION FairCanvas
CHECK_DEADLOCK FALSE
INVARIANTS
  LoadedIsActive
  CanvasFollowsPositions
  LivingHostsPolled
PROPERTIES
  LayoutSettles
  StatusSettles
