CONSTANTS
  Projects = {p, q}
  MaxSwitches = 2
  MaxDrags = 1
  MaxEdits = 1
  MaxReloads = 2
  NoProject = NoProject
  NoCanvas = NoCanvas
  NoPending = NoPending
  Asked = Asked
  Failed = Failed
  NotRead = NotRead
SPECIFICATION Spec
CHECK_DEADLOCK FALSE
INVARIANT LayoutStaysInProject
