CONSTANTS
  None = None
  Items = {1, 2, 3}
  Walks = {w}
  Limit = 1
  PerSecond = 2
  LastMoment = 3
  MaxPages = 4
SPECIFICATION Spec
CHECK_DEADLOCK FALSE
INVARIANT
  WalkIsComplete
