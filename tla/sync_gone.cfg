CONSTANTS
  None = None
  Logged = {}
  Remote = {a}
  Background = {p1}
  Refresh = {}
  Concurrency = 1
  BatchSize = 2
  PageLimit = 3
  MaxQueue = 2
  Deletable = {a}
SPECIFICATION Spec
CHECK_DEADLOCK FALSE
INVARIANT PulledChangesStored
