SPECIFICATION FairSpec
CONSTANTS
  q1 = q1
  q2 = q2
  q3 = q3
  ui = ui
  bg = bg
  None = None
  Requests = {q1, q2, q3}
  Clients = {ui, bg}
  Main = ui
  Client <- MCClient
  MaxLogins = 2
  MaxRetries = 1
  MaxKinds = 1
  Faults <- MCFaults
CHECK_DEADLOCK FALSE
INVARIANTS
  TypeOK
  RotationInvalidates
  TokenUsedOnce
  NotExpelled
  SessionUsable
PROPERTY
  EveryRequestEnds
