SPECIFICATION FairSpec
CONSTANTS
  q1 = q1
  q2 = q2
  q3 = q3
  ui = ui
  bg = bg
  None = None
  Requests = {q1, q2, q3}
  Clients = {ui}
  Main = ui
  Client <- MCThreeUi
  MaxLogins = 2
  MaxRetries = 1
  MaxKinds = 1
  Faults <- MCUiFaults
CHECK_DEADLOCK FALSE
PROPERTY
  EveryRequestEnds
