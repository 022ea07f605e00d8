CONSTANTS
  None = None
  Ids = {i1, i2}
  Requests = {q1, q2}
  Categories = {1}
  Transactions = {i1, i2}
  Postings <- MCPostings
  BudgetAmounts = {0, 5, 10}
  StatusReads = {q1, q2}
  Users = {u, v}
  FirstUsers = {u}
  Currencies = {1, 2}
  Rates = {0, 3}
  Moments = {0}
  ManualRequests = {q1, q2}
  Tasks = {k}
  Attempts = 2
  LastTick = 1
  Items = {1, 2, 3}
  Walks = {w}
  Limit = 1
  PerSecond = 2
  LastMoment = 3
  MaxPages = 4
  SyncIds = {i1, i2}
  Pushes = {q1, q2}
  MaxChanges = 2
  AuthRequests = {c1, c2, c3, c4}
  MaxRequests = 2
  Window = 3
  Delay = 1
  LastMs = 5
  Uses = {c1, c2, c3, c4}
  Entries = {i1, i2}
  Sums = {0, 4}
  Envelopes = {q1, q2}
  Limits = {5}
  Edits = {c1, c2, c3, c4}
  Goals = {g1, g2, g3}
  Gifts = {0, 1}
  Targets = {0, 1, 2}
  Pins = {1, 2, 3}
SPECIFICATION Spec
SYMMETRY Symmetric
CHECK_DEADLOCK FALSE
INVARIANTS
  RememberedIsReported
  NoAlertMissed
  ReportedOnce
  OneRowInTurn
  TaskStoredAll
  MissesOnlyBlurredRows
  RepeatsOnlyBlurredRows
  CarriedOutOnce
  AnswersTell
  LimitHolds
  DriftIsCut
  AlertsAreTrue
  ShownIsGiven
  OneOrder
  PinOpens
PROPERTY
  NewerRateStays
