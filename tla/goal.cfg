CONSTANTS
  None = None
  Requests = {r1, r2, r3}
  Amounts = {0, 4, 7}
  Targets = {0, 5, 20}
  Deadlines = {1, 4}
  FirstTarget = 10
  FirstSaved = 1
  FirstDeadline = 3
  DaysPerMonth = 2
  LastDay = 2
  Concurrency = 3
  Offered = {"contribute", "update", "delete"}
SPECIFICATION Spec
SYMMETRY RequestSymmetry
INVARIANTS TypeOK SavedExplained AppliedInTurn CompletionFollowsProgress UpdateStands
PROPERTY GoneForGood
