CONSTANTS
  None = None
  Logged = {t}
  Remote = {a}
  Background = {p1, p2}
  Refresh = {q1}
  Concurrency = 2
  BatchSize = 2
  PageLimit = 3
  MaxQueue = 2
  Deletable = {a}
SPECIFICATION Spec
CHECK_DEADLOCK FALSE
SYMMETRY RunSymmetry
INVARIANTS TypeOK CopiedAtMostOnce AcceptedIsRecorded SinceCovered
