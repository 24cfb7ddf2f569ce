SPECIFICATION Spec
CONSTANTS
  t1 = t1
  t2 = t2
  Tasks = {t1, t2}
  NoRow = NoRow
  Threads = 2
  MaxMessages = 2
  MaxQueue = 3
  MaxCrashes = 0
  MaxFailures = 0
SYMMETRY Symmetry
INVARIANT QueueSurvives
CHECK_DEADLOCK FALSE
