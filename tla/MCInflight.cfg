SPECIFICATION Spec
CONSTANTS
  t1 = t1
  t2 = t2
  Tasks = {t1, t2}
  NoRow = NoRow
  Threads = 1
  MaxMessages = 2
  MaxQueue = 3
  MaxCrashes = 2
  MaxFailures = 1
SYMMETRY Symmetry
 
INVARIANT NoResurrection
 
INVARIANT DeadLetterOnce
CHECK_DEADLOCK FALSE
