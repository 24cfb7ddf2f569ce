SPECIFICATION Spec
CONSTANTS
  t1 = t1
  t2 = t2
  Tasks = {t1, t2}
  Retentions = {0, 1, 2}
  MaxEvents = 3
  MaxQueue = 3
  MaxCrashes = 1
  MaxFailures = 1
SYMMETRY Symmetry
INVARIANT OffsetsUnique
INVARIANT NewestKept
 
INVARIANT StatsAgree
CHECK_DEADLOCK FALSE
