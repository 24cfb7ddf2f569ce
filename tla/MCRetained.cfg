SPECIFICATION Spec
CONSTANTS
  p1 = p1
  p2 = p2
  s1 = s1
  s2 = s2
  Publishers = {p1, p2}
  Subscribers = {s1, s2}
  Threads = 3
  MaxMessages = 3
  Empty = {2}
  MaxCrashes = 1
SYMMETRY Symmetry
INVARIANT NoneMissed
 
INVARIANT LastIsCurrent
CHECK_DEADLOCK FALSE
