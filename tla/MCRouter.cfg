SPECIFICATION Spec
CONSTANTS
  c1 = c1
  c2 = c2
  p1 = p1
  p2 = p2
  Clients = {c1, c2}
  Publishers = {p1, p2}
  Filters <- MCFilters
  Topics <- MCTopics
  Matching <- MCMatching
  QoS = {1}
  Threads = 2
  MaxMembers = 3
  MaxMessages = 4
SYMMETRY Symmetry
INVARIANT Rotation
 
CHECK_DEADLOCK FALSE
