SPECIFICATION Spec
CONSTANTS
  c1 = c1
  c2 = c2
  k1 = k1
  k2 = k2
  f1 = f1
  Clients = {c1, c2}
  Conns = {k1, k2}
  Filters = {}
  ExpirySecs <- AnyExpiry
  NO_EXPIRY = 99
  Takeover = TRUE
  SecondConnect = TRUE
  WriteFailures = TRUE
  MaxGeneration = 3
  MaxQueue = 2
  MaxRestarts = 1
INVARIANTS
  TableConsistent
  OwnSession
  OneReceiver
  SessionRowsFollow
PROPERTIES
  OnlineUntilOwnEnd
  KeptForEver
SYMMETRY Symmetry
