SPECIFICATION FairSpec
CONSTANTS
  c1 = c1
  c2 = c2
  k1 = k1
  k2 = k2
  f1 = f1
  Clients = {c1}
  Conns = {k1, k2}
  Filters = {f1}
  ExpirySecs <- AnyExpiry
  NO_EXPIRY = 99
  Takeover = FALSE
  SecondConnect = FALSE
  WriteFailures = FALSE
  MaxGeneration = 3
  MaxQueue = 3
  MaxRestarts = 1
INVARIANTS
  OnlineHasConnection
  NoOrphanRoute
  SubscriptionsOnDisk
PROPERTY ExpiryComes
