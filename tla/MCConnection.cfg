SPECIFICATION FairSpec
CONSTANTS
  k1 = k1
  k2 = k2
  k3 = k3
  f1 = f1
  f2 = f2
  NoConn = NoConn
  Conns = {k1, k2, k3}
  Filters = {f1, f2}
  max_connections = 2
  max_subscriptions_per_client = 1
  MaxConnects = 2
INVARIANT PermitsBalanced
INVARIANT DeathAnnounced
INVARIANT AliveNotDown
INVARIANT QuotaHolds
PROPERTY PermitsReturn
CHECK_DEADLOCK FALSE
