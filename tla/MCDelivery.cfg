SPECIFICATION Spec
CONSTANTS
  MAX_PID = 2
  max_attempts = 2
  Kinds <- MCKinds
  MaxMessages = 2
  MaxBreaks = 2
  MaxUnderway = 3
  MaxCrashes = 1
  NoRow = NoRow
INVARIANT NothingLost
INVARIANT ExactlyOnce
INVARIANT ConfirmedNotDead
PROPERTY KeepsPromise
CHECK_DEADLOCK FALSE
