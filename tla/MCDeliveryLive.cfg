SPECIFICATION FairSpec
CONSTANTS
  MAX_PID = 2
  max_attempts = 2
  Kinds <- MCKinds
  MaxMessages = 2
  MaxBreaks = 3
  MaxUnderway = 3
  MaxCrashes = 0
  NoRow = NoRow
PROPERTY Settles
PROPERTY Releases
CHECK_DEADLOCK FALSE
