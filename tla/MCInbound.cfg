SPECIFICATION FairSpec
CONSTANTS
  NumIds = 3
  QoSOf <- Mixed
  Denied = {3}
  MaxBreaks = 2
  MaxLate = 2
  MaxCrashes = 1
INVARIANT RoutedOnce
 
PROPERTY Acknowledged
CHECK_DEADLOCK FALSE
