SPECIFICATION Spec
CONSTANTS
  Literals <- MCLiterals
  Dollar <- MCDollar
  Blank = ""
  Mixed = {"a+"}
  Filters <- MCFilters
  TopicNames <- MCNames
  Variables = {"{sub}", "{team}"}
  Unclosed = {"{sub"}
  SUB = "{sub}"
  SHARE = "$share"
  allowed_audiences = {"relay"}
  AclRules <- MCAclRules
  Passwords <- MCPasswords
  Requests <- MCRequests
INVARIANT MatchesCorrect
INVARIANT SubsumesSound
INVARIANT GrantedByRules
CHECK_DEADLOCK FALSE
