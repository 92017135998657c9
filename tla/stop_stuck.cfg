SPECIFICATION FairSpec
CONSTANTS
  N = 1
  Waiters <- NoSender
  Env <- Everything
PROPERTIES
  StopReclaims
CHECK_DEADLOCK FALSE
