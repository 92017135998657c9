SPECIFICATION FairSpec
CONSTANTS
  N = 1
  Waiters <- Sender
  Env <- Everything
PROPERTIES
  ReleaseStarts
CHECK_DEADLOCK FALSE
