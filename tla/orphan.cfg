SPECIFICATION FairSpec
CONSTANTS
  N = 1
  Waiters <- NoSender
  Env <- Everything
PROPERTIES
  NoOrphan
CHECK_DEADLOCK FALSE
