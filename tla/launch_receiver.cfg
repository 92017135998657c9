SPECIFICATION FairSpec
CONSTANTS
  N = 1
  Waiters <- NoSender
  Env <- Everything
INVARIANTS
  EndCancels
  NoOverflow
PROPERTIES
  ExitCancels
  LossCancels
  CancelReaps
CHECK_DEADLOCK FALSE
