SPECIFICATION LaunchersFairSpec
CONSTANTS
  Child <- AllChildren
  Env <- Anything
INVARIANTS
  LaunchersTypeOK
  KillOrder
  CleanEnd
  RendererNoOrphan
PROPERTIES
  ReadyStopEnds
CHECK_DEADLOCK FALSE
