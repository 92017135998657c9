SPECIFICATION WlFairSpec
CONSTANTS
  Child <- ThreeChildren
  Env <- Anything
PROPERTIES
  StopEnds
CHECK_DEADLOCK FALSE
