SPECIFICATION WlFairSpec
CONSTANTS
  Child <- ThreeChildren
  Env <- ButBadTarget
INVARIANTS
  NoOrphanChild
CHECK_DEADLOCK FALSE
