SPECIFICATION RegSpec
CONSTANTS
  c1 = c1
  c2 = c2
  c3 = c3
  app = app
  manageCompositors = manageCompositors
  None = None
  Calls <- ThreeCalls
  Names <- TwoNames
  Compositors <- manageCompositors
INVARIANTS
  StartHonest
CHECK_DEADLOCK FALSE
