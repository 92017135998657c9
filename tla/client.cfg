SPECIFICATION CallsFairSpec
CONSTANTS
  c1 = c1
  c2 = c2
  app = app
  manageCompositors = manageCompositors
  None = None
  Calls <- TwoCalls
  Names <- TwoNames
  Compositors <- manageCompositors
  Networks <- SomeNetworks
  CanReenter = TRUE
INVARIANTS
  CallsTypeOK
  OverIsOver
  CallbacksExclusive
PROPERTIES
  ListsExclusive
  QueriesTruthful
  LostClientCancels
  CallbackReturns
CHECK_DEADLOCK FALSE
