SPECIFICATION PrepareFairSpec
CONSTANTS
  h1 = h1
  h2 = h2
  app = app
  other = other
  Null = Null
  NoHost = NoHost
  QueueMax = 2
  Names <- SomeNames
  Hosts <- TwoHosts
  Apps <- TwoApps
  Settings <- SomeSettings
  MayFail <- TwoHosts
  Commands <- SomeCommands
INVARIANTS
  PrepareTypeOK
  PlanComplete
  PlanDelivered
  SenderServed
  ListRunnable
PROPERTIES
  FoundWhereHeld
  QuestionAnswered
  GatherEnds
CHECK_DEADLOCK FALSE
