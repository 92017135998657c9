SPECIFICATION Spec
CONSTANTS
  N = 2
  Waiters <- Sender
  Env <- FailingNodes
INVARIANTS
  TypeOK
  StartupOrder
  BarrierSound
  NoOverflow
  NothingLost
  CloseAfterReap
PROPERTIES
  ContractSpec
CHECK_DEADLOCK FALSE
