SPECIFICATION FairSpec
CONSTANTS
  Jobs = {j1, j2, j3}
  Workers = {w1}
  QueueDepth = 1
  Main = Main
  Idle = Idle
  Exited = Exited
INVARIANTS
  TypeOK
  PanicOnlyAfterDeadline
  ShutdownLosesNothing
  StoreOutlivesItsUsers
PROPERTIES
  DeliversAsPromised
  ShutdownEnds
  AcknowledgedIsHandled
