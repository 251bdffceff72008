SPECIFICATION FairSpec
CONSTANTS
  Jobs = {j1, j2, j3}
  Workers = {w1, w2}
  Stoppers = {s1, s2}
  QueueDepth = 2
  Idle = Idle
  Exited = Exited
INVARIANTS
  TypeOK
  ExactlyOnce
  DrainedMeansDone
PROPERTIES
  ServesAsQueue
  AcceptedIsHandled
  ShutdownReturns
