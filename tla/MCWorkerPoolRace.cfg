SPECIFICATION Spec
CONSTANTS
  Jobs = {j1, j2}
  Workers = {w1}
  Stoppers = {s1}
  QueueDepth = 2
  Idle = Idle
  Exited = Exited
INVARIANTS
  DispatchNeverPanics
