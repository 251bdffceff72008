SPECIFICATION Spec
CONSTANTS
  j1 = j1
  j2 = j2
  f1 = f1
  f2 = f2
  Jobs = {j1, j2}
  Addressed = {j1}
  Files = {f1, f2}
  a = a
  b = b
  IDs = {a, b}
  Lines <- SomeLines
  TEXT = TEXT
  LONG = LONG
  NONE = NONE
  Capacity = 1
  MaxTime = 2
  MaxEntries = 3
  Sessions <- OneOrTwoSessions
INVARIANTS
  OwnCallsOnly
