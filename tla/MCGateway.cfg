SPECIFICATION FairSpec
CONSTANTS
  a1 = a1
  a2 = a2
  a3 = a3
  msg = msg
  hook = hook
  p1 = p1
  p2 = p2
  HOLE = HOLE
  NONE = NONE
  Calls = {a1, a2, a3, msg, hook}
  Loads <- OneLoad
  KindOf <- Kinds
  PathOf <- TwoOnePath
  SizeOf <- Sizes
  StreamOf <- Streams
  MaxEvents = 5
  MaxRetries = 5
  InitialBackoff = 1
  MaxBackoff = 6
  Width = 5
INVARIANTS
  TypeOK
  UndisturbedFileIsWhole
  OnlyNamesakesSpoil
  ReplyMatchesStream
  RetriesAreBounded
PROPERTIES
  CallsReturn
