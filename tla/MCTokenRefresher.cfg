SPECIFICATION FairSpec
CONSTANTS
  Users = {u1, u2, u3}
  Admins = {a1}
  First = First
  NONE = NONE
INVARIANTS
  TypeOK
  NoNeedlessRefresh
  PersistedBeforeUse
PROPERTIES
  StoreMovesOn
  EveryCallReturns
