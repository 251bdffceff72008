SPECIFICATION Spec
CONSTANTS
  Users = {u1, u2}
  Admins = {a1}
  First = First
  NONE = NONE
INVARIANTS
  NewConsentIsKept
