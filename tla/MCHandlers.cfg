SPECIFICATION Spec
CONSTANTS
  Bodies <- ShortBodies
  Notes <- ShortNotes
INVARIANTS
  TypeOK
  MeaningKept
  StringsSanitized
  NothingSwallowed
