\* A double release ends the process.
CHECK_DEADLOCK FALSE
SPECIFICATION Spec
CONSTANTS
  Threads = {t1, t2, t3}
  NoObject = NoObject
  MaxThrows = 1
SYMMETRY Symmetry
INVARIANTS
  TypeOK
  FailedImportHoldsNothing
  UsedResourceIsWhole
  NothingOrphaned
