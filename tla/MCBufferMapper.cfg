\* The publishers may be gone for good before they sent anything.
CHECK_DEADLOCK FALSE
SPECIFICATION Spec
CONSTANTS
  Threads = {t1, t2}
  MaxIncarnation = 2
  MaxPublications = 3
  Publications <- ThreeThenTwo
SYMMETRY ThreadSymmetry
INVARIANTS
  TypeOK
  ReadsWhatWasSent
  ReferencesBalance
  OneImportPerBlock
  CurrentDescriptorAccepted
PROPERTIES
  OnlyEarlierCheckUnlinks
