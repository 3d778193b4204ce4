SPECIFICATION Spec
CONSTANTS
  Threads = {t1, t2}
  NoThread = NoThread
  BlockCount = 2
  MaxBlockId = 4
  StaleIds <- FirstName
  Deliveries = 1
SYMMETRY ThreadSymmetry
INVARIANTS
  PoolAllOrNothing
  ReservationsDisjoint
PROPERTIES
  DescriptorIsUsable
  QuarantineIsFinal
