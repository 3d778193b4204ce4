\* Every lease may have been released for good.
CHECK_DEADLOCK FALSE
SPECIFICATION FairSpec
CONSTANTS
  Maps = {m1}
  None = None
  UintptrMax = 3
  StepModulus = 4
  WordMax = 31
  Messages <- SomeImages
  Clouds <- SomeClouds
  Sizes <- SomeSizes
  Extents <- SomeExtents
  Data = 4
INVARIANTS
  ReachableDataIsLeased
  LeaseHasOneOwner
PROPERTIES
  LeasesReturn
