SPECIFICATION FairSpec
CONSTANTS
  Handles = {h1, h2}
  NoHandle = NoHandle
  Streams = {s1}
  Callers <- SameDevice
  MaxWork = 2
  MaxRetained = 1
INVARIANTS
  ReferenceOutlivesReads
  OneOwner
PROPERTIES
  ReadsFollowReady
  ReleasesComplete
