SPECIFICATION Spec
CONSTANTS
  Handles = {h1}
  NoHandle = NoHandle
  Streams = {s1}
  Callers <- AnotherDevice
  MaxWork = 1
  MaxRetained = 1
PROPERTIES
  ReadsFollowReady
