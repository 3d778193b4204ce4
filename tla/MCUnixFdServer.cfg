\* All servers may be stopped for good.
CHECK_DEADLOCK FALSE
SPECIFICATION FairSpec
CONSTANTS
  s1 = s1
  s2 = s2
  Servers = {s1, s2}
  Layouts <- OnePoolOrTwo
  NoServer = NoServer
  Clients = {c1}
  NoClient = NoClient
INVARIANTS
  SendsOpenDescriptor
  DestroyedPoolLeavesNothing
  StrayOnlyWhileStopping
PROPERTIES
  ClientsAnswered
  StopCompletes
