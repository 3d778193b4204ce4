SPECIFICATION FairSpec
CONSTANTS
  Threads = {t1, t2}
  NoThread = NoThread
  BlockCount = 3
  MaxBlockId = 3
  StaleIds <- FirstName
  Deliveries = 1
PROPERTIES
  EveryBlockServes
