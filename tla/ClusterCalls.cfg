SPECIFICATION FairSpec
CONSTANTS
  g1 = g1
  g2 = g2
  Goroutines = {g1, g2}
  Calls <- Roles
  NoOne = NoOne
  Configs <- SmallConfigs
  MaxStores = 1
  StartAttempts = 2
  MaxIds = 2
INVARIANTS
  TypeOK
  DataToItself
  NothingLost
PROPERTIES
  ImplementsHandle
  EveryCallReturns
