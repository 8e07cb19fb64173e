SPECIFICATION FairSpec
CONSTANTS
  c1 = c1
  c2 = c2
  here = here
  there = there
  Clusters = {c1}
  Processes = {here}
  Home <- OneProcess
  Ports = {p1, p2, p3}
  NoPort = NoPort
  None = None
  TiKVCount = 1
  TTL = 1
  StartTimeout = 2
  StartAttempts = 3
  MaxTries = 2
  Tee = TRUE
  MaxTaken = 1
INVARIANTS
  TypeOK
PROPERTIES
  EveryStartReturns
