SPECIFICATION Spec
CONSTANTS
  c1 = c1
  c2 = c2
  here = here
  there = there
  Clusters = {c1, c2}
  Processes = {here, there}
  Home <- TwoProcesses
  Ports = {p1, p2, p3, p4}
  NoPort = NoPort
  None = None
  TiKVCount = 1
  TTL = 1
  StartTimeout = 1
  StartAttempts = 2
  MaxTries = 2
  Tee = TRUE
  MaxTaken = 0
PROPERTIES
  StartedOnItsOwn
