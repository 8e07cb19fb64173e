SPECIFICATION Spec
CONSTANTS
  c1 = c1
  c2 = c2
  here = here
  there = there
  Clusters = {c1, c2}
  Processes = {here}
  Home <- OneProcess
  Ports = {p1, p2, p3, p4}
  NoPort = NoPort
  None = None
  TiKVCount = 1
  TTL = 1
  StartTimeout = 2
  StartAttempts = 1
  MaxTries = 1
  Tee = FALSE
  MaxTaken = 1
SYMMETRY PortAndClusterSymmetry
PROPERTIES
  HandedOnce
  StartedOnItsOwn
