SPECIFICATION Spec
CONSTANTS
  c1 = c1
  c2 = c2
  s1 = s1
  s2 = s2
  Clusters = {c1}
  Sweepers = {}
  TiKVCount = 1
  HaveShell = TRUE
  CallerOwned = {}
  Named = {}
  Elsewhere = {}
  SharedPath = {}
  PrefixPath = {}
  MaxSweepDeaths = 0
  None = None
INVARIANTS
  OrphanWithinReach
CHECK_DEADLOCK FALSE
