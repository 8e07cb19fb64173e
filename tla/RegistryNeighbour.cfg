SPECIFICATION OrphanSpec
CONSTANTS
  c1 = c1
  c2 = c2
  s1 = s1
  s2 = s2
  Clusters = {c1, c2}
  Sweepers = {s1}
  TiKVCount = 1
  HaveShell = FALSE
  CallerOwned = {c1, c2}
  Named = {c1}
  Elsewhere = {}
  SharedPath = {}
  PrefixPath <- Prefixed
  MaxSweepDeaths = 1
  None = None
INVARIANTS
  CallerDirKept
  OrphanWithinReach
PROPERTIES
  LiveClusterUntouched
