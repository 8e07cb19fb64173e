SPECIFICATION FairSpec
CONSTANTS
  c1 = c1
  c2 = c2
  s1 = s1
  s2 = s2
  Clusters = {c1}
  Sweepers = {s1}
  TiKVCount = 2
  HaveShell = TRUE
  CallerOwned = {}
  Named = {}
  Elsewhere = {c1}
  SharedPath = {}
  PrefixPath = {}
  MaxSweepDeaths = 1
  None = None
PROPERTIES
  LiveClusterUntouched
  WatchdogsReclaim
