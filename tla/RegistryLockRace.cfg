SPECIFICATION Spec
CONSTANTS
  c1 = c1
  c2 = c2
  s1 = s1
  s2 = s2
  Clusters = {c1}
  Sweepers = {s1}
  TiKVCount = 1
  HaveShell = FALSE
  CallerOwned = {}
  Named = {}
  Elsewhere = {}
  SharedPath = {}
  PrefixPath = {}
  MaxSweepDeaths = 0
  None = None
INVARIANTS
  LockBehindRecord
