SPECIFICATION FairSpec
CONSTANTS
  p1 = p1
  p2 = p2
  p3 = p3
  p4 = p4
  p5 = p5
  Procs = {p1, p2, p3, p4, p5}
  Supplied = {p4}
  Unsupported = {p4, p5}
  Published = {1, 2}
  Releases <- SmallReleases
  RecentLimit = 2
INVARIANTS
  NewestListed
  TypeOK
  NoSecondDownload
PROPERTIES
  ImplementsStore
  EveryCallEnds
CHECK_DEADLOCK FALSE
