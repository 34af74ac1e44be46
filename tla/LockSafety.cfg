SPECIFICATION LockFairSpec
CONSTANTS
  Procs = {p1, p2, p3}
  MaxRuns = 2
  MaxCrashes = 2
INVARIANTS
  LockExclusive
PROPERTIES
  OnlyOwnerReleases
  LockProgress
CHECK_DEADLOCK FALSE
