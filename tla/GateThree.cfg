CONSTANTS
  Procs = {p1, p2, p3}
  MaxRuns = 3
  MaxCrashes = 2
SPECIFICATION FairSpec
INVARIANTS
  GateExclusive
PROPERTIES
  GateProgress
CHECK_DEADLOCK FALSE
