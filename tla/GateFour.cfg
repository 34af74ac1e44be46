CONSTANTS
  Procs = {p1, p2, p3, p4}
  MaxRuns = 1
  MaxCrashes = 1
SPECIFICATION Spec
SYMMETRY Interchangeable
INVARIANT GateExclusive
CHECK_DEADLOCK FALSE
