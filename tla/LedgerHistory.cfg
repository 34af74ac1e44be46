SPECIFICATION Spec
CONSTANTS
  Managers = {m1, m2, m3}
  MaxEvents = 4
  MaxFaults = 2
  MaxOutages = 2
SYMMETRY Symmetry
INVARIANTS
  AcknowledgedSurvive
  NeverRefusesItself
  ChainLinear
PROPERTIES
  RollbackKeepsEvidence
CHECK_DEADLOCK FALSE
