CONSTANTS
  N = 3
  Resolutions <- TwoFiles
  maxConcurrency = 2
  Timed = {1, 3}
  Events = {"rewrite", "unplanned", "opaque", "abort", "terminate", "throw"}
SPECIFICATION FairSpec
INVARIANTS
  NoUnsafeOverlap
  PlannedConflictsInOrder
  TurnClosed
  QuietNextTurn
  ResultsTruthful
PROPERTIES
  BatchEnds
CONSTRAINT FewSurprises
CHECK_DEADLOCK FALSE
