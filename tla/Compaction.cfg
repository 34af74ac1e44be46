SPECIFICATION Spec
CONSTANTS
  MaxEntries = 6
  MaxPrompts = 2
  MaxManual = 1
  MaxMoves = 1
INVARIANTS
  SummaryCoversBranch
  SourceCompactedOnce
  CompactionKeepsTurns
  NoThrashing
  ContextFollowsSession
CHECK_DEADLOCK FALSE
