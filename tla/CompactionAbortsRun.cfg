SPECIFICATION Spec
CONSTANTS
  MaxEntries = 5
  MaxPrompts = 1
  MaxManual = 1
  MaxMoves = 0
INVARIANTS
  RunsFinished
CHECK_DEADLOCK FALSE
