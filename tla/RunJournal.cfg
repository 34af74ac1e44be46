SPECIFICATION Spec
CONSTANTS
  Procs = {p1, p2}
  MaxBoots = 3
  MaxRuns = 2
  MaxEntries = 2
  MaxAudits = 1
  MaxFaults = 1
INVARIANTS
  JournalSound
  AcknowledgedKept
  RecoversOnlyDeadRuns
  RevisionNeverBlocks
  SameSession
SYMMETRY Symmetry
CHECK_DEADLOCK FALSE
