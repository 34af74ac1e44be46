SPECIFICATION FairSpec
CONSTANTS
  Procs = {p1, p2, p3}
  MaxTokens = 8
  MaxCrashes = 2
  MaxFaults = 2
INVARIANTS
  OwnershipNeverLost
PROPERTIES
  DeadOwnersReclaimed
