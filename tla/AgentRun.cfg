SPECIFICATION FairSpec
CONSTANTS
  steeringMode = "one-at-a-time"
  followUpMode = "all"
  MaxMessages = 2
  MaxRuns = 2
  MaxCalls = 1
  MaxThrows = 2
INVARIANTS
  SoundWhenIdle
  ContextMirrorsMessages
  MessagesAccounted
PROPERTIES
  RunEnds
CHECK_DEADLOCK FALSE
