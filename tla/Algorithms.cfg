SPECIFICATION AlgorithmsSpec
CONSTANTS
  ToolCalls <- Catalogue
  strictExtensionClaims = FALSE
  MaxCalls = 4
  maxConcurrency = 2
  Ids = {1, 2}
  MaxLength = 5
INVARIANTS
  CappedPlanSound
  InspectionExact
  RepairExact
  EndingsRecorded
PROPERTY ImplementsLevelPlan
CHECK_DEADLOCK FALSE
