SPECIFICATION FairSpec
CONSTANTS
  N = 3
  Ops = {1, 2, 3}
  Names <- FileAndLink
  Target <- LinkToFile
  Batches <- ThreeCalls
  HookNames = {"file"}
  Modes = {"parallel"}
INVARIANTS
  MutationsExclusive
  MutationsInWaveOrder
  WaveResultsComplete
PROPERTIES
  MutationsSettle
CHECK_DEADLOCK FALSE
