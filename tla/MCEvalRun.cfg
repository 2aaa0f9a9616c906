SPECIFICATION Spec
CONSTANTS
  Configs <- MCConfigs
  MemoryConfigs <- MCMemoryConfigs
  Seeds <- MCSeeds
  Sample <- MCSample
  MaxZeroPercent = 50
  MaxClock = 1
  MaxRuns = 2
  MaxScenarios = 1
INVARIANTS
  CitationsAreSound
  OnlyValidRunsAggregated
  RetrievalModeScoped
CHECK_DEADLOCK FALSE
