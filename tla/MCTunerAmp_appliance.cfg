CONSTANTS
  TvInputs <- MCTvInputs
  GarbageFreqs <- MCGarbageFreqs
  PowerOnGpio <- MCPowerOnGpio
  Carriers <- MCCarriers
  CrMsArgs <- MCCrMsArgs
  MaxRuns = 2
  MaxCalls = 3
SPECIFICATION ScanSpec
VIEW LiveView
INVARIANT
  ApplianceMatchesState
CHECK_DEADLOCK FALSE
