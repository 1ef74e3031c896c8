CONSTANTS
  TvInputs <- MCTvInputs
  GarbageFreqs <- MCGarbageFreqs
  PowerOnGpio <- MCPowerOnGpio
  Carriers <- MCCableEverywhere
  CrMsArgs <- MCCrMsArgs
  MaxRuns = 2
  MaxCalls = 3
SPECIFICATION ScanSpec
VIEW LiveView
INVARIANT
  FindWithinBuffer
CHECK_DEADLOCK FALSE
