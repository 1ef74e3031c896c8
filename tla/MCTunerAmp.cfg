CONSTANTS
  TvInputs <- MCTvInputs
  GarbageFreqs <- MCGarbageFreqs
  PowerOnGpio <- MCPowerOnGpio
  Carriers <- MCCarriers
  CrMsArgs <- MCCrMsArgs
  MaxRuns = 2
  MaxCalls = 3
SPECIFICATION ScanSpec
VIEW LiveView
INVARIANTS
  TypeOK
  AmpFollowsAntenna
  GpioFiltersMatchState
  ScanOrderMatchesSpec
  Scan12aRestored
  DemodsOutOfReset
\* The program ends after its last run: no step follows.
CHECK_DEADLOCK FALSE
