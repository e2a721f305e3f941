SPECIFICATION FairSpec
CONSTANTS
  Number = 3
  NBins = 2
  MaxThreads = 2
  BaseSeed = 10
  Draws <- MCDraws
  MaxCalls = 1
  SharedMtx = TRUE
  Configs <- MCConfigs
  Exit <- MCExit
  Grids <- MCGrids
  Fluxes <- MCFluxes
INVARIANTS TypeOK MutualExclusion ClaimInv SeedsUnique ModulationSound
PROPERTIES FinishedKept TableStable ImplementsSerial Termination
