CONSTANTS
  MaxRanks = 3
  Grids <- MCGrids
  StagedGrids <- MCStagedGrids
  Meshes <- MCMeshes
  MaxRounds = 2
  Passed <- MCPassed
  Transfers <- MCTransfers
  Exchanges <- MCExchanges
  GpuRounds = 3
SPECIFICATION MCSpec
INVARIANTS HalosReachOwners HalosPaired TagsDisambiguate TagsRoute StagedHalosFilled UnstructuredHalosMatch UnstructuredHaloFresh TransferExact GpuHalosFresh
PROPERTIES ConstructionReturns ExchangesReturn
CHECK_DEADLOCK FALSE
