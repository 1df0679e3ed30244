SPECIFICATION FairSpec
CONSTANTS
  Unified = TRUE
  FastNpu = FALSE
  FastPim = FALSE
  Collapse = FALSE
  LayerCount = 1
  Operations <- BurstProfile
  KvBytes = 1
  OutputBytes = 0
  RequestBytes = 2
  Word = 16
  Window = 2
  Controls <- DetailedControls
INVARIANTS NoEventLost
PROPERTIES ImplementsPipeline SimulationStops
CHECK_DEADLOCK FALSE
