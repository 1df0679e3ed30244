SPECIFICATION FairSpec
CONSTANTS
  Unified = FALSE
  FastNpu = FALSE
  FastPim = FALSE
  Collapse = FALSE
  LayerCount = 1
  Operations <- BurstProfile
  KvBytes = 1
  OutputBytes = 1
  RequestBytes = 2
  Word = 16
  Window = 2
  Controls <- DetailedControls
INVARIANTS WindowBounded EndsDrained
PROPERTIES ImplementsPipeline SimulationStops
CHECK_DEADLOCK FALSE
