SPECIFICATION FairSpec
CONSTANTS
  Unified = TRUE
  FastNpu = TRUE
  FastPim = TRUE
  Collapse = TRUE
  LayerCount = 2
  Operations <- FullProfile
  KvBytes = 1
  OutputBytes = 1
  RequestBytes = 2
  Word = 16
  Window = 2
  Controls <- FastControls
INVARIANTS PendingExact
PROPERTIES SimulationStops
CHECK_DEADLOCK FALSE
