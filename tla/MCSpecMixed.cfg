SPECIFICATION FairSpec
CONSTANTS
  Unified = FALSE
  FastNpu = FALSE
  FastPim = TRUE
  Collapse = FALSE
  LayerCount = 1
  Operations <- BurstProfile
  KvBytes = 1
  OutputBytes = 0
  RequestBytes = 2
  Word = 16
  Window = 2
  Controls <- FastControls
INVARIANTS NoRequestReachesIdleBridge
CHECK_DEADLOCK FALSE
