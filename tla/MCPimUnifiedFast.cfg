SPECIFICATION FairClientSpec
CONSTANTS
  Unified = TRUE
  FastLayerMode = TRUE
  Requests <- FastRequests
INVARIANTS TypeOK BusyCountExact ModeExclusive NoLostWakeup
PROPERTIES SleepEndsInFuture ComputeRetiresInOrder EveryRequestRetires
CHECK_DEADLOCK FALSE
