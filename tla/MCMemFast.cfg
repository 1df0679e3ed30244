SPECIFICATION FairClientSpec
CONSTANTS
  FastLayerMode = TRUE
  Requests <- MacroRequests
INVARIANTS OutstandingExact NoSleepOverRequest
PROPERTIES ServedThenStops
CHECK_DEADLOCK FALSE
