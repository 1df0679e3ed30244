SPECIFICATION TimedSpec
CONSTANTS
  Unified = TRUE
  FastLayerMode = TRUE
  Requests <- TimedRequests
  Channels = 2
  Word = 4
  Backend = "dramsim3_calibrated"
  FixedLatency = 0
  Bandwidth = 4
  RequestBytes = 2
  TickNum = 1
  TickDen = 2
  EffNum = 2
  EffDen = 1
  TrainRequests = 2
  FirstTicks <- MeasuredFirst
  TrainTicks <- MeasuredTrain
  ModeDelay <- TimedDelay
  ClockPeriod = 2
  Period = 1
  MaxSleep = 3
  MaxTime = 36
INVARIANTS BooksExact ServiceExclusive StallWithinWait PromptCompletion
CHECK_DEADLOCK FALSE
