SPECIFICATION Spec
CONSTANTS
  Lines <- MCLines
  MaxLines = 4
  Settings <- MCSettings
INVARIANTS SamplesAreRequests EpisodeNamesDistinct ReplayIsConsistent SelectionExact
CHECK_DEADLOCK FALSE
