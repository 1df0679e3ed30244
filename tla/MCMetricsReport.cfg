SPECIFICATION Spec
CONSTANTS
  Channels = 2
  Memory = {m1, m2}
  Compute = {c1, c2}
  getChannel <- OneChannel
  Delays = {2}
  Layers = 2
  Episodes = 2
  MaxTime = 6
INVARIANTS UnionIsMeasure OverlapIsMeasure EpisodesAddUp
CHECK_DEADLOCK FALSE
SYMMETRY PayloadSymmetry
