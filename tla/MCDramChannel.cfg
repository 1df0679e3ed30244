SPECIFICATION FairSpec
CONSTANTS
  Requests <- MCRequests
  Place <- MCPlace
  Ranks = 2
  Banks = 2
  TransQueueSize = 2
  CmdQueueSize = 1
  DrainLevel = 1
  RowHitLimit = 2
  MaxIncoming = 1
  MaxRefreshes = 1
INVARIANTS NeverExits NoneForgotten WritesFollowReads
PROPERTIES ImplementsPort RefreshNotPostponed AnsweredUnlessJammed
