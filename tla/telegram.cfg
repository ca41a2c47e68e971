SPECIFICATION FairSpec
CONSTANTS
  MaxMsg = 4
  Caps = {1, 2}
  Orders = {TRUE, FALSE}
  StartPosts = {1}
  MaxFailures = 2
  MaxDrops = 1
  MaxLogs = 2
  Worker = Worker
  Nobody = Nobody
INVARIANT TypeOK
INVARIANT SkipsOnlyUnreported
INVARIANT NobodyForgotten
PROPERTY BarrierProtects
PROPERTY EveryMessageProcessed
CHECK_DEADLOCK FALSE
