SPECIFICATION FairSpec
CONSTANTS
  MaxPosted = 6
  PageSize = 2
  MaxPages = 2
  MaxSeen = 4
  MaxFailures = 2
  MaxCrashes = 1
INVARIANT TypeOK
INVARIANT SeenWasProcessed
PROPERTY PendingIsKept
PROPERTY StopsOnlyWhenCaughtUp
PROPERTY EveryProjectProcessed
