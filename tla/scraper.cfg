SPECIFICATION FairSpec
CONSTANTS
  l1 = l1
  l2 = l2
  l3 = l3
  l4 = l4
  w1 = w1
  w2 = w2
  Jobs <- MCJobs
  Initial <- MCInitial
  ToPost <- MCToPost
  NoText <- MCNoText
  PerPage <- MCPerPage
  MaxPages <- MCMaxPages
  DetailCap = 3
  MaxFaults = 1
INVARIANT TypeOK
INVARIANT NothingSkipped
INVARIANT DecidedOnPosting
PROPERTY EveryListedJobDecided
