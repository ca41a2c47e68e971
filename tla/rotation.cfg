SPECIFICATION Spec
CONSTANTS
  k1 = k1
  k2 = k2
  k3 = k3
  gemini = gemini
  groq1 = groq1
  groq2 = groq2
  None = None
  Calls <- MCCalls
  Chain <- MCChain
  Decommissioned <- MCDecommissioned
  Workers = 2
  Budget = 2
  AttemptTime = 1
  ShortTime = 1
  DailyBase = 1
  DailyMax = 1
  BrokenTime = 2
  MaxCount = 1
SYMMETRY MCSymmetry
INVARIANT TypeOK
INVARIANT ThreadsEndInTime
PROPERTY FailsOnlyAfterTrying
PROPERTY ReportedModelDecided
PROPERTY NoRequestAfterTimeout
