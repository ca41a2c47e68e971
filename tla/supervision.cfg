SPECIFICATION Spec
CONSTANTS
  Cadence = 1
  Interval = 1
  MaxAge = 1
  Backoff = 1
  Threshold = 2
  MaxFaults = 1
INVARIANT TypeOK
INVARIANT ReportedInTime
INVARIANT NoFalseAlarm
