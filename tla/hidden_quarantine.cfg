SPECIFICATION Spec
CONSTANTS
  Clients = {a, b}
  Threads = {t1}
  Timeout = 2
  Max = 1
INVARIANT QuarantineShows
CHECK_DEADLOCK FALSE
