SPECIFICATION Spec
CONSTANTS
  Clients = {a, b, c}
  Threads = {t1, t2}
  Timeout = 2
  Max = 2
INVARIANTS
  TypeOK
  ConfirmedIsKept
CHECK_DEADLOCK FALSE
