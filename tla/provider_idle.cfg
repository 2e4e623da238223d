SPECIFICATION Spec
CONSTANTS
  t1 = t1
  t2 = t2
  Task = {t1, t2}
  MaxRequests = 3
  Concurrency = 2
  Timeout = 2
  Backoff <- MCBackoff
  MaxFailures = 2
  Hints = {0}
  MaxLosses = 0
  MaxTime = 3
  NoWait = NoWait
INVARIANTS
  NoIdleWait
CHECK_DEADLOCK FALSE
