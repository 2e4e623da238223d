SPECIFICATION Spec
CONSTANTS
  a = a
  b = b
  c = c
  k1 = k1
  k2 = k2
  x = x
  j = j
  i = i
  pa = pa
  pb = pb
  Task = {a, c, k1, k2, x, j, i}
  Root = {a, c}
  Dep <- MCDep
  Write <- MCWrite
  Read <- MCRead
  Covers <- MCCovers
  Budget <- MCBudget
  Batch <- MCBatch
  Adjudicator = {j, i}
  Coordinator = {w1}
  NoOwner = NoOwner
  Fingerprint = {f1}
  NoFingerprint = NoFingerprint
  Parallelism = 2
  MaxAttempts = 1
  MaxRepeated = 2
  MaxContext = 2
  Timeout = 1
  MaxChildren = 2
  MaxDepth = 1
  MaxSpawned = 2
  MaxTasks = 6
  SnapshotReads = FALSE
  YieldChoice = {TRUE, FALSE}
  MaxWait = 1
  MaxDefers = 1
INVARIANTS
  WithinBudget
  IndexExact
  NoCircularWait
PROPERTIES
  StartsAccepted
  FailuresSpread
  ImplementsLedger
CHECK_DEADLOCK FALSE
