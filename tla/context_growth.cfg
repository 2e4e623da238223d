SPECIFICATION Spec
CONSTANTS
  a = a
  b = b
  c = c
  k = k
  Task = {a, b, c, k}
  Root = {a, b, c}
  Dep <- MCNone
  Write <- MCNone
  Read <- MCNone
  Covers = {}
  Budget <- MCBudget
  Batch <- MCBatch
  Adjudicator = {}
  Coordinator = {w1}
  NoOwner = NoOwner
  Fingerprint = {f1}
  NoFingerprint = NoFingerprint
  Parallelism = 2
  MaxAttempts = 2
  MaxRepeated = 2
  MaxContext = 9
  Timeout = 1
  MaxChildren = 2
  MaxDepth = 1
  MaxSpawned = 2
  MaxTasks = 6
  SnapshotReads = FALSE
  YieldChoice = {TRUE}
  MaxWait = 0
  MaxDefers = 0
INVARIANTS
  ContextCapped
CHECK_DEADLOCK FALSE
