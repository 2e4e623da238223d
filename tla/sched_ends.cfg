SPECIFICATION FairSpec
CONSTANTS
  a = a
  b = b
  c = c
  k1 = k1
  k2 = k2
  x = x
  j = j
  i = i
  pa = pa
  pb = pb
  Task = {a, c, k1}
  Root = {a, c}
  Dep <- MCDep
  Write <- MCWrite
  Read <- MCRead
  Covers <- MCCovers
  Budget <- MCBudget
  Batch <- MCBatch
  Adjudicator = {}
  Coordinator = {w1, w2}
  NoOwner = NoOwner
  Fingerprint = {f1}
  NoFingerprint = NoFingerprint
  Parallelism = 2
  MaxAttempts = 2
  MaxRepeated = 2
  MaxContext = 2
  Timeout = 1
  MaxChildren = 2
  MaxDepth = 1
  MaxSpawned = 2
  MaxTasks = 6
  SnapshotReads = FALSE
  YieldChoice = {TRUE}
  MaxWait = 0
  MaxDefers = 0
INVARIANTS
  ChildrenFirst
  NoStrandedTask
PROPERTIES
  RunEnds
CHECK_DEADLOCK FALSE
