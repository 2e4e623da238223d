SPECIFICATION FairSpec
CONSTANTS
  t1 = t1
  t2 = t2
  j1 = j1
  Task = {t1, t2}
  Job = {j1, j2}
  JobId = {x, y}
  Token = {a}
  Answers = {"RUNNING", "SUCCEEDED"}
  MaxConcurrent = 1
  ReconcileAfter = 2
  Delays = {1}
  MaxLosses = 1
  NoRow = NoRow
  NoId = NoId
  NoToken = NoToken
  NoResult = NoResult
  ClaimId = {c1, c2, c3}
  Readable <- MCReadable
  MaxVersion = 3
  LastVersion = 4
  Recipe = {r0, r1, r2}
  Root = r0
  Evaluation = {e1, e2}
  Evaluator = {v1, v2}
  Repetitions = 2
  Unknown = Unknown
  None = None
  a1 = a1
  a2 = a2
  b1 = b1
  A = A
  B = B
  Conn = {a1, a2, b1}
  Proc = {A, B}
  ProcOf <- MCProcOf
  Parallelism = 2
  MaxCommits = 2
  Nobody = Nobody
  Member = {1, 2, 3, 4}
  Base = 10
  Ceiling = 18
  Shares = {0, 20, 50, 70, 100}
  Priorities = {0, 1, 2}
  OwnBudgets = {0, 25}
  Worker = {w1, w2}
  Serves <- MCServes
  Plan <- MCPlan
  Width = 1
  MaxFence = 2
  NoWorker = NoWorker
  NoLease = NoLease
  Calls = 3
  Tool = {"search", "edit", "misnomer"}
  Safe = {"search", "misnomer"}
  Shell = {"search"}
  Cancellable = {"search"}
  NoTool = "misnomer"
  MaxProgress = 1
INVARIANTS
  CapacityShared
  Acyclic
  Grounded
  NoLostHint
  BudgetsShared
  PublishedOnce
  NotOverbooked
  ExclusiveInOrder
PROPERTIES
  ReceiptFinal
  JobSettled
  EarnedSuccession
  DrainEnds
CHECK_DEADLOCK FALSE
