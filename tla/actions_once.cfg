SPECIFICATION Spec
CONSTANTS
  k1 = k1
  k2 = k2
  c1 = c1
  c2 = c2
  r1 = r1
  r2 = r2
  gold = gold
  Key = {k1, k2}
  Caller = {c1, c2}
  Run = {r1, r2}
  RunOf <- MCRunOf
  Resource = {gold}
  Limit <- MCLimit
  Reserve <- MCReserve
  Resolving = {k2}
  Lease = 1
  Poll = 1
  MaxUsage = 3
  NoCaller = NoCaller
  NoKey = NoKey
INVARIANTS
  AtMostOnce
  ReceiptTruthful
  BudgetExact
  WithinCeiling
  GateSound
