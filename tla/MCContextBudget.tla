-------------------------- MODULE MCContextBudget --------------------------
(* FoundryScheduler with the budgets allocateContext gives its tasks.      *)
EXTENDS FoundryScheduler, TLC

CONSTANTS a, b, c, k

Context == INSTANCE ContextAllocation

\* Four tasks with nothing in common; a has a higher priority, c may be split.
MCNone == [t \in Task |-> {}]
MCBatch == [t \in Task |-> IF t = c THEN {{k}} ELSE {}]
MCPriority == [t \in Task |-> IF t = a THEN 1 ELSE 0]
MCPlace == (a :> 1) @@ (b :> 2) @@ (c :> 3) @@ (k :> 4)
MCBudget == [P \in SUBSET Task |-> [t \in Task |->
  IF t \in P
  THEN Context!Allocate(P, MCPriority, [u \in Task |-> 0], MCPlace, 4, 50, 100)[t]
  ELSE 0]]
=============================================================================
