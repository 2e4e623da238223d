------------------------ MODULE MCContextAllocation ------------------------
(***************************************************************************)
(* allocateContext over all small graphs.  As rebuildSchedulerIndex does,  *)
(* the allocation is computed anew for the whole graph when it grows.      *)
(***************************************************************************)
EXTENDS ContextAllocation, TLC

CONSTANTS Task, Base, Ceiling, Shares, Priorities, OwnBudgets

\* What validateContract, validateRecipe and validateTasks (kernel.ts) have made sure of;
\* a task without a budget of its own has 0.
AllocationAssumption ==
  /\ 1 \in Task /\ Task \subseteq Nat
  /\ Base \in Nat \ {0} /\ Ceiling \in Nat \ {0} /\ Shares \subseteq 0..Whole
  /\ Priorities \subseteq Int /\ OwnBudgets \subseteq Nat

VARIABLES graph, prio, own, share, budget

vars == <<graph, prio, own, share, budget>>

Place == [t \in Task |-> t]

Allocated(tasks) == Allocate(tasks, prio, own, Place, Base, share, Ceiling)

Init ==
  /\ graph = {1}
  /\ prio \in [Task -> Priorities]
  /\ own \in [Task -> OwnBudgets]
  /\ share \in Shares
  /\ budget = Allocated({1})

\* One more task is admitted; tasks are admitted in array order.
Admit(t) ==
  /\ t = Cardinality(graph) + 1
  /\ graph' = graph \cup {t}
  /\ budget' = Allocated(graph')
  /\ UNCHANGED <<prio, own, share>>

Next == \E t \in Task : Admit(t)

Spec == Init /\ [][Next]_vars

Shared == Open(graph, own)

Total == MapThenSumSet(LAMBDA t : budget[t], Shared)

\* Every task can be given some context, even one that is left less than nothing; no
\* allocation exceeds the contract's ceiling or twice the recipe's default; among tasks
\* without a budget of their own a higher priority never gets less; and these together
\* get no more than the default for each ("keeping average", kernel.ts), unless the top
\* tasks alone take it all, which leaves each of the others the one byte of the floor.
BudgetsShared ==
  LET count == Cardinality(Shared)
      top   == TopCount(count, share)
  IN  /\ \A t \in graph : budget[t] \in 1..Least(Ceiling, 2 * Base)
      /\ \A t, u \in Shared : prio[t] > prio[u] => budget[t] >= budget[u]
      /\ Total <= Most(count * Base, top * HighBudget(Base, share) + (count - top))
=============================================================================
