-------------------------- MODULE ContextAllocation --------------------------
(***************************************************************************)
(* allocateContext (src/src/harness/foundry/kernel.ts): how many bytes of  *)
(* context each task of a graph may use.  A recipe's priorityContextShare  *)
(* is given in hundredths.                                                 *)
(***************************************************************************)
EXTENDS Integers, FiniteSets, FiniteSetsExt

Whole == 100

Least(m, n) == IF m < n THEN m ELSE n
Most(m, n)  == IF m > n THEN m ELSE n

\* Tasks without a budget of their own (0 stands for an absent contextBudget).
Open(tasks, own) == {t \in tasks : own[t] = 0}

\* Position of t in the stable sort by falling priority; `place' is array order.
Position(tasks, prio, place, t) ==
  Cardinality({u \in tasks : \/ prio[u] > prio[t]
                             \/ prio[u] = prio[t] /\ place[u] < place[t]})

\* How many tasks count as high-priority.
TopCount(count, share) == Least(count - 1, Most(1, (count * share) \div Whole))

\* Mutant of Remainder: the others are not reduced.
RemainderUnreduced(count, base, share) == base

\* What is left for each of the other tasks; negative if the top tasks take it all.
Remainder(count, base, share) ==
  LET top == TopCount(count, share)
  IN  (base * (Whole * (count - top) - share * top)) \div (Whole * (count - top))

LowBudget(count, base, share) == Most(1, Remainder(count, base, share))

HighBudget(base, share) == (base * (Whole + share)) \div Whole

Allocate(tasks, prio, own, place, base, share, ceiling) ==
  LET open  == Open(tasks, own)
      count == Cardinality(open)
      weighted(t) == IF Position(open, prio, place, t) < TopCount(count, share)
                     THEN HighBudget(base, share) ELSE LowBudget(count, base, share)
      flat == share = 0 \/ \A u, v \in open : prio[u] = prio[v]
  IN  [t \in tasks |->
         IF t \notin open THEN Least(own[t], Least(2 * base, ceiling))
         ELSE Least(IF flat THEN base ELSE weighted(t), ceiling)]
=============================================================================
