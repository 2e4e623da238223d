--------------------------- MODULE ExecutionProofs ---------------------------
(* Tool calls keep the order of their response, and attempts on remote     *)
(* workers publish each edit once: for any responses, plans and workers.   *)
EXTENDS HostServices, Sequences, SequenceTheorems, FiniteSetTheorems, WellFoundedInduction, TLAPS

-----------------------------------------------------------------------------
(* Tool calls.                                                             *)

Places == 1..Calls
States == {"absent", "queued", "executing", "completed", "yielded"}

Started(st, i) == st[i] \in {"executing", "completed", "yielded"}

ToolsTyped ==
  /\ kind \in [Places -> Tool] /\ calls \in [Places -> States]
  /\ progress \in [Places -> Nat] /\ scans \subseteq 1..Calls + 1 /\ cursor \in 1..Calls + 1
  /\ emitted \in Seq(Places)

\* Calls are received in order, and start in it; an exclusive one keeps the others waiting.
Order(st) ==
  /\ \A i, j \in Places : st[i] = "executing" /\ st[j] = "executing" /\ i # j => Tools!IsSafe(i)
  /\ \A i, j \in Places : i < j /\ st[i] = "absent" => st[j] = "absent"
  /\ \A i, j \in Places : i < j /\ kind[j] # NoTool /\ Started(st, j) => st[i] # "queued"
  /\ \A i, j \in Places : i < j /\ kind[j] # NoTool /\ ~Tools!IsSafe(i) /\ st[i] = "executing" =>
       ~Started(st, j)

\* Nothing before p is queued.
Past(st, p) == \A i \in Places : i < p => st[i] # "queued"

\* The loops of processQueue have left no call behind that waits.
LoopsPast == (\A p \in scans : Past(calls, p)) /\ (at = "drain" => Past(calls, cursor))

Named == \A i \in Places : kind[i] # NoTool

\* Without misnomers, what is yielded, and what an iteration has passed, is behind no
\* exclusive call whose result is still to be yielded.
Behind(j) == \A i \in Places : i < j /\ ~Tools!IsSafe(i) => calls[i] = "yielded"
Overtaking ==
  \A a, b \in DOMAIN emitted : a < b /\ emitted[a] > emitted[b] => Tools!IsSafe(emitted[b])
YieldedInOrder ==
  /\ \A a \in DOMAIN emitted : calls[emitted[a]] = "yielded"
  /\ Named => \A j \in Places : calls[j] = "yielded" => Behind(j)
  /\ Named /\ at \in {"emit", "rest"} => Behind(cursor)
  /\ Named => Overtaking

Reporting == \A i \in Places : progress[i] > 0 => Started(calls, i)

ToolInv ==
  /\ ToolsTyped /\ Order(calls) /\ LoopsPast /\ Reporting /\ YieldedInOrder

\* A set of places has a first one.
LEMMA FirstOf ==
  ASSUME Calls \in Nat, NEW S \in SUBSET Places, S # {}
  PROVE  Tools!First(S) \in S /\ \A j \in S : Tools!First(S) <= j
<1>1. S \subseteq Nat
  BY DEF Places
<1>2. PICK x \in S : \A y \in S : ~(<<y, x>> \in OpToRel(<, Nat))
  BY <1>1, WFMin, NatLessThanWellFounded
<1>3. \A y \in S : ~(y < x)
  BY <1>1, <1>2 DEF OpToRel
<1>4. x \in S /\ \A y \in S : x <= y
  BY <1>1, <1>3
<1> QED BY <1>4 DEF Tools!First

LEMMA InitTools == ASSUME Tools!ExecutorAssumption PROVE Tools!Init => ToolInv
<1> SUFFICES ASSUME Tools!Init PROVE ToolInv
  OBVIOUS
<1>1. /\ kind \in [Places -> Tool] /\ calls = [i \in Places |-> "absent"]
      /\ progress = [i \in Places |-> 0] /\ scans = {} /\ cursor = 1 /\ emitted = <<>>
      /\ at = "stream" /\ Calls \in Nat \ {0}
  BY DEF Tools!Init, Tools!Call, Places, Tools!ExecutorAssumption
<1>2. ToolsTyped
  BY <1>1 DEF ToolsTyped, States
<1>3. Order(calls)
  BY <1>1 DEF Order, Started
<1>4. LoopsPast /\ Reporting
  BY <1>1 DEF LoopsPast, Reporting
<1>5. YieldedInOrder
  BY <1>1 DEF YieldedInOrder, Overtaking, Behind, Places
<1> QED BY <1>2, <1>3, <1>4, <1>5 DEF ToolInv

\* A call starts as the first one that waits, if those that execute permit it.
LEMMA StartOrder ==
  ASSUME Calls \in Nat, NEW st \in [Places -> States], Order(st), NEW p \in 1..Calls + 1,
         Past(st, p), Tools!Starts(st, p), NEW x \in {"executing", "completed"},
         NEW i, i = Tools!First(Tools!Queued(st, p))
  PROVE  /\ i \in Places /\ st[i] = "queued" /\ p <= i
         /\ Order([st EXCEPT ![i] = x]) /\ Past([st EXCEPT ![i] = x], i + 1)
<1> DEFINE Q == Tools!Queued(st, p)
           new == [st EXCEPT ![i] = x]
<1>1. Q # {} /\ Q \in SUBSET Places /\ \A k \in Q : st[k] = "queued" /\ p <= k
  BY DEF Tools!Starts, Tools!Queued, Places
<1>2. i \in Q /\ \A k \in Q : i <= k
  BY <1>1, FirstOf
<1>3. i \in Places /\ st[i] = "queued" /\ p <= i
  BY <1>1, <1>2
<1>4. \A k \in Places : st[k] = "queued" => i <= k
  <2>1. ASSUME NEW k \in Places, st[k] = "queued" PROVE k \in Q
    BY <2>1 DEF Past, Places, Tools!Queued
  <2> QED BY <1>2, <2>1
<1>5. \A k \in Places : new[k] = IF k = i THEN x ELSE st[k]
  BY <1>3
<1>6. \/ \A k \in Places : st[k] # "executing"
      \/ Tools!IsSafe(i) /\ \A k \in Places : st[k] = "executing" => Tools!IsSafe(k)
  BY DEF Tools!Starts, Tools!CanExecute, Tools!Executing, Tools!Call, Places
<1> HIDE DEF new, Q
<1>7. Past(new, i + 1)
  BY <1>3, <1>4, <1>5 DEF Past, Places
<1>8. \A k, j \in Places : new[k] = "executing" /\ new[j] = "executing" /\ k # j => Tools!IsSafe(k)
  BY <1>5, <1>6 DEF Order
<1>9. \A k, j \in Places : k < j /\ new[k] = "absent" => new[j] = "absent"
  BY <1>3, <1>5 DEF Order
<1>10. \A k, j \in Places : k < j /\ kind[j] # NoTool /\ Started(new, j) => new[k] # "queued"
  <2> SUFFICES ASSUME NEW k \in Places, NEW j \in Places, k < j, kind[j] # NoTool,
                      Started(new, j), new[k] = "queued"
               PROVE  FALSE
    OBVIOUS
  <2>1. st[k] = "queued" /\ i <= k /\ j # i /\ Started(st, j)
    BY <1>3, <1>4, <1>5 DEF Started, Places
  <2> QED BY <2>1 DEF Order
<1>11. \A k, j \in Places : k < j /\ kind[j] # NoTool /\ ~Tools!IsSafe(k) /\ new[k] = "executing" =>
         ~Started(new, j)
  <2> SUFFICES ASSUME NEW k \in Places, NEW j \in Places, k < j, kind[j] # NoTool,
                      ~Tools!IsSafe(k), new[k] = "executing", Started(new, j)
               PROVE  FALSE
    OBVIOUS
  <2>1. CASE k = i
    BY <1>3, <1>5, <2>1 DEF Order, Started, Places
  <2>2. CASE k # i
    <3>1. st[k] = "executing" /\ j # i
      BY <1>5, <1>6, <2>2
    <3> QED BY <1>5, <3>1 DEF Order, Started
  <2> QED BY <2>1, <2>2
<1>12. Order(new)
  BY <1>8, <1>9, <1>10, <1>11 DEF Order
<1> QED BY <1>3, <1>7, <1>12 DEF new

\* Started, a call only goes on.
LEMMA AdvanceOrder ==
  ASSUME Calls \in Nat, NEW st \in [Places -> States], Order(st), NEW i \in Places,
         Started(st, i), NEW x \in {"completed", "yielded"}
  PROVE  Order([st EXCEPT ![i] = x])
<1> DEFINE new == [st EXCEPT ![i] = x]
<1>1. \A k \in Places : new[k] = IF k = i THEN x ELSE st[k]
  OBVIOUS
<1> HIDE DEF new
<1>2. \A k \in Places : /\ new[k] = "queued" => st[k] = "queued"
                        /\ new[k] = "executing" => st[k] = "executing"
                        /\ new[k] = "absent" <=> st[k] = "absent"
                        /\ Started(new, k) <=> Started(st, k)
  BY <1>1 DEF Started
<1> QED BY <1>2 DEF Order, new

\* The next call is received.
LEMMA ReceiveOrder ==
  ASSUME Calls \in Nat, NEW st \in [Places -> States], Order(st), NEW i \in Places,
         st[i] = "absent", \A j \in 1..i-1 : st[j] # "absent",
         NEW x, x = "queued" \/ (kind[i] = NoTool /\ x = "completed")
  PROVE  Order([st EXCEPT ![i] = x])
<1> DEFINE new == [st EXCEPT ![i] = x]
<1>1. \A k \in Places : new[k] = IF k = i THEN x ELSE st[k]
  OBVIOUS
<1> HIDE DEF new
<1>2. \A k \in Places : i < k => st[k] = "absent"
  BY DEF Order
<1>3. \A k, j \in Places : new[k] = "executing" /\ new[j] = "executing" /\ k # j => Tools!IsSafe(k)
  BY <1>1 DEF Order
<1>4. \A k, j \in Places : k < j /\ new[k] = "absent" => new[j] = "absent"
  BY <1>1 DEF Order, Places
<1>5. \A k, j \in Places : k < j /\ kind[j] # NoTool /\ Started(new, j) => new[k] # "queued"
  BY <1>1, <1>2 DEF Order, Started
<1>6. \A k, j \in Places : k < j /\ kind[j] # NoTool /\ ~Tools!IsSafe(k) /\ new[k] = "executing" =>
         ~Started(new, j)
  BY <1>1 DEF Order, Started
<1> QED BY <1>3, <1>4, <1>5, <1>6 DEF Order, new

\* What the collector does not touch keeps its order.
LEMMA YieldedKept ==
  ASSUME ToolInv, \A i \in Places : calls'[i] = "yielded" <=> calls[i] = "yielded",
         UNCHANGED <<kind, emitted>>,
         at' \in {"emit", "rest"} => cursor' = 1 \/ (cursor' = cursor /\ at' = at)
  PROVE  YieldedInOrder'
<1>1. \A a \in DOMAIN emitted : emitted[a] \in Places /\ calls'[emitted[a]] = "yielded"
  BY DEF ToolInv, ToolsTyped, YieldedInOrder
<1>2. Named' <=> Named
  BY DEF Named
<1>3. \A j : Behind(j)' <=> Behind(j)
  BY DEF Behind, Tools!IsSafe
<1>4. Named /\ at' \in {"emit", "rest"} => Behind(cursor)'
  <2>1. CASE cursor' = 1
    BY <2>1 DEF Behind, Places
  <2>2. CASE cursor' = cursor /\ at' = at
    BY <1>3, <2>2 DEF ToolInv, YieldedInOrder
  <2> QED BY <2>1, <2>2
<1>5. Named => \A j \in Places : calls'[j] = "yielded" => Behind(j)'
  BY <1>3 DEF ToolInv, YieldedInOrder
<1>6. Named => Overtaking'
  BY DEF ToolInv, YieldedInOrder, Overtaking, Tools!IsSafe
<1> QED BY <1>1, <1>2, <1>4, <1>5, <1>6 DEF YieldedInOrder

\* What does not depend on the state of the calls alone.
LEMMA OrderKept == ASSUME kind' = kind, NEW st, Order(st), calls' = st PROVE Order(calls)'
BY DEF Order, Started, Tools!IsSafe

\* Steps in which no call goes on.
LEMMA QuietStep ==
  ASSUME Tools!ExecutorAssumption, ToolInv, UNCHANGED <<kind, calls, progress, scans, emitted>>,
         cursor' = 1 \/ (cursor' = cursor /\ (at' \in {"emit", "rest", "drain"} => at' = at))
  PROVE  ToolInv'
<1>1. Calls \in Nat \ {0} /\ cursor' \in 1..Calls + 1
  BY DEF Tools!ExecutorAssumption, ToolInv, ToolsTyped
<1>2. ToolsTyped'
  BY <1>1 DEF ToolInv, ToolsTyped
<1>3. Order(calls)'
  BY OrderKept DEF ToolInv
<1>4. LoopsPast'
  <2>1. \A p : Past(calls, p)' <=> Past(calls, p)
    BY DEF Past
  <2>2. CASE cursor' = 1
    BY <2>1, <2>2 DEF ToolInv, LoopsPast, Past, Places
  <2>3. CASE cursor' = cursor /\ (at' = "drain" => at' = at)
    BY <2>1, <2>3 DEF ToolInv, LoopsPast
  <2> QED BY <2>2, <2>3
<1>5. Reporting'
  BY DEF ToolInv, Reporting, Started
<1>6. YieldedInOrder'
  BY YieldedKept
<1> QED BY <1>2, <1>3, <1>4, <1>5, <1>6 DEF ToolInv

\* A step of one call, which waits before or has started.
LEMMA CallStep ==
  ASSUME Tools!ExecutorAssumption, ToolInv, NEW i \in Places, NEW x \in {"executing", "completed"},
         calls[i] # "absent", calls[i] # "yielded",
         calls' = [calls EXCEPT ![i] = x], Order([calls EXCEPT ![i] = x]),
         UNCHANGED <<kind, progress, emitted>>,
         scans' \subseteq scans \cup {1, i + 1}, i + 1 \in scans' => Past(calls', i + 1),
         cursor' = 1 \/ cursor' = cursor \/ (cursor' = i + 1 /\ Past(calls', i + 1)),
         at' \in {"emit", "rest", "drain"} => at' = at,
         at' \in {"emit", "rest"} => cursor' = cursor
  PROVE  ToolInv'
<1>1. Calls \in Nat \ {0}
  BY DEF Tools!ExecutorAssumption
<1>2. ToolsTyped'
  BY <1>1 DEF ToolInv, ToolsTyped, States, Places
<1>3. Order(calls)'
  BY OrderKept DEF ToolInv
<1>4. \A k \in Places : calls'[k] = IF k = i THEN x ELSE calls[k]
  BY DEF ToolInv, ToolsTyped
<1>5. \A p : Past(calls, p) => Past(calls, p)'
  BY <1>4 DEF Past
<1>6. Past(calls', 1)
  BY DEF Past, Places
<1>7. LoopsPast'
  <2>1. ASSUME NEW p \in scans' PROVE Past(calls, p)'
    BY <1>5, <1>6 DEF ToolInv, LoopsPast, Past
  <2>2. at' = "drain" => Past(calls, cursor)'
    BY <1>5, <1>6 DEF ToolInv, LoopsPast, Past
  <2> QED BY <2>1, <2>2 DEF LoopsPast
<1>8. Reporting'
  BY <1>4 DEF ToolInv, Reporting, Started
<1>9. YieldedInOrder'
  <2>1. \A k \in Places : calls'[k] = "yielded" <=> calls[k] = "yielded"
    BY <1>4
  <2> QED BY <2>1, YieldedKept
<1> QED BY <1>2, <1>3, <1>7, <1>8, <1>9 DEF ToolInv

\* executeTool, up to its first await.
LEMMA StartIs ==
  ASSUME NEW st, NEW i, NEW rest, Tools!Start(st, i, rest)
  PROVE  /\ \E x \in {"executing", "completed"} : calls' = [st EXCEPT ![i] = x]
         /\ scans' = rest \/ scans' = rest \cup {1}
BY DEF Tools!Start

\* processQueue starts a call.
LEMMA StartStep ==
  ASSUME Tools!ExecutorAssumption, ToolInv, NEW p \in 1..Calls + 1, Past(calls, p),
         Tools!Starts(calls, p), NEW i, i = Tools!First(Tools!Queued(calls, p)),
         NEW rest \in SUBSET (scans \cup {i + 1}), Tools!Start(calls, i, rest),
         UNCHANGED <<kind, progress, emitted, at>>,
         cursor' = cursor \/ (cursor' = i + 1 /\ at' \notin {"emit", "rest"})
  PROVE  ToolInv'
<1>1. PICK x \in {"executing", "completed"} : calls' = [calls EXCEPT ![i] = x]
  BY StartIs
<1>2. Calls \in Nat /\ calls \in [Places -> States] /\ Order(calls)
  BY DEF Tools!ExecutorAssumption, ToolInv, ToolsTyped
<1>3. /\ i \in Places /\ calls[i] = "queued"
      /\ Order([calls EXCEPT ![i] = x]) /\ Past([calls EXCEPT ![i] = x], i + 1)
  BY <1>2, StartOrder
<1>4. scans' \subseteq scans \cup {1, i + 1}
  BY StartIs
<1>5. /\ calls[i] # "absent" /\ calls[i] # "yielded" /\ Past(calls', i + 1)
      /\ kind' = kind /\ progress' = progress /\ emitted' = emitted /\ at' = at
  BY <1>1, <1>3
<1> QED BY <1>1, <1>3, <1>4, <1>5, CallStep

LEMMA ScanStep ==
  ASSUME Tools!ExecutorAssumption, ToolInv, NEW p \in 1..Calls + 1, Tools!Scan(p)
  PROVE  ToolInv'
<1>1. /\ p \in scans /\ Past(calls, p)
      /\ UNCHANGED <<kind, progress, emitted, at, cursor>>
  BY DEF Tools!Scan, Tools!collector, ToolInv, LoopsPast
<1>2. CASE Tools!Starts(calls, p)
  <2> DEFINE i == Tools!First(Tools!Queued(calls, p))
             rest == (scans \ {p}) \cup {i + 1}
  <2>1. Tools!Start(calls, i, rest) /\ rest \in SUBSET (scans \cup {i + 1})
    BY <1>2 DEF Tools!Scan
  <2> HIDE DEF i, rest
  <2>2. kind' = kind /\ progress' = progress /\ emitted' = emitted /\ at' = at /\ cursor' = cursor
    BY <1>1
  <2> QED BY <1>1, <1>2, <2>1, <2>2, StartStep DEF i
<1>3. CASE ~Tools!Starts(calls, p)
  <2>1. /\ scans' = scans \ {p} /\ calls' = calls /\ kind' = kind /\ progress' = progress
        /\ emitted' = emitted /\ at' = at /\ cursor' = cursor
    BY <1>1, <1>3 DEF Tools!Scan
  <2>2. ToolsTyped'
    BY <2>1 DEF ToolInv, ToolsTyped
  <2>3. Order(calls)'
    BY <2>1, OrderKept DEF ToolInv
  <2>4. LoopsPast' /\ Reporting'
    BY <2>1 DEF ToolInv, LoopsPast, Past, Reporting, Started
  <2>5. YieldedInOrder'
    BY <2>1, YieldedKept
  <2> QED BY <2>2, <2>3, <2>4, <2>5 DEF ToolInv
<1> QED BY <1>2, <1>3

\* A call that executes goes on.
LEMMA GoStep ==
  ASSUME Tools!ExecutorAssumption, ToolInv, NEW i \in Places, Tools!Go(i)
  PROVE  ToolInv'
<1>1. CASE Tools!Cancel(i) \/ Tools!End(i)
  <2>1. /\ calls[i] = "executing" /\ calls' = [calls EXCEPT ![i] = "completed"]
        /\ scans' = scans \cup {1} /\ kind' = kind /\ progress' = progress
        /\ emitted' = emitted /\ at' = at /\ cursor' = cursor
    BY <1>1 DEF Tools!Cancel, Tools!End, Tools!Complete, Tools!Goes, Tools!collector
  <2>2. Calls \in Nat /\ Order([calls EXCEPT ![i] = "completed"])
    BY <2>1, AdvanceOrder DEF Tools!ExecutorAssumption, ToolInv, ToolsTyped, Started
  <2>3. /\ calls[i] # "absent" /\ calls[i] # "yielded" /\ scans' \subseteq scans \cup {1, i + 1}
        /\ i + 1 \in scans' => Past(calls', i + 1)
    <3>1. ASSUME i + 1 \in scans' PROVE Past(calls', i + 1)
      <4>1. i + 1 \in scans \/ i + 1 = 1
        BY <2>1, <3>1
      <4>2. i + 1 # 1
        BY <2>2 DEF Places
      <4>3. Past(calls, i + 1)
        BY <4>1, <4>2 DEF ToolInv, LoopsPast
      <4> QED BY <2>1, <4>3 DEF Past, ToolInv, ToolsTyped
    <3> QED BY <2>1, <3>1
  <2> QED BY <2>1, <2>2, <2>3, CallStep
<1>2. CASE Tools!Answer(i)
  <2>1. /\ kind' = kind /\ calls' = calls /\ progress' = progress /\ scans' = scans
        /\ emitted' = emitted /\ at' = at /\ cursor' = cursor
    BY <1>2 DEF Tools!Answer, Tools!collector
  <2> QED BY <2>1, QuietStep
<1>3. CASE Tools!Report(i)
  <2>1. /\ kind' = kind /\ calls' = calls /\ scans' = scans /\ calls[i] = "executing"
        /\ progress' = [progress EXCEPT ![i] = @ + 1]
        /\ emitted' = emitted /\ at' = at /\ cursor' = cursor
    BY <1>3 DEF Tools!Report, Tools!collector, Tools!Goes
  <2>2. ToolsTyped' /\ \A j \in Places : j # i => progress'[j] = progress[j]
    BY <2>1 DEF ToolInv, ToolsTyped
  <2>3. Order(calls)'
    BY <2>1, OrderKept DEF ToolInv
  <2>4. LoopsPast' /\ Reporting'
    BY <2>1, <2>2 DEF ToolInv, LoopsPast, Past, Reporting, Started
  <2>5. YieldedInOrder'
    BY <2>1, YieldedKept
  <2> QED BY <2>2, <2>3, <2>4, <2>5 DEF ToolInv
<1> QED BY <1>1, <1>2, <1>3 DEF Tools!Go

\* addTool: what waits may start at once.
LEMMA ReceiveStep ==
  ASSUME Tools!ExecutorAssumption, ToolInv, NEW i \in Places, Tools!Receive(i)
  PROVE  ToolInv'
<1>1. /\ at = "stream" /\ scans = {} /\ calls[i] = "absent"
      /\ \A j \in 1..i-1 : calls[j] # "absent"
      /\ at' = "emit" /\ cursor' = 1 /\ kind' = kind /\ progress' = progress /\ emitted' = emitted
  BY DEF Tools!Receive, Tools!Turning
<1>2. /\ Calls \in Nat \ {0} /\ calls \in [Places -> States] /\ Order(calls)
  BY DEF Tools!ExecutorAssumption, ToolInv, ToolsTyped
<1>3. ASSUME NEW st, calls' = st, st \in [Places -> States], Order(st),
             \A j \in Places : j # i /\ Started(calls, j) => Started(st, j),
             \A j \in Places : st[j] = "yielded" <=> calls[j] = "yielded",
             scans' \subseteq 1..Calls + 1, \A p \in scans' : Past(st, p)
      PROVE  ToolInv'
  <2>1. ToolsTyped'
    BY <1>1, <1>2, <1>3 DEF ToolInv, ToolsTyped
  <2>2. Order(calls)'
    BY <1>1, <1>3, OrderKept
  <2>3. LoopsPast'
    BY <1>1, <1>3 DEF LoopsPast, Past
  <2>4. Reporting'
    BY <1>1, <1>3 DEF ToolInv, Reporting, Started
  <2>5. YieldedInOrder'
    BY <1>1, <1>3, YieldedKept
  <2> QED BY <2>1, <2>2, <2>3, <2>4, <2>5 DEF ToolInv
<1>4. CASE kind[i] = NoTool
  <2> DEFINE st == [calls EXCEPT ![i] = "completed"]
  <2>1. calls' = st /\ scans' = {}
    BY <1>1, <1>4 DEF Tools!Receive
  <2>2. Order(st)
    BY <1>1, <1>2, <1>4, ReceiveOrder
  <2>3. /\ st \in [Places -> States]
        /\ \A j \in Places : st[j] = IF j = i THEN "completed" ELSE calls[j]
    BY <1>2 DEF States
  <2> HIDE DEF st
  <2>4. /\ \A j \in Places : j # i /\ Started(calls, j) => Started(st, j)
        /\ \A j \in Places : st[j] = "yielded" <=> calls[j] = "yielded"
    BY <1>1, <2>3 DEF Started
  <2> QED BY <1>3, <2>1, <2>2, <2>3, <2>4
<1>5. CASE kind[i] # NoTool
  <2> DEFINE st == [calls EXCEPT ![i] = "queued"]
             h  == Tools!First(Tools!Queued(st, 1))
  <2>1. IF Tools!Starts(st, 1) THEN Tools!Start(st, h, scans \cup {h + 1})
        ELSE calls' = st /\ scans' = scans
    BY <1>5 DEF Tools!Receive
  <2>2. Order(st)
    BY <1>1, <1>2, ReceiveOrder
  <2>3. /\ st \in [Places -> States]
        /\ \A j \in Places : st[j] = IF j = i THEN "queued" ELSE calls[j]
    BY <1>2 DEF States
  <2> HIDE DEF st
  <2>4. CASE ~Tools!Starts(st, 1)
    <3>1. /\ \A j \in Places : j # i /\ Started(calls, j) => Started(st, j)
          /\ \A j \in Places : st[j] = "yielded" <=> calls[j] = "yielded"
          /\ calls' = st /\ scans' = {}
      BY <1>1, <2>1, <2>3, <2>4 DEF Started
    <3> QED BY <1>3, <2>2, <2>3, <3>1
  <2>5. CASE Tools!Starts(st, 1)
    <3>1. Tools!Start(st, h, scans \cup {h + 1})
      BY <2>1, <2>5
    <3>2. PICK x \in {"executing", "completed"} : calls' = [st EXCEPT ![h] = x]
      BY <3>1, StartIs
    <3> DEFINE new == [st EXCEPT ![h] = x]
    <3>3. Past(st, 1) /\ 1 \in 1..Calls + 1
      BY <1>2 DEF Past, Places
    <3>4. h \in Places /\ st[h] = "queued" /\ Order(new) /\ Past(new, h + 1)
      BY <1>2, <2>2, <2>3, <2>5, <3>3, StartOrder
    <3>5. /\ new \in [Places -> States]
          /\ \A j \in Places : new[j] = IF j = h THEN x ELSE st[j]
      BY <2>3, <3>4 DEF States
    <3>6. scans' \subseteq {1, h + 1}
      BY <1>1, <3>1, StartIs
    <3> HIDE DEF new, h
    <3>7. /\ \A j \in Places : j # i /\ Started(calls, j) => Started(new, j)
          /\ \A j \in Places : new[j] = "yielded" <=> calls[j] = "yielded"
      BY <1>1, <2>3, <3>4, <3>5 DEF Started
    <3>8. scans' \subseteq 1..Calls + 1 /\ \A p \in scans' : Past(new, p)
      BY <1>2, <3>4, <3>6 DEF Past, Places
    <3>9. calls' = new
      BY <3>2 DEF new
    <3> QED BY <1>3, <3>4, <3>5, <3>7, <3>8, <3>9
  <2> QED BY <2>4, <2>5
<1> QED BY <1>4, <1>5

\* An iteration yields the first call that has something to tell: what it passes on the
\* way waits, executes beside others, or has been yielded.
LEMMA YieldStep ==
  ASSUME Tools!ExecutorAssumption, ToolInv, Tools!Yield
  PROVE  ToolInv'
<1> DEFINE S == Tools!Stops(cursor)
           i == Tools!First(S)
<1>1. /\ at \in {"emit", "rest"} /\ at' = at /\ kind' = kind /\ scans' = scans
      /\ S # {} /\ (progress[i] > 0 \/ calls[i] = "completed")
      /\ \/ /\ progress[i] > 0 /\ progress' = [progress EXCEPT ![i] = @ - 1]
            /\ cursor' = i /\ calls' = calls /\ emitted' = emitted
         \/ /\ ~(progress[i] > 0)
            /\ calls' = [calls EXCEPT ![i] = "yielded"] /\ emitted' = Append(emitted, i)
            /\ cursor' = i + 1 /\ progress' = progress
  BY DEF Tools!Yield, Tools!Yielding
<1>2. /\ Calls \in Nat \ {0} /\ kind \in [Places -> Tool] /\ calls \in [Places -> States]
      /\ progress \in [Places -> Nat] /\ cursor \in 1..Calls + 1 /\ emitted \in Seq(Places)
      /\ scans \subseteq 1..Calls + 1
  BY DEF Tools!ExecutorAssumption, ToolInv, ToolsTyped
<1>3. /\ S \in SUBSET Places
      /\ \A j \in Places : cursor <= j =>
           (j \in S <=> \/ progress[j] > 0 \/ calls[j] = "completed"
                        \/ calls[j] = "executing" /\ ~Tools!IsSafe(j))
      /\ \A j \in S : cursor <= j
  BY <1>2 DEF Tools!Stops, Places
<1>4. i \in S /\ \A j \in S : i <= j
  BY <1>1, <1>2, <1>3, FirstOf
<1> HIDE DEF S, i
<1>5. i \in Places /\ cursor <= i /\ Started(calls, i)
  BY <1>1, <1>3, <1>4 DEF ToolInv, Reporting, Started
<1>6. Named => Behind(i)
  <2> SUFFICES ASSUME Named, NEW j \in Places, j < i, ~Tools!IsSafe(j) PROVE calls[j] = "yielded"
    BY DEF Behind
  <2>1. CASE j < cursor
    BY <1>1, <2>1 DEF ToolInv, YieldedInOrder, Behind
  <2>2. CASE cursor <= j
    <3>1. j \notin S
      BY <1>4, <1>5 DEF Places
    <3>2. calls[j] # "completed" /\ calls[j] # "executing"
      BY <1>3, <2>2, <3>1
    <3>3. calls[j] # "queued" /\ calls[j] # "absent"
      BY <1>5 DEF ToolInv, Order, Named, Started
    <3> QED BY <1>2, <3>2, <3>3 DEF States
  <2> QED BY <1>2, <2>1, <2>2 DEF Places
<1>7. Named' <=> Named
  BY <1>1 DEF Named
<1>8. CASE progress[i] > 0
  <2>1. /\ progress' = [progress EXCEPT ![i] = @ - 1]
        /\ cursor' = i /\ calls' = calls /\ emitted' = emitted
    BY <1>1, <1>8
  <2>2. ToolsTyped'
    BY <1>1, <1>2, <1>5, <1>8, <2>1 DEF ToolsTyped, Places
  <2>3. Order(calls)'
    BY <1>1, <2>1, OrderKept DEF ToolInv
  <2>4. LoopsPast'
    BY <1>1, <2>1 DEF ToolInv, LoopsPast, Past
  <2>5. Reporting'
    <3>1. \A j \in Places : progress'[j] > 0 => progress[j] > 0
      BY <1>2, <1>5, <1>8, <2>1
    <3> QED BY <2>1, <3>1 DEF ToolInv, Reporting, Started
  <2>6. \A j : Behind(j)' <=> Behind(j)
    BY <1>1, <2>1 DEF Behind, Tools!IsSafe
  <2>7. Overtaking <=> Overtaking'
    BY <1>1, <2>1 DEF Overtaking, Tools!IsSafe
  <2>8. Named => Behind(cursor)'
    BY <1>1, <1>6, <2>1 DEF Behind, Tools!IsSafe
  <2>9. \A a \in DOMAIN emitted : calls[emitted[a]] = "yielded"
    BY DEF ToolInv, YieldedInOrder
  <2>10. YieldedInOrder'
    BY <1>7, <2>1, <2>6, <2>7, <2>8, <2>9 DEF ToolInv, YieldedInOrder
  <2> QED BY <2>2, <2>3, <2>4, <2>5, <2>10 DEF ToolInv
<1>9. CASE ~(progress[i] > 0)
  <2>1. /\ calls[i] = "completed" /\ calls' = [calls EXCEPT ![i] = "yielded"]
        /\ emitted' = Append(emitted, i) /\ cursor' = i + 1 /\ progress' = progress
    BY <1>1, <1>9
  <2>2. \A j \in Places : calls'[j] = IF j = i THEN "yielded" ELSE calls[j]
    BY <1>2, <1>5, <2>1
  <2>3. ToolsTyped'
    <3>1. calls' \in [Places -> States]
      BY <1>2, <1>5, <2>1 DEF States
    <3>2. emitted' \in Seq(Places) /\ cursor' \in 1..Calls + 1
      BY <1>2, <1>5, <2>1 DEF Places
    <3> QED BY <1>1, <1>2, <2>1, <3>1, <3>2 DEF ToolsTyped
  <2>4. Order(calls)'
    <3>1. Order([calls EXCEPT ![i] = "yielded"])
      BY <1>2, <1>5, AdvanceOrder DEF ToolInv
    <3> QED BY <1>1, <2>1, <3>1, OrderKept
  <2>5. LoopsPast'
    BY <1>1, <2>2 DEF ToolInv, LoopsPast, Past
  <2>6. Reporting'
    BY <2>1, <2>2 DEF ToolInv, Reporting, Started
  <2>7. \A j \in Places : Behind(j) => Behind(j)'
    BY <1>1, <2>2 DEF Behind, Tools!IsSafe
  <2>8. Named => \A j \in Places : calls'[j] = "yielded" => Behind(j)'
    BY <1>6, <2>2, <2>7 DEF ToolInv, YieldedInOrder
  <2>9. Named => Behind(cursor)'
    BY <1>1, <1>5, <1>6, <2>1, <2>2 DEF Behind, Tools!IsSafe, Places
  <2>10. DOMAIN emitted' = 1..Len(emitted) + 1 /\ Len(emitted) \in Nat
         /\ emitted'[Len(emitted) + 1] = i
         /\ \A a \in 1..Len(emitted) : emitted'[a] = emitted[a] /\ a \in DOMAIN emitted
                                       /\ emitted[a] \in Places
    BY <1>2, <2>1
  <2>11. \A a \in DOMAIN emitted' : calls'[emitted'[a]] = "yielded"
    BY <1>5, <2>2, <2>10 DEF ToolInv, YieldedInOrder
  <2>12. Named => Overtaking'
    <3> SUFFICES ASSUME Named, NEW a \in DOMAIN emitted', NEW b \in DOMAIN emitted',
                        a < b, emitted'[a] > emitted'[b]
                 PROVE  kind[emitted'[b]] \in Safe
      BY <1>1 DEF Overtaking, Tools!IsSafe
    <3>1. a \in 1..Len(emitted) /\ emitted'[a] = emitted[a] /\ calls[emitted[a]] = "yielded"
          /\ emitted[a] \in Places
      BY <2>10 DEF ToolInv, YieldedInOrder
    <3>2. CASE b = Len(emitted) + 1
      <4>1. i < emitted[a] /\ Behind(emitted[a])
        BY <1>5, <2>10, <3>1, <3>2 DEF ToolInv, YieldedInOrder, Places
      <4> QED BY <1>5, <2>1, <2>10, <3>2, <4>1 DEF Behind, Tools!IsSafe
    <3>3. CASE b \in 1..Len(emitted)
      BY <2>10, <3>1, <3>3 DEF ToolInv, YieldedInOrder, Overtaking, Tools!IsSafe
    <3> QED BY <2>10, <3>2, <3>3
  <2>13. YieldedInOrder'
    BY <1>7, <2>8, <2>9, <2>11, <2>12 DEF YieldedInOrder
  <2> QED BY <2>3, <2>4, <2>5, <2>6, <2>13 DEF ToolInv
<1> QED BY <1>8, <1>9

\* One turn of getRemainingResults.
LEMMA DrainStep ==
  ASSUME Tools!ExecutorAssumption, ToolInv, Tools!Drain
  PROVE  ToolInv'
<1> DEFINE i == Tools!First(Tools!Queued(calls, cursor))
           over == \A j \in Tools!Call : calls[j] \in {"absent", "yielded"}
<1>1. /\ at = "drain" /\ kind' = kind /\ progress' = progress /\ emitted' = emitted
      /\ cursor \in 1..Calls + 1 /\ Past(calls, cursor)
  BY DEF Tools!Drain, ToolInv, ToolsTyped, LoopsPast
<1>2. CASE over \/ ~Tools!Starts(calls, cursor)
  <2>1. /\ calls' = calls /\ scans' = scans
        /\ \/ at' = "done" /\ cursor' = cursor
           \/ at' = "rest" /\ cursor' = 1
    BY <1>2 DEF Tools!Drain
  <2> HIDE DEF i, over
  <2> QED BY <1>1, <2>1, QuietStep
<1>3. CASE ~over /\ Tools!Starts(calls, cursor)
  <2>1. Tools!Start(calls, i, scans) /\ cursor' = i + 1 /\ at' = at
    BY <1>3 DEF Tools!Drain
  <2> HIDE DEF i, over
  <2> QED BY <1>1, <1>3, <2>1, StartStep DEF i
<1> QED BY <1>2, <1>3

\* Every step keeps the order of the response.
LEMMA ToolsStep ==
  ASSUME Tools!ExecutorAssumption, ToolInv, [Tools!Next]_Tools!vars
  PROVE  ToolInv'
<1>1. CASE UNCHANGED Tools!vars
  <2>1. /\ kind' = kind /\ calls' = calls /\ progress' = progress /\ scans' = scans
        /\ emitted' = emitted /\ at' = at /\ cursor' = cursor
    BY <1>1 DEF Tools!vars, Tools!tools, Tools!collector
  <2> QED BY <2>1, QuietStep
<1>2. CASE Tools!Collect \/ Tools!Pause \/ Tools!EndOfStream \/ Tools!Wake
  <2>1. /\ kind' = kind /\ calls' = calls /\ progress' = progress /\ scans' = scans
        /\ emitted' = emitted /\ cursor' = 1
    BY <1>2 DEF Tools!Collect, Tools!Pause, Tools!EndOfStream, Tools!Wake, Tools!tools
  <2> QED BY <2>1, QuietStep
<1>3. CASE Tools!Discard \/ \E reason \in {"abort", "interrupt"} : Tools!Interrupt(reason)
  <2>1. /\ kind' = kind /\ calls' = calls /\ progress' = progress /\ scans' = scans
        /\ emitted' = emitted /\ cursor' = cursor /\ (at' = "discarded" \/ at' = at)
    BY <1>3 DEF Tools!Discard, Tools!Interrupt, Tools!tools, Tools!collector
  <2> QED BY <2>1, QuietStep
<1>4. ASSUME NEW p \in 1..Calls + 1, Tools!Scan(p) PROVE ToolInv'
  BY <1>4, ScanStep
<1>5. ASSUME NEW i \in Tools!Call, Tools!Go(i) \/ Tools!Receive(i) PROVE ToolInv'
  BY <1>5, GoStep, ReceiveStep DEF Tools!Call, Places
<1> QED BY <1>1, <1>2, <1>3, <1>4, <1>5, YieldStep, DrainStep DEF Tools!Next, Tools!Collector

\* The invariant says what the run checks.
LEMMA ToolsInOrder ==
  ASSUME Tools!ExecutorAssumption, ToolInv
  PROVE  Tools!ExclusiveInOrder
<1>1. Calls \in Nat /\ calls \in [Places -> States] /\ emitted \in Seq(Places)
  BY DEF Tools!ExecutorAssumption, ToolInv, ToolsTyped
<1>2. \A i, j \in Tools!Executing(calls) : i # j => Tools!IsSafe(i)
  BY DEF ToolInv, Order, Tools!Executing, Tools!Call, Places
<1>3. \A j \in Tools!Call : kind[j] # NoTool /\ calls[j] \notin {"absent", "queued"} =>
        \A i \in 1..j-1 : calls[i] # "queued"
  BY <1>1 DEF ToolInv, Order, Started, States, Tools!Call, Places
<1>4. NoTool \notin {kind[i] : i \in Tools!Call} => Overtaking
  BY DEF ToolInv, YieldedInOrder, Named, Tools!Call, Places
<1> QED BY <1>2, <1>3, <1>4 DEF Tools!ExclusiveInOrder, Overtaking

-----------------------------------------------------------------------------
(* The edits of a task: FlattenSeq, a batch at a time.                     *)

\* What FlattenSeq tabulates of e.
Flattens(f, e) == f = [i \in 1..Len(e) |-> IF i = 1 THEN e[i] ELSE f[i-1] \o e[i]]

LEMMA FlattensAt ==
  ASSUME NEW e, NEW f, Flattens(f, e), NEW i \in 1..Len(e)
  PROVE  f[i] = IF i = 1 THEN e[i] ELSE f[i-1] \o e[i]
BY Zenon DEF Flattens

\* A set of natural numbers has a least one.
LEMMA LeastOf ==
  ASSUME NEW S \in SUBSET Nat, S # {}
  PROVE  \E x \in S : \A y \in S : x <= y
<1>1. PICK x \in S : \A y \in S : ~(<<y, x>> \in OpToRel(<, Nat))
  BY WFMin, NatLessThanWellFounded
<1>2. \A y \in S : ~(y < x)
  BY <1>1 DEF OpToRel
<1>3. \A y \in S : x <= y
  BY <1>2
<1> QED BY <1>3

\* Tables of sequences agree as far as the sequences do.
LEMMA FlattensAgree ==
  ASSUME NEW n \in Nat, NEW d, NEW e, Len(d) \in Nat, Len(e) \in Nat,
         n <= Len(d), n <= Len(e), \A i \in 1..n : d[i] = e[i],
         NEW f, Flattens(f, d), NEW g, Flattens(g, e)
  PROVE  \A i \in 1..n : f[i] = g[i]
<1> DEFINE S == {i \in 1..n : f[i] # g[i]}
<1>1. SUFFICES ASSUME S # {} PROVE FALSE
  OBVIOUS
<1>2. PICK x \in S : \A y \in S : x <= y
  <2>1. S \in SUBSET Nat
    OBVIOUS
  <2> HIDE DEF S
  <2> QED BY <1>1, <2>1, LeastOf
<1>3. ASSUME NEW i \in 1..n
      PROVE  /\ f[i] = IF i = 1 THEN d[i] ELSE f[i-1] \o d[i]
             /\ g[i] = IF i = 1 THEN e[i] ELSE g[i-1] \o e[i]
  <2>1. i \in 1..Len(d) /\ i \in 1..Len(e)
    OBVIOUS
  <2> QED BY <2>1, FlattensAt
<1>4. x # 1
  BY <1>3
<1>5. x - 1 \in 1..n /\ f[x-1] = g[x-1]
  BY <1>2, <1>4
<1> QED BY <1>3, <1>4, <1>5

\* Every sequence has a table.
LEMMA FlattensExists ==
  ASSUME NEW V, NEW e \in Seq(V)
  PROVE  \E f : Flattens(f, e)
<1> DEFINE Upto(f, n) == f = [i \in 1..n |-> IF i = 1 THEN e[i] ELSE f[i-1] \o e[i]]
           S == {n \in 0..Len(e) : ~\E f : Upto(f, n)}
<1>1. Len(e) \in Nat
  OBVIOUS
<1>2. SUFFICES S = {}
  <2>1. Len(e) \in 0..Len(e)
    BY <1>1
  <2> QED BY <2>1 DEF Flattens
<1>3. SUFFICES ASSUME S # {} PROVE FALSE
  OBVIOUS
<1>4. PICK n \in S : \A m \in S : n <= m
  <2>1. S \subseteq 0..Len(e)
    BY Zenon
  <2> HIDE DEF S
  <2>2. S \in SUBSET Nat
    BY <1>1, <2>1
  <2> QED BY <1>3, <2>2, LeastOf
<1>5. CASE n = 0
  <2>1. Upto(<<>>, 0)
    OBVIOUS
  <2> QED BY <1>5, <2>1
<1>6. CASE n # 0
  <2>1. n - 1 \in 0..Len(e) /\ n \in Nat \ {0}
    <3>1. n \in 0..Len(e)
      BY <1>4, Zenon
    <3> QED BY <1>1, <1>6, <3>1
  <2>2. PICK g : Upto(g, n - 1)
    <3>1. n - 1 \notin S
      <4> HIDE DEF S
      <4> QED BY <1>4, <2>1
    <3> QED BY <2>1, <3>1
  <2> DEFINE last == IF n = 1 THEN e[n] ELSE g[n-1] \o e[n]
             f == [i \in 1..n |-> IF i = n THEN last ELSE g[i]]
  <2>3. \A i \in 1..n-1 : f[i] = g[i] /\ g[i] = IF i = 1 THEN e[i] ELSE g[i-1] \o e[i]
    <3>1. \A i \in 1..n-1 : f[i] = g[i]
      BY <2>1
    <3>2. \A i \in 1..n-1 : g[i] = IF i = 1 THEN e[i] ELSE g[i-1] \o e[i]
      BY <2>2, Zenon
    <3> QED BY <3>1, <3>2
  <2>4. f[n] = last
    BY <2>1
  <2>5. \A i \in 1..n : f[i] = IF i = 1 THEN e[i] ELSE f[i-1] \o e[i]
    <3> SUFFICES ASSUME NEW i \in 1..n PROVE f[i] = IF i = 1 THEN e[i] ELSE f[i-1] \o e[i]
      OBVIOUS
    <3>1. CASE i = n
      <4>1. n # 1 => f[n-1] = g[n-1]
        BY <2>1, <2>3
      <4> QED BY <2>4, <3>1, <4>1
    <3>2. CASE i # n
      <4>1. i \in 1..n-1 /\ (i # 1 => i - 1 \in 1..n-1)
        BY <2>1, <3>2
      <4> QED BY <2>3, <4>1
    <3> QED BY <3>1, <3>2
  <2>6. f = [i \in 1..n |-> f[i]]
    OBVIOUS
  <2> HIDE DEF f
  <2>7. Upto(f, n)
    BY <2>5, <2>6
  <2> QED BY <2>7
<1> QED BY <1>5, <1>6

\* FlattenSeq is the last entry of the table.
LEMMA FlattenIs ==
  ASSUME NEW V, NEW e \in Seq(V), Len(e) # 0
  PROVE  \E f : Flattens(f, e) /\ Fleet!FlattenSeq(e) = f[Len(e)]
<1> DEFINE f == CHOOSE f : Flattens(f, e)
<1>1. Flattens(f, e)
  BY FlattensExists
<1>2. Fleet!FlattenSeq(e) = f[Len(e)]
  BY DEF Fleet!FlattenSeq, Flattens
<1> QED BY <1>1, <1>2

Patches == Seq(Nat \X Nat)

LEMMA EditsTyped ==
  ASSUME Fleet!FleetAssumption, NEW t \in Task, NEW b \in 1..Len(Plan[t])
  PROVE  /\ Plan[t][b] \in Nat /\ Fleet!Edits(t, b) \in Patches
         /\ Len(Fleet!Edits(t, b)) = Plan[t][b]
<1>1. Plan[t] \in Seq(Nat)
  BY DEF Fleet!FleetAssumption
<1>2. Plan[t][b] \in Nat
  BY <1>1, ElementOfSeq
<1>3. b \in Nat
  BY <1>1, LenProperties
<1> QED BY <1>2, <1>3 DEF Fleet!Edits, Patches

\* The batches up to n, in a sequence.
LEMMA BatchesTyped ==
  ASSUME Fleet!FleetAssumption, NEW t \in Task, NEW n \in 0..Len(Plan[t]),
         NEW e, e = [b \in 1..n |-> Fleet!Edits(t, b)]
  PROVE  e \in Seq(Patches) /\ Len(e) = n /\ \A b \in 1..n : e[b] = Fleet!Edits(t, b)
<1>1. Len(Plan[t]) \in Nat
  BY LenProperties DEF Fleet!FleetAssumption
<1>2. \A b \in 1..n : Fleet!Edits(t, b) \in Patches
  BY <1>1, EditsTyped
<1> QED BY <1>1, <1>2

LEMMA NoneEdited == ASSUME NEW t PROVE Fleet!Edited(t, 0) = <<>>
<1> DEFINE e == [b \in 1..0 |-> Fleet!Edits(t, b)]
<1>1. e = <<>>
  OBVIOUS
<1>2. Fleet!Edited(t, 0) = Fleet!FlattenSeq(e)
  BY DEF Fleet!Edited
<1> HIDE DEF e
<1>3. Fleet!FlattenSeq(e) = <<>>
  BY <1>1 DEF Fleet!FlattenSeq
<1> QED BY <1>2, <1>3

\* One more batch is edited.
LEMMA NextEdited ==
  ASSUME Fleet!FleetAssumption, NEW t \in Task, NEW n \in 0..Len(Plan[t]), n < Len(Plan[t]),
         Fleet!Edited(t, n) \in Patches
  PROVE  Fleet!Edited(t, n + 1) = Fleet!Edited(t, n) \o Fleet!Edits(t, n + 1)
<1> DEFINE d == [b \in 1..n |-> Fleet!Edits(t, b)]
           e == [b \in 1..n+1 |-> Fleet!Edits(t, b)]
<1>1. Len(Plan[t]) \in Nat
  BY LenProperties DEF Fleet!FleetAssumption
<1>2. n \in Nat /\ n + 1 \in 0..Len(Plan[t]) /\ n + 1 \in 1..Len(Plan[t])
  BY <1>1
<1>3. /\ d \in Seq(Patches) /\ Len(d) = n /\ \A b \in 1..n : d[b] = Fleet!Edits(t, b)
      /\ e \in Seq(Patches) /\ Len(e) = n + 1 /\ \A b \in 1..n+1 : e[b] = Fleet!Edits(t, b)
  BY <1>2, BatchesTyped
<1>4. Fleet!Edited(t, n) = Fleet!FlattenSeq(d) /\ Fleet!Edited(t, n + 1) = Fleet!FlattenSeq(e)
  BY DEF Fleet!Edited
<1> HIDE DEF d, e
<1>5. PICK g : Flattens(g, e) /\ Fleet!FlattenSeq(e) = g[n+1]
  BY <1>2, <1>3, FlattenIs
<1>6. g[n+1] = IF n + 1 = 1 THEN e[n+1] ELSE g[n+1-1] \o e[n+1]
  <2>1. n + 1 \in 1..Len(e)
    BY <1>2, <1>3
  <2> QED BY <1>5, <2>1, FlattensAt
<1>7. e[n+1] = Fleet!Edits(t, n + 1) /\ Fleet!Edits(t, n + 1) \in Patches
  BY <1>2, <1>3, EditsTyped
<1>8. CASE n = 0
  BY <1>4, <1>5, <1>6, <1>7, <1>8, NoneEdited DEF Patches
<1>9. CASE n # 0
  <2>1. PICK f : Flattens(f, d) /\ Fleet!FlattenSeq(d) = f[n]
    BY <1>3, <1>9, FlattenIs
  <2>2. \A b \in 1..n : d[b] = e[b]
    BY <1>2, <1>3
  <2>3. f[n] = g[n]
    <3>1. Len(d) \in Nat /\ Len(e) \in Nat /\ n <= Len(d) /\ n <= Len(e) /\ n \in 1..n
      BY <1>2, <1>3, <1>9
    <3>2. \A i \in 1..n : f[i] = g[i]
      BY <1>2, <1>5, <2>1, <2>2, <3>1, FlattensAgree
    <3> QED BY <3>1, <3>2
  <2>4. g[n+1] = g[n] \o e[n+1]
    <3>1. n + 1 - 1 = n /\ n + 1 # 1
      BY <1>2, <1>9
    <3> QED BY <1>6, <3>1, Zenon
  <2> QED BY <1>4, <1>5, <1>7, <2>1, <2>3, <2>4
<1> QED BY <1>8, <1>9

LEMMA EditedTyped ==
  ASSUME Fleet!FleetAssumption, NEW t \in Task, NEW n \in 0..Len(Plan[t])
  PROVE  Fleet!Edited(t, n) \in Patches
<1> DEFINE S == {k \in 0..Len(Plan[t]) : Fleet!Edited(t, k) \notin Patches}
<1>1. Len(Plan[t]) \in Nat
  BY LenProperties DEF Fleet!FleetAssumption
<1>2. SUFFICES ASSUME S # {} PROVE FALSE
  OBVIOUS
<1>3. PICK k \in S : \A j \in S : k <= j
  <2>1. S \in SUBSET Nat
    BY <1>1
  <2> HIDE DEF S
  <2> QED BY <1>2, <2>1, LeastOf
<1>4. k # 0
  <2>1. Fleet!Edited(t, 0) \in Patches
    BY NoneEdited, EmptySeq DEF Patches
  <2> QED BY <1>3, <2>1
<1>5. k - 1 \in 0..Len(Plan[t]) /\ k - 1 < Len(Plan[t]) /\ k - 1 \notin S /\ k \in 1..Len(Plan[t])
  BY <1>1, <1>3, <1>4
<1>6. Fleet!Edited(t, k - 1) \in Patches
  BY <1>5
<1>7. k - 1 + 1 = k
  BY <1>1, <1>5
<1>8. Fleet!Edited(t, k) = Fleet!Edited(t, k - 1) \o Fleet!Edits(t, k)
  BY <1>5, <1>6, <1>7, NextEdited
<1>9. Fleet!Edits(t, k) \in Patches
  BY <1>5, EditsTyped
<1>10. Fleet!Edited(t, k) \in Patches
  BY <1>6, <1>8, <1>9, ConcatProperties DEF Patches
<1> QED BY <1>3, <1>10

-----------------------------------------------------------------------------
(* Workers.                                                                *)

Phases == {"off", "call", "snapshot", "answered", "closing"}
Sessions ==
  [at : Phases, worker : Worker \cup {NoWorker}, workspace : Nat, prepared : BOOLEAN,
   failed : SUBSET Worker, restore : Patches, sent : Nat]
Leases == [worker : Worker, workspace : Nat]

FleetTyped ==
  /\ running \in [Task -> BOOLEAN] /\ state \in [Task -> [done : Nat, patch : Patches]]
  /\ session \in [Task -> Sessions] /\ replaced \in [Task -> SUBSET Nat]
  /\ lease \in [Task -> Leases \cup {NoLease}] /\ DOMAIN tree = Task

\* What is published, kept to restore, and in the tree of a session, is what the batches
\* before have edited, and what of this one was sent.
Working(t) ==
  LET s    == session[t]
      done == state[t].done
      ours == tree[t][s.workspace]
  IN  /\ done <= Len(Plan[t]) /\ state[t].patch = Fleet!Edited(t, done)
      /\ s.at \in {"call", "snapshot", "answered"} => done < Len(Plan[t])
      /\ s.at = "call" =>
           /\ s.restore = Fleet!Edited(t, done)
           /\ s.sent <= Plan[t][done + 1]
           /\ IF s.prepared
              THEN ours = Fleet!Edited(t, done) \o SubSeq(Fleet!Edits(t, done + 1), 1, s.sent)
              ELSE s.sent = 0
      /\ s.at \in {"snapshot", "answered"} => s.prepared /\ ours = Fleet!Edited(t, done + 1)
      /\ s.at = "answered" => s.restore = ours

\* A session has its workspace to itself, and while it runs the lease that is for it.
Holding(t) ==
  LET s == session[t]
  IN  /\ IsFiniteSet(replaced[t]) /\ IsFiniteSet(DOMAIN tree[t])
      /\ s.prepared => s.worker # NoWorker
      /\ s.worker # NoWorker =>
           /\ s.workspace \notin replaced[t]
           /\ s.prepared <=> s.workspace \in DOMAIN tree[t]
           /\ running[t] => lease[t] = [worker |-> s.worker, workspace |-> s.workspace]

Holders(w) == {t \in Task : lease[t] # NoLease /\ lease[t].worker = w}
SlotsKept == \A w \in Worker : Cardinality(Holders(w)) <= Serves[w]

FleetInv == FleetTyped /\ SlotsKept /\ \A t \in Task : Working(t) /\ Holding(t)

LEMMA FleetCounted ==
  \A S : Fleet!Cardinality(S) = Cardinality(S) /\ (Fleet!IsFiniteSet(S) <=> IsFiniteSet(S))
BY DEF Fleet!Cardinality, Cardinality, Fleet!IsFiniteSet, IsFiniteSet

LEMMA FreshTyped ==
  ASSUME NEW patch \in Patches
  PROVE  /\ Fleet!Fresh(patch) \in Sessions
         /\ Fleet!Fresh(patch) =
              [at |-> "call", worker |-> NoWorker, workspace |-> 0, prepared |-> FALSE,
               failed |-> {}, restore |-> patch, sent |-> 0]
BY DEF Fleet!Fresh, Sessions, Phases

LEMMA ClosedTyped ==
  /\ Fleet!Closed \in Sessions /\ Fleet!Closed.at = "off" /\ Fleet!Closed.worker = NoWorker
  /\ Fleet!Closed.prepared = FALSE
<1>1. <<>> \in Patches
  BY EmptySeq DEF Patches
<1> QED BY <1>1, FreshTyped DEF Fleet!Closed, Sessions, Phases

LEMMA InitFleet == ASSUME Fleet!FleetAssumption PROVE Fleet!Init => FleetInv
<1> SUFFICES ASSUME Fleet!Init PROVE FleetInv
  OBVIOUS
<1>1. /\ running = [t \in Task |-> FALSE] /\ state = [t \in Task |-> [done |-> 0, patch |-> <<>>]]
      /\ session = [t \in Task |-> Fleet!Closed] /\ replaced = [t \in Task |-> {}]
      /\ lease = [t \in Task |-> NoLease] /\ tree = [t \in Task |-> <<>>]
  BY DEF Fleet!Init
<1>2. /\ Fleet!Closed \in Sessions /\ Fleet!Closed.at = "off" /\ Fleet!Closed.worker = NoWorker
      /\ Fleet!Closed.prepared = FALSE
  BY ClosedTyped
<1>3. FleetTyped
  BY <1>1, <1>2 DEF FleetTyped, Patches
<1>4. SlotsKept
  <2>1. \A w \in Worker : Holders(w) = {} /\ Serves[w] \in Nat
    BY <1>1 DEF Holders, Fleet!FleetAssumption
  <2> QED BY <2>1, FS_EmptySet DEF SlotsKept
<1>5. ASSUME NEW t \in Task PROVE Working(t) /\ Holding(t)
  <2>1. Len(Plan[t]) \in Nat
    BY LenProperties DEF Fleet!FleetAssumption
  <2>2. DOMAIN tree[t] = {} /\ IsFiniteSet({})
    BY <1>1, FS_EmptySet
  <2>3. Working(t)
    BY <1>1, <1>2, <2>1, NoneEdited DEF Working
  <2>4. Holding(t)
    BY <1>1, <1>2, <2>2 DEF Holding
  <2> QED BY <2>3, <2>4
<1> QED BY <1>3, <1>4, <1>5 DEF FleetInv

\* A step of one task.
LEMMA OneTask ==
  ASSUME FleetInv, NEW t \in Task, FleetTyped', SlotsKept', Working(t)', Holding(t)',
         \A u \in Task : u # t =>
           /\ running'[u] = running[u] /\ state'[u] = state[u] /\ session'[u] = session[u]
           /\ replaced'[u] = replaced[u] /\ lease'[u] = lease[u] /\ tree'[u] = tree[u]
  PROVE  FleetInv'
<1>1. ASSUME NEW u \in Task, u # t PROVE Working(u)' /\ Holding(u)'
  <2>1. /\ running'[u] = running[u] /\ state'[u] = state[u] /\ session'[u] = session[u]
        /\ replaced'[u] = replaced[u] /\ lease'[u] = lease[u] /\ tree'[u] = tree[u]
    BY <1>1
  <2>2. Working(u) /\ Holding(u)
    BY DEF FleetInv
  <2>3. Working(u)'
    BY <2>1, <2>2, Zenon DEF Working
  <2>4. Holding(u)'
    BY <2>1, <2>2, Zenon DEF Holding
  <2> QED BY <2>3, <2>4
<1> QED BY <1>1 DEF FleetInv

\* Leases are only given up.
LEMMA FewerLeases ==
  ASSUME Fleet!FleetAssumption, SlotsKept, NEW t \in Task,
         \A u \in Task : lease'[u] \in {lease[u], NoLease}
  PROVE  SlotsKept'
<1>1. IsFiniteSet(Task)
  BY FleetCounted DEF Fleet!FleetAssumption
<1>2. ASSUME NEW w \in Worker PROVE Cardinality(Holders(w)') <= Serves[w]
  <2>1. Holders(w)' \subseteq Holders(w) /\ Holders(w) \subseteq Task
    BY DEF Holders
  <2>2. IsFiniteSet(Holders(w))
    BY <1>1, <2>1, FS_Subset
  <2>3. Cardinality(Holders(w)') <= Cardinality(Holders(w)) /\ IsFiniteSet(Holders(w)')
    BY <2>1, <2>2, FS_Subset
  <2>4. Cardinality(Holders(w)') \in Nat /\ Cardinality(Holders(w)) \in Nat
    BY <2>2, <2>3, FS_CardinalityType
  <2>5. Cardinality(Holders(w)) <= Serves[w] /\ Serves[w] \in Nat
    BY DEF SlotsKept, Fleet!FleetAssumption
  <2> QED BY <2>3, <2>4, <2>5
<1> QED BY <1>2 DEF SlotsKept

\* A lease that is given to a task keeps its worker, or goes to one that has a place.
LEMMA LeaseGiven ==
  ASSUME Fleet!FleetAssumption, FleetTyped, SlotsKept, NEW t \in Task, NEW w \in Worker,
         NEW ws \in Nat, lease' = [lease EXCEPT ![t] = [worker |-> w, workspace |-> ws]],
         \/ lease[t] # NoLease /\ lease[t].worker = w
         \/ Fleet!Active(w, t) < Serves[w]
  PROVE  SlotsKept'
<1>1. IsFiniteSet(Task)
  BY FleetCounted DEF Fleet!FleetAssumption
<1>2. \A u \in Task : lease'[u] = IF u = t THEN [worker |-> w, workspace |-> ws] ELSE lease[u]
  BY DEF FleetTyped
<1>3. ASSUME NEW v \in Worker PROVE Cardinality(Holders(v)') <= Serves[v]
  <2>1. IsFiniteSet(Holders(v)) /\ IsFiniteSet(Holders(v)') /\ IsFiniteSet(Holders(v) \ {t})
    <3>1. Holders(v) \subseteq Task /\ Holders(v)' \subseteq Task /\ Holders(v) \ {t} \subseteq Task
      BY DEF Holders
    <3> QED BY <1>1, <3>1, FS_Subset
  <2>2. /\ Cardinality(Holders(v)') \in Nat /\ Cardinality(Holders(v)) \in Nat
        /\ Cardinality(Holders(v) \ {t}) \in Nat /\ Serves[v] \in Nat
    BY <2>1, FS_CardinalityType DEF Fleet!FleetAssumption
  <2>3. Cardinality(Holders(v)) <= Serves[v]
    BY DEF SlotsKept
  <2>4. CASE v # w \/ (lease[t] # NoLease /\ lease[t].worker = w)
    <3>1. Holders(v)' \subseteq Holders(v)
      BY <1>2, <2>4 DEF Holders
    <3>2. Cardinality(Holders(v)') <= Cardinality(Holders(v))
      BY <2>1, <3>1, FS_Subset
    <3> QED BY <2>2, <2>3, <3>2
  <2>5. CASE v = w /\ Fleet!Active(w, t) < Serves[w]
    <3> DEFINE S == Holders(v) \ {t}
    <3>1. Holders(v)' \subseteq S \cup {t}
      BY <1>2 DEF Holders
    <3>2. S = {u \in Task \ {t} : lease[u] # NoLease /\ lease[u].worker = w}
      BY <2>5 DEF Holders
    <3>3. Cardinality(S) = Fleet!Active(w, t)
      BY <3>2, FleetCounted DEF Fleet!Active
    <3>4. t \notin S
      OBVIOUS
    <3> HIDE DEF S
    <3>5. IsFiniteSet(S \cup {t}) /\ Cardinality(S \cup {t}) = Cardinality(S) + 1
      BY <2>1, <3>4, FS_AddElement DEF S
    <3>6. Cardinality(Holders(v)') <= Cardinality(S \cup {t})
      BY <3>1, <3>5, FS_Subset
    <3> QED BY <2>2, <2>5, <3>3, <3>5, <3>6 DEF S
  <2> QED BY <2>4, <2>5
<1> QED BY <1>3 DEF SlotsKept

\* A name of a workspace is found that is not in use.
LEMMA FreshWorkspace ==
  ASSUME FleetInv, NEW t \in Task
  PROVE  /\ Fleet!Workspace(t) \in Nat /\ Fleet!Workspace(t) \notin replaced[t]
         /\ Fleet!Workspace(t) \notin DOMAIN tree[t]
<1> DEFINE known == replaced[t] \cup {session[t].workspace} \cup DOMAIN tree[t]
                      \cup IF lease[t] = NoLease THEN {} ELSE {lease[t].workspace}
           k == Cardinality(known)
<1>1. IsFiniteSet(known)
  <2>1. IsFiniteSet(replaced[t]) /\ IsFiniteSet(DOMAIN tree[t])
    BY DEF FleetInv, Holding
  <2>2. IsFiniteSet(IF lease[t] = NoLease THEN {} ELSE {lease[t].workspace})
    <3>1. CASE lease[t] = NoLease
      BY <3>1, FS_EmptySet
    <3>2. CASE lease[t] # NoLease
      BY <3>2, FS_Singleton
    <3> QED BY <3>1, <3>2
  <2> QED BY <2>1, <2>2, FS_Singleton, FS_Union
<1>2. Fleet!Workspace(t) = CHOOSE n \in 1..Fleet!Cardinality(known)+1 : n \notin known
  BY DEF Fleet!Workspace
<1>3. replaced[t] \subseteq known /\ DOMAIN tree[t] \subseteq known
  OBVIOUS
<1> HIDE DEF known
<1>4. k \in Nat
  BY <1>1, FS_CardinalityType
<1>5. ~(1..k+1 \subseteq known)
  <2>1. IsFiniteSet(1..k+1) /\ Cardinality(1..k+1) = k + 1
    <3>1. PICK m \in Int : m = k + 1
      BY <1>4
    <3>2. IsFiniteSet(1..m) /\ Cardinality(1..m) = IF 1 > m THEN 0 ELSE m - 1 + 1
      BY FS_Interval
    <3> QED BY <1>4, <3>1, <3>2
  <2>2. 1..k+1 \subseteq known => k + 1 <= k
    BY <1>1, <2>1, FS_Subset
  <2> QED BY <1>4, <2>2
<1>6. \E n \in 1..k+1 : n \notin known
  BY <1>5
<1>7. Fleet!Workspace(t) = CHOOSE n \in 1..k+1 : n \notin known
  BY <1>2, FleetCounted
<1>8. Fleet!Workspace(t) \in 1..k+1 /\ Fleet!Workspace(t) \notin known
  BY <1>6, <1>7
<1> QED BY <1>3, <1>4, <1>8

\* The types of what belongs to one task.
LEMMA TaskTyped ==
  ASSUME Fleet!FleetAssumption, FleetInv, NEW t \in Task
  PROVE  /\ session[t] \in Sessions /\ state[t] \in [done : Nat, patch : Patches]
         /\ replaced[t] \in SUBSET Nat /\ lease[t] \in Leases \cup {NoLease}
         /\ Len(Plan[t]) \in Nat /\ Working(t) /\ Holding(t)
BY LenProperties DEF FleetInv, FleetTyped, Fleet!FleetAssumption

\* claimLease, of the attempt that has none or leaves a worker that failed.
LEMMA ClaimStep ==
  ASSUME Fleet!FleetAssumption, FleetInv, NEW t \in Task, Fleet!Claim(t)
  PROVE  FleetInv'
<1> DEFINE held == lease[t] # NoLease /\ lease[t].worker \notin session[t].failed
           ws == Fleet!Workspace(t)
<1>1. /\ session[t].at = "call" /\ session[t].worker = NoWorker
      /\ running' = running /\ state' = state /\ replaced' = replaced /\ tree' = tree
  BY DEF Fleet!Claim, Fleet!At, Fleet!durable
<1>2. /\ session[t] \in Sessions /\ Working(t) /\ Holding(t) /\ ~session[t].prepared
  BY <1>1, TaskTyped DEF Holding, Sessions
<1>3. ASSUME NEW w \in IF held THEN {lease[t].worker} ELSE Fleet!Best(t),
             lease' = [lease EXCEPT ![t] = [worker |-> w, workspace |-> ws]],
             session' = [session EXCEPT ![t].worker = w, ![t].workspace = ws]
      PROVE  FleetInv'
  <2>1. w \in Worker /\ (\/ lease[t] # NoLease /\ lease[t].worker = w
                         \/ Fleet!Active(w, t) < Serves[w])
    <3>1. CASE held
      BY <1>3, <3>1, TaskTyped DEF Leases
    <3>2. CASE ~held
      BY <1>3, <3>2 DEF Fleet!Best, Fleet!Free
    <3> QED BY <3>1, <3>2
  <2>2. ws \in Nat /\ ws \notin replaced[t] /\ ws \notin DOMAIN tree[t]
    BY FreshWorkspace
  <2> HIDE DEF ws, held
  <2>3. SlotsKept'
    BY <1>3, <2>1, <2>2, LeaseGiven DEF FleetInv
  <2>4. /\ session' \in [Task -> Sessions] /\ lease' \in [Task -> Leases \cup {NoLease}]
        /\ \A u \in Task : u # t => session'[u] = session[u] /\ lease'[u] = lease[u]
        /\ lease'[t] = [worker |-> w, workspace |-> ws]
    BY <1>3, <2>1, <2>2 DEF FleetInv, FleetTyped, Sessions, Leases
  <2>5. /\ session'[t].at = session[t].at /\ session'[t].worker = w /\ session'[t].workspace = ws
        /\ session'[t].prepared = session[t].prepared /\ session'[t].restore = session[t].restore
        /\ session'[t].sent = session[t].sent
    BY <1>3 DEF FleetInv, FleetTyped, Sessions
  <2>6. FleetTyped'
    BY <1>1, <2>4 DEF FleetInv, FleetTyped
  <2>7. Working(t)'
    BY <1>1, <1>2, <2>5 DEF Working
  <2>8. Holding(t)'
    BY <1>1, <1>2, <2>1, <2>2, <2>4, <2>5 DEF Holding, Fleet!FleetAssumption
  <2> QED BY <1>1, <2>3, <2>4, <2>6, <2>7, <2>8, OneTask
<1>4. CASE session' = [session EXCEPT ![t].at = "closing"] /\ lease' = lease
  <2>1. /\ session' \in [Task -> Sessions]
        /\ \A u \in Task : u # t => session'[u] = session[u]
        /\ session'[t].at = "closing" /\ session'[t].worker = session[t].worker
        /\ session'[t].prepared = session[t].prepared
    BY <1>4 DEF FleetInv, FleetTyped, Sessions, Phases
  <2>2. FleetTyped'
    BY <1>1, <1>4, <2>1 DEF FleetInv, FleetTyped
  <2>3. Working(t)' /\ Holding(t)'
    BY <1>1, <1>2, <2>1 DEF Working, Holding
  <2>4. SlotsKept'
    BY <1>4 DEF FleetInv, SlotsKept, Holders
  <2> QED BY <1>1, <1>4, <2>1, <2>2, <2>3, <2>4, OneTask
<1> QED BY <1>3, <1>4 DEF Fleet!Claim

\* releaseLease frees at most the lease that is for the workspace.
LEMMA ReleasedIs ==
  ASSUME FleetInv, NEW t \in Task, NEW ws, lease' = Fleet!Released(t, ws)
  PROVE  /\ lease' \in [Task -> Leases \cup {NoLease}]
         /\ \A u \in Task : u # t => lease'[u] = lease[u]
         /\ \/ lease'[t] = lease[t]
            \/ lease'[t] = NoLease /\ lease[t] # NoLease /\ lease[t].workspace = ws
BY DEF FleetInv, FleetTyped, Fleet!Released

\* A tree is forgotten, the others stay.
LEMMA ForgetIs ==
  ASSUME FleetInv, NEW t \in Task, NEW ws, Fleet!Forget(t, ws)
  PROVE  /\ DOMAIN tree' = Task /\ \A u \in Task : u # t => tree'[u] = tree[u]
         /\ DOMAIN tree'[t] = DOMAIN tree[t] \ {ws} /\ IsFiniteSet(DOMAIN tree'[t])
         /\ \A x \in DOMAIN tree'[t] : tree'[t][x] = tree[t][x]
<1>1. /\ DOMAIN tree' = Task /\ \A u \in Task : u # t => tree'[u] = tree[u]
      /\ tree'[t] = [x \in DOMAIN tree[t] \ {ws} |-> tree[t][x]]
  BY DEF FleetInv, FleetTyped, Fleet!Forget
<1>2. IsFiniteSet(DOMAIN tree[t]) /\ DOMAIN tree'[t] \subseteq DOMAIN tree[t]
  BY <1>1 DEF FleetInv, Holding
<1> QED BY <1>1, <1>2, FS_Subset

\* The request fails and the session leaves its worker.
LEMMA FailoverStep ==
  ASSUME Fleet!FleetAssumption, FleetInv, NEW t \in Task,
         Fleet!Reaches(t), Fleet!Failover(t)
  PROVE  FleetInv'
<1>1. /\ session[t].at = "call" /\ session[t].worker # NoWorker
      /\ session' = Fleet!Left(t) /\ Fleet!Forget(t, session[t].workspace)
      /\ lease' = Fleet!Released(t, session[t].workspace)
      /\ running' = running /\ state' = state /\ replaced' = replaced
  BY DEF Fleet!Reaches, Fleet!At, Fleet!Failover, Fleet!durable
<1>2. session[t] \in Sessions /\ session[t].worker \in Worker /\ Working(t) /\ Holding(t)
  BY <1>1, TaskTyped DEF Sessions
<1>3. /\ session' \in [Task -> Sessions]
      /\ \A u \in Task : u # t => session'[u] = session[u]
      /\ session'[t].at \in {"call", "closing"} /\ session'[t].worker = NoWorker
      /\ session'[t].prepared = FALSE /\ session'[t].restore = session[t].restore
      /\ session'[t].sent = 0
  <2> DEFINE failing == session[t].failed \cup {session[t].worker}
             place == IF failing = Worker THEN "closing" ELSE "call"
  <2>1. session' = [session EXCEPT ![t].at = place, ![t].worker = NoWorker, ![t].failed = failing,
                                   ![t].prepared = FALSE, ![t].sent = 0]
    BY <1>1 DEF Fleet!Left
  <2>2. failing \in SUBSET Worker /\ place \in {"call", "closing"}
    BY <1>2 DEF Sessions
  <2> HIDE DEF failing, place
  <2>3. session \in [Task -> Sessions]
    BY DEF FleetInv, FleetTyped
  <2> DEFINE r == [session[t] EXCEPT !.at = place, !.worker = NoWorker, !.failed = failing,
                                     !.prepared = FALSE, !.sent = 0]
  <2>4. session' = [session EXCEPT ![t] = r]
    BY <2>1, <2>3
  <2>5. /\ r \in Sessions /\ r.at = place /\ r.worker = NoWorker /\ r.prepared = FALSE
        /\ r.restore = session[t].restore /\ r.sent = 0
    BY <1>2, <2>2 DEF Sessions, Phases
  <2> HIDE DEF r
  <2> QED BY <2>2, <2>3, <2>4, <2>5
<1>4. FleetTyped'
  BY <1>1, <1>3, ReleasedIs, ForgetIs DEF FleetInv, FleetTyped
<1>5. SlotsKept'
  <2>1. \A u \in Task : lease'[u] \in {lease[u], NoLease}
    BY <1>1, ReleasedIs
  <2> QED BY <2>1, FewerLeases DEF FleetInv
<1>6. Working(t)'
  <2>1. state[t].done < Len(Plan[t]) /\ 0 <= Plan[t][state[t].done + 1]
    <3>1. state[t].done < Len(Plan[t])
      BY <1>1, <1>2 DEF Working
    <3>2. state[t].done + 1 \in 1..Len(Plan[t])
      BY <3>1, TaskTyped
    <3> QED BY <3>1, <3>2, EditsTyped
  <2> QED BY <1>1, <1>2, <1>3, <2>1 DEF Working
<1>7. Holding(t)'
  <2>1. IsFiniteSet(DOMAIN tree'[t])
    BY <1>1, ForgetIs
  <2> QED BY <1>1, <1>2, <1>3, <2>1 DEF Holding
<1>8. \A u \in Task : u # t => lease'[u] = lease[u] /\ tree'[u] = tree[u]
  BY <1>1, ReleasedIs, ForgetIs
<1> QED BY <1>1, <1>3, <1>4, <1>5, <1>6, <1>7, <1>8, OneTask

\* The driver opens a session from the checkpoint.
LEMMA OpenStep ==
  ASSUME Fleet!FleetAssumption, FleetInv, NEW t \in Task, Fleet!Open(t)
  PROVE  FleetInv'
<1>1. /\ state[t].done < Len(Plan[t]) /\ running' = [running EXCEPT ![t] = TRUE]
      /\ session' = [session EXCEPT ![t] = Fleet!Fresh(state[t].patch)]
      /\ state' = state /\ replaced' = replaced /\ lease' = lease /\ tree' = tree
  BY DEF Fleet!Open
<1>2. state[t] \in [done : Nat, patch : Patches] /\ Working(t) /\ Holding(t)
  BY TaskTyped
<1>3. /\ session' \in [Task -> Sessions]
      /\ \A u \in Task : u # t => session'[u] = session[u]
      /\ session'[t].at = "call" /\ session'[t].worker = NoWorker
      /\ session'[t].prepared = FALSE /\ session'[t].restore = state[t].patch
      /\ session'[t].sent = 0
  BY <1>1, <1>2, FreshTyped DEF FleetInv, FleetTyped
<1>4. running' \in [Task -> BOOLEAN] /\ \A u \in Task : u # t => running'[u] = running[u]
  BY <1>1 DEF FleetInv, FleetTyped
<1>5. FleetTyped'
  BY <1>1, <1>3, <1>4 DEF FleetInv, FleetTyped
<1>6. SlotsKept'
  BY <1>1 DEF FleetInv, SlotsKept, Holders
<1>7. Working(t)'
  <2>1. state[t].done + 1 \in 1..Len(Plan[t])
    BY <1>1, <1>2, TaskTyped
  <2>2. 0 <= Plan[t][state[t].done + 1]
    BY <2>1, EditsTyped
  <2> QED BY <1>1, <1>2, <1>3, <2>2 DEF Working
<1>8. Holding(t)'
  BY <1>1, <1>2, <1>3 DEF Holding
<1> QED BY <1>1, <1>3, <1>4, <1>5, <1>6, <1>7, <1>8, OneTask

\* The session disposes, and the attempt is settled.
LEMMA CloseStep ==
  ASSUME Fleet!FleetAssumption, FleetInv, NEW t \in Task, Fleet!Close(t)
  PROVE  FleetInv'
<1>1. /\ running' = [running EXCEPT ![t] = FALSE]
      /\ session' = [session EXCEPT ![t] = Fleet!Closed]
      /\ Fleet!Forget(t, session[t].workspace)
      /\ lease' = IF session[t].worker = NoWorker THEN lease
                  ELSE Fleet!Released(t, session[t].workspace)
      /\ state' = state /\ replaced' = replaced
  BY DEF Fleet!Close
<1>2. Working(t) /\ Holding(t)
  BY TaskTyped
<1>3. /\ session' \in [Task -> Sessions]
      /\ \A u \in Task : u # t => session'[u] = session[u]
      /\ session'[t] = Fleet!Closed
  BY <1>1, ClosedTyped DEF FleetInv, FleetTyped
<1>4. running' \in [Task -> BOOLEAN] /\ \A u \in Task : u # t => running'[u] = running[u]
  BY <1>1 DEF FleetInv, FleetTyped
<1>5. /\ lease' \in [Task -> Leases \cup {NoLease}]
      /\ \A u \in Task : u # t => lease'[u] = lease[u]
      /\ lease'[t] \in {lease[t], NoLease}
  <2>1. CASE session[t].worker = NoWorker
    BY <1>1, <2>1 DEF FleetInv, FleetTyped
  <2>2. CASE session[t].worker # NoWorker
    BY <1>1, <2>2, ReleasedIs
  <2> QED BY <2>1, <2>2
<1>6. FleetTyped'
  BY <1>1, <1>3, <1>4, <1>5, ForgetIs DEF FleetInv, FleetTyped
<1>7. SlotsKept'
  BY <1>5, FewerLeases DEF FleetInv
<1>8. Working(t)'
  BY <1>1, <1>2, <1>3, ClosedTyped DEF Working
<1>9. Holding(t)'
  <2>1. IsFiniteSet(DOMAIN tree'[t])
    BY <1>1, ForgetIs
  <2> QED BY <1>1, <1>2, <1>3, <2>1, ClosedTyped DEF Holding
<1>10. \A u \in Task : u # t => tree'[u] = tree[u]
  BY <1>1, ForgetIs
<1> QED BY <1>1, <1>3, <1>4, <1>5, <1>6, <1>7, <1>8, <1>9, <1>10, OneTask

\* The deadline passes: the lease goes, the session finds out later.
LEMMA ExpireStep ==
  ASSUME Fleet!FleetAssumption, FleetInv, NEW t \in Task, Fleet!Expire(t)
  PROVE  FleetInv'
<1>1. /\ running' = [running EXCEPT ![t] = FALSE] /\ lease' = [lease EXCEPT ![t] = NoLease]
      /\ state' = state /\ session' = session /\ replaced' = replaced /\ tree' = tree
  BY DEF Fleet!Expire
<1>2. Working(t) /\ Holding(t)
  BY TaskTyped
<1>3. /\ running' \in [Task -> BOOLEAN] /\ lease' \in [Task -> Leases \cup {NoLease}]
      /\ \A u \in Task : u # t => running'[u] = running[u] /\ lease'[u] = lease[u]
      /\ ~running'[t] /\ lease'[t] = NoLease
  BY <1>1 DEF FleetInv, FleetTyped
<1>4. FleetTyped'
  BY <1>1, <1>3 DEF FleetInv, FleetTyped
<1>5. SlotsKept'
  BY <1>3, FewerLeases DEF FleetInv
<1>6. Working(t)'
  BY <1>1, <1>2 DEF Working
<1>7. Holding(t)'
  BY <1>1, <1>2, <1>3 DEF Holding
<1> QED BY <1>1, <1>3, <1>4, <1>5, <1>6, <1>7, OneTask

\* Another session takes over under the same lease.
LEMMA ReplaceStep ==
  ASSUME Fleet!FleetAssumption, FleetInv, NEW t \in Task, Fleet!Replace(t)
  PROVE  FleetInv'
<1>1. /\ session[t].at = "call"
      /\ replaced' = [replaced EXCEPT ![t] = @ \cup {session[t].workspace}]
      /\ session' = [session EXCEPT ![t] = Fleet!Fresh(state[t].patch)]
      /\ running' = running /\ state' = state /\ lease' = lease /\ tree' = tree
  BY DEF Fleet!Replace, Fleet!At, Fleet!durable
<1>2. /\ state[t] \in [done : Nat, patch : Patches] /\ session[t].workspace \in Nat
      /\ Working(t) /\ Holding(t)
  BY TaskTyped DEF Sessions
<1>3. /\ session' \in [Task -> Sessions]
      /\ \A u \in Task : u # t => session'[u] = session[u]
      /\ session'[t].at = "call" /\ session'[t].worker = NoWorker
      /\ session'[t].prepared = FALSE /\ session'[t].restore = state[t].patch
      /\ session'[t].sent = 0
  BY <1>1, <1>2, FreshTyped DEF FleetInv, FleetTyped
<1>4. /\ replaced' \in [Task -> SUBSET Nat] /\ IsFiniteSet(replaced'[t])
      /\ \A u \in Task : u # t => replaced'[u] = replaced[u]
  <2>1. /\ replaced' \in [Task -> SUBSET Nat] /\ \A u \in Task : u # t => replaced'[u] = replaced[u]
        /\ replaced'[t] = replaced[t] \cup {session[t].workspace}
    BY <1>1, <1>2 DEF FleetInv, FleetTyped
  <2>2. IsFiniteSet(replaced[t])
    BY <1>2 DEF Holding
  <2>3. IsFiniteSet(replaced[t] \cup {session[t].workspace})
    BY <2>2, FS_AddElement
  <2> QED BY <2>1, <2>3
<1>5. FleetTyped'
  BY <1>1, <1>3, <1>4 DEF FleetInv, FleetTyped
<1>6. SlotsKept'
  BY <1>1 DEF FleetInv, SlotsKept, Holders
<1>7. Working(t)'
  <2>1. state[t].done < Len(Plan[t])
    BY <1>1, <1>2 DEF Working
  <2>2. state[t].done + 1 \in 1..Len(Plan[t])
    BY <1>2, <2>1, TaskTyped
  <2>3. 0 <= Plan[t][state[t].done + 1]
    BY <2>2, EditsTyped
  <2> QED BY <1>1, <1>2, <1>3, <2>1, <2>3 DEF Working
<1>8. Holding(t)'
  BY <1>1, <1>2, <1>3, <1>4 DEF Holding
<1> QED BY <1>1, <1>3, <1>4, <1>5, <1>6, <1>7, <1>8, OneTask

\* A replaced session disposes of what is its own.
LEMMA DisposeStep ==
  ASSUME Fleet!FleetAssumption, FleetInv, NEW t \in Task, NEW ws \in replaced[t],
         Fleet!Dispose(t, ws)
  PROVE  FleetInv'
<1>1. /\ replaced' = [replaced EXCEPT ![t] = @ \ {ws}]
      /\ lease' = Fleet!Released(t, ws) /\ Fleet!Forget(t, ws)
      /\ running' = running /\ state' = state /\ session' = session
  BY DEF Fleet!Dispose, Fleet!durable
<1>2. Working(t) /\ Holding(t)
  BY TaskTyped
<1>3. /\ replaced' \in [Task -> SUBSET Nat] /\ replaced'[t] = replaced[t] \ {ws}
      /\ \A u \in Task : u # t => replaced'[u] = replaced[u]
  BY <1>1 DEF FleetInv, FleetTyped
<1>4. IsFiniteSet(replaced'[t])
  BY <1>2, <1>3, FS_RemoveElement DEF Holding
<1>5. FleetTyped'
  BY <1>1, <1>3, ReleasedIs, ForgetIs DEF FleetInv, FleetTyped
<1>6. SlotsKept'
  <2>1. \A u \in Task : lease'[u] \in {lease[u], NoLease}
    BY <1>1, ReleasedIs
  <2> QED BY <2>1, FewerLeases DEF FleetInv
<1>7. session[t].prepared => /\ session[t].workspace \in DOMAIN tree'[t]
                             /\ tree'[t][session[t].workspace] = tree[t][session[t].workspace]
  BY <1>1, <1>2, ForgetIs DEF Holding
<1>8. Working(t)'
  BY <1>1, <1>2, <1>7 DEF Working
<1>9. Holding(t)'
  <2>1. IsFiniteSet(DOMAIN tree'[t]) /\ DOMAIN tree'[t] = DOMAIN tree[t] \ {ws}
    BY <1>1, ForgetIs
  <2>2. \/ lease'[t] = lease[t]
        \/ lease[t].workspace = ws
    BY <1>1, ReleasedIs
  <2> QED BY <1>1, <1>2, <1>3, <1>4, <1>7, <2>1, <2>2 DEF Holding
<1>10. \A u \in Task : u # t => lease'[u] = lease[u] /\ tree'[u] = tree[u]
  BY <1>1, ReleasedIs, ForgetIs
<1> QED BY <1>1, <1>3, <1>5, <1>6, <1>8, <1>9, <1>10, OneTask

\* The host dies: what is durable is left.
LEMMA CrashStep ==
  ASSUME Fleet!FleetAssumption, FleetInv, Fleet!Crash
  PROVE  FleetInv'
<1>1. /\ session' = [t \in Task |-> Fleet!Closed] /\ replaced' = [t \in Task |-> {}]
      /\ tree' = [t \in Task |-> <<>>]
      /\ running' = running /\ state' = state /\ lease' = lease
  BY DEF Fleet!Crash, Fleet!durable
<1>2. FleetTyped'
  BY <1>1, ClosedTyped DEF FleetInv, FleetTyped
<1>3. SlotsKept'
  BY <1>1 DEF FleetInv, SlotsKept, Holders
<1>4. ASSUME NEW t \in Task PROVE Working(t)' /\ Holding(t)'
  <2>1. DOMAIN tree'[t] = {} /\ IsFiniteSet({}) /\ session'[t] = Fleet!Closed /\ replaced'[t] = {}
    BY <1>1, FS_EmptySet
  <2>2. Working(t)
    BY TaskTyped
  <2>3. Working(t)'
    BY <1>1, <2>1, <2>2, ClosedTyped DEF Working
  <2>4. Holding(t)'
    BY <2>1, ClosedTyped DEF Holding
  <2> QED BY <2>3, <2>4
<1> QED BY <1>2, <1>3, <1>4 DEF FleetInv

\* The worker makes a tree, or the request fails.
LEMMA PrepareStep ==
  ASSUME Fleet!FleetAssumption, FleetInv, NEW t \in Task, Fleet!Prepare(t)
  PROVE  FleetInv'
<1>1. CASE Fleet!Failover(t)
  BY <1>1, FailoverStep DEF Fleet!Prepare
<1>2. CASE ~Fleet!Failover(t)
  <2> DEFINE ws == session[t].workspace
             D  == DOMAIN tree[t] \cup {ws}
             ours == [x \in D |-> IF x \in DOMAIN tree[t] THEN tree[t][x] ELSE session[t].restore]
  <2>1. /\ session[t].at = "call" /\ session[t].worker # NoWorker /\ ~session[t].prepared
        /\ tree' = [tree EXCEPT ![t] = ours]
        /\ session' = [session EXCEPT ![t].prepared = TRUE]
        /\ running' = running /\ state' = state /\ replaced' = replaced /\ lease' = lease
    BY <1>2 DEF Fleet!Prepare, Fleet!Reaches, Fleet!At, Fleet!Prepared, Fleet!durable
  <2>2. session[t] \in Sessions /\ Working(t) /\ Holding(t)
    BY TaskTyped
  <2>3. ws \notin DOMAIN tree[t]
    BY <2>1, <2>2 DEF Holding
  <2>4. /\ DOMAIN tree' = Task /\ \A u \in Task : u # t => tree'[u] = tree[u]
        /\ tree'[t] = ours
    BY <2>1 DEF FleetInv, FleetTyped
  <2>5. DOMAIN ours = D /\ ours[ws] = session[t].restore
    BY <2>3
  <2> HIDE DEF ours
  <2>6. /\ session' \in [Task -> Sessions]
        /\ \A u \in Task : u # t => session'[u] = session[u]
        /\ session'[t].at = session[t].at /\ session'[t].worker = session[t].worker
        /\ session'[t].workspace = ws /\ session'[t].prepared = TRUE
        /\ session'[t].restore = session[t].restore /\ session'[t].sent = session[t].sent
    BY <2>1 DEF FleetInv, FleetTyped, Sessions
  <2>7. FleetTyped'
    BY <2>1, <2>4, <2>6 DEF FleetInv, FleetTyped
  <2>8. SlotsKept'
    BY <2>1 DEF FleetInv, SlotsKept, Holders
  <2>9. Working(t)'
    <3>1. /\ state[t].done < Len(Plan[t]) /\ session[t].restore = Fleet!Edited(t, state[t].done)
          /\ session[t].sent = 0
      BY <2>1, <2>2 DEF Working
    <3>2. Fleet!Edited(t, state[t].done) \in Patches
      BY <3>1, TaskTyped, EditedTyped
    <3>3. SubSeq(Fleet!Edits(t, state[t].done + 1), 1, 0) = <<>>
      BY SubSeqEmpty
    <3>4. ours[ws] = Fleet!Edited(t, state[t].done) \o <<>>
      BY <2>5, <3>1, <3>2, ConcatEmptySeq DEF Patches
    <3>5. tree'[t][session'[t].workspace] = Fleet!Edited(t, state[t].done)
            \o SubSeq(Fleet!Edits(t, state[t].done + 1), 1, session'[t].sent)
      BY <2>4, <2>6, <3>1, <3>3, <3>4
    <3>6. /\ session'[t].at = "call" /\ session'[t].restore = Fleet!Edited(t, state[t].done)
          /\ session'[t].sent <= Plan[t][state[t].done + 1] /\ session'[t].prepared
      BY <2>1, <2>2, <2>6, <3>1 DEF Working
    <3> QED BY <2>1, <2>2, <3>1, <3>5, <3>6 DEF Working
  <2>10. Holding(t)'
    <3>1. IsFiniteSet(DOMAIN tree[t])
      BY <2>2 DEF Holding
    <3>2. IsFiniteSet(D)
      BY <3>1, FS_AddElement
    <3> QED BY <2>1, <2>2, <2>4, <2>5, <2>6, <3>2 DEF Holding
  <2> QED BY <2>1, <2>4, <2>6, <2>7, <2>8, <2>9, <2>10, OneTask
<1> QED BY <1>1, <1>2

\* A part of a sequence.
LEMMA PartTyped ==
  ASSUME NEW V, NEW q \in Seq(V), NEW a \in Nat, NEW b \in Nat, a <= b, b <= Len(q)
  PROVE  /\ SubSeq(q, a + 1, b) \in Seq(V) /\ Len(SubSeq(q, a + 1, b)) = b - a
         /\ \A i \in 1..b-a : SubSeq(q, a + 1, b)[i] = q[a + i]
<1>1. PICK m \in Int : m = a + 1
  OBVIOUS
<1>2. \A i \in m..b : q[i] \in V
  BY <1>1
<1>3. /\ SubSeq(q, m, b) \in Seq(V) /\ Len(SubSeq(q, m, b)) = IF m <= b THEN b - m + 1 ELSE 0
      /\ \A i \in 1..b-m+1 : SubSeq(q, m, b)[i] = q[m+i-1]
  BY <1>2, SubSeqProperties
<1>4. \A i \in 1..b-a : i \in 1..b-m+1 /\ m+i-1 = a+i
  BY <1>1
<1>5. Len(SubSeq(q, m, b)) = b - a
  BY <1>1, <1>3
<1>6. \A i \in 1..b-a : SubSeq(q, m, b)[i] = q[a+i]
  BY <1>3, <1>4
<1> QED BY <1>1, <1>3, <1>5, <1>6

LEMMA PartOfRest ==
  ASSUME NEW V, NEW q \in Seq(V), NEW a \in Nat, NEW n \in Nat, a + n <= Len(q)
  PROVE  SubSeq(SubSeq(q, a + 1, Len(q)), 1, n) = SubSeq(q, a + 1, a + n)
<1> DEFINE r == SubSeq(q, a + 1, Len(q))
<1>1. Len(q) \in Nat /\ a <= Len(q) /\ a + n \in Nat /\ a <= a + n
  OBVIOUS
<1>2. r \in Seq(V) /\ Len(r) = Len(q) - a /\ \A i \in 1..Len(q)-a : r[i] = q[a+i]
  BY <1>1, PartTyped
<1> HIDE DEF r
<1>3. /\ SubSeq(q, a + 1, a + n) \in Seq(V) /\ Len(SubSeq(q, a + 1, a + n)) = a + n - a
      /\ \A i \in 1..a+n-a : SubSeq(q, a + 1, a + n)[i] = q[a+i]
  BY <1>1, PartTyped
<1>4. /\ SubSeq(r, 0 + 1, n) \in Seq(V) /\ Len(SubSeq(r, 0 + 1, n)) = n - 0
      /\ \A i \in 1..n-0 : SubSeq(r, 0 + 1, n)[i] = r[0 + i]
  BY <1>1, <1>2, PartTyped
<1>5. 0 + 1 = 1 /\ n - 0 = n /\ a + n - a = n
  OBVIOUS
<1>6. \A i \in 1..n : 0 + i = i /\ i \in 1..Len(q)-a
  BY <1>1
<1>7. \A i \in 1..n : SubSeq(r, 1, n)[i] = SubSeq(q, a + 1, a + n)[i]
  BY <1>2, <1>3, <1>4, <1>5, <1>6
<1>8. SubSeq(r, 1, n) = SubSeq(q, a + 1, a + n)
  BY <1>3, <1>4, <1>5, <1>7, SeqEqual
<1> QED BY <1>8 DEF r

LEMMA Regrouped ==
  ASSUME NEW p \in Patches, NEW q \in Patches, NEW r \in Patches
  PROVE  (p \o q) \o r = p \o (q \o r)
<1>1. PICK V : Patches = Seq(V)
  BY DEF Patches
<1> QED BY <1>1, ConcatAssociative

\* The edits of the next request follow those that were sent.
LEMMA ChunkIs ==
  ASSUME Fleet!FleetAssumption, FleetInv, NEW t \in Task,
         session[t].at = "call", session[t].prepared
  PROVE  LET done == state[t].done
             size == Plan[t][done + 1]
             sent == session[t].sent
             now  == sent + Len(Fleet!Chunk(t))
         IN  /\ done + 1 \in 1..Len(Plan[t]) /\ size \in Nat /\ now \in Nat /\ now <= size
             /\ Fleet!Edited(t, done) \in Patches
             /\ tree[t][session[t].workspace] \o Fleet!Chunk(t)
                  = Fleet!Edited(t, done) \o SubSeq(Fleet!Edits(t, done + 1), 1, now)
             /\ Fleet!Edited(t, done) \o SubSeq(Fleet!Edits(t, done + 1), 1, size)
                  = Fleet!Edited(t, done + 1)
<1> DEFINE done == state[t].done
           size == Plan[t][done + 1]
           sent == session[t].sent
           all  == Fleet!Edits(t, done + 1)
           base == Fleet!Edited(t, done)
           rest == SubSeq(all, sent + 1, size)
<1>1. /\ done < Len(Plan[t]) /\ sent <= size /\ sent \in Nat /\ done \in Nat
      /\ Len(Plan[t]) \in Nat
      /\ tree[t][session[t].workspace] = base \o SubSeq(all, 1, sent)
  BY TaskTyped DEF Working, Sessions
<1>2. done + 1 \in 1..Len(Plan[t]) /\ done \in 0..Len(Plan[t])
  BY <1>1
<1>3. size \in Nat /\ all \in Patches /\ Len(all) = size /\ base \in Patches
  BY <1>2, EditsTyped, EditedTyped
<1>4. Fleet!Chunk(t) = IF Len(rest) > Width THEN SubSeq(rest, 1, Width) ELSE rest
  BY DEF Fleet!Chunk, Fleet!Batch
<1> HIDE DEF done, size, sent, all, base
<1>5. rest \in Patches /\ Len(rest) = size - sent
  BY <1>1, <1>3, PartTyped DEF Patches
<1>6. PICK now \in sent..size : Fleet!Chunk(t) = SubSeq(all, sent + 1, now)
  <2>1. CASE Len(rest) > Width
    <3>1. Width \in Nat \ {0} /\ sent + Width \in sent..size
      BY <1>1, <1>3, <1>5, <2>1 DEF Fleet!FleetAssumption
    <3>2. SubSeq(rest, 1, Width) = SubSeq(all, sent + 1, sent + Width)
      BY <1>1, <1>3, <3>1, PartOfRest DEF Patches
    <3> QED BY <1>4, <2>1, <3>1, <3>2
  <2>2. CASE ~(Len(rest) > Width)
    <3>1. Fleet!Chunk(t) = SubSeq(all, sent + 1, size) /\ size \in sent..size
      BY <1>1, <1>3, <1>4, <2>2
    <3> QED BY <3>1
  <2> QED BY <2>1, <2>2
<1>7. now \in Nat /\ now <= size /\ sent <= now
  BY <1>1, <1>3, <1>6
<1>8. Fleet!Chunk(t) \in Patches /\ Len(Fleet!Chunk(t)) = now - sent
  BY <1>1, <1>3, <1>6, <1>7, PartTyped DEF Patches
<1>9. SubSeq(all, 1, sent) \o SubSeq(all, sent + 1, now) = SubSeq(all, 1, now)
  <2>1. 1 \in 1..Len(all)+1 /\ sent \in 1-1..Len(all) /\ now \in sent..Len(all)
    BY <1>1, <1>3, <1>7
  <2> QED BY <1>3, <2>1, ConcatAdjacentSubSeq DEF Patches
<1>10. SubSeq(all, 1, sent) \in Patches
  <2>1. \A i \in 1..sent : all[i] \in Nat \X Nat
    BY <1>1, <1>3 DEF Patches
  <2> QED BY <1>1, <2>1, SubSeqProperties DEF Patches
<1>11. (base \o SubSeq(all, 1, sent)) \o Fleet!Chunk(t) = base \o SubSeq(all, 1, now)
  <2>1. (base \o SubSeq(all, 1, sent)) \o Fleet!Chunk(t)
          = base \o (SubSeq(all, 1, sent) \o Fleet!Chunk(t))
    BY <1>3, <1>8, <1>10, Regrouped
  <2> QED BY <1>6, <1>9, <2>1
<1>12. base \o SubSeq(all, 1, size) = Fleet!Edited(t, done + 1)
  <2>1. SubSeq(all, 1, size) = all
    BY <1>3, SubSeqFull DEF Patches
  <2>2. Fleet!Edited(t, done + 1) = base \o all
    BY <1>1, <1>2, <1>3, NextEdited DEF base, all
  <2> QED BY <2>1, <2>2
<1>13. sent + Len(Fleet!Chunk(t)) = now
  BY <1>1, <1>7, <1>8
<1> QED BY <1>1, <1>2, <1>3, <1>7, <1>11, <1>12, <1>13 DEF done, size, sent, all, base

\* Edits are sent; with the last reply, and no other, the patch is kept.
LEMMA WriteStep ==
  ASSUME Fleet!FleetAssumption, FleetInv, NEW t \in Task, Fleet!Write(t)
  PROVE  FleetInv'
<1>1. CASE Fleet!Failover(t)
  BY <1>1, FailoverStep DEF Fleet!Write
<1>2. CASE ~Fleet!Failover(t)
  <2> DEFINE ws   == session[t].workspace
             done == state[t].done
             size == Plan[t][done + 1]
             now  == session[t].sent + Len(Fleet!Chunk(t))
             place == IF now = size THEN "answered" ELSE "call"
             keep  == IF now = size THEN tree'[t][ws] ELSE session[t].restore
  <2>1. /\ session[t].at = "call" /\ session[t].worker # NoWorker /\ session[t].prepared
        /\ tree' = [tree EXCEPT ![t][ws] = @ \o Fleet!Chunk(t)]
        /\ session' = [session EXCEPT ![t].sent = now, ![t].at = place, ![t].restore = keep]
        /\ running' = running /\ state' = state /\ replaced' = replaced /\ lease' = lease
    BY <1>2 DEF Fleet!Write, Fleet!Reaches, Fleet!At, Fleet!Answered, Fleet!Batch, Fleet!durable
  <2>2. session[t] \in Sessions /\ Working(t) /\ Holding(t)
    BY TaskTyped
  <2>3. /\ done + 1 \in 1..Len(Plan[t]) /\ size \in Nat /\ now \in Nat /\ now <= size
        /\ Fleet!Edited(t, done) \in Patches
        /\ tree[t][ws] \o Fleet!Chunk(t)
             = Fleet!Edited(t, done) \o SubSeq(Fleet!Edits(t, done + 1), 1, now)
        /\ Fleet!Edited(t, done) \o SubSeq(Fleet!Edits(t, done + 1), 1, size)
             = Fleet!Edited(t, done + 1)
    BY <2>1, ChunkIs
  <2>4. ws \in DOMAIN tree[t]
    BY <2>1, <2>2 DEF Holding
  <2>5. /\ DOMAIN tree' = Task /\ \A u \in Task : u # t => tree'[u] = tree[u]
        /\ DOMAIN tree'[t] = DOMAIN tree[t] /\ tree'[t][ws] = tree[t][ws] \o Fleet!Chunk(t)
    BY <2>1, <2>4 DEF FleetInv, FleetTyped
  <2>6. now = size => tree'[t][ws] = Fleet!Edited(t, done + 1)
    BY <2>3, <2>5
  <2>7. done \in 0..Len(Plan[t]) /\ done < Len(Plan[t]) /\ done + 1 \in 0..Len(Plan[t])
    BY <2>3, TaskTyped
  <2>8. keep \in Patches
    <3>1. now = size => keep \in Patches
      BY <2>6, <2>7, EditedTyped
    <3> QED BY <2>2, <3>1 DEF Sessions
  <2>9. now # size => keep = session[t].restore
    OBVIOUS
  <2>10. now = size => keep = tree'[t][ws]
    OBVIOUS
  <2>11. place \in Phases /\ place = IF now = size THEN "answered" ELSE "call"
    BY DEF Phases
  <2> HIDE DEF now, keep, place
  <2>12. session \in [Task -> Sessions]
    BY DEF FleetInv, FleetTyped
  <2> DEFINE r == [session[t] EXCEPT !.sent = now, !.at = place, !.restore = keep]
  <2>13. session' = [session EXCEPT ![t] = r]
    BY <2>1, <2>12
  <2>14. /\ r \in Sessions /\ r.at = place /\ r.worker = session[t].worker /\ r.workspace = ws
         /\ r.prepared /\ r.restore = keep /\ r.sent = now
    BY <2>1, <2>2, <2>3, <2>8, <2>11 DEF Sessions
  <2> HIDE DEF r
  <2>15. /\ session' \in [Task -> Sessions] /\ session'[t] = r
         /\ \A u \in Task : u # t => session'[u] = session[u]
    BY <2>12, <2>13, <2>14
  <2>16. FleetTyped'
    BY <2>1, <2>5, <2>15 DEF FleetInv, FleetTyped
  <2>17. SlotsKept'
    BY <2>1 DEF FleetInv, SlotsKept, Holders
  <2>18. Working(t)'
    <3>1. done <= Len(Plan[t]) /\ state[t].patch = Fleet!Edited(t, done)
          /\ session[t].restore = Fleet!Edited(t, done)
      BY <2>1, <2>2 DEF Working
    <3>2. tree'[t][session'[t].workspace] = tree'[t][ws]
      BY <2>14, <2>15
    <3>3. CASE now = size
      <4>1. session'[t].at = "answered" /\ session'[t].restore = tree'[t][ws]
        BY <2>10, <2>11, <2>14, <2>15, <3>3
      <4> QED BY <2>1, <2>6, <2>7, <2>14, <2>15, <3>1, <3>2, <3>3, <4>1 DEF Working
    <3>4. CASE now # size
      <4>1. session'[t].at = "call" /\ session'[t].restore = Fleet!Edited(t, done)
            /\ session'[t].sent = now /\ session'[t].prepared
        BY <2>9, <2>11, <2>14, <2>15, <3>1, <3>4
      <4>2. tree'[t][ws] = Fleet!Edited(t, done) \o SubSeq(Fleet!Edits(t, done + 1), 1, now)
        BY <2>3, <2>5
      <4> QED BY <2>1, <2>3, <2>7, <3>1, <3>2, <4>1, <4>2 DEF Working
    <3> QED BY <3>3, <3>4
  <2>19. Holding(t)'
    BY <2>1, <2>2, <2>5, <2>14, <2>15 DEF Holding
  <2> QED BY <2>1, <2>5, <2>15, <2>16, <2>17, <2>18, <2>19, OneTask
<1> QED BY <1>1, <1>2

\* A session that goes on where its trees, leases and batches are untouched.
LEMMA SessionStep ==
  ASSUME Fleet!FleetAssumption, FleetInv, NEW t \in Task, NEW r \in Sessions,
         session' = [session EXCEPT ![t] = r],
         r.worker = session[t].worker, r.workspace = session[t].workspace,
         r.prepared = session[t].prepared,
         UNCHANGED <<running, state, replaced, lease, tree>>,
         Working(t)'
  PROVE  FleetInv'
<1>1. /\ session' \in [Task -> Sessions] /\ session'[t] = r
      /\ \A u \in Task : u # t => session'[u] = session[u]
  BY DEF FleetInv, FleetTyped
<1>2. FleetTyped'
  BY <1>1 DEF FleetInv, FleetTyped
<1>3. SlotsKept'
  BY DEF FleetInv, SlotsKept, Holders
<1>4. Holding(t)'
  <2>1. Holding(t)
    BY TaskTyped
  <2> QED BY <1>1, <2>1 DEF Holding
<1> QED BY <1>1, <1>2, <1>3, <1>4, OneTask

\* A check leaves the tree as it is; its batch has no edits.
LEMMA CheckStep ==
  ASSUME Fleet!FleetAssumption, FleetInv, NEW t \in Task, Fleet!Check(t)
  PROVE  FleetInv'
<1>1. CASE Fleet!Failover(t)
  BY <1>1, FailoverStep DEF Fleet!Check
<1>2. CASE ~Fleet!Failover(t)
  <2> DEFINE r    == [session[t] EXCEPT !.at = "snapshot"]
             done == state[t].done
  <2>1. /\ session[t].at = "call" /\ session[t].prepared /\ Plan[t][done + 1] = 0
        /\ session' = [session EXCEPT ![t].at = "snapshot"]
        /\ running' = running /\ state' = state /\ replaced' = replaced
        /\ lease' = lease /\ tree' = tree
    BY <1>2 DEF Fleet!Check, Fleet!Reaches, Fleet!At, Fleet!Batch, Fleet!durable
  <2>2. session[t] \in Sessions /\ Working(t) /\ session \in [Task -> Sessions]
    BY TaskTyped DEF FleetInv, FleetTyped
  <2>3. /\ session' = [session EXCEPT ![t] = r] /\ r \in Sessions /\ r.at = "snapshot"
        /\ r.worker = session[t].worker /\ r.workspace = session[t].workspace
        /\ r.prepared = session[t].prepared
    BY <2>1, <2>2 DEF Sessions, Phases
  <2> HIDE DEF r
  <2>4. /\ done < Len(Plan[t]) /\ session[t].sent = 0
        /\ tree[t][session[t].workspace]
             = Fleet!Edited(t, done) \o SubSeq(Fleet!Edits(t, done + 1), 1, session[t].sent)
    BY <2>1, <2>2 DEF Working, Sessions
  <2>5. Fleet!Edited(t, done) \o SubSeq(Fleet!Edits(t, done + 1), 1, 0)
          = Fleet!Edited(t, done + 1)
    BY <2>1, ChunkIs
  <2>6. session'[t] = r
    BY <2>2, <2>3
  <2>7. Working(t)'
    BY <2>1, <2>2, <2>3, <2>4, <2>5, <2>6 DEF Working
  <2> QED BY <2>1, <2>3, <2>7, SessionStep
<1> QED BY <1>1, <1>2

\* The snapshot of the tree is kept, or the attempt fails.
LEMMA SnapshotStep ==
  ASSUME Fleet!FleetAssumption, FleetInv, NEW t \in Task, Fleet!Snapshot(t)
  PROVE  FleetInv'
<1> DEFINE ours == tree[t][session[t].workspace]
           kept == [session[t] EXCEPT !.at = "answered", !.restore = ours]
           lost == [session[t] EXCEPT !.at = "closing"]
<1>1. /\ session[t].at = "snapshot"
      /\ running' = running /\ state' = state /\ replaced' = replaced
      /\ lease' = lease /\ tree' = tree
  BY DEF Fleet!Snapshot, Fleet!At, Fleet!durable
<1>2. session[t] \in Sessions /\ Working(t) /\ session \in [Task -> Sessions]
  BY TaskTyped DEF FleetInv, FleetTyped
<1>3. /\ state[t].done < Len(Plan[t]) /\ session[t].prepared
      /\ ours = Fleet!Edited(t, state[t].done + 1)
  BY <1>1, <1>2 DEF Working
<1>4. state[t].done + 1 \in 0..Len(Plan[t])
  BY <1>3, TaskTyped
<1>5. ours \in Patches
  BY <1>3, <1>4, EditedTyped
<1>6. CASE session' = [session EXCEPT ![t].at = "answered", ![t].restore = ours]
  <2>1. /\ session' = [session EXCEPT ![t] = kept] /\ kept \in Sessions /\ kept.at = "answered"
        /\ kept.worker = session[t].worker /\ kept.workspace = session[t].workspace
        /\ kept.prepared = session[t].prepared /\ kept.restore = ours
    BY <1>2, <1>5, <1>6 DEF Sessions, Phases
  <2> HIDE DEF kept
  <2>2. session'[t] = kept
    BY <1>2, <2>1
  <2>3. Working(t)'
    BY <1>1, <1>2, <1>3, <2>1, <2>2 DEF Working
  <2> QED BY <1>1, <2>1, <2>3, SessionStep
<1>7. CASE session' = [session EXCEPT ![t].at = "closing"]
  <2>1. /\ session' = [session EXCEPT ![t] = lost] /\ lost \in Sessions /\ lost.at = "closing"
        /\ lost.worker = session[t].worker /\ lost.workspace = session[t].workspace
        /\ lost.prepared = session[t].prepared
    BY <1>2, <1>7 DEF Sessions, Phases
  <2> HIDE DEF lost
  <2>2. session'[t] = lost
    BY <1>2, <2>1
  <2>3. Working(t)'
    BY <1>1, <1>2, <2>1, <2>2 DEF Working
  <2> QED BY <1>1, <2>1, <2>3, SessionStep
<1> QED BY <1>6, <1>7 DEF Fleet!Snapshot

\* The results of a batch and the patch that has its edits are published together.
LEMMA PublishStep ==
  ASSUME Fleet!FleetAssumption, FleetInv, NEW t \in Task, Fleet!Publish(t)
  PROVE  FleetInv'
<1> DEFINE done  == state[t].done
           patch == session[t].restore
           place == IF state'[t].done = Len(Plan[t]) THEN "closing" ELSE "call"
           r     == [session[t] EXCEPT !.sent = 0, !.at = place]
<1>1. /\ session[t].at = "answered"
      /\ state' = [state EXCEPT ![t] = [done |-> done + 1, patch |-> patch]]
      /\ session' = [session EXCEPT ![t].sent = 0, ![t].at = place]
      /\ running' = running /\ replaced' = replaced /\ lease' = lease /\ tree' = tree
  BY DEF Fleet!Publish, Fleet!At
<1>2. /\ session[t] \in Sessions /\ Working(t) /\ Holding(t) /\ session \in [Task -> Sessions]
      /\ Len(Plan[t]) \in Nat /\ done \in Nat /\ patch \in Patches
      /\ state \in [Task -> [done : Nat, patch : Patches]]
  BY TaskTyped DEF FleetInv, FleetTyped, Sessions
<1>3. /\ done < Len(Plan[t]) /\ session[t].prepared
      /\ patch = Fleet!Edited(t, done + 1)
      /\ tree[t][session[t].workspace] = patch
  BY <1>1, <1>2 DEF Working
<1>4. /\ state' \in [Task -> [done : Nat, patch : Patches]]
      /\ \A u \in Task : u # t => state'[u] = state[u]
      /\ state'[t].done = done + 1 /\ state'[t].patch = patch
  BY <1>1, <1>2
<1>5. place = IF done + 1 = Len(Plan[t]) THEN "closing" ELSE "call"
  BY <1>4
<1>6. place \in Phases
  BY DEF Phases
<1> HIDE DEF place, patch
<1>7. /\ session' = [session EXCEPT ![t] = r] /\ r \in Sessions /\ r.at = place /\ r.sent = 0
      /\ r.worker = session[t].worker /\ r.workspace = session[t].workspace
      /\ r.prepared = session[t].prepared /\ r.restore = patch
  BY <1>1, <1>2, <1>6 DEF Sessions, patch
<1> HIDE DEF r
<1>8. /\ session' \in [Task -> Sessions] /\ session'[t] = r
      /\ \A u \in Task : u # t => session'[u] = session[u]
  BY <1>2, <1>7
<1>9. FleetTyped'
  BY <1>1, <1>4, <1>8 DEF FleetInv, FleetTyped
<1>10. SlotsKept'
  BY <1>1 DEF FleetInv, SlotsKept, Holders
<1>11. Holding(t)'
  BY <1>1, <1>2, <1>7, <1>8 DEF Holding
<1>12. Working(t)'
  <2>1. CASE done + 1 = Len(Plan[t])
    BY <1>2, <1>3, <1>4, <1>5, <1>7, <1>8, <2>1 DEF Working
  <2>2. CASE done + 1 # Len(Plan[t])
    <3>1. /\ done + 1 + 1 \in 1..Len(Plan[t]) /\ done + 1 \in 0..Len(Plan[t])
          /\ done + 1 < Len(Plan[t]) /\ done + 1 <= Len(Plan[t])
      BY <1>2, <1>3, <2>2
    <3>2. 0 <= Plan[t][done + 1 + 1]
      BY <3>1, EditsTyped
    <3>3. SubSeq(Fleet!Edits(t, done + 1 + 1), 1, 0) = <<>>
      BY SubSeqEmpty
    <3>4. Fleet!Edited(t, done + 1) \o <<>> = Fleet!Edited(t, done + 1)
      BY <3>1, EditedTyped, ConcatEmptySeq DEF Patches
    <3>5. tree'[t][session'[t].workspace] = Fleet!Edited(t, done + 1)
            \o SubSeq(Fleet!Edits(t, done + 1 + 1), 1, 0)
      BY <1>1, <1>3, <1>7, <1>8, <3>3, <3>4
    <3>6. /\ session'[t].at = "call" /\ session'[t].restore = Fleet!Edited(t, done + 1)
          /\ session'[t].sent = 0 /\ session'[t].prepared
      BY <1>3, <1>5, <1>7, <1>8, <2>2
    <3> QED BY <1>3, <1>4, <3>1, <3>2, <3>5, <3>6 DEF Working
  <2> QED BY <2>1, <2>2
<1> QED BY <1>1, <1>4, <1>8, <1>9, <1>10, <1>11, <1>12, OneTask

\* Every step keeps the invariant.
LEMMA FleetStep ==
  ASSUME Fleet!FleetAssumption, FleetInv, [Fleet!Next]_Fleet!vars
  PROVE  FleetInv'
<1>1. CASE UNCHANGED <<running, state, session, replaced, lease, tree>>
  BY <1>1 DEF FleetInv, FleetTyped, SlotsKept, Holders, Working, Holding
<1>2. CASE UNCHANGED Fleet!vars \/ \E w \in Worker : Fleet!Rested(w)
  BY <1>1, <1>2 DEF Fleet!vars, Fleet!durable, Fleet!Rested
<1> QED BY <1>2, OpenStep, ClaimStep, PrepareStep, WriteStep, CheckStep, SnapshotStep,
           PublishStep, CloseStep, ExpireStep, ReplaceStep, DisposeStep, CrashStep
        DEF Fleet!Next

LEMMA FleetKept ==
  ASSUME Fleet!FleetAssumption, FleetInv
  PROVE  Fleet!PublishedOnce /\ Fleet!NotOverbooked
<1>1. Fleet!PublishedOnce
  BY DEF Fleet!PublishedOnce, FleetInv, Working
<1>2. ASSUME NEW t \in Task, running[t], session[t].worker # NoWorker
      PROVE  /\ lease[t] = [worker |-> session[t].worker, workspace |-> session[t].workspace]
             /\ lease[t] # NoLease
  <2>1. lease[t] = [worker |-> session[t].worker, workspace |-> session[t].workspace]
    BY <1>2, TaskTyped DEF Holding
  <2>2. session[t].worker \in Worker /\ session[t].workspace \in Nat
    BY <1>2, TaskTyped DEF Sessions
  <2> QED BY <2>1, <2>2 DEF Fleet!FleetAssumption
<1>3. ASSUME NEW w \in Worker
      PROVE  Fleet!Cardinality({t \in Task : running[t] /\ session[t].worker = w}) <= Serves[w]
  <2> DEFINE S == {t \in Task : running[t] /\ session[t].worker = w}
  <2>1. S \subseteq Holders(w)
    <3> SUFFICES ASSUME NEW t \in Task, running[t], session[t].worker = w
                 PROVE  lease[t] # NoLease /\ lease[t].worker = w
      BY DEF Holders
    <3>1. session[t].worker # NoWorker
      BY DEF Fleet!FleetAssumption
    <3>2. lease[t] = [worker |-> session[t].worker, workspace |-> session[t].workspace]
          /\ lease[t] # NoLease
      BY <1>2, <3>1, Zenon
    <3> QED BY <3>2
  <2>2. IsFiniteSet(Holders(w))
    <3>1. IsFiniteSet(Task) /\ Holders(w) \subseteq Task
      BY FleetCounted DEF Fleet!FleetAssumption, Holders
    <3> QED BY <3>1, FS_Subset
  <2> HIDE DEF S
  <2>3. IsFiniteSet(S) /\ Cardinality(S) <= Cardinality(Holders(w))
    BY <2>1, <2>2, FS_Subset
  <2>4. Cardinality(S) \in Nat /\ Cardinality(Holders(w)) \in Nat
    BY <2>2, <2>3, FS_CardinalityType
  <2>5. Cardinality(Holders(w)) <= Serves[w] /\ Serves[w] \in Nat
    BY DEF FleetInv, SlotsKept, Fleet!FleetAssumption
  <2>6. Cardinality(S) <= Serves[w]
    BY <2>3, <2>4, <2>5
  <2> QED BY <2>6, FleetCounted DEF S
<1> QED BY <1>1, <1>2, <1>3 DEF Fleet!NotOverbooked

-----------------------------------------------------------------------------
(* In the host, whose behaviours are those of one component each.          *)

LEMMA ExecutionTurn ==
  ASSUME [Next]_vars
  PROVE  /\ focus' = focus
         /\ focus = "fleet" => [Fleet!Next]_Fleet!vars
         /\ focus = "tools" => [Tools!Next]_Tools!vars
<1>1. CASE UNCHANGED vars
  BY <1>1 DEF vars, fleetVars, toolVars, Fleet!vars, Fleet!durable, Tools!vars, Tools!tools,
              Tools!collector
<1>2. CASE Next
  BY <1>2 DEF Next, InJobs, InClaims, InRecipes, InWakeups, InContext, InFleet, InTools,
              Only, Others, fleetVars, toolVars, Fleet!vars, Fleet!durable, Tools!vars,
              Tools!tools, Tools!collector
<1> QED BY <1>1, <1>2

LEMMA FleetWithin == Spec => [](focus = "fleet" => FleetInv)
<1>1. Init => (focus = "fleet" => FleetInv)
  BY HostAssumption, InitFleet DEF Init
<1>2. (focus = "fleet" => FleetInv) /\ [Next]_vars => (focus = "fleet" => FleetInv)'
  BY HostAssumption, ExecutionTurn, FleetStep
<1> QED BY <1>1, <1>2, PTL DEF Spec

\* Whatever requests are carried out in part, repeated elsewhere or lost, whatever
\* sessions are replaced or die, a thread publishes the edits of its batches once, in
\* order (toolBatches.ts: "No partial receipts can make replay skip edits").
THEOREM EditsArePublishedOnce == Spec => []PublishedOnce
<1>1. (focus = "fleet" => FleetInv) => PublishedOnce
  BY HostAssumption, FleetKept DEF PublishedOnce
<1> QED BY <1>1, FleetWithin, PTL

\* Workers serve no more attempts than they may, each under the lease that is for it
\* (workerFleet.ts, claimLease and releaseLease).
THEOREM WorkersAreNotOverbooked == Spec => []NotOverbooked
<1>1. (focus = "fleet" => FleetInv) => NotOverbooked
  BY HostAssumption, FleetKept DEF NotOverbooked
<1> QED BY <1>1, FleetWithin, PTL

\* For every response and every order of what its calls await, exclusive calls execute
\* alone, and no call of a known name starts while an earlier one is queued; if all names
\* are known, no call reports before an exclusive one that precedes it
\* (StreamingToolExecutor.ts).  The answers of safe calls may be overtaken, as the loop
\* that yields them goes past a safe call that still executes.
THEOREM ExclusiveCallsKeepOrder == Spec => []ExclusiveInOrder
<1>1. Init => (focus = "tools" => ToolInv)
  BY HostAssumption, InitTools DEF Init
<1>2. (focus = "tools" => ToolInv) /\ [Next]_vars => (focus = "tools" => ToolInv)'
  BY HostAssumption, ExecutionTurn, ToolsStep
<1>3. (focus = "tools" => ToolInv) => ExclusiveInOrder
  BY HostAssumption, ToolsInOrder DEF ExclusiveInOrder
<1> QED BY <1>1, <1>2, <1>3, PTL DEF Spec
=============================================================================
