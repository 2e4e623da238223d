--------------------------- MODULE FoundryScheduler ---------------------------
(***************************************************************************)
(* The durable scheduler of one Foundry run (src/src/harness/foundry):     *)
(* scheduler.ts with the index it plans from (schedulerIndex.ts), the      *)
(* continuations that park a task (continuation.ts), the children a worker *)
(* or the host adds to the graph (dynamicDag.ts, adjudication.ts), and the *)
(* slots of the coordinators that drive it (runtime.ts).                   *)
(*                                                                         *)
(* Every action is one BEGIN IMMEDIATE transaction of store.ts, so actions *)
(* interleave but never overlap.  What is NOT in the database is the set   *)
(* `held' of leases the coordinator processes remember: it is lost in a    *)
(* crash, and a lease in it may come back long after the database moved on.*)
(*                                                                         *)
(* Time is kept as countdowns: due[t] is the time left before t's lease    *)
(* expires, wake[t] the time left before a parked task may be claimed.     *)
(***************************************************************************)
EXTENDS Integers, Sequences, FiniteSets, FiniteSetsExt

CONSTANTS
  Task,          \* every task that can ever be in the run's graph
  Root,          \* the tasks the run is started with
  Dep,           \* Dep[t]: the dependencies in t's (immutable) specification
  Write, Read,   \* the paths of t's write scope and of its read scope
  Covers,        \* pairs <<p, q>> of paths: q is p or lies under p
  Budget,        \* Budget[P][t]: context bytes allocated to t when P is the graph
  Batch,         \* Batch[t]: the sets of children that may be proposed for t
  Adjudicator,   \* the discriminator tasks the host may admit
  Coordinator,   \* the processes that drive the run
  NoOwner,       \* the NULL owner
  Fingerprint,   \* digests of failures
  NoFingerprint, \* the NULL fingerprint of an attempt that reported no failure
  Parallelism, MaxAttempts, MaxRepeated, MaxContext, Timeout, \* the recipe
  MaxChildren, MaxDepth, MaxSpawned, MaxTasks, \* the spawn policy and contract
  SnapshotReads, \* contract.readIsolation = "snapshot"
  YieldChoice,   \* may a spawn yield its parent (TRUE), keep it running (FALSE)
  MaxWait,       \* bound: the longest wait a deferral asks for
  MaxDefers      \* bound: deferrals of one task

VARIABLES
  runStatus,     \* runs.status
  policy,        \* workflow_run_policy.parallelism
  status,        \* tasks.status; "ABSENT" before the row is inserted
  owner,         \* tasks.owner
  due,           \* tasks.deadline - now, never below 0
  attempts,      \* the attempts rows of a task in fence order, with fingerprint
  wake,          \* task_waits.wake - now, never below 0; 0 without a row
  requests,      \* spawn_requests with the spawn_edges they stand for
  remaining,     \* scheduler_nodes.remaining: the indexed readiness count
  held           \* leases in the memory of the coordinators

vars == <<runStatus, policy, status, owner, due, attempts, wake, requests,
          remaining, held>>

Status        == {"ABSENT", "READY", "RUNNING", "PASS", "FAIL", "BLOCKED"}
AttemptStatus == {"RUNNING", "PASS", "FAIL", "EXPIRED", "DEFERRED"}
Attempt       == [status : AttemptStatus, fp : Fingerprint \cup {NoFingerprint}]
Lease         == [task : Task, owner : Coordinator, fence : Nat \ {0}]
Request       == [parent : Task, children : SUBSET Task, depth : Nat \ {0},
                  by : {"worker", "policy", "host"}]

ASSUME GraphAssumption ==
  /\ IsFiniteSet(Task)
  /\ Root \subseteq Task
  /\ Dep \in [Task -> SUBSET Task]
  /\ Batch \in [Task -> SUBSET SUBSET Task]
  /\ Adjudicator \subseteq Task
  /\ \A t \in Root : Dep[t] \subseteq Root
  /\ Budget \in [SUBSET Task -> [Task -> Nat]]

ASSUME RecipeAssumption ==
  /\ Parallelism \in Nat \ {0} /\ MaxAttempts \in Nat \ {0}
  /\ MaxRepeated \in Nat \ {0} /\ Timeout \in Nat \ {0}
  /\ MaxWait \in Nat /\ MaxContext \in Nat
  /\ NoOwner \notin Coordinator /\ NoFingerprint \notin Fingerprint
  /\ SnapshotReads \in BOOLEAN /\ YieldChoice \subseteq BOOLEAN

-----------------------------------------------------------------------------
(* The graph and the index.                                                *)

Present == {t \in Task : status[t] # "ABSENT"}
Running(st) == {t \in Task : st[t] = "RUNNING"}
Fence(t) == Len(attempts[t])

Spawned(rs, p) == UNION {r.children : r \in {q \in rs : q.parent = p}}
AllSpawned(rs) == UNION {r.children : r \in rs}

\* Mutant of Prereq: specification edges only.
PrereqStaticOnly(rs, t) == Dep[t]

\* What t waits for: its static dependencies and its spawned children.
Prereq(rs, t) == Dep[t] \cup Spawned(rs, t)

Depth(rs, t) ==
  IF \E r \in rs : t \in r.children
  THEN (CHOOSE r \in rs : t \in r.children).depth ELSE 0

\* Mutant of Counted: a failed prerequisite counts as settled.
CountedUnsettled(rs, st) ==
  [t \in Task |-> IF st[t] = "ABSENT" THEN 0
                  ELSE Cardinality({p \in Prereq(rs, t) : st[p] \notin {"PASS", "FAIL"}})]

\* rebuildSchedulerIndex: count the prerequisites that have not passed.
Counted(rs, st) ==
  [t \in Task |-> IF st[t] = "ABSENT" THEN 0
                  ELSE Cardinality({p \in Prereq(rs, t) : st[p] # "PASS"})]

\* releaseDependents: one edge per prerequisite, whatever its kind.
Released(t) ==
  [u \in Task |-> IF status[u] # "ABSENT" /\ t \in Prereq(requests, u) /\ remaining[u] > 0
                  THEN remaining[u] - 1 ELSE remaining[u]]

\* Mutant of Doomed: direct dependents only.
DoomedDirect(rs, st, failed) ==
  {u \in Task : st[u] = "READY" /\ Prereq(rs, u) \cap failed # {}}

\* blockDependents, as the least set the walk closes: READY tasks that wait for
\* a failed task or for a task blocked by it.  Only READY tasks are walked.
Doomed(rs, st, failed) ==
  LET closed(S) == \A u \in Task :
        st[u] = "READY" /\ Prereq(rs, u) \cap (failed \cup S) # {} => u \in S
      ready == {u \in Task : st[u] = "READY"}
  IN  {u \in ready : \A S \in SUBSET ready : closed(S) => u \in S}

Blocking(st, doomed) == [t \in Task |-> IF t \in doomed THEN "BLOCKED" ELSE st[t]]

Conflicts(P, Q) ==
  \E p \in P, q \in Q : <<p, q>> \in Covers \/ <<q, p>> \in Covers

\* Readers share; a writer excludes overlapping readers and writers.
AccessConflicts(t, u) ==
  \/ Conflicts(Write[t], Write[u])
  \/ Conflicts(Write[t], Read[u])
  \/ Conflicts(Read[t], Write[u])

Excludes(t, u) ==
  IF SnapshotReads THEN Conflicts(Write[t], Write[u]) ELSE AccessConflicts(t, u)

Within(paths, scope) == \A p \in paths : \E s \in scope : <<s, p>> \in Covers

\* Some nonempty set of tasks in which everyone waits for a member.
Cyclic(tasks, pre) ==
  \E S \in SUBSET tasks : S # {} /\ \A t \in S : pre[t] \cap S # {}

\* compilePlan: no task of the graph is allocated more than may be in flight.
Fits(tasks) == \A t \in tasks : Budget[tasks][t] <= MaxContext

\* What Scheduler.start has validated before it inserts a row.
ASSUME PlanAssumption == Root # {} /\ ~Cyclic(Root, Dep) /\ Fits(Root)

-----------------------------------------------------------------------------
(* Attempts.                                                               *)

CountOf(a, kinds) == Cardinality({i \in DOMAIN a : a[i].status \in kinds})

Failures(a) == CountOf(a, {"FAIL", "EXPIRED"})

EndAttempt(t, fence, how, print) ==
  [attempts EXCEPT ![t][fence] = [status |-> how, fp |-> print]]

\* The newest attempts of t, the current one first and deferrals skipped, carry
\* `print' at least MaxRepeated times in a row.
Exhausted(t, print) ==
  \E i \in 1..Fence(t) :
    LET tail == {j \in i..Fence(t) : attempts[t][j].status # "DEFERRED"}
    IN  /\ \A j \in tail : j = Fence(t) \/ attempts[t][j].fp = print
        /\ Cardinality(tail) >= MaxRepeated

\* Scheduler.current: is this lease the one the database row still names?
Current(l) ==
  /\ status[l.task] = "RUNNING"
  /\ owner[l.task] = l.owner
  /\ Fence(l.task) = l.fence
  /\ due[l.task] > 0

-----------------------------------------------------------------------------
(* Scheduler.start of a fresh run id.                                      *)

Init ==
  /\ runStatus = "RUNNING"
  /\ policy = Parallelism
  /\ status = [t \in Task |-> IF t \in Root THEN "READY" ELSE "ABSENT"]
  /\ owner = [t \in Task |-> NoOwner]
  /\ due = [t \in Task |-> 0]
  /\ attempts = [t \in Task |-> <<>>]
  /\ wake = [t \in Task |-> 0]
  /\ requests = {}
  /\ remaining = Counted({}, status)
  /\ held = {}

-----------------------------------------------------------------------------
(* Scheduler.claimMany: one transaction per refill.                        *)

\* Mutants of Expired: whatever has no time left; only what may be retried.
ExpiredAnyStatus == {t \in Task : status[t] # "ABSENT" /\ Fence(t) > 0 /\ due[t] = 0}
ExpiredRetryable ==
  {t \in Task : status[t] = "RUNNING" /\ due[t] = 0 /\ Failures(attempts[t]) + 1 < MaxAttempts}

\* Leases whose deadline has passed, and among them those without retries left.
Expired == {t \in Task : status[t] = "RUNNING" /\ due[t] = 0}
Spent   == {t \in Expired : Failures(attempts[t]) + 1 >= MaxAttempts}

\* Mutant of AfterExpiry: the row of the attempt is left open.
AfterExpiryOpen == attempts

AfterExpiry ==
  [t \in Task |-> IF t \in Expired
                  THEN [attempts[t] EXCEPT ![Fence(t)] =
                          [status |-> "EXPIRED", fp |-> attempts[t][Fence(t)].fp]]
                  ELSE attempts[t]]

\* Expired rows are reclaimed one by one in deadline order, each failed one
\* blocking the dependents that are READY at that point.  Countdowns keep no
\* order among leases that are already late, so `after' is any choice of the
\* reclaimed tasks that come after the failures they wait for.
StatusAfterExpiry(after) ==
  LET failed == [t \in Task |-> IF t \in Spent THEN "FAIL"
                                ELSE IF t \in Expired \ after THEN "READY" ELSE status[t]]
      doomed == Doomed(requests, failed, Spent)
  IN  [t \in Task |-> IF t \in after THEN "READY" ELSE Blocking(failed, doomed)[t]]

\* readyCandidates: what the index offers.
Candidates(st) ==
  {t \in Task : st[t] = "READY" /\ remaining[t] = 0 /\ wake[t] = 0}

AuthoritativeReady(st, t) == \A p \in Prereq(requests, t) : st[p] = "PASS"

\* The allocations are those of the graph as it is now: a rebuild of the index after
\* growth allocates again, for running tasks too.
Reserved(S) == MapThenSumSet(LAMBDA t : Budget[Present][t], S)

\* Mutant of Capacity: the run's slots are those of its recipe, whatever the policy.
CapacityOfRecipe(w, st) ==
  LET slots  == Parallelism - Cardinality({l \in held : l.owner = w})
      shared == Parallelism - Cardinality(Running(st))
  IN  IF slots < shared THEN slots ELSE shared

Capacity(w, st) ==
  LET running == Cardinality(Running(st))
      slots   == Parallelism - Cardinality({l \in held : l.owner = w})
      shared  == policy - running
  IN  IF slots < shared THEN slots ELSE shared

\* Mutants of Together: a batch is compared with what runs, not with itself; its
\* context is compared task by task.
TogetherUnbatched(S, running) ==
  /\ \A t \in S, u \in running : ~Excludes(t, u)
  /\ Reserved(S \cup running) <= MaxContext
TogetherUnsummed(S, running) ==
  /\ \A t \in S, u \in S \cup running : t # u => ~Excludes(t, u)
  /\ \A t \in S : Reserved(running \cup {t}) <= MaxContext

\* S may be started together beside what runs already.
Together(S, running) ==
  /\ \A t \in S, u \in S \cup running : t # u => ~Excludes(t, u)
  /\ Reserved(S \cup running) <= MaxContext

\* The candidates are visited in priority order and every one that fits is
\* claimed.  Priorities are left open: whatever the order, the result is a set of
\* compatible candidates that nothing more fits into.
Refills(st, capacity) ==
  LET claimable == {t \in Candidates(st) : AuthoritativeReady(st, t)}
      fitting(S) == S = {} \/ Together(S, Running(st))
  IN  {S \in SUBSET claimable :
         /\ S = {} \/ Cardinality(S) <= capacity
         /\ fitting(S)
         /\ \/ Cardinality(S) >= capacity
            \/ \A t \in claimable \ S : ~fitting(S \cup {t})}

\* The index offered a task that is not ready, or offers nothing although READY
\* work exists that neither a running nor a parked task explains.
IndexSuspect(st, capacity, S) ==
  /\ capacity > 0
  /\ \/ \E t \in Candidates(st) : ~AuthoritativeReady(st, t)
     \/ /\ S = {} /\ Running(st) = {}
        /\ \A t \in Task : st[t] = "READY" => wake[t] = 0

Grant(w, st, S) ==
  /\ status' = [t \in Task |-> IF t \in S THEN "RUNNING" ELSE st[t]]
  /\ owner' = [t \in Task |-> IF t \in S THEN w
                              ELSE IF t \in Expired THEN NoOwner ELSE owner[t]]
  /\ due' = [t \in Task |-> IF t \in S THEN Timeout
                            ELSE IF t \in Expired THEN 0 ELSE due[t]]
  /\ attempts' = [t \in Task |-> IF t \in S
                    THEN Append(AfterExpiry[t], [status |-> "RUNNING", fp |-> NoFingerprint])
                    ELSE AfterExpiry[t]]
  /\ held' = held \cup {[task |-> t, owner |-> w, fence |-> Fence(t) + 1] : t \in S}

\* Mutant of Open: running tasks do not keep a run open.
OpenReady(st) == \E t \in Task : st[t] = "READY"

Open(st) == \E t \in Task : st[t] \in {"READY", "RUNNING"}

ClaimMany(w) ==
  /\ runStatus = "RUNNING"
  /\ Cardinality({l \in held : l.owner = w}) < Parallelism
  /\ \E after \in SUBSET (Expired \ Spent) :
       LET st   == StatusAfterExpiry(after)
           capacity == Capacity(w, st)
       IN \/ /\ ~Open(st)
             /\ runStatus' = IF \E t \in Task : st[t] \in {"FAIL", "BLOCKED"}
                             THEN "FAIL" ELSE "PASS"
             /\ Grant(w, st, {})
             /\ UNCHANGED remaining
          \/ /\ Open(st)
             /\ \E S \in Refills(st, capacity) :
                  /\ Grant(w, st, S)
                  /\ remaining' = IF IndexSuspect(st, capacity, S)
                                  THEN Counted(requests, st) ELSE remaining
             /\ UNCHANGED runStatus
  /\ UNCHANGED <<policy, wake, requests>>

-----------------------------------------------------------------------------
(* What a coordinator does with a lease it holds.  A lease that is no      *)
(* longer current changes nothing in the database: it is only forgotten.   *)

Forget(l) == held' = held \ {l}

ReleaseLease(t) ==
  /\ owner' = [owner EXCEPT ![t] = NoOwner]
  /\ due' = [due EXCEPT ![t] = 0]

\* A stale result, failure or deferral returns false and leaves no trace.
DropStale(l) ==
  /\ ~Current(l)
  /\ Forget(l)
  /\ UNCHANGED <<runStatus, policy, status, owner, due, attempts, wake, requests,
                 remaining>>

\* Scheduler.finish with evidence that validates.
Finish(l) ==
  /\ Current(l)
  /\ status' = [status EXCEPT ![l.task] = "PASS"]
  /\ attempts' = EndAttempt(l.task, l.fence, "PASS", attempts[l.task][l.fence].fp)
  /\ ReleaseLease(l.task)
  /\ remaining' = Released(l.task)
  /\ Forget(l)
  /\ UNCHANGED <<runStatus, policy, wake, requests>>

\* Scheduler.fail; `retryable' is false for a fatal error.
Fail(l, print, retryable) ==
  /\ Current(l)
  /\ LET t == l.task
         final == \/ ~retryable
                  \/ Exhausted(t, print)
                  \/ Failures(attempts[t]) + 1 >= MaxAttempts
         failed == [status EXCEPT ![t] = IF final THEN "FAIL" ELSE "READY"]
     IN  /\ status' = IF final THEN Blocking(failed, Doomed(requests, failed, {t}))
                      ELSE failed
         /\ attempts' = EndAttempt(t, l.fence, "FAIL", print)
         /\ ReleaseLease(t)
  /\ Forget(l)
  /\ UNCHANGED <<runStatus, policy, wake, requests, remaining>>

\* persistContinuation and deferParent: give the lease up without a failure.
Park(l, wait) ==
  /\ attempts' = EndAttempt(l.task, l.fence, "DEFERRED", attempts[l.task][l.fence].fp)
  /\ ReleaseLease(l.task)
  /\ wake' = [wake EXCEPT ![l.task] = wait]
  /\ Forget(l)

MayDefer(t) == CountOf(attempts[t], {"DEFERRED"}) < MaxDefers

\* Scheduler.defer: a remote job, a provider outage, a cancelled coordinator.
Defer(l, wait) ==
  /\ Current(l)
  /\ MayDefer(l.task)
  /\ status' = [status EXCEPT ![l.task] = "READY"]
  /\ Park(l, wait)
  /\ UNCHANGED <<runStatus, policy, requests, remaining>>

-----------------------------------------------------------------------------
(* Growing the graph.                                                      *)

\* peers[i] and peers[j] are ordered by the dependencies among the peers.
Reaches(peers, t, u) ==
  \A S \in SUBSET peers :
    (Dep[t] \cap peers \subseteq S /\ \A v \in S : Dep[v] \cap peers \subseteq S) => u \in S

\* The child's scopes lie within those of its parent.
Delegates(p, c) ==
  /\ Within(Write[c], Write[p])
  /\ Within(Read[c], Write[p] \cup Read[p])

\* admitChildren: everything it insists on before it inserts a batch.
Admissible(p, B) ==
  LET peers == Spawned(requests, p) \cup B
  IN  /\ B # {} /\ B \cap Present = {}
      /\ Cardinality(peers) <= MaxChildren
      /\ Depth(requests, p) + 1 <= MaxDepth
      /\ Cardinality(AllSpawned(requests) \cup B) <= MaxSpawned
      /\ Cardinality(Present \cup B) <= MaxTasks
      /\ \A c \in B :
           /\ Dep[p] \subseteq Dep[c]
           /\ Dep[c] \ Dep[p] \subseteq B \ {c}
           /\ Delegates(p, c)
      /\ \A c, d \in peers : c # d /\ AccessConflicts(c, d) =>
           Reaches(peers, c, d) \/ Reaches(peers, d, c)
      /\ ~Cyclic(Present \cup B, Dep)
      /\ Fits(Present \cup B)

\* Insert the rows, the request and its edges; then rebuild the index from `st'.
Insert(p, B, by, st) ==
  LET rs == requests \cup {[parent |-> p, children |-> B,
                            depth |-> Depth(requests, p) + 1, by |-> by]}
      grown == [t \in Task |-> IF t \in B THEN "READY" ELSE st[t]]
  IN  /\ requests' = rs
      /\ remaining' = Counted(rs, grown)

\* spawnTasks by the worker that runs l.task.  A yielding spawn parks the parent in
\* the same transaction.
Spawn(l, B, yields) ==
  LET p == l.task
  IN  /\ runStatus = "RUNNING" /\ Current(l)
      /\ Admissible(p, B)
      /\ Insert(p, B, "worker", status)
      /\ \/ /\ yields
            /\ status' = [t \in Task |-> IF t \in B \cup {p} THEN "READY" ELSE status[t]]
            /\ Park(l, 0)
         \/ /\ ~yields
            /\ status' = [t \in Task |-> IF t \in B THEN "READY" ELSE status[t]]
            /\ UNCHANGED <<attempts, owner, due, wake, held>>
      /\ UNCHANGED <<runStatus, policy>>

\* spawnTasks replayed with a known request key: it parks the parent until every
\* child has passed (when all have, it only returns their artifacts).
Respawn(l, r) ==
  /\ runStatus = "RUNNING" /\ Current(l)
  /\ r.parent = l.task /\ r.by = "worker"
  /\ \E c \in r.children : status[c] # "PASS"
  /\ MayDefer(l.task)
  /\ status' = [status EXCEPT ![l.task] = "READY"]
  /\ Park(l, 0)
  /\ UNCHANGED <<runStatus, policy, requests, remaining>>

\* expandUnstartedTaskInTransaction: the workflow policy splits an untouched task.
Expand(p, B) ==
  /\ runStatus = "RUNNING"
  /\ status[p] = "READY" /\ Fence(p) = 0
  /\ Admissible(p, B)
  /\ Insert(p, B, "policy", status)
  /\ status' = [t \in Task |-> IF t \in B THEN "READY" ELSE status[t]]
  /\ UNCHANGED <<runStatus, policy, owner, due, attempts, wake, held>>

\* Mutant of Untangled: only specification edges are walked.
UntangledStatic(p, j) == ~Cyclic(Present \cup {j}, Dep)

\* With j below p the runtime graph, children included, has no cycle.
Untangled(p, j) ==
  ~Cyclic(Present \cup {j},
          [t \in Task |-> Prereq(requests, t) \cup (IF t = p THEN {j} ELSE {})])

\* admitAdjudicationTask: the host hangs a read-only discriminator under any task of
\* the run, finished or not, and reopens the run.
Adjudicate(p, j) ==
  /\ p \in Present /\ j \notin Present
  /\ Write[j] = {} /\ Within(Read[j], Write[p] \cup Read[p])
  /\ Dep[j] \subseteq Present
  /\ Cardinality(Present) < MaxTasks
  /\ Untangled(p, j)
  /\ Fits(Present \cup {j})
  /\ Insert(p, {j}, "host", status)
  /\ status' = [status EXCEPT ![j] = "READY"]
  /\ runStatus' = "RUNNING"
  /\ UNCHANGED <<policy, owner, due, attempts, wake, held>>

-----------------------------------------------------------------------------
(* The policy, the processes and the clock.                                *)

\* The set_parallelism patch of workflow.ts; it may drop below what is running.
SetParallelism(n) ==
  /\ runStatus = "RUNNING" /\ n # policy
  /\ policy' = n
  /\ UNCHANGED <<runStatus, status, owner, due, attempts, wake, requests, remaining, held>>

\* A coordinator dies with everything it remembers and is started again.
Crash(w) ==
  /\ \E l \in held : l.owner = w
  /\ held' = {l \in held : l.owner # w}
  /\ UNCHANGED <<runStatus, policy, status, owner, due, attempts, wake, requests, remaining>>

Tick ==
  /\ \E t \in Task : due[t] > 0 \/ wake[t] > 0
  /\ due' = [t \in Task |-> IF due[t] > 0 THEN due[t] - 1 ELSE 0]
  /\ wake' = [t \in Task |-> IF wake[t] > 0 THEN wake[t] - 1 ELSE 0]
  /\ UNCHANGED <<runStatus, policy, status, owner, attempts, requests, remaining, held>>

-----------------------------------------------------------------------------
Settle(l) ==
  \/ DropStale(l)
  \/ Finish(l)
  \/ \E print \in Fingerprint, retryable \in BOOLEAN : Fail(l, print, retryable)
  \/ \E wait \in 0..MaxWait : Defer(l, wait)

Grow ==
  \/ \E l \in held, yields \in YieldChoice : \E B \in Batch[l.task] : Spawn(l, B, yields)
  \/ \E l \in held, r \in requests : Respawn(l, r)
  \/ \E p \in Present : \E B \in Batch[p] : Expand(p, B)
  \/ \E p \in Present, j \in Adjudicator : Adjudicate(p, j)

Next ==
  \/ \E w \in Coordinator : ClaimMany(w)
  \/ \E l \in held : Settle(l)
  \/ Grow
  \/ \E n \in 1..Parallelism : SetParallelism(n)
  \/ \E w \in Coordinator : Crash(w)
  \/ Tick

Spec == Init /\ [][Next]_vars

-----------------------------------------------------------------------------
(* Properties.                                                             *)

TypeOK ==
  /\ runStatus \in {"RUNNING", "PASS", "FAIL"}
  /\ policy \in 1..Parallelism
  /\ status \in [Task -> Status]
  /\ owner \in [Task -> Coordinator \cup {NoOwner}]
  /\ due \in [Task -> 0..Timeout]
  /\ attempts \in [Task -> Seq(Attempt)]
  /\ wake \in [Task -> 0..MaxWait]
  /\ requests \subseteq Request
  /\ remaining \in [Task -> Nat]
  /\ held \subseteq Lease

\* A task has an attempt in progress exactly while it is RUNNING, and that is its
\* newest one: no crash, expiry or retry leaves two attempts of a task open.
OneOpenAttempt ==
  \A t \in Task :
    /\ \A i \in DOMAIN attempts[t] : attempts[t][i].status = "RUNNING" =>
         status[t] = "RUNNING" /\ i = Fence(t)
    /\ status[t] = "RUNNING" =>
         /\ Fence(t) > 0
         /\ attempts[t][Fence(t)].status = "RUNNING"
         /\ owner[t] \in Coordinator

\* What lasts of StartsAccepted: a specification never changes, so a task that was
\* started keeps its specified inputs accepted, whatever children are still added to it.
InputsAccepted ==
  \A t \in Task : status[t] \in {"RUNNING", "PASS"} =>
    \A d \in Dep[t] : status[d] = "PASS"

\* A step of some coordinator's refill that starts t.
Starts(t) == Len(attempts'[t]) > Len(attempts[t])

\* A task is started, or started again after it yielded, was retried or reopened, on
\* accepted inputs only: the dependencies of its specification and every child that it,
\* the policy or the host has hung below it by then.
StartStep ==
  \A t \in Task : Starts(t) =>
    \A p \in Dep[t] \cup Spawned(requests, t) : status'[p] = "PASS"

StartsAccepted == [][StartStep]_vars

\* The run's parallelism is shared by all coordinators and may be patched below what is
\* running at the time: whoever starts something leaves no more running, its own tasks
\* and those of the others, than the policy in force allows.
PolicyStep ==
  (\E t \in Task : Starts(t)) => Cardinality(Running(status')) <= policy

ClaimsWithinPolicy == [][PolicyStep]_vars

\* Tasks that run at the same time, claimed by one refill or by different
\* coordinators, never hold overlapping paths of which one is written.
ScopeExclusion ==
  \A t, u \in Running(status) : t # u => ~Excludes(t, u)

\* "Admission caps the sum of running tasks' allocated capsule budgets"
\* (docs/agent-platform/PRODUCTIVITY.md): at any time, what the running tasks are
\* allocated fits in maxInFlightContextBytes.
ContextCapped == Reserved(Running(status)) <= MaxContext

\* As long as growth leaves allocations alone, what runs never exceeds the recipe's
\* parallelism nor its in-flight context, whatever the policy patches and crashes.
WithinBudget == Cardinality(Running(status)) <= Parallelism /\ ContextCapped

\* The indexed count that claims are planned from agrees with the graph through
\* acceptances, expiries and every kind of growth, so that no claim ever needs
\* the repair the code keeps for a drifted index.
IndexExact ==
  \A t \in Present : remaining[t] = Cardinality({p \in Prereq(requests, t) : status[p] # "PASS"})

\* The verdict of a run is the verdict of its tasks: PASS only when all of them
\* passed, FAIL only when one failed, and none is left open in an ended run.  Tasks
\* are blocked by failures only, so a run without a failed task is not a FAIL.
VerdictSound ==
  /\ runStatus = "PASS" => \A t \in Present : status[t] = "PASS"
  /\ runStatus = "FAIL" => /\ \E t \in Present : status[t] = "FAIL"
                           /\ \A t \in Present : status[t] \in {"PASS", "FAIL", "BLOCKED"}
  /\ (\E t \in Task : status[t] = "BLOCKED") => \E t \in Task : status[t] = "FAIL"

\* Every BLOCKED task can be traced to a failure: something it waits for failed or
\* is blocked in turn.
BlockJustified ==
  \A t \in Task : status[t] = "BLOCKED" =>
    \E p \in Prereq(requests, t) : status[p] \in {"FAIL", "BLOCKED"}

\* A failure is felt at once, and by nobody else: the transaction that rejects a task,
\* by its failure or by that of something before it, blocks every READY task that
\* waits for it, and a task is blocked only behind a rejected one.  Tasks that are
\* running at that moment are the ones it passes over.
Rejected == {"FAIL", "BLOCKED"}

FailureStep ==
  \A t \in Task :
    /\ \A p \in Prereq(requests, t) :
         status[p] \notin Rejected /\ status'[p] \in Rejected /\ status[t] = "READY"
           => status'[t] = "BLOCKED"
    /\ status[t] # "BLOCKED" /\ status'[t] = "BLOCKED" =>
         \E p \in Prereq(requests, t) : status'[p] \in Rejected

FailuresSpread == [][FailureStep]_vars

\* No set of tasks waits for itself along dependencies and spawned children.
NoCircularWait == ~Cyclic(Present, [t \in Task |-> Prereq(requests, t)])

\* An acceptance is exactly one PASS attempt, and it is the last of the task.
AcceptedOnce ==
  \A t \in Task : \A i \in DOMAIN attempts[t] :
    attempts[t][i].status = "PASS" => status[t] = "PASS" /\ i = Fence(t)

\* Where every spawn yields and no discriminator is added, a parent is accepted
\* only after all the children it asked for.
ChildrenFirst ==
  \A t \in Task : status[t] = "PASS" =>
    \A c \in Spawned(requests, t) : status[c] = "PASS"

\* "Failed dependencies block their descendants" (docs/agent-platform/FOUNDRY.md):
\* no task stays claimable in principle behind a prerequisite that failed.
NoStrandedTask ==
  \A t \in Task : status[t] = "READY" =>
    \A p \in Prereq(requests, t) : status[p] \notin {"FAIL", "BLOCKED"}

\* History is append-only: an attempt that ended keeps its outcome, whatever late
\* results, failures or deferrals stale leases report, and a task that passed,
\* failed or was blocked stays so.
HistoryStep ==
  \A t \in Task :
    /\ Len(attempts[t]) <= Len(attempts'[t])
    /\ \A n \in DOMAIN attempts[t] :
         attempts[t][n].status # "RUNNING" => attempts'[t][n] = attempts[t][n]
    /\ status[t] \in {"PASS", "FAIL", "BLOCKED"} => status'[t] = status[t]

HistoryIsFinal == [][HistoryStep]_vars

\* The decisions of the ledger that tasks and verdict stand for: whatever happens to
\* leases, retries and the index, the database implements TaskLedger.
Decided(st) ==
  CASE st = "ABSENT" -> "absent"
    [] st \in {"READY", "RUNNING"} -> "open"
    [] st = "PASS" -> "accepted"
    [] st \in {"FAIL", "BLOCKED"} -> "rejected"

Ledger == INSTANCE TaskLedger WITH
  decision <- [t \in Task |-> Decided(status[t])], verdict <- runStatus

ImplementsLedger == Ledger!Spec

\* Coordinators that are alive keep refilling, an attempt is settled (its deadline
\* timer aborts it at the latest) and time passes.
Fairness ==
  /\ WF_vars(Tick)
  /\ \A w \in Coordinator :
       /\ WF_vars(ClaimMany(w))
       /\ WF_vars(\E l \in held : l.owner = w /\ Settle(l))

FairSpec == Spec /\ Fairness

\* Every run ends, through retries, expired leases and coordinators that crash.
RunEnds == <>(runStatus # "RUNNING")
=============================================================================
