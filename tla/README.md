# Foundry runtime: TLA+ models, checks and proofs

This directory is a verification project for the governed runtime of the repository: the *Foundry*
(`src/src/harness/foundry/`), which runs research tasks with leases, retries, dynamic sub-tasks and
evidence-gated acceptance on top of one SQLite database per workspace. Of the terminal client around it,
which is most of the repository, the execution of tool calls (`src/src/services/tools/`) is modelled; the rest
(screens, transcripts, prompt construction, provider protocols, reporting) is listed in the inventory and
mostly left aside. The runtime depends on none of it.

The modules are translated from the code. Paths below are relative to `src/src/harness/foundry/` unless
they start with `src/`. `PROJECT.json` maps every definition to the lines it stands for.

## 1. Inventory

### The parts, their state and their operations

| Component | Files | Durable state | Operations |
|---|---|---|---|
| Task scheduler | `scheduler.ts` | `runs`, `tasks`, `attempts` | `start`, `claimMany`, `defer`, `finish`, `fail`, `current` |
| Scheduler index | `schedulerIndex.ts` | `scheduler_nodes`, `scheduler_edges` | rebuild, candidates, release, block |
| Planning and context | `kernel.ts` | none (pure) | `compilePlan`, `accessConflicts`, `allocateContext` |
| Dynamic graph | `dynamicDag.ts` | `spawn_requests`, `spawn_edges` | `spawnTasks`, `expandUnstartedTaskInTransaction` |
| Adjudication | `adjudication.ts` | as above | `admitAdjudicationTask` |
| Continuations | `continuation.ts` | `task_waits`, `continuations` | `persistContinuation`, wake-up bounds |
| Attempt runtime | `runtime.ts` | none (memory of a process) | `runTasks`, `executeAttempt` |
| Workflow policy | `workflow.ts` | `workflow_run_policy`, proposals, receipts | `applyWorkflowProposal` |
| Store | `store.ts` | artifacts, events, proposals | `transaction`, `artifact`, `initialize` |
| In-process wake-ups | `wakeup.ts` | none | `Wakeup` |
| Proposals and evolution | `proposals.ts`, `evolution.ts` | proposals, evaluations, receipts | submit, decide, evaluate, promote, roll back |
| Claims | `claims.ts` | claims, dependencies, conflicts | propose, retract, adjudicate, invalidate |
| Operations actions | `operations/actions.ts` | actions, budgets | reserve, execute, observe, settle |
| Operations events | `operations/events.ts`, `operations/service.ts` | event queue, obligations, mode | enqueue, dispatch, complete, tick |
| Research jobs | `swarm/jobs.ts` | `research_jobs` | execute, wait, reconcile, release capacity |
| Provider recovery and request accounting | `swarm/providerRecovery.ts`, `swarm/session.ts`, `swarm/model.ts` | `agent_provider_health`, `agent_cooldowns`, `agent_requests`, admissions, `agent_provider_waits` | ready, reserve, complete, failure, success, wake waiters |
| Worker fleet | `swarm/workerFleet.ts`, `swarm/toolBatches.ts`, `src/scripts/swarm-worker-agent.py` | `swarm_worker_leases`, `swarm_worker_health`, checkpoints; trees on the workers | claim, prepare, batch, tool, snapshot, fail over, dispose |
| Cohorts | `swarm/cohorts.ts` | `swarm_cohort_leases`, findings, exports | claim, release, publish, accepted |
| Tool execution of the client | `src/src/services/tools/StreamingToolExecutor.ts`, `src/src/query.ts` | none (memory of a turn) | `addTool`, `processQueue`, `executeTool`, `getCompletedResults`, `getRemainingResults`, `discard` |
| Client, coordination on disk | `src/src/utils/cronTasksLock.ts`, `src/src/utils/tasks.ts`, `src/src/services/autoDream/consolidationLock.ts` | lock files, task lists | acquire, recover, release |
| Evidence fabric, research programme, swarm sessions, harness surface, the client's session and screen | see `PROJECT.json` | read models, transcripts, text | reporting, rendering and process I/O |

### How they interact

* Everything durable goes through `FoundryStore.transaction` (`store.ts:105`), a `BEGIN IMMEDIATE`: one
  writer at a time, all or nothing. Transactions interleave but never overlap. What happens *between* two
  transactions of a process — a lease it remembers, a decision it took on rows it has read — is where things
  can go wrong.
* Several *coordinator* processes may drive one run (`runTasks`). They share nothing but the database. Each
  keeps in memory the leases it has claimed, and settles each of them with `finish`, `fail` or `defer`.
* A worker inside an attempt may call `spawnTasks`; the host may expand an unstarted task or hang a
  discriminator under any task; both change the graph that other coordinators are claiming from.
* The index is a derived table: claims are planned from its counts and *verified* against the graph, and it
  is rebuilt when it is found to be wrong.

### What is hard, and what makes each component correct

* **Scheduler.** Late results of expired leases, reclaim racing with a result, retries counted across
  deferrals and expiries, coordinators that die. Correct: one attempt of a task at a time, acceptance at
  most once and final, the verdict of a run is that of its tasks, retries bounded, every run ends.
* **Index.** Incremental counts under releases, growth and reopening; a walk over dependents that only sees
  what is READY. Correct: counts equal the graph's, blocked means justified, nothing waits behind a failure.
* **Planning and context.** Scopes that overlap between tasks of one refill and of different coordinators;
  weights that do not sum up. Correct: no conflicting tasks together, budgets bounded and monotone.
* **Growth.** Children that exceed their parent's authority, cycles across specification and runtime
  edges, parents accepted before their children. Correct: delegation, acyclicity, children first.
* **Policy.** Patches below what is running. Correct: parallelism is never exceeded by new claims.
* **External actions.** Requests that are lost or carried out after their sender gave up, adapters that are
  wrong about what they did, workers taken over in the middle. Correct: one execution per logical action, a
  receipt only of what was observed, reservations that add up, ceilings kept, no acceptance of a run while
  something it started is undecided.
* **Events.** A tick is a chain of transactions with reads between them, run by several servers while the
  operator changes the mode and recipes are promoted. Correct: runs belong to an admission and its recipe,
  admissions and notices are justified when they happen, completion only on open gates, events are served.
* **Provider recovery.** Requests sent before an outage are still under way when the pause is over; answers
  come late and out of order; a task decides to sleep in one transaction and goes to sleep in another. Correct:
  one probe at a time, pauses that grow by rounds and not by calls, a circuit closed by fresh evidence only,
  nobody asleep past a recovery.
* **Research jobs.** A call into the remote side is outside any transaction: the operator or another attempt may
  settle the job meanwhile. Slots are held by jobs nothing is known of; a slot may be freed between the decision
  to wait for it and the wait. Correct: slots never oversubscribed, nobody asleep for a free one, receipts
  final, every submitted job settled or handed to the operator.
* **Claims.** Every operation is one transaction; what is hard is their sequences, since claims are revised
  that others already rest on. Correct: no circle, and nothing usable rests on what no longer stands.
* **Recipe evolution.** No transaction spans an evaluation; several evaluators work on copies of different
  age, and recipes are promoted and rolled back meanwhile. Correct: evidence only grows, and a recipe succeeds
  the one it was measured against, once, even if that one is in force again after a rollback.
* **Wakeups.** A commit between the look for work and the wait must not be missed, whether it is the
  connection's own, of the same process or of another. Correct: no hint is lost.

* **Worker fleet.** A batch of edits is carried out on a worker that may fail after any part of it, or whose
  reply may be lost; it is repeated elsewhere, or by a later attempt, from the last patch that was published.
  Sessions outlive their attempts and dispose late. Correct: what is published has each recorded edit once,
  and nobody who leaves frees the place of another.
* **Tool execution.** One thread, but several suspended loops over one queue, tools that go on in between,
  errors that cancel siblings, users who interrupt. Correct: exclusive tools run alone, calls of tools start in the
  order of the response, every call of it is answered and the loop that collects the answers ends.

`PROJECT.json` lists the hazards of the modelled components at the lines where they bite.

## 2. Modules

| Module | What it is |
|---|---|
| `FoundryScheduler` | the durable scheduler of one run, with index, continuations, growth, policy, coordinators and time |
| `TaskLedger` | the abstract specification: a ledger of final decisions and the verdict of the run |
| `FoundrySchedulerProofs` | the inductive invariants, the safety theorems and the refinement of `TaskLedger` |
| `SumTheorems` | sums over finite sets: what the proofs about budgets need of `MapThenSumSet` |
| `MCFoundryScheduler` | small graphs for TLC |
| `ContextAllocation` | `allocateContext` as operators |
| `MCContextAllocation` | all small graphs and recipes for it, growing task by task |
| `OperationsActions` | external writes: reservation, one execution, observation, settlement, takeover, evidence gate |
| `OperationsActionsProofs` | their inductive invariant and safety theorems |
| `OperationsEvents` | the event queue, obligations and modes, and the servers' tick, transaction by transaction |
| `OperationsEventsProofs` | its inductive invariant and safety theorems |
| `MCOperationsActions`, `MCOperationsEvents` | small instances of the two for TLC |
| `ProviderRecovery` | admission of requests to one provider pool: circuit, reservation, verdicts, waits |
| `ResearchJobs` | remote jobs of one template: intent, call, observation, receipt, slots, waits |
| `ClaimGraph` | claims that rest on each other: proposal, retraction, adjudication, invalidation |
| `RecipeEvolution` | candidates, evaluation in pairs, promotion, rollback |
| `CoordinatorWakeup` | the loop of `runTasks`, the changes it observes and the listeners of a process |
| `ProviderRecoveryProofs` | its inductive invariants and safety theorems |
| `MCProviderRecovery` | small instances of `ProviderRecovery` for TLC |
| `WorkerFleet` | attempts on remote workers: leases, health, failover, private trees, publication |
| `ToolExecution` | the tool calls of one model response, from the stream to the last answer |
| `HostServices` | `ResearchJobs`, `ClaimGraph`, `RecipeEvolution`, `CoordinatorWakeup`, `MCContextAllocation`, `WorkerFleet` and `ToolExecution` side by side, with their properties |
| `MCHostServices` | small instances of these for TLC |
| `ResearchServicesProofs` | the inductive invariants and safety theorems of jobs, claims and recipes |
| `CoordinationProofs` | those of the wakeups and of the allocation of context |
| `ExecutionProofs` | those of the tool calls and of the worker fleet |
| `MCContextBudget` | `FoundryScheduler` with the budgets that `ContextAllocation` computes |

### FoundryScheduler: correspondence with the code

*State.* `runStatus`, `status`, `owner` and `attempts` are the rows of `runs`, `tasks` and `attempts`
(`attempts[t][n]` is the row with fence `n`). `due[t]` and `wake[t]` are `tasks.deadline` and
`task_waits.wake` minus now: countdowns that `Tick` decrements and that stop at 0. `requests` is
`spawn_requests` together with the edges each request stands for. `remaining` is the readiness count of the
index. `policy` is the parallelism of `workflow_run_policy`. `held` is the only thing not in the database:
the leases coordinators remember, lost in `Crash`.

*Actions.* Each is one transaction, with everything it calls.

| Action | Code |
|---|---|
| `Init` | `Scheduler.start` of a fresh run |
| `ClaimMany(w)` | `claimMany`: expire late leases, end the run if nothing is open, else plan a refill from the index, verify it, claim it, rebuild a suspect index |
| `Finish(l)`, `Fail(l, ...)`, `Defer(l, ...)`, `DropStale(l)` | `finish`, `fail`, `defer`, and each of them when `current` is false |
| `Spawn`, `Respawn` | `spawnTasks` with a new and with a known request key |
| `Expand` | `expandUnstartedTaskInTransaction` (the `expand` patch of the workflow policy) |
| `Adjudicate` | `admitAdjudicationTask` |
| `SetParallelism` | the `set_parallelism` patch |
| `Crash(w)`, `Tick` | a coordinator process dies; time passes |

*What is abstracted.*

* **Priorities, learned durations and critical-path ranks** only order the candidates. `Refills` is the set
  of results of *every* order: compatible subsets of the claimable candidates that are full or maximal.
  Note that a maximal compatible set is what the greedy loop yields for some order, and conversely.
* **Expiry order.** Late leases are reclaimed in deadline order, each final one blocking what is READY at that
  point. Countdowns keep no order among leases that are already late, so `after` chooses which reclaimed
  tasks come after the failures.
* **Index repair.** `IndexSuspect` covers the code's two reasons to rebuild. It is coarser than the code
  (any unauthoritative candidate counts, not only a visited one); since `IndexExact` holds the first
  disjunct never fires, and a rebuild of an exact index changes nothing. The adaptive re-ranking in `finish`
  is a rebuild of an exact index, and so equal to the release it replaces.
* **Guards on data** that always hold in the modelled states are left out: the `LIMIT 256` on candidates, a
  missing attempt row, the drift of `graph_version`.
* **Per-task timeouts** are one constant `Timeout`. An attempt's own deadline timer (`runtime.ts`) makes it
  report after its lease is late, so that report is stale: `DropStale`, and the lease is reclaimed by
  `ClaimMany`.
* **Hashing, evidence validation, capsules, telemetry and summaries** do not change what is modelled. A
  result whose evidence does not validate is a `Fail`.
* **Specifications of tasks** are immutable in the code, hence constants: `Dep`, `Write`, `Read`. `Covers`
  stands for the path prefix test.
* **Context budgets** depend on the whole graph (`allocateContext` is run again by every rebuild), hence
  `Budget[Present][t]`.

### OperationsActions: correspondence with the code

*State.* `state`, `owner`, `lease`, `retry`, `reserved` and `spent` are the action and budget rows (times
are countdowns, as above); `uses` is the table of runs that joined an action. A `Caller` is one attempt that
calls `Operations.invoke`: its calls are serial, so an ownership token is the caller that took it, and
`call` is what this invocation remembers between its transactions. `wire`, `issued`, `outcome` and
`effects` are the world: requests under way, requests ever sent, and what the service behind an adapter did.

*Actions.* `Reuse`, `Await` and `Dispatch` are the first transaction of `invoke` (a settled action, one in
somebody else's hands or not yet due, a new or adopted one); the execute request leaves only from the
branch without a row. `Observe` is the inspection, `Settle` the last transaction, `Postpone` and `Abandon`
the catch block, `Revoke`/`Resume`/`Crash` what happens to the attempt of a caller. `Deliver`, `Lose` and
`Refuse` belong to the world: a request under way may be carried out at any later time, even when its
sender is gone.

*Assumed of adapters*, as `operations/contracts.ts` demands of them: an inspection says what is true of the
service at that moment, and a refusal is final. Nothing is assumed of answers to execute, which may claim
anything, and of the usage they report. Freshness of observations and the charging of model requests are
left out.

### OperationsEvents: correspondence with the code

*State.* `event`, `lead` and `bound` are `operations_events` (status, time to `available_at`, recipe);
`duty` and `term` are `operations_obligations`; `run` and `recipe` are the row of `runs` whose id is
derived from the event; `blocked` stands for the evidence gates of `actions.ts` and `claims.ts`. A server's
`at`, `seen`, `todo` and `chosen` are the place in `operationsTick` and its local variables.

*Actions.* One tick is `Begin` (read the mode, select due obligations), `Announce` (once per obligation),
`Select`, then `dispatch` as `Bind`, `Check`, `Start`, `Mark`, then `Conclude` (status, episode, gate) and
`Complete`. Each is one transaction or one read outside of any. `Select` leaves open which of several
eligible events is the oldest, so every order of arrival is covered. `Conclude` takes the verdict and the
gate together: what happens between the two is covered by what may happen before `Complete`, which checks
both again. What a run does in between is a verdict here and all of `FoundryScheduler` there.

### ProviderRecovery: correspondence with the code

*State.* `failures`, `epoch` and `retryAt` are the row of `agent_provider_health`, `cooldown` is
`agent_cooldowns.until_ms`. An element of `requests` is a row of `agent_requests` together with its
admission (`epoch`, `outcome`, `wake`). `waits`, `fence` and `wake` are per task. `asking`, `call` and `thrown`
are what workers remember between their transactions, and what a crash of their process takes away.

*Actions.* `Exhaust`, `Turn`, `Queue` and `Admit` are the outcomes of `SessionJournal.reserve`, which sweeps
requests past their deadline, asks the circuit (`Admission`) and counts permits. An answer is `Complete`
followed by `Success` or `Failure`, or these followed by `CompleteJudged` (`model.ts` does both, depending on
the path), or `CompleteSilently` for an abort or a refusal that says nothing of availability. `Persist` is
`persistContinuation`, which asks `providerWaitDeadline` what the circuit says by now. `Expire` takes a lease
while its process goes on, `Crash` its process as well. The expiry of a lease is one step of
`Scheduler.claimMany`; the scheduler itself is `FoundryScheduler`.

*Abstracted.* One pool; no hedged routes, control-plane reservations, byte budgets or metering. `Backoff`
is a table. A worker that finds no permit polls again (`Queue` leaves it asking).

### ResearchJobs: correspondence with the code

*State.* `row[j]` is the row of `research_jobs`: `age` is the time since its last progress, `poll` the time
to its next poll, `rank` and `seen` its progress. `phase` and `wait` are where a task stands and the wait
that its deferral carries or that is persisted. Times are what is left, so no clock needs a bound.

*Actions.* `Replay`, `Exhaust`, `Crowd` and `Submit` are the first transaction of `execute`; `Lost`,
`Refuse`, `Mistake`, `Repeat` and `Observe` the end of the call and the transaction after it; `Reconcile` the
operator's settlement; `Persist` is `persistContinuation` with its two tests for waits that are already over
(`Recovered`); `Lose` the end of a lease. The remote side may answer anything: `Answers`, any identity, any
token. Delays, which grow with failures and idle polls, are any of `Delays`.

*Abstracted.* Preflight and promotion checks only refuse a job; calls of one controller that coalesce are
those of one task; limits per objective are left out.

### ClaimGraph: correspondence with the code

*State.* `version`, `status` and `deps` are the current version of each claim; earlier ones are history.
*Actions.* `ProposeClaim` (new or a revision, with the test for circles), `RetractClaim` and
`AdjudicateClaim` (which validates its foundation again), each with `Publish`, which appends the version and
invalidates what rests on it. Replays of a request and calls with an old version change nothing. `Readable`
is the reach of a goal. Left out: conflicts between claims and the acceptance gate.

### RecipeEvolution: correspondence with the code

*State.* `active`, `parent` and `admitted` are the recipes of the store, `record` the evaluations, `promotions`
counts the events `candidate.promoted` of each, `outcome`
what the runs of a pair have measured (they are bound to the evaluation beforehand, so that whoever measures
again finds it), `memory` the copy an evaluator works on. *Actions.* `Propose`; `evaluate` as `Choose` and
`Create`; `resumeEvaluation` as `Resume`, `Measure` and `Save`, with `Stop` anywhere; `Promote`, `Rollback`.
A pair is `better`, `worse` or `failed`; `Score` is `score` of these. Left out: where candidates come from, and
the re-authentication of evidence against the artifacts.

### CoordinatorWakeup: correspondence with the code

*State.* `commits` counts the commits of everybody, `own` those of a connection: `PRAGMA data_version` is
their difference. `revision` is `Wakeup.revision`. `thread` says which coordinator of a process runs
between two awaits: what happens from `Observe` to `Wait` is one synchronous stretch of JavaScript, which no
coordinator of the same process can enter, though commits of other processes fall anywhere in it. `seen` is
history: the commits known when the coordinator last looked for work. *Actions.* `Observe`, `Claim`, `Renew`,
`Start` and `Wait` follow the loop of `runTasks`; `Poll` and `Timeout` are the ends of `Wakeup.wait`, `Write`
is a commit by an attempt or by anybody else on the connection, `Finish` the end of an attempt.

### WorkerFleet: correspondence with the code

*State.* `lease[t]` is the row of `swarm_worker_leases` of the current attempt of `t` (rows of earlier attempts
end with their deadline, which is the attempt's), `health` is `swarm_worker_health`, `thread` the checkpoint of
the session: how many batches have results, and `patchHash`. `session[t]` is the `RemoteHands` of the attempt;
`tree[t]` what is in its private trees, wherever they are. A patch is the sequence of edits it consists of.

*Actions.* `Open` starts an attempt from its checkpoint; `Claim` is `claimLease` (a lease that is kept, a worker
chosen among the healthiest and least busy, or a deferral), `Prepare`, `Write`, `Check` and `Snapshot` the
requests, each carried out and answered or followed by `Failover`, `Publish` the checkpoint that makes results
and patch visible together, `Close` and `Dispose` the ends of sessions. `Replace` is a coordinator that comes
back under the same fence while the first session lives, `Expire` the deadline, `Crash` the death of the host.
A request may be carried out without an answer: the tree is then one nobody will use again, as the failover
takes another workspace, so that what is in it does not matter.

*Abstracted.* Two failures in a row are as many as more; which of equally good workers is chosen is left open;
a rest ends at any time. `Plan` gives the batches a model asks for. Contents, scopes, verification and the
sizes of requests are left out, and the places of cohorts, which are leases of the same kind.

### ToolExecution: correspondence with the code

*State.* `status`, `answers` and `progress` are the fields of `TrackedTool`, `cascade` is `hasErrored`, `signal`
the reason of the query's abort. JavaScript runs to the next await, so that what is left to interleave is
explicit: `scans` says where suspended loops of `processQueue` go on, `at` and `cursor` where the query and
its generator stand. What an await of a settled promise separates is a microtask; tools, the stream and the
user need the event loop, which has no turn before all microtasks are done (`Turning`).

*Actions.* `Receive` is `addTool`, `Scan` the continuation of a loop, `Report`, `Answer`, `Cancel` and `End` the
updates of a tool in `collectResults`; `Collect`, `Yield` and `Pause` are `getCompletedResults` as the query calls
it, `Drain`, `Pause` and `Wake` the turns of `getRemainingResults`; `Interrupt` and `Discard` come from outside.

*Abstracted.* What tools do is one answer or error and progress before it. Permissions, hooks and context
modifiers are left out, and so is `runTools`, which serves where streaming execution is off.

### How the modules meet

`FoundryScheduler` gives a deferral any wait; `ProviderRecovery` and `ResearchJobs` say where the wait comes
from and what `persistContinuation` does with it. `OperationsEvents` takes the verdict of a run from nowhere;
`FoundryScheduler` says that there is one. `CoordinatorWakeup` is the loop that calls `ClaimMany`.
`MCContextBudget` puts the allocation of `ContextAllocation` under the scheduler. In `HostServices`, seven
components that share no table and no memory stand side by side: `focus` says which of them a behaviour
is about, as no interleaving of them can differ from one of them alone. `MCHostServices` gives them small
instances; the proof modules prove the same properties of `HostServices` for every instance.

## 3. Runs

| Run | Question | Result |
|---|---|---|
| `sched_claims` | Are leases fenced, decisions final, scopes exclusive, with two coordinators, a dependency, a read/write conflict, expiries, deferrals and crashes; and does nobody claim beyond a policy that is lowered meanwhile? | holds |
| `sched_growth` | Do spawning (fresh and replayed), expansion and adjudication stay within parallelism and context, keep the index exact, the graph acyclic; do tasks start on accepted inputs and children only, and failures block whatever is READY behind them; does the database implement `TaskLedger`? | holds |
| `sched_ends` | Does every run end, with children accepted before their parents and failures propagated? | holds |
| `sched_stranded` | Do failed dependencies always block their dependants? | violated (finding 1) |
| `context_growth` | Do the running tasks' budgets always fit in the in-flight cap? | violated (finding 2) |
| `actions_once` | Is an external write executed at most once, its receipt true, its reservation exact, the gate of its run sound, whatever is lost, late, taken over or crashed? | holds |
| `events_safe` | Are runs bound to their admission, admissions and notices justified when they happen, completions made on open gates, and queued events processed? | holds |
| `events_paused` | Is no run started while the service is paused? | violated (finding 3) |
| `events_failed` | Is a queued event always admitted in the end? | violated (finding 4) |
| `provider_probe` | After an outage, is there one probe, a pause by rounds, a circuit closed by fresh evidence only, and nobody asleep past a recovery? | holds |
| `provider_idle` | Does nobody sleep until the deadline of a request that is no longer under way? | violated (finding 5) |
| `host_services` | Do jobs keep slots and receipts and end; do claims rest on what stands; does a recipe succeed by proof, and by a proof only once; is no wakeup lost; is context shared out as promised; are edits on failing workers published once, and their places not given away; are exclusive tool calls alone and in order, and all collected? | holds |

### Bounds, and why they are enough

Three tasks (five or six with children) and two coordinators are the smallest numbers at which a stale
lease meets a newer one of the same task, of the same coordinator and of another; a failure meets both a
READY and a RUNNING dependant; and a batch meets itself as well as what is already running. `MaxAttempts =
2` allows one retry after each kind of failure, so both a retried and a final failure and expiry occur.
`Timeout = 1` makes a lease current and late; longer leases only repeat Tick. `MaxWait` and `MaxDefers`
bound what the code leaves unbounded: the wait a deferral asks for and the number of deferrals.
`MaxRepeated` equal to or larger than `MaxAttempts` makes the streak test coincide with or fall behind the
ceiling; an undefined `maxRepeatedFailures` is a large value. In the code a fence is an unbounded counter;
here it is the length of `attempts`, bounded by the two ceilings. `YieldChoice` is `{TRUE}` where the
production driver is meant (`swarm/driver.ts` always yields the parent) and both values where any caller of
the API is.

In `sched_growth` one discriminator takes the whole context, so that admission by context decides; its
single coordinator forgets its leases when it dies, which leaves claims of an unknown owner for the next.

`actions_once` has two callers of two runs and two actions that share a ceiling: one action taken over by the
other caller while the second reserves is the interesting case, and `MaxUsage` lets an adapter report more
than was reserved. Lease and retry intervals of one tick make each of them either running or over.

`events_safe` has two servers, an event and a deadline, two recipes and two disruptions (a crash, a mode
change, a promotion, a gate that closes or a run that is reopened): enough for one of them in each of the
gaps of a tick, and for a pause that is taken back. `MaxLead` bounds how far ahead things are scheduled.
It checks a liveness property too, and so uses no symmetry.

`provider_probe` has two tasks and three requests: one sent before an outage, the probe, and one that fails or
succeeds late. `Timeout = 2` lets a pause end while an old request is under way; one loss puts a stale
lease, with its call going on or dead, at each place. `MaxTime` lets the longer pause end.
`provider_idle` needs no loss. In `host_services`, jobs have two tasks that ask for the same job or
for two that compete for one slot, with one loss and a remote side that may repeat or alternate its
milestones (one token already gives an old and a new one, as none is reported too); claims are three, the
shortest chain in which an invalidation has to go further than one step, with enough versions (`LastVersion`)
to propose each, revise one and see what follows; recipes are three with two evaluations in two pairs and two
evaluators, so that a copy of each age meets a save, a promotion and a rollback; wakeups have three
coordinators, two in one process, and two commits, so that an own commit hides one of somebody else. The jobs
start up to renaming, and with a limit on their number only where it matters.
Of the fleet there are two workers with one place each and two tasks that compete for them: one edits in two
batches, of which the second takes two requests, so that a failure falls before, between and after them; the
other checks. Two attempts of each and one loss (a deadline, a replaced session, a death of the host) make
late disposals meet newer leases. Tool calls are three, in six responses: searches around an edit in each
order, and a name that is no tool in the places where it is first, between searches and behind an edit.
Three is the least number at which a loop that passes a call meets one before and one after it.
The bounds in guards are `MaxRequests`, `MaxFailures` (limits of the code), `MaxLosses`, `MaxTime`,
`MaxCommits`, `LastVersion`, `MaxFence` and `MaxProgress`.

`Symmetry` permutes the coordinators in two scheduler runs and the tasks in `provider_probe`, which no
definition tells apart; it is used in safety runs only. `CHECK_DEADLOCK FALSE` is stated because a run that
ended, with no lease left in memory and every countdown at 0, stops; the servers stop in a paused service whose
operator has no mode change left (`MaxDisruptions`); tasks end; and a context allocation is a computation that
ends.

`MCContextAllocation`, checked in `host_services`, enumerates every graph of up to four tasks, three
priorities, tasks with and without a budget of their own and five shares. The multiplication is on floating-point numbers in the code; the
operators use exact rationals in hundredths, so results may differ from the code's by one byte where a
product falls on an integer. None of the properties depends on that byte.

### Fairness

`RunEnds` is checked under `FairSpec`: weak fairness of `Tick`; of `ClaimMany(w)` for each coordinator,
because `runTasks` loops and refills whenever something is settled or a wait is over; and of settling some
lease for each coordinator, because the deadline timer of `executeAttempt` ends every attempt. Nothing is
assumed of spawning, policy changes or crashes. A crash discards leases, and every crash needs one, so the
retry ceiling bounds them. `sched_ends` uses yielding spawns and no discriminators: with those, finding 1
keeps a run open for ever.

`EventsServed` is checked under weak fairness of each server's steps and of time: `serveOperations` polls
at least once a minute, every step of a tick returns, and the documentation demands a process manager that
restarts a server that has ended. That an episode ends is `RunEnds`. The property excuses a service that
leaves ACTIVE, a gate that is closed and a run that failed; finding 4 is about the events that wait behind it.

`JobSettled` is checked under weak fairness of each task's steps and of time: workers claim what is ready, a
call is cut off by `toolTimeoutMs`, and a deferral is persisted by the worker that caught it. Nothing is
assumed of the remote side, of the operator or of lost leases, which `MaxLosses` bounds.

`DrainEnds` is checked under weak fairness of the collector, of the suspended loops and of the tools: microtasks
run, and the event loop serves what is ready. A tool that never answers is not excused by the code either
(`executeTool` sets no deadline of its own; tools bring theirs). The property is stated for responses in which
no name that is no tool follows an exclusive call; see the observations below.

## 4. Findings

1. **A discriminator's failure can strand its parent** (`sched_stranded`). `docs/agent-platform/FOUNDRY.md:56`
   says that failed dependencies block their descendants. `blockDependents` (`schedulerIndex.ts:119`) walks
   READY dependants only. When a discriminator is hung under a task that is *running* and fails first, the
   parent is skipped; if the parent's attempt then fails with retries left, it becomes READY behind a failed
   prerequisite. Nothing blocks it any more and nothing can claim it: the run never ends.
2. **Growth re-allocates running tasks** (`context_growth`). `docs/agent-platform/PRODUCTIVITY.md:35` says
   admission caps the sum of running tasks' allocated budgets. A rebuild after growth
   (`schedulerIndex.ts:71`) allocates again for the whole graph, running tasks included, so what was admitted
   under the cap can exceed it afterwards.
3. **A pause does not stop a dispatch under way** (`events_paused`).
   `docs/agent-platform/PROJECT_OPERATIONS.md:165` says that PAUSED admits no new service episodes. `dispatch`
   checks the mode outside any transaction (`operations/events.ts:208`) before it starts the run in another:
   a pause that commits between the two is overlooked and the run is created.
4. **A failed episode holds up the queue** (`events_failed`). `docs/agent-platform/PROJECT_OPERATIONS.md:5`
   says the service remains available for the next event after an episode finishes. The event of a failed
   run stays DISPATCHED; `incomplete(1)` returns it in every later tick (`operations/service.ts:18`), which ends
   as NEEDS_ATTENTION at line 40. No other event is admitted. That the failed episode itself needs attention
   is documented (line 177 of the same file); that the others wait for it is not.
5. **A late answer leaves a waiter asleep** (`provider_idle`). The comment at
   `swarm/providerRecovery.ts:115-117` says that both success and failure are reconciled, since waiting until an
   old deadline can leave ready work idle even though another probe is due. A success older than the last
   failure returns (line 94) before it wakes anybody, and a completion only frees its permit: a task parked
   until the deadline of that request sleeps on until then, with nothing under way. `SleepJustified` says how
   far this can go: never past the deadline of some request.

An observation that is no finding: the comment at `kernel.ts:188` says that the weighted allocation keeps the
average at `contextBytes`. Where the top tasks' share leaves less than a byte for each of the others, these
get one byte all the same (`kernel.ts:217`) and the sum exceeds the average: `BudgetsShared` bounds it by what the
top tasks take and a byte for each other in that case. The ceiling may keep the sum below the average in any case.

Three observations on `StreamingToolExecutor.ts`, which `ToolExecution` states its properties around and which
TLC shows when the premises are dropped:

* *A turn that never ends.* The answer to a name that is no tool is complete at once (lines 78-101). If it stands
  behind an exclusive call that executes, `getCompletedResults` stops at that call (line 436) and never yields it,
  while `hasCompletedResults` is true, so that `getRemainingResults` does not wait (lines 467-471): it turns on
  microtasks, the event loop has no turn, and the exclusive call can never end. Hence the premise of `Draining`.
* *Order.* Lines 35-38 say that results are emitted in the order tools were received. Results pass a safe call that
  executes (line 436 stops at exclusive ones only), and an unknown name's answer passes queued calls.
  `ExclusiveInOrder` says what does hold: in a response of known names, nothing that comes after an exclusive call
  reports before it. The order of safe calls is neither kept nor claimed.
* *Two answers.* A tool that has given its answer and sends another update after an abort or a sibling's error
  gets a cancellation as well (line 336 excuses only errors of its own), hence two results for one call.

## 5. Proofs

`FoundrySchedulerProofs` proves, for every value of the constants that satisfies `GraphAssumption`,
`RecipeAssumption` and `PlanAssumption`:

| Theorem | Statement |
|---|---|
| `TypeCorrect` | `Spec => []TypeOK` |
| `OneAttemptInProgress` | `Spec => []OneOpenAttempt` |
| `AtMostOneAcceptance` | `Spec => []AcceptedOnce` |
| `StartsOnAcceptedInputs` | `Spec => StartsAccepted` |
| `PolicyBindsClaims` | `Spec => ClaimsWithinPolicy` |
| `FailuresReachDependents` | `Spec => FailuresSpread` |
| `NoScopeConflict` | `Spec => []ScopeExclusion` |
| `VerdictOfTasks` | `Spec => []VerdictSound` |
| `FinalHistory` | `Spec => HistoryIsFinal` |
| `Refinement` | `Spec => ImplementsLedger` |
| `ExactIndex` | `Spec => []IndexExact` |
| `NoCircleCloses` | `Spec => []NoCircularWait` |
| `BlocksHaveCauses` | `Spec => []BlockJustified` |
| `NeverTooMany` | `Spec => [](Cardinality(Running(status)) <= Parallelism)` |
| `StaysWithinBudget` | `AllocationsFall` implies `Spec => []WithinBudget` |
| `StartedIsSettled` | `YieldingRun` implies `Spec => []StartedSettled` |
| `ParentsAfterChildren` | `YieldingRun` implies `Spec => []ChildrenFirst` |
| `NobodyIsStranded` | `YieldingRun` implies `Spec => []NoStrandedTask` |

The assumptions say that the task set is finite, the initial graph is closed under dependencies, nonempty,
acyclic and fits the recipe (what `compilePlan` validates before a row is inserted) and that the recipe's
numbers are positive.

Two theorems hold of some recipes and callers only, and say which:

* `AllocationsFall`: growth raises nobody's allocation. It holds where the recipe has no
  `priorityContextShare`, as everybody then gets the default whatever the graph is
  (`UnweightedAllocationsStand` in `CoordinationProofs`); `sched_growth` satisfies it. The bound on the number of
  tasks needs no condition (`NeverTooMany`).
  Where it fails, `WithinBudget` fails: that is finding 2, and the constants of `context_growth`.
* `YieldingRun`: every spawn yields (`swarm/driver.ts` does, always) and no discriminator is hung under a task.
  `sched_claims` and `sched_ends` satisfy it. With discriminators `NoStrandedTask` fails (finding 1), and a
  discriminator may be admitted below a parent that has passed; without yielding, a parent may be accepted
  before its children.

*The argument, history.* None of `TypeOK`, `OneOpenAttempt`, `AcceptedOnce`, `InputsAccepted`, `ScopeExclusion` and
`VerdictSound` is inductive alone. The inductive invariant is their conjunction `Inv`. What each contributes: a lease that `Current` accepts has the fence of the newest attempt, and
`OneOpenAttempt` says that attempt is the only open one, so settling it cannot touch an ended attempt
(`AcceptedOnce`, `HistoryIsFinal`). A claim verifies the prerequisites against `status`, and since a task that
passed stays so, `InputsAccepted` (the lemma of the invariant that concerns specified dependencies) survives every
later step. `Refills` compares a batch with itself and with
everything RUNNING *after* expiry, which gives `ScopeExclusion` without any assumption about coordinators.
`StartsAccepted` and `ClaimsWithinPolicy` are about the step that claims: a task that starts is in the refill that
was verified against the rows and the policy after expiry (`StartsAreRefills`); they speak of children hung below a
task and of a policy lowered below what runs, which no state shows any more afterwards. `FailuresSpread` is about the
transaction that rejects a task, and says of READY tasks only that they are blocked exactly if they wait for it;
what becomes of a RUNNING one is `NobodyIsStranded` and finding 1. `TypeOK` is proved for every instance, so that
no run spends its time on it. `VerdictSound` needs its third part — where something is BLOCKED, something FAILed — because the code ends a
run as FAIL when it sees either; it follows from the definition of `Doomed`: the least closed set, so empty
when nothing failed. Each action has one step of the proof, and under it one per conjunct it can disturb;
facts about `StatusAfterExpiry`, `Grant`, `EndAttempt` and `Insert` are lemmas.

*The argument, graph.* `GraphInv` is inductive relative to `Inv`: the leases in memory are finitely many, what
rows name is in the graph (`GraphClosed`), the index is exact, nobody waits in a circle, whatever is blocked has
a cause, and no more than `Parallelism` tasks run. `StepKinds` sorts the actions by what they do to the graph — a
task is accepted, fails with those behind it, goes back to READY, a refill is granted, or new tasks `B` hang
below a task `p` — so that each invariant has five cases and not one per action. A circle is a nonempty set in
which everybody waits for a member. Growth by a batch was tested along the specification edges only, not along
the runtime ones; no circle arises all the same, as a batch inherits no dependencies but its parent's: in a set
with members of the batch, one of them waits for a task outside the batch that the parent waits for as well, so
that without the batch the set was a circle before (`BatchClosesNoCircle`). Exactness of the index is a matter of
cardinalities: an acceptance takes one from the prerequisites of each dependent that is still open, and
growth counts anew. `StaysWithinBudget` adds the sum: a refill was compared with the cap together with what is
still running, and every other step leaves a subset of the running tasks, whose allocations have only fallen.

*The argument, children.* Under `YieldingRun`, `StartedSettled` says that whatever runs or has passed has had
everything it waits for accepted: a claim verifies it, and growth below a running task sends that task back
to READY. Then a failure cannot be behind a task that runs, so the walk over READY dependents that
`blockDependents` makes misses nobody, in whichever order failures, expiries and growth happen.

*Refinement.* READY and RUNNING are "open", PASS "accepted", FAIL and BLOCKED "rejected". Claims that end
nothing, deferrals, retries, crashes and ticks stutter; a final failure and the tasks blocked by it are one
`Settle`; growth is `Admit`; a finish is `Accept`, whose guard is `InputsAccepted` of the running task, and
whose open verdict is `VerdictSound`.

*Sums.* `SumTheorems` proves what these proofs need of sums over finite sets (their order does not matter;
adding an element, a subset, a pointwise bound, two levels). The library's induction theorems take an
operator and cannot be used; instead, a nonempty collection of finite sets has a least member
(`FS_StrictSubsetOrderingWellFounded`), and a least counterexample is contradicted. That a fold over a set is
the recursive function it is defined by is `TableExists` and `TablesAgree`.

`OperationsActionsProofs` proves, from the assumptions of `OperationsActions` on the ceilings, sizes and
runs: `ExecutedAtMostOnce`, `TrueReceipts`, `CeilingsHold`, `GateOfRun`, `ExactReservations`, `FinalSettlement`
and the types.
The inductive invariant says beside the properties themselves that an execute request was sent only for
rows that exist (`IssuedOnce`), that effects are counted by outcomes and requests under way
(`OutcomeCounted`), that an answer a caller remembers is still true when it is used (`AnswersTrue`, because
applied and refused are both final in the world), and that every attempt that dispatched or joined an
action is among its users (`UsesComplete`). `ExactReservations` (`Spec => []BudgetExact`: what is reserved is the
sum over the actions that are not settled) has an invariant of its own: a settlement takes from the sum what
the same action put in, since only unsettled actions are owned (`OwnedUnsettled`).

`OperationsEventsProofs` proves, from `ServiceAssumption` (identities of notices are distinct, as digests
are): `RunsBound`, `AdmissionInMode`, `NoticesJustified`, `CompletionsJustified` and the types. The
invariant adds `Memory`: what a server remembers between two steps is still true when it goes on, because
the rows it concerns only move forward. This is where stale reads would show.

`ProviderRecoveryProofs` proves, from `ProviderAssumption` (the ceilings are positive, pauses are), for any
tasks, requests, delays and losses:

| Theorem | Statement |
|---|---|
| `OneProbeAtATime` | `Spec => [](TypeOK /\ OneProbe)` |
| `BackoffByRounds` | `Spec => []BackoffPerRound` |
| `ClosedByProbes` | `Spec => ClosedByProbe` |
| `SleepersAreJustified` | `Spec => []SleepJustified` |

The invariant relates epochs and times: a request belongs to an epoch that its own failure ends (`Epochs`),
an answer is judged once (`Pending`), and the cooldown covers every pause while a request of the current epoch
was sent after it (`Paused`). Hence a success that counts was sent after every pause (`ClosedByProbe`); a new
request finds no other under way while the circuit is open (`OneProbe`), as `Admission` is the first deadline of
those that are; and the epoch a failure ends is a new one among those counted (`BackoffPerRound`). One lemma
covers every step without a verdict or a new request (`UnjudgedCircuit`).

`SleepersAreJustified` is the hardest of them: between the decision to wait and the transaction that persists the
wait, anybody may answer, fail, wake or expire. The invariant says that an attempt is at one thing at a time — about
to ask, waiting for one answer, or carrying a deferral it has thrown — (`OneErrand`), that nothing is of a fence
to come (`Fenced`), that a deferral beyond the cooldown that was thrown and not persisted yet is the one its attempt
has recorded (`Recorded`), and that whoever sleeps longer than the cooldown is among the waiters that a recovery
wakes (`Listed`). With these, what `providerWaitDeadline` reads when the wait is persisted bounds the sleep, and every
verdict after that finds the sleeper in the list.

The components of `HostServices` are proved from its `HostAssumption`, the conjunction of what each supposes of
its constants. A step of the host is a step of the component in focus and leaves the others alone
(`ResearchTurn`, `CoordinationTurn`, `ExecutionTurn`), so that an inductive invariant of a component is one of
the host under its focus.

| Module | Theorem | Statement |
|---|---|---|
| `ResearchServicesProofs` | `ClaimsSound` | `Claims!Spec => [](TypeOK /\ Acyclic /\ Grounded)` |
| | `NoCircularClaims`, `ClaimsAreGrounded` | `Spec => []Acyclic`, `Spec => []Grounded` |
| | `SlotsShared` | `Jobs!Spec => [](TypeOK /\ CapacityShared)` |
| | `CapacityIsShared`, `ReceiptsStand` | `Spec => []CapacityShared`, `Spec => ReceiptFinal` |
| | `EvidenceIsKept` | `Recipes!Spec => ([]TypeOK /\ EvidenceKept)` |
| | `RecipesEarnTheirPlace` | `Spec => EarnedSuccession` |
| `CoordinationProofs` | `NoWakeupLost` | `Wakeups!Spec => [](TypeOK /\ NoLostHint)` |
| | `HintsAreKept` | `Spec => []NoLostHint` |
| | `ContextIsShared` | `Spec => []BudgetsShared` |
| `ExecutionProofs` | `EditsArePublishedOnce` | `Spec => []PublishedOnce` |
| | `WorkersAreNotOverbooked` | `Spec => []NotOverbooked` |
| | `ExclusiveCallsKeepOrder` | `Spec => []ExclusiveInOrder` |

*Jobs.* A parked waiter for a slot has seen all of them taken, or is not asleep: a receipt wakes the persisted
waits, and a wait that is not persisted yet is tested again by `Persist`.

*Claims*, for any set of them, finite or not. Acyclicity is stated as "every nonempty set has a member that cites
none of it", and what rests on a claim as the least closed set, so that no induction over paths is needed: a new
version of `c` cites nothing that rests on `c`, so a set without such a member would have been one before.

*Recipes.* The invariant says of an evaluator's copy that its evaluation is recorded, unfinished in the copy, and
that what it is about to save has been measured; and of an evaluation that was promoted that its receipt is consumed
(`Consumed`), which no late save undoes (`PairsKept`): hence the second promotion after a rollback is refused.

*Wakeups.* The invariant follows a coordinator through its loop (`OnTheWay`): at each place, what it has not seen
is a commit of another process, which its next poll tells from its own, or one its process was told of, or
nothing. `ThreadHeld` says who runs in a process, which is what makes the renewal of the observed revision safe.

*Context.* The budgets are a function of the graph, so that the invariant only says so, and the theorem is about
arithmetic: two tasks that share never have the same position, so no more than `TopCount` of them are privileged
(an injection into an interval); the sum of two levels is a product; and what the privileged get above the
default is no more than what the remainder, rounded down, is short of it. Where the floor of one byte replaces a
smaller remainder, the two levels are bounded as they are. The assumption on the constants is what
`validateContract`, `validateRecipe` and `validateTasks` test (`kernel.ts:54`, `:61-63`, `:97`).

*Fleet.* `Working(t)` says for each phase of a session what is in its tree: the edits of the batches before, and
of this one as many as were sent; and that what is kept to restore is what was published. A failover takes a
workspace nobody has used (`replaced`), so a late write ends up in a tree that is not looked at again.
`Holding(t)` says that a session that runs has the lease its requests are for, which is why a late disposal,
which names worker and workspace, frees nobody else's; `SlotsKept` then counts leases. The edits of the first
batches are a `FlattenSeq`, a recursive function over a sequence: that it appends a batch at a time is proved
by a least counterexample again (`FlattensAgree`, `FlattensExists`, `NextEdited`). `FleetAssumption` says that
the tasks of a run are finitely many, as they are in the code, and that `NoLease` is not a lease.

*Tool calls.* Calls are received and started in order, and an exclusive one has no company (`Order`); a loop of
`processQueue` that waits at a call has left nothing queued behind (`LoopsPast`), which is what keeps a loop that
goes on late from overtaking; progress is of calls that were started (`Reporting`). Without misnomers, whatever
was yielded is behind no exclusive call that is still to be yielded (`YieldedInOrder`).

TLC evaluates every assumption on the instances checked, and has checked the inductive invariants of the fleet
and of the tool calls on them. The runs check no `TypeOK`, `AcceptedOnce`, `InputsAccepted`, `BlockJustified`,
`SettledIsFinal` and `EvidenceKept`, which the proofs establish for every instance.

## 6. Model-checked only

The liveness properties `RunEnds`, `EventsServed`, `JobSettled` and `DrainEnds`: liveness under fairness and
`ENABLED` are out of reach of the prover. So are the properties of the runs that expect a violation, which are
false. Every other property of a passing run is stated by a theorem of section 5. `StaysWithinBudget`,
`ParentsAfterChildren` and `NobodyIsStranded` are conditional, as said there, and the runs check these properties
on instances that meet the conditions.

Induction over data with the library's theorems is out of reach too, which is why the modules state
reachability as least closed sets, and why sums and `FlattenSeq` are handled by least counterexamples.

## 7. Not modelled, and the plan

The repository is for the most part a terminal client: screens, tools, prompt construction, message rendering,
protocol adapters. Most of that is text and I/O of one actor, right or wrong as text, and is left out for good,
as are metrics and offline reports. Its tool execution is modelled; where several sessions share files it has
races of its own, listed below.

These parts remain, in this order:

1. The locks of the client on disk: `src/src/utils/cronTasksLock.ts` and
   `src/src/services/autoDream/consolidationLock.ts` recover a stale lock in several steps. The first reads it,
   unlinks it and creates its own, so that a second session that read the stale one as well may unlink the
   lock the first has just created, although the comment on `tryAcquireSchedulerLock` says that only one wins;
   the second writes its process id and reads it back, which another may do right after it. Then the task
   lists of `src/src/utils/tasks.ts`.
2. Claim conflicts and the acceptance gate, composed with `ClaimGraph`, so that `blocked` of `OperationsEvents` is
   theirs.
3. `WorkflowPolicy` — proposals, versions and savepoints around the scheduler's growth actions.
4. The timers inside one attempt (`executeAttempt`), whose late reports are stale leases in `FoundryScheduler`.
5. Several provider pools with hedged routes and control-plane reservations; coalescing and objective limits
   of jobs; cohorts; `proposals.ts`; the re-authentication of evidence before a promotion.

What is left to prove of the modelled parts is liveness, which stays with TLC. Each part above brings its own
invariants; the disk locks and the acceptance gate are the first whose theorems would say something new.
