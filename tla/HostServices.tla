----------------------------- MODULE HostServices -----------------------------
(***************************************************************************)
(* Seven components of the host that share no table and no memory: the     *)
(* remote jobs, the claims, the recipes, the wakeup of coordinators, the   *)
(* allocation of context, the remote workers and the tool calls of the     *)
(* client.  As no step of one touches what another reads, their            *)
(* interleavings add nothing: a behaviour is one of one of them.           *)
(***************************************************************************)
EXTENDS Integers, FiniteSets

CONSTANTS
  Task, Job, JobId, Token, Answers, MaxConcurrent, ReconcileAfter, Delays, MaxLosses,
  NoRow, NoId, NoToken, NoResult,                                  \* ResearchJobs
  ClaimId, Readable, MaxVersion, LastVersion,                      \* ClaimGraph
  Recipe, Root, Evaluation, Evaluator, Repetitions, Unknown, None, \* RecipeEvolution
  Conn, Proc, ProcOf, Parallelism, MaxCommits, Nobody,             \* CoordinatorWakeup
  Member, Base, Ceiling, Shares, Priorities, OwnBudgets,           \* MCContextAllocation
  Worker, Serves, Plan, Width, MaxFence, NoWorker, NoLease,        \* WorkerFleet
  Calls, Tool, Safe, Shell, Cancellable, NoTool, MaxProgress       \* ToolExecution

VARIABLES
  focus,  \* the component whose behaviour this is
  uses, maxJobs, row, phase, wait, losses,
  version, status, deps,
  active, parent, admitted, record, promotions, outcome, memory,
  commits, own, revision, thread, pc, observed, seen, attempts,
  graph, prio, given, share, budget,
  fence, running, state, session, replaced, lease, health, tree, faults,
  kind, calls, answers, progress, shown, failed, cascade, signal, scans, at, cursor, awaited, emitted

Jobs    == INSTANCE ResearchJobs
Claims  == INSTANCE ClaimGraph WITH Claim <- ClaimId
Recipes == INSTANCE RecipeEvolution
Wakeups == INSTANCE CoordinatorWakeup WITH active <- attempts
Context == INSTANCE MCContextAllocation WITH Task <- Member, own <- given
Fleet   == INSTANCE WorkerFleet WITH
             thread <- state, losses <- faults, MaxConcurrent <- Serves
Tools   == INSTANCE ToolExecution WITH status <- calls, Kind <- Tool, Unknown <- NoTool

\* What the proofs about these components suppose of their constants.
ASSUME HostAssumption ==
  Jobs!JobsAssumption /\ Recipes!EvolutionAssumption /\ Wakeups!WakeupAssumption
  /\ Context!AllocationAssumption /\ Fleet!FleetAssumption /\ Tools!ExecutorAssumption

jobVars    == <<uses, maxJobs, row, phase, wait, losses>>
claimVars  == <<version, status, deps>>
recipeVars == <<active, parent, admitted, record, promotions, outcome, memory>>
wakeupVars == <<commits, own, revision, thread, pc, observed, seen, attempts>>
contextVars == <<graph, prio, given, share, budget>>
fleetVars  == <<fence, running, state, session, replaced, lease, health, tree, faults>>
toolVars   == <<kind, calls, answers, progress, shown, failed, cascade, signal, scans,
                at, cursor, awaited, emitted>>
vars       == <<focus, jobVars, claimVars, recipeVars, wakeupVars, contextVars, fleetVars, toolVars>>

\* A component that is not looked at has no state.
NoJobs ==
  uses = None /\ maxJobs = None /\ row = None /\ phase = None /\ wait = None /\ losses = None
NoClaims == version = None /\ status = None /\ deps = None
NoRecipes ==
  /\ active = None /\ parent = None /\ admitted = None
  /\ record = None /\ promotions = None /\ outcome = None /\ memory = None
NoWakeups ==
  /\ commits = None /\ own = None /\ revision = None /\ thread = None
  /\ pc = None /\ observed = None /\ seen = None /\ attempts = None
NoContext == graph = None /\ prio = None /\ given = None /\ share = None /\ budget = None
NoFleet ==
  /\ fence = None /\ running = None /\ state = None /\ session = None /\ replaced = None
  /\ lease = None /\ health = None /\ tree = None /\ faults = None
NoTools ==
  /\ kind = None /\ calls = None /\ answers = None /\ progress = None /\ shown = None
  /\ failed = None /\ cascade = None /\ signal = None /\ scans = None
  /\ at = None /\ cursor = None /\ awaited = None /\ emitted = None

Init ==
  /\ focus \in {"jobs", "claims", "recipes", "wakeups", "context", "fleet", "tools"}
  /\ IF focus = "jobs" THEN Jobs!Init ELSE NoJobs
  /\ IF focus = "claims" THEN Claims!Init ELSE NoClaims
  /\ IF focus = "recipes" THEN Recipes!Init ELSE NoRecipes
  /\ IF focus = "wakeups" THEN Wakeups!Init ELSE NoWakeups
  /\ IF focus = "context" THEN Context!Init ELSE NoContext
  /\ IF focus = "fleet" THEN Fleet!Init ELSE NoFleet
  /\ IF focus = "tools" THEN Tools!Init ELSE NoTools

Only(component) == focus = component /\ UNCHANGED focus
Others(a, b, c, d, e, f) == UNCHANGED <<a, b, c, d, e, f>>

InJobs    == Only("jobs") /\ Others(claimVars, recipeVars, wakeupVars, contextVars, fleetVars, toolVars)
InClaims  == Only("claims") /\ Others(jobVars, recipeVars, wakeupVars, contextVars, fleetVars, toolVars)
InRecipes == Only("recipes") /\ Others(jobVars, claimVars, wakeupVars, contextVars, fleetVars, toolVars)
InWakeups == Only("wakeups") /\ Others(jobVars, claimVars, recipeVars, contextVars, fleetVars, toolVars)
InContext == Only("context") /\ Others(jobVars, claimVars, recipeVars, wakeupVars, fleetVars, toolVars)
InFleet   == Only("fleet") /\ Others(jobVars, claimVars, recipeVars, wakeupVars, contextVars, toolVars)
InTools   == Only("tools") /\ Others(jobVars, claimVars, recipeVars, wakeupVars, contextVars, fleetVars)

Next ==
  \/ InJobs /\ Jobs!Next
  \/ InClaims /\ Claims!Next
  \/ InRecipes /\ Recipes!Next
  \/ InWakeups /\ Wakeups!Next
  \/ InContext /\ Context!Next
  \/ InFleet /\ Fleet!Next
  \/ InTools /\ Tools!Next

\* The fairness of the jobs and of the tools; the others need none.
Fairness ==
  /\ \A t \in Task : WF_jobVars(focus = "jobs" /\ Jobs!Work(t))
  /\ WF_jobVars(focus = "jobs" /\ Jobs!Tick)
  /\ WF_toolVars(focus = "tools" /\ Tools!Collector)
  /\ WF_toolVars(focus = "tools" /\ \E p \in 1..Calls + 1 : Tools!Scan(p))
  /\ WF_toolVars(focus = "tools" /\ \E i \in 1..Calls : Tools!Go(i))

Spec == Init /\ [][Next]_vars

\* Jobs never oversubscribe their slots, and nobody sleeps for a slot that is free.
CapacityShared == focus = "jobs" => Jobs!CapacityShared

\* What is recorded with the receipt of a job is final.
ReceiptFinal == [][focus = "jobs" => Jobs!ReceiptKept]_vars

\* A submitted job ends with a result or in the hands of the operator.
JobSettled ==
  \A t \in Task : focus = "jobs" /\ Jobs!Submits(t) ~> focus = "jobs" /\ Jobs!Settled(t)

\* No claim rests on itself.
Acyclic == focus = "claims" => Claims!Acyclic

\* A usable claim rests on current, usable ones, a supported one on supported ones.
Grounded == focus = "claims" => Claims!Grounded

\* A recipe comes into force by a complete evaluation against the one it succeeds, which
\* promotes it once, or because it was in force before.
EarnedSuccession == [][focus = "recipes" => Recipes!Earned]_vars

\* A coordinator that sleeps has seen every commit, or is about to.
NoLostHint == focus = "wakeups" => Wakeups!NoLostHint

\* Context is given to every task, by priority, and to all no more than the default for
\* each while the top tasks leave the others anything.
BudgetsShared == focus = "context" => Context!BudgetsShared

\* What a thread publishes has the edits of its results, each once and in order.
PublishedOnce == focus = "fleet" => Fleet!PublishedOnce

\* No worker serves more attempts than it may, by the leases of those that run.
NotOverbooked == focus = "fleet" => Fleet!NotOverbooked

\* Exclusive calls execute alone, calls of known names start in the order of the response,
\* and where all names are known nothing reports before an exclusive call that precedes it.
ExclusiveInOrder == focus = "tools" => Tools!ExclusiveInOrder

\* The results of a response are collected, unless a misnomer follows an exclusive call.
DrainEnds ==
  (focus = "tools" /\ Tools!Draining) ~> (focus = "tools" /\ Tools!Drained)
=============================================================================
