----------------------------- MODULE WorkerFleet -----------------------------
(***************************************************************************)
(* Attempts that edit and check their code on remote workers: the leases   *)
(* and the health of the workers (swarm/workerFleet.ts), the private trees *)
(* the workers keep (scripts/swarm-worker-agent.py), and the thread that   *)
(* publishes what they did (swarm/driver.ts, swarm/toolBatches.ts).        *)
(*                                                                         *)
(* A request may be carried out in part, and its reply may be lost.  The   *)
(* leases, the health and the threads are in the database; a session is in *)
(* the memory of the host, which may die; a tree is with its worker.       *)
(***************************************************************************)
EXTENDS Naturals, Sequences, FiniteSets, SequencesExt

CONSTANTS
  Task,
  Worker,        \* spec.workers
  MaxConcurrent, \* how many leases a worker has at most
  Plan,          \* per task, the batches of its tool calls, by their edits; 0 is a check
  Width,         \* edits in one request of a batch
  MaxFence,      \* bound: attempts of a task
  MaxLosses,     \* bound: sessions that run out of time, are replaced, or die with the host
  NoWorker, NoLease

VARIABLES
  fence, running, \* tasks.fence, and whether the deadline of its attempt is ahead
  thread,   \* the checkpoint: how many batches are done, and state.patchHash
  session,  \* RemoteHands of the attempt
  replaced, \* workspaces of sessions that were replaced and are not yet disposed of
  lease,    \* swarm_worker_leases, by task
  health,   \* swarm_worker_health
  tree,     \* what is in the workspaces of a task's sessions
  losses

durable == <<fence, running, thread>>
vars == <<durable, session, replaced, lease, health, tree, losses>>

\* Workers take at least one attempt, requests at least one edit.
FleetAssumption ==
  /\ IsFiniteSet(Task)
  /\ MaxConcurrent \in [Worker -> Nat \ {0}] /\ NoWorker \notin Worker
  /\ NoLease \notin [worker : Worker, workspace : Nat]
  /\ Plan \in [Task -> Seq(Nat)] /\ Width \in Nat \ {0}
  /\ MaxFence \in Nat /\ MaxLosses \in Nat

Edits(t, b)  == [k \in 1..Plan[t][b] |-> <<b, k>>]
Edited(t, n) == FlattenSeq([b \in 1..n |-> Edits(t, b)])

\* A session that has not leased anything, and goes on from the patch it restores.
Fresh(patch) ==
  [at |-> "call", worker |-> NoWorker, workspace |-> 0, prepared |-> FALSE,
   failed |-> {}, restore |-> patch, sent |-> 0]
Closed == [Fresh(<<>>) EXCEPT !.at = "off"]

Init ==
  /\ fence = [t \in Task |-> 0] /\ running = [t \in Task |-> FALSE]
  /\ thread = [t \in Task |-> [done |-> 0, patch |-> <<>>]]
  /\ session = [t \in Task |-> Closed]
  /\ replaced = [t \in Task |-> {}]
  /\ lease = [t \in Task |-> NoLease]
  /\ health = [w \in Worker |-> [failures |-> 0, resting |-> FALSE]]
  /\ tree = [t \in Task |-> <<>>]
  /\ losses = 0

-----------------------------------------------------------------------------
(* Leases.                                                                 *)

\* A name that no workspace in use has: "a replacement must never reuse a private tree
\* with unpublished edits" (workerFleet.ts).
Workspace(t) ==
  LET known == replaced[t] \cup {session[t].workspace} \cup DOMAIN tree[t]
                 \cup IF lease[t] = NoLease THEN {} ELSE {lease[t].workspace}
  IN  CHOOSE n \in 1..Cardinality(known) + 1 : n \notin known

\* Mutant of Released: whoever leaves frees the row of the task.
ReleasedAny(t, ws) == [lease EXCEPT ![t] = NoLease]

\* releaseLease with a workspace: only the row that is for it.
Released(t, ws) ==
  IF lease[t] # NoLease /\ lease[t].workspace = ws THEN [lease EXCEPT ![t] = NoLease] ELSE lease

Active(w, t) == Cardinality({u \in Task \ {t} : lease[u] # NoLease /\ lease[u].worker = w})

\* Workers the task may turn to, and among them the healthiest and least busy ones.
Free(t) == {w \in Worker \ session[t].failed : ~health[w].resting /\ Active(w, t) < MaxConcurrent[w]}
Best(t) == {w \in Free(t) : \A v \in Free(t) :
  \/ health[w].failures < health[v].failures
  \/ health[w].failures = health[v].failures /\ Active(w, t) <= Active(v, t)
  \/ health[w].failures = 2 /\ health[v].failures = 2}

At(t, phase) == running[t] /\ session[t].at = phase

\* claimLease: what the task holds is kept, in a new workspace, unless it failed; else a
\* worker is chosen, or the attempt is deferred until one may be free.
Claim(t) ==
  /\ At(t, "call") /\ session[t].worker = NoWorker
  /\ LET held == lease[t] # NoLease /\ lease[t].worker \notin session[t].failed IN
     \/ \E w \in IF held THEN {lease[t].worker} ELSE Best(t) :
          /\ lease' = [lease EXCEPT ![t] = [worker |-> w, workspace |-> Workspace(t)]]
          /\ session' = [session EXCEPT ![t].worker = w, ![t].workspace = Workspace(t)]
     \/ /\ ~held /\ Free(t) = {}
        /\ session' = [session EXCEPT ![t].at = "closing"]
        /\ UNCHANGED lease
  /\ UNCHANGED <<durable, replaced, health, tree, losses>>

-----------------------------------------------------------------------------
(* Requests to the worker.                                                 *)

\* workerSucceeded, workerFailed: from the second failure in a row on, which are not told
\* apart, a worker rests.
Succeeded(w) == [health EXCEPT ![w] = [failures |-> 0, resting |-> FALSE]]
Failed(w) == [health EXCEPT ![w] =
  [failures |-> IF @.failures = 0 THEN 1 ELSE 2, resting |-> @.failures > 0]]

\* The session after a failover: all of its batch is to be sent again, elsewhere.
Left(t) ==
  LET failed == session[t].failed \cup {session[t].worker} IN
  [session EXCEPT ![t].at = IF failed = Worker THEN "closing" ELSE "call",
                  ![t].worker = NoWorker, ![t].failed = failed,
                  ![t].prepared = FALSE, ![t].sent = 0]

\* A session leaves its tree: dispose asks the worker to remove it, and a failover or a lost
\* request leaves it on the worker, where no session gets its name again.
Forget(t, ws) == tree' = [tree EXCEPT ![t] = [x \in DOMAIN @ \ {ws} |-> @[x]]]

Failover(t) ==
  /\ session' = Left(t)
  /\ Forget(t, session[t].workspace)
  /\ lease' = Released(t, session[t].workspace)
  /\ health' = Failed(session[t].worker)
  /\ UNCHANGED <<durable, replaced, losses>>

Reaches(t) == At(t, "call") /\ session[t].worker # NoWorker

\* A tree that is there already is used as it is.
Prepared(t) ==
  [tree EXCEPT ![t] = [ws \in DOMAIN @ \cup {session[t].workspace} |->
                         IF ws \in DOMAIN @ THEN @[ws] ELSE session[t].restore]]

Prepare(t) ==
  /\ Reaches(t) /\ ~session[t].prepared
  /\ \/ /\ tree' = Prepared(t)
        /\ session' = [session EXCEPT ![t].prepared = TRUE]
        /\ UNCHANGED <<durable, replaced, lease, health, losses>>
     \/ Failover(t)

Batch(t) == thread[t].done + 1

\* The edits of the next request.
Chunk(t) ==
  LET rest == SubSeq(Edits(t, Batch(t)), session[t].sent + 1, Plan[t][Batch(t)])
  IN  IF Len(rest) > Width THEN SubSeq(rest, 1, Width) ELSE rest

\* Mutant of Answered: every reply's patch is what the next worker is given.
AnsweredEach(t) ==
  LET sent == session[t].sent + Len(Chunk(t))
      all  == sent = Plan[t][Batch(t)]
  IN  [session EXCEPT ![t].sent = sent, ![t].at = IF all THEN "answered" ELSE "call",
                      ![t].restore = tree'[t][session[t].workspace]]

\* The session after a reply: only the patch of the whole batch is kept.
Answered(t) ==
  LET sent == session[t].sent + Len(Chunk(t))
      all  == sent = Plan[t][Batch(t)]
  IN  [session EXCEPT ![t].sent = sent, ![t].at = IF all THEN "answered" ELSE "call",
                      ![t].restore = IF all THEN tree'[t][session[t].workspace] ELSE @]

\* A batch of writes.  Edits that a worker made before it failed are lost with its tree.
Write(t) ==
  /\ Reaches(t) /\ session[t].prepared /\ Plan[t][Batch(t)] > 0
  /\ \/ /\ tree' = [tree EXCEPT ![t][session[t].workspace] = @ \o Chunk(t)]
        /\ session' = Answered(t)
        /\ health' = IF session'[t].at = "answered" THEN Succeeded(session[t].worker) ELSE health
        /\ UNCHANGED <<durable, replaced, lease, losses>>
     \/ Failover(t)

\* A check edits nothing that is kept track of; a snapshot of the tree follows it.
Check(t) ==
  /\ Reaches(t) /\ session[t].prepared /\ Plan[t][Batch(t)] = 0
  /\ \/ /\ session' = [session EXCEPT ![t].at = "snapshot"]
        /\ health' = Succeeded(session[t].worker)
        /\ UNCHANGED <<durable, replaced, lease, tree, losses>>
     \/ Failover(t)

\* A snapshot is not sent to another worker: without it the attempt fails.
Snapshot(t) ==
  /\ At(t, "snapshot")
  /\ \/ /\ session' = [session EXCEPT ![t].at = "answered", ![t].restore = tree[t][session[t].workspace]]
        /\ health' = Succeeded(session[t].worker)
     \/ session' = [session EXCEPT ![t].at = "closing"] /\ UNCHANGED health
  /\ UNCHANGED <<durable, replaced, lease, tree, losses>>

-----------------------------------------------------------------------------
(* Attempts.                                                               *)

\* The runtime claims the task and the driver opens a session from the checkpoint.
Open(t) ==
  /\ ~running[t] /\ session[t].at = "off"
  /\ thread[t].done < Len(Plan[t]) /\ fence[t] < MaxFence
  /\ fence' = [fence EXCEPT ![t] = @ + 1]
  /\ running' = [running EXCEPT ![t] = TRUE]
  /\ session' = [session EXCEPT ![t] = Fresh(thread[t].patch)]
  /\ UNCHANGED <<thread, replaced, lease, health, tree, losses>>

\* Under the lease of the attempt, results and patch become visible in one checkpoint.
Publish(t) ==
  /\ At(t, "answered")
  /\ thread' = [thread EXCEPT ![t] = [done |-> @.done + 1, patch |-> session[t].restore]]
  /\ session' = [session EXCEPT ![t].sent = 0,
                                ![t].at = IF thread'[t].done = Len(Plan[t]) THEN "closing" ELSE "call"]
  /\ UNCHANGED <<fence, running, replaced, lease, health, tree, losses>>

\* dispose, and the runtime settles the attempt.  Past the deadline no request is sent.
Close(t) ==
  /\ session[t].at # "off" /\ (session[t].at = "closing" \/ ~running[t])
  /\ lease' = IF session[t].worker = NoWorker THEN lease ELSE Released(t, session[t].workspace)
  /\ Forget(t, session[t].workspace)
  /\ session' = [session EXCEPT ![t] = Closed]
  /\ running' = [running EXCEPT ![t] = FALSE]
  /\ UNCHANGED <<fence, thread, replaced, health, losses>>

Loss == losses < MaxLosses /\ losses' = losses + 1

\* The deadline of the attempt, which is that of its lease, passes.
Expire(t) ==
  /\ running[t]
  /\ IF session[t].at = "off" THEN UNCHANGED losses ELSE Loss
  /\ running' = [running EXCEPT ![t] = FALSE]
  /\ lease' = [lease EXCEPT ![t] = NoLease]
  /\ UNCHANGED <<fence, thread, session, replaced, health, tree>>

\* A coordinator takes the attempt over under its fence; the first session disposes later.
Replace(t) ==
  /\ At(t, "call") /\ session[t].worker # NoWorker
  /\ Loss
  /\ replaced' = [replaced EXCEPT ![t] = @ \cup {session[t].workspace}]
  /\ session' = [session EXCEPT ![t] = Fresh(thread[t].patch)]
  /\ UNCHANGED <<durable, lease, health, tree>>

Dispose(t, ws) ==
  /\ ws \in replaced[t]
  /\ replaced' = [replaced EXCEPT ![t] = @ \ {ws}]
  /\ lease' = Released(t, ws)
  /\ Forget(t, ws)
  /\ UNCHANGED <<durable, session, health, losses>>

\* The host dies: leases stay until their deadlines.
Crash ==
  /\ Loss
  /\ session' = [t \in Task |-> Closed]
  /\ replaced' = [t \in Task |-> {}]
  /\ tree' = [t \in Task |-> <<>>]
  /\ UNCHANGED <<durable, lease, health>>

\* The pause of a worker ends.
Rested(w) ==
  /\ health[w].resting
  /\ health' = [health EXCEPT ![w].resting = FALSE]
  /\ UNCHANGED <<durable, session, replaced, lease, tree, losses>>

Next ==
  \/ \E t \in Task : \/ Open(t) \/ Claim(t) \/ Prepare(t) \/ Write(t) \/ Check(t) \/ Snapshot(t)
                     \/ Publish(t) \/ Close(t) \/ Expire(t) \/ Replace(t)
                     \/ \E ws \in replaced[t] : Dispose(t, ws)
  \/ \E w \in Worker : Rested(w)
  \/ Crash

Spec == Init /\ [][Next]_vars

-----------------------------------------------------------------------------
\* "Transport/snapshot failure aborts the whole group. No partial receipts can make
\* replay skip edits that disappeared with the failed worker" (toolBatches.ts): through
\* partial and repeated execution, lost replies, failovers, replaced sessions and deaths
\* of the host, the published patch has the edits of the batches whose results are
\* recorded, each once and in their order, and no others.
PublishedOnce == \A t \in Task : thread[t].patch = Edited(t, thread[t].done)

\* No worker serves more attempts than it may, the leases are those of the attempts that
\* run, and nobody who leaves frees the place of another.
NotOverbooked ==
  /\ \A w \in Worker :
       Cardinality({t \in Task : running[t] /\ session[t].worker = w}) <= MaxConcurrent[w]
  /\ \A t \in Task : running[t] /\ session[t].worker # NoWorker =>
       lease[t] = [worker |-> session[t].worker, workspace |-> session[t].workspace]
=============================================================================
