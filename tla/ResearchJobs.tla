------------------------------ MODULE ResearchJobs ------------------------------
(***************************************************************************)
(* Remote jobs of one template (swarm/jobs.ts) and the continuations that  *)
(* park the tasks that wait for them (continuation.ts).                    *)
(*                                                                         *)
(* An attempt admits its job in one transaction, calls the remote side     *)
(* outside of any, and records the answer in another; the deferral it      *)
(* throws is persisted in a third.  The operator, and the attempts of      *)
(* other tasks that share the job, may come between any two of them.       *)
(*                                                                         *)
(* Times are kept as what is left of a wait and as the age of a job, so    *)
(* that the clock needs no bound.  The polling delays, which grow with     *)
(* failures and idle polls up to a ceiling, are any of Delays.  The        *)
(* remote side may answer anything.                                        *)
(***************************************************************************)
EXTENDS Integers, FiniteSets

CONSTANTS
  Task, Job,
  JobId,           \* identities the remote side may give to a job
  Token,           \* semantic milestones it may report
  Answers,         \* statuses it may report
  MaxConcurrent,   \* template.maxConcurrent
  ReconcileAfter,  \* template.reconcileAfterMs
  Delays,          \* time until the next poll or retry
  MaxLosses,       \* bound: leases that expire, processes that die
  NoRow, NoId, NoToken, NoResult

VARIABLES
  uses,     \* the job that a task asks for; tasks may ask for the same one
  maxJobs,  \* template.maxJobs
  row,      \* research_jobs
  phase,    \* where a task stands
  wait,     \* task_waits of a READY task; the deferral of a DEFERRING one
  losses

config == <<uses, maxJobs>>
vars   == <<config, row, phase, wait, losses>>

Terminal == {"SUCCEEDED", "FAILED", "CANCELLED"}
Status   == Terminal \cup {"QUEUED", "RUNNING", "UNKNOWN"}
Reply    == [id : JobId, status : Answers, token : Token \cup {NoToken}]
Ended    == {"DONE", "FATAL"}
Rested   == [kind |-> "none", left |-> 0]

ResearchJob ==
  [owner : Task, id : JobId \cup {NoId}, status : Status, result : Reply \cup {NoResult},
   age : 0..ReconcileAfter, poll : Nat, rank : 0..3, seen : SUBSET Token]

Init ==
  /\ uses \in [Task -> Job]
  /\ maxJobs \in 1..Cardinality(Job)
  /\ row = [j \in Job |-> NoRow]
  /\ phase = [t \in Task |-> "READY"]
  /\ wait = [t \in Task |-> Rested]
  /\ losses = 0

-----------------------------------------------------------------------------
Later(a, b) == IF a >= b THEN a ELSE b

Submitted     == {j \in Job : row[j] # NoRow}
Unresolved(j) == row[j] # NoRow /\ row[j].result = NoResult

\* Every job without a receipt holds a slot, whatever is known of it.
Live == {j \in Job : Unresolved(j)}

Rank(status) ==
  CASE status = "QUEUED" -> 1 [] status = "RUNNING" -> 2
    [] status \in Terminal -> 3 [] OTHER -> 0

Enter(t, p) == phase' = [phase EXCEPT ![t] = p]

-----------------------------------------------------------------------------
(* ResearchJobs.wait: a deferral until the next poll, unless the job has   *)
(* made no progress for too long.                                          *)

WaitFor(t, r) ==
  IF r.age >= ReconcileAfter
  THEN Enter(t, "FATAL") /\ UNCHANGED wait
  ELSE /\ Enter(t, "DEFERRING")
       /\ wait' = [wait EXCEPT ![t] = [kind |-> "job", left |-> Later(1, r.poll)]]

\* The waits for capacity that are persisted are over.
Released ==
  [t \in Task |-> IF phase[t] = "READY" /\ wait[t].kind = "capacity"
                  THEN [wait[t] EXCEPT !.left = 0] ELSE wait[t]]

-----------------------------------------------------------------------------
(* ResearchJobs.execute up to the call, by a task that has been claimed.   *)

Claimable(t) == phase[t] = "READY" /\ wait[t].left = 0

\* The job is known: its result is used, its next poll waited for, or it is polled.
Replay(t) ==
  LET j == uses[t]
  IN  /\ Claimable(t) /\ row[j] # NoRow
      /\ CASE row[j].result # NoResult -> Enter(t, "DONE") /\ UNCHANGED wait
           [] row[j].result = NoResult /\ row[j].poll > 0 -> WaitFor(t, row[j])
           [] OTHER -> Enter(t, "CALLING") /\ UNCHANGED wait
      /\ UNCHANGED <<config, row, losses>>

\* RUN_JOB_BUDGET_EXHAUSTED
Exhaust(t) ==
  /\ Claimable(t) /\ row[uses[t]] = NoRow
  /\ Cardinality(Submitted) >= maxJobs
  /\ Enter(t, "FATAL")
  /\ UNCHANGED <<config, row, wait, losses>>

\* No slot is free: nothing is submitted, the task waits for one.
Crowd(t, delay) ==
  /\ Claimable(t) /\ row[uses[t]] = NoRow
  /\ Cardinality(Submitted) < maxJobs /\ Cardinality(Live) >= MaxConcurrent
  /\ Enter(t, "DEFERRING")
  /\ wait' = [wait EXCEPT ![t] = [kind |-> "capacity", left |-> delay]]
  /\ UNCHANGED <<config, row, losses>>

\* The intent is durable before the remote side hears of it.
Submit(t) ==
  /\ Claimable(t) /\ row[uses[t]] = NoRow
  /\ Cardinality(Submitted) < maxJobs /\ Cardinality(Live) < MaxConcurrent
  /\ row' = [row EXCEPT ![uses[t]] =
       [owner |-> t, id |-> NoId, status |-> "UNKNOWN", result |-> NoResult,
        age |-> 0, poll |-> 0, rank |-> 0, seen |-> {}]]
  /\ Enter(t, "CALLING")
  /\ UNCHANGED <<config, wait, losses>>

-----------------------------------------------------------------------------
(* The call ends, before toolTimeoutMs has passed.                         *)

\* Mutant of Unsettled: an error is recorded whatever has happened meanwhile.
UnsettledAlways(j) == TRUE

\* No receipt has been recorded while the call was under way.
Unsettled(j) == row[j].result = NoResult

\* A transport error or a timeout says nothing of the remote job.
Lost(t, delay) ==
  LET j == uses[t]
      r == [row[j] EXCEPT !.status = "UNKNOWN", !.poll = delay]
  IN  /\ phase[t] = "CALLING"
      /\ IF Unsettled(j)
         THEN row' = [row EXCEPT ![j] = r] /\ WaitFor(t, r)
         ELSE Enter(t, "DONE") /\ UNCHANGED <<row, wait>>
      /\ UNCHANGED <<config, losses>>

\* The adapter asks for reconciliation, or its reply cannot be read.
Refuse(t) ==
  /\ phase[t] = "CALLING"
  /\ Enter(t, "FATAL")
  /\ UNCHANGED <<config, row, wait, losses>>

\* INVALID_JOB_REPLY: the job has another identity by now.
Mistake(t, reply) ==
  LET j == uses[t]
  IN  /\ phase[t] = "CALLING"
      /\ row[j].id \notin {NoId, reply.id}
      /\ Enter(t, "FATAL")
      /\ UNCHANGED <<config, row, wait, losses>>

\* There is a receipt already: it is used, and another one is a drift, which fails
\* the attempt.
Repeat(t, reply) ==
  LET j == uses[t]
  IN  /\ phase[t] = "CALLING"
      /\ row[j].id \in {NoId, reply.id} /\ row[j].result # NoResult
      /\ IF reply.status \in Terminal /\ row[j].result # reply
         THEN Enter(t, "READY") /\ wait' = [wait EXCEPT ![t] = Rested]
         ELSE Enter(t, "DONE") /\ UNCHANGED wait
      /\ UNCHANGED <<config, row, losses>>

\* Mutant of Milestone: any token but the last one counts.
MilestoneAny(r, reply) == Rank(reply.status) > r.rank \/ reply.token # NoToken

\* Progress: a status of a higher rank, or a token never reported before.
Milestone(r, reply) ==
  \/ Rank(reply.status) > r.rank
  \/ reply.token \notin r.seen \cup {NoToken}

Observed(r, reply, delay) ==
  [r EXCEPT !.id = reply.id, !.status = reply.status,
            !.age = IF Milestone(r, reply) THEN 0 ELSE @,
            !.poll = delay,
            !.result = IF reply.status \in Terminal THEN reply ELSE NoResult,
            !.rank = Later(@, Rank(reply.status)),
            !.seen = @ \cup ({reply.token} \ {NoToken})]

\* The observation is recorded; a receipt ends the job and gives its slot back.
Observe(t, reply, delay) ==
  LET j == uses[t]
      r == Observed(row[j], reply, delay)
  IN  /\ phase[t] = "CALLING"
      /\ row[j].id \in {NoId, reply.id} /\ row[j].result = NoResult
      /\ row' = [row EXCEPT ![j] = r]
      /\ IF reply.status \in Terminal
         THEN Enter(t, "DONE") /\ wait' = Released
         ELSE WaitFor(t, r)
      /\ UNCHANGED <<config, losses>>

-----------------------------------------------------------------------------
(* ResearchJobs.reconcile: the operator settles a job by hand and wakes    *)
(* the task that submitted it.                                             *)

Reconcile(j, reply) ==
  /\ Unresolved(j) /\ row[j].id \in {NoId, reply.id} /\ reply.status \in Terminal
  /\ row' = [row EXCEPT ![j] = [@ EXCEPT !.id = reply.id, !.status = reply.status,
                                         !.result = reply, !.poll = 0]]
  /\ LET owner == row[j].owner
     IN  wait' = [Released EXCEPT ![owner] =
                    IF phase[owner] = "READY" THEN [@ EXCEPT !.left = 0] ELSE @]
  /\ UNCHANGED <<config, phase, losses>>

-----------------------------------------------------------------------------
(* persistContinuation.                                                    *)

\* Mutant of Recovered: the wait is persisted as it was thrown.
RecoveredNever(t) == FALSE

\* What the task is about to wait for has happened since it decided to wait.
Recovered(t) ==
  IF wait[t].kind = "capacity"
  THEN Cardinality(Live) < MaxConcurrent
  ELSE LET own == {j \in Submitted : row[j].owner = t}
       IN  own # {} /\ \A j \in own : row[j].result # NoResult

Persist(t) ==
  /\ phase[t] = "DEFERRING"
  /\ Enter(t, "READY")
  /\ wait' = [wait EXCEPT ![t].left = IF Recovered(t) THEN 0 ELSE @]
  /\ UNCHANGED <<config, row, losses>>

-----------------------------------------------------------------------------
\* The lease of an attempt expires or its process dies: what it hears or throws after
\* that is dropped (assertLease), what was recorded stays.
Lose(t) ==
  /\ phase[t] \in {"CALLING", "DEFERRING"} /\ losses < MaxLosses
  /\ losses' = losses + 1
  /\ Enter(t, "READY")
  /\ wait' = [wait EXCEPT ![t] = Rested]
  /\ UNCHANGED <<config, row>>

Aged(r)    == [r EXCEPT !.age = IF @ < ReconcileAfter THEN @ + 1 ELSE @,
                        !.poll = Later(0, @ - 1)]
Waiting(t) == phase[t] \in {"READY", "DEFERRING"} /\ wait[t].left > 0

\* Time matters as long as a job is unresolved or a task waits.
Tick ==
  /\ \/ \E j \in Live : row[j].age < ReconcileAfter \/ row[j].poll > 0
     \/ \E t \in Task : Waiting(t)
  /\ row' = [j \in Job |-> IF Unresolved(j) THEN Aged(row[j]) ELSE row[j]]
  /\ wait' = [t \in Task |-> IF Waiting(t) THEN [wait[t] EXCEPT !.left = @ - 1] ELSE wait[t]]
  /\ UNCHANGED <<config, phase, losses>>

-----------------------------------------------------------------------------
Attempt(t) ==
  Replay(t) \/ Exhaust(t) \/ Submit(t) \/ \E delay \in Delays : Crowd(t, delay)

Return(t) ==
  \/ \E delay \in Delays : Lost(t, delay)
  \/ Refuse(t)
  \/ \E reply \in Reply :
       \/ Mistake(t, reply) \/ Repeat(t, reply)
       \/ \E delay \in Delays : Observe(t, reply, delay)

Work(t) == Attempt(t) \/ Return(t) \/ Persist(t)

Next ==
  \/ \E t \in Task : Work(t) \/ Lose(t)
  \/ \E j \in Job, reply \in Reply : Reconcile(j, reply)
  \/ Tick

Spec == Init /\ [][Next]_vars

\* Workers claim what is ready, a call is cut off by its deadline, a deferral is
\* persisted, and time passes.
Fairness == (\A t \in Task : WF_vars(Work(t))) /\ WF_vars(Tick)

FairSpec == Spec /\ Fairness

-----------------------------------------------------------------------------
(* Properties.                                                             *)

\* Every job is in the table at most once, with the columns that it has.
JobsAssumption ==
  /\ IsFiniteSet(Job) /\ Answers \subseteq Status /\ Delays \subseteq Nat
  /\ MaxConcurrent \in Nat /\ ReconcileAfter \in Nat /\ MaxLosses \in Nat
  /\ NoRow \notin ResearchJob

Phase == {"READY", "CALLING", "DEFERRING"} \cup Ended
Delay == [kind : {"none", "capacity", "job"}, left : Nat]

RowsOK  == row \in [Job -> ResearchJob \cup {NoRow}]
TasksOK == phase \in [Task -> Phase] /\ wait \in [Task -> Delay]

TypeOK ==
  /\ uses \in [Task -> Job] /\ maxJobs \in Nat /\ losses \in 0..MaxLosses
  /\ RowsOK /\ TasksOK

\* The slots of a template are never oversubscribed, and nobody sleeps for a slot that
\* is free: neither a receipt nor an operator's settlement that comes between the
\* decision to wait and the wait itself is missed (continuation.ts, "avoid losing a
\* release notification").
CapacityShared ==
  /\ Cardinality(Live) <= MaxConcurrent
  /\ \A t \in Task : phase[t] = "READY" /\ wait[t].kind = "capacity" /\ wait[t].left > 0 =>
       Cardinality(Live) = MaxConcurrent

\* A job keeps its identity, and what is recorded with its receipt is final: no late
\* error, late observation or second settlement undoes it (jobs.ts, "a late transport
\* error cannot undo that receipt").
ReceiptKept ==
  \A j \in Submitted :
    /\ row'[j] # NoRow
    /\ row[j].id # NoId => row'[j].id = row[j].id
    /\ row[j].result # NoResult => row'[j] = row[j]

ReceiptFinal == [][ReceiptKept]_vars

Submits(t) == row[uses[t]] # NoRow
Settled(t) == phase[t] \in Ended

\* "Alternating or replayed old tokens (A -> B -> A -> B) must not keep a stalled remote
\* job alive" (jobs.ts): a task whose job has been submitted gets a result or is handed
\* to the operator, whatever the remote side answers.
JobSettled == \A t \in Task : Submits(t) ~> Settled(t)
=============================================================================
