---------------------------- MODULE ProviderRecovery ----------------------------
(***************************************************************************)
(* Admission of model requests to one provider pool while the provider     *)
(* fails and recovers: the circuit (swarm/providerRecovery.ts), the        *)
(* reservation and completion of a request (swarm/session.ts), the order   *)
(* in which swarm/model.ts calls them, and the continuation that parks the *)
(* task (continuation.ts).                                                 *)
(*                                                                         *)
(* A task reserves, calls and reports in separate transactions, and so     *)
(* does the deferral it throws: another worker's verdict may come between  *)
(* any two of them.  What a worker remembers in between is `asking',       *)
(* `call' and `thrown'; the rest is in the database.                       *)
(***************************************************************************)
EXTENDS Integers, Sequences, FiniteSets, FiniteSetsExt

CONSTANTS
  Task,         \* the tasks that call the provider
  MaxRequests,  \* budget.maxRequests of the run
  Concurrency,  \* budget.modelConcurrency
  Timeout,      \* budget.requestTimeoutMs
  Backoff,      \* Backoff[f]: the pause after f failed rounds, doubling up to a cap
  MaxFailures,  \* the ceiling of the failure count (64)
  Hints,        \* what a Retry-After asks for; 0 is none
  MaxLosses,    \* bound: leases that expire, processes that die
  MaxTime,      \* bound: how far the clock runs
  NoWait        \* no row of agent_provider_waits

VARIABLES
  now,
  failures, epoch, retryAt, \* agent_provider_health; all 0 without a row
  cooldown,     \* agent_cooldowns.until_ms
  requests,     \* agent_requests with their agent_provider_admissions, in order
  waits,        \* agent_provider_waits of a task
  status,       \* tasks.status; "ENDED" when the task needs no more answers
  fence,        \* tasks.fence
  wake,         \* task_waits.wake
  asking,       \* tasks whose current attempt is about to reserve
  call,         \* per request, what the worker that sent it does next
  thrown,       \* deferrals thrown and not yet persisted
  losses

circuit == <<failures, epoch, retryAt, cooldown>>
tasks   == <<status, fence, wake>>
memory  == <<asking, call, thrown>>
vars    == <<now, circuit, requests, waits, tasks, memory, losses>>

Outcome  == {"NONE", "SUCCESS", "FAILURE"}
Request  == [task : Task, fence : Nat, started : Nat, deadline : Nat, active : BOOLEAN,
             epoch : Nat, outcome : Outcome, wake : Nat]
Deferral == [task : Task, fence : Nat, wake : Nat]

ASSUME ProviderAssumption ==
  /\ MaxRequests \in Nat /\ Concurrency \in Nat \ {0}
  /\ Timeout \in Nat \ {0} /\ MaxFailures \in Nat \ {0}
  /\ MaxLosses \in Nat /\ MaxTime \in Nat
  /\ Backoff \in [1..MaxFailures -> Nat \ {0}]
  /\ Hints \subseteq Nat
  /\ NoWait \notin [fence : Nat, wake : Nat]

Init ==
  /\ now = 0
  /\ failures = 0 /\ epoch = 0 /\ retryAt = 0 /\ cooldown = 0
  /\ requests = <<>>
  /\ waits = [t \in Task |-> NoWait]
  /\ status = [t \in Task |-> "READY"]
  /\ fence = [t \in Task |-> 0]
  /\ wake = [t \in Task |-> 0]
  /\ asking = {} /\ call = <<>> /\ thrown = {}
  /\ losses = 0

-----------------------------------------------------------------------------
Later(a, b)   == IF a >= b THEN a ELSE b
Earlier(a, b) == IF a <= b THEN a ELSE b

Cooling == Later(cooldown, retryAt)

\* Requests that are under way as far as the database can tell.
Live == {i \in DOMAIN requests : requests[i].active /\ requests[i].deadline > now}

\* The deadline of the first of them to end, now when there is none.
ProbeDeadline ==
  IF Live = {} THEN now
  ELSE LET first == CHOOSE i \in Live : \A j \in Live :
                      requests[i].deadline <= requests[j].deadline
       IN  requests[first].deadline

\* Mutant of Admission: the circuit is only a cooldown.
AdmissionCooled == IF Cooling > now THEN Cooling ELSE now

\* When a request may be sent.  After an outage, not before those under way, old
\* ones included, have ended: one probe at a time.
Admission ==
  IF Cooling > now THEN Cooling
  ELSE IF failures > 0 THEN ProbeDeadline ELSE now

\* A request whose deadline has passed is unknown spend and holds no permit.
Swept == [i \in DOMAIN requests |-> [requests[i] EXCEPT !.active = i \in Live]]

Holds(t, f) == status[t] = "RUNNING" /\ fence[t] = f

-----------------------------------------------------------------------------
(* A task and its reservation.                                             *)

Claim(t) ==
  /\ status[t] = "READY" /\ wake[t] <= now
  /\ status' = [status EXCEPT ![t] = "RUNNING"]
  /\ fence' = [fence EXCEPT ![t] = @ + 1]
  /\ asking' = asking \cup {t}
  /\ UNCHANGED <<now, circuit, requests, waits, wake, call, thrown, losses>>

\* RUN_REQUEST_BUDGET_EXHAUSTED is fatal to the task.
Exhaust(t) ==
  /\ t \in asking /\ Len(requests) >= MaxRequests
  /\ asking' = asking \ {t}
  /\ status' = [status EXCEPT ![t] = "ENDED"]
  /\ UNCHANGED <<now, circuit, requests, waits, fence, wake, call, thrown, losses>>

\* The pool cools down or is probed: the wait is recorded and a deferral thrown.
Turn(t) ==
  /\ t \in asking /\ Len(requests) < MaxRequests
  /\ Admission > now
  /\ requests' = Swept
  /\ waits' = [waits EXCEPT ![t] = [fence |-> fence[t], wake |-> Admission]]
  /\ asking' = asking \ {t}
  /\ thrown' = thrown \cup {[task |-> t, fence |-> fence[t], wake |-> Admission]}
  /\ UNCHANGED <<now, circuit, tasks, call, losses>>

\* The pool is open but all its permits are taken: the worker tries again later.
Queue(t) ==
  /\ t \in asking /\ Len(requests) < MaxRequests
  /\ Admission <= now /\ Cardinality(Live) >= Concurrency
  /\ requests' = Swept
  /\ waits' = [waits EXCEPT ![t] = NoWait]
  /\ UNCHANGED <<now, circuit, tasks, memory, losses>>

Admit(t) ==
  /\ t \in asking /\ Len(requests) < MaxRequests
  /\ Admission <= now /\ Cardinality(Live) < Concurrency
  /\ requests' = Append(Swept, [task |-> t, fence |-> fence[t], started |-> now,
                                deadline |-> now + Timeout, active |-> TRUE,
                                epoch |-> epoch, outcome |-> "NONE", wake |-> 0])
  /\ waits' = [waits EXCEPT ![t] = NoWait]
  /\ asking' = asking \ {t}
  /\ call' = Append(call, "sent")
  /\ UNCHANGED <<now, circuit, tasks, thrown, losses>>

-----------------------------------------------------------------------------
(* The answer: a completion and a verdict, in either order, or a           *)
(* completion without a verdict.                                           *)

Completed(i) == [requests EXCEPT ![i].active = FALSE]

\* An answer the task can use: it ends, or asks for the next turn.
Served(i) ==
  LET t == requests[i].task
  IN  IF Holds(t, requests[i].fence)
      THEN \/ /\ status' = [status EXCEPT ![t] = "ENDED"] /\ UNCHANGED asking
           \/ /\ asking' = asking \cup {t} /\ UNCHANGED status
      ELSE UNCHANGED <<status, asking>>

\* The reply is recorded before its verdict.
Complete(i, verdict) ==
  /\ call[i] = "sent"
  /\ requests' = Completed(i)
  /\ call' = [call EXCEPT ![i] = verdict]
  /\ UNCHANGED <<now, circuit, waits, tasks, asking, thrown, losses>>

\* An abort or a refusal that says nothing of availability: the attempt is over.
CompleteSilently(i) ==
  /\ call[i] = "sent"
  /\ requests' = Completed(i)
  /\ call' = [call EXCEPT ![i] = "over"]
  /\ LET t == requests[i].task
     IN  status' = IF Holds(t, requests[i].fence) THEN [status EXCEPT ![t] = "ENDED"] ELSE status
  /\ UNCHANGED <<now, circuit, waits, fence, wake, asking, thrown, losses>>

\* The verdict was recorded first.
CompleteJudged(i) ==
  /\ call[i] = "judged"
  /\ requests' = Completed(i)
  /\ call' = [call EXCEPT ![i] = "over"]
  /\ IF requests[i].outcome = "SUCCESS" THEN Served(i) ELSE UNCHANGED <<status, asking>>
  /\ UNCHANGED <<now, circuit, waits, fence, wake, thrown, losses>>

\* Parked tasks whose wait is still the one their current fence recorded.
Waiting ==
  {t \in Task : /\ status[t] = "READY" /\ waits[t] # NoWait
                /\ waits[t].fence = fence[t] /\ wake[t] <= waits[t].wake}

WakeWaiters(time) ==
  wake' = [t \in Task |-> IF t \in Waiting THEN Earlier(wake[t], time) ELSE wake[t]]

After(i) == IF call[i] = "sent" THEN "judged" ELSE "over"

\* Mutant of Fresh: every answer is evidence of availability.
FreshAlways(i) == TRUE

\* The answer belongs to a request sent after the last failure was recorded.
Fresh(i) == requests[i].epoch = epoch

\* ProviderRecovery.success
Success(i) ==
  /\ call[i] \in {"sent", "answered"}
  /\ requests' = [requests EXCEPT ![i].outcome = "SUCCESS"]
  /\ IF Fresh(i)
     THEN /\ failures' = 0 /\ retryAt' = 0
          /\ IF cooldown > now THEN UNCHANGED wake ELSE WakeWaiters(now)
     ELSE UNCHANGED <<failures, retryAt, wake>>
  /\ call' = [call EXCEPT ![i] = After(i)]
  /\ IF call[i] = "answered" THEN Served(i) ELSE UNCHANGED <<status, asking>>
  /\ UNCHANGED <<now, epoch, cooldown, waits, fence, thrown, losses>>

\* Mutant of Round: every failure is a round of its own.
RoundAlways(i) == 1

\* Calls admitted together describe one outage.
Round(i) == IF Fresh(i) THEN 1 ELSE 0

\* ProviderRecovery.failure; the worker throws a deferral until then.
Failure(i, hint) ==
  LET count == Earlier(MaxFailures, Later(1, failures + Round(i)))
      until == Later(Cooling, now + Later(Backoff[count], hint))
  IN  /\ call[i] \in {"sent", "failed"}
      /\ failures' = count
      /\ epoch' = epoch + 1
      /\ retryAt' = until
      /\ cooldown' = until
      /\ requests' = [requests EXCEPT ![i].outcome = "FAILURE", ![i].wake = until]
      /\ WakeWaiters(until)
      /\ call' = [call EXCEPT ![i] = After(i)]
      /\ thrown' = thrown \cup {[task |-> requests[i].task, fence |-> requests[i].fence,
                                 wake |-> until]}
      /\ UNCHANGED <<now, waits, status, fence, asking, losses>>

-----------------------------------------------------------------------------
(* persistContinuation.                                                    *)

\* Mutant of WaitDeadline: the wait is persisted as it was thrown.
WaitDeadlineThrown(d) == d.wake

\* providerWaitDeadline: what the circuit says by now of a wait it recorded.
WaitDeadline(d) ==
  IF waits[d.task] = [fence |-> d.fence, wake |-> d.wake] THEN Admission ELSE d.wake

\* A deferral of a lease that is no longer current is dropped.
Persist(d) ==
  /\ d \in thrown
  /\ thrown' = thrown \ {d}
  /\ IF Holds(d.task, d.fence)
     THEN /\ status' = [status EXCEPT ![d.task] = "READY"]
          /\ wake' = [wake EXCEPT ![d.task] = Later(now, Earlier(d.wake, WaitDeadline(d)))]
     ELSE UNCHANGED <<status, wake>>
  /\ UNCHANGED <<now, circuit, requests, waits, fence, asking, call, losses>>

-----------------------------------------------------------------------------
(* Leases, processes and the clock.                                        *)

\* The lease expires; the process goes on with the call it has made.
Expire(t) ==
  /\ status[t] = "RUNNING" /\ losses < MaxLosses
  /\ losses' = losses + 1
  /\ status' = [status EXCEPT ![t] = "READY"]
  /\ asking' = asking \ {t}
  /\ UNCHANGED <<now, circuit, requests, waits, fence, wake, call, thrown>>

\* The process dies; the task is claimed again when its lease has expired.
Crash(t) ==
  /\ status[t] = "RUNNING" /\ losses < MaxLosses
  /\ losses' = losses + 1
  /\ status' = [status EXCEPT ![t] = "READY"]
  /\ asking' = asking \ {t}
  /\ call' = [i \in DOMAIN call |->
       IF requests[i].task = t /\ requests[i].fence = fence[t] THEN "over" ELSE call[i]]
  /\ thrown' = {d \in thrown : d.task # t \/ d.fence # fence[t]}
  /\ UNCHANGED <<now, circuit, requests, waits, fence, wake>>

\* Time matters as long as someone waits for it.
Tick ==
  /\ now < MaxTime
  /\ \/ Cooling > now \/ Live # {}
     \/ \E t \in Task : status[t] = "READY" /\ wake[t] > now
  /\ now' = now + 1
  /\ UNCHANGED <<circuit, requests, waits, tasks, memory, losses>>

-----------------------------------------------------------------------------
Reserve(t) == Exhaust(t) \/ Turn(t) \/ Queue(t) \/ Admit(t)

Proceed(i) ==
  \/ \E verdict \in {"answered", "failed"} : Complete(i, verdict)
  \/ CompleteSilently(i) \/ CompleteJudged(i)
  \/ Success(i)
  \/ \E hint \in Hints : Failure(i, hint)

Next ==
  \/ \E t \in Task : Claim(t) \/ Reserve(t)
  \/ \E i \in DOMAIN requests : Proceed(i)
  \/ \E d \in thrown : Persist(d)
  \/ \E t \in Task : Expire(t) \/ Crash(t)
  \/ Tick

Spec == Init /\ [][Next]_vars

-----------------------------------------------------------------------------
(* Properties.                                                             *)

CircuitOK ==
  /\ now \in Nat /\ failures \in 0..MaxFailures /\ epoch \in Nat
  /\ retryAt \in Nat /\ cooldown \in Nat
RequestsOK ==
  /\ requests \in Seq(Request)
  /\ call \in Seq({"sent", "answered", "failed", "judged", "over"})
  /\ Len(call) = Len(requests)
TasksOK ==
  /\ waits \in [Task -> [fence : Nat, wake : Nat] \cup {NoWait}]
  /\ status \in [Task -> {"READY", "RUNNING", "ENDED"}]
  /\ fence \in [Task -> Nat] /\ wake \in [Task -> Nat]
MemoryOK == asking \subseteq Task /\ thrown \subseteq Deferral

TypeOK == CircuitOK /\ RequestsOK /\ TasksOK /\ MemoryOK /\ losses \in 0..MaxLosses

\* "After an outage, one probe across all store connections owns recovery"
\* (providerRecovery.ts): while the circuit is open, a request sent since the last
\* failure is the only one under way, those from before the outage included.
OneProbe ==
  failures > 0 => \A i \in Live : requests[i].epoch = epoch => Live = {i}

\* The pause grows with the rounds that failed, not with the calls that failed in
\* them: there are at least as many different epochs among failed requests.
BackoffPerRound ==
  failures <= Cardinality({requests[i].epoch :
                             i \in {j \in DOMAIN requests : requests[j].outcome = "FAILURE"}})

\* Nobody sleeps once the circuit is closed, and whoever sleeps past the cooldown while
\* it is open sleeps no longer than some request could have taken: a recovery that comes
\* before, between or after the transactions of the deferral is not missed.
SleepJustified ==
  \A t \in Task : status[t] = "READY" =>
    \/ wake[t] <= Later(now, Cooling)
    \/ /\ failures > 0
       /\ \E i \in DOMAIN requests : requests[i].deadline >= wake[t]

\* The circuit is closed only by the answer to a request sent after every pause that
\* a failure has asked for until then: no late success erases a newer Retry-After.
ClosedByProbe ==
  [][failures > 0 /\ failures' = 0 =>
       \E i \in DOMAIN requests :
         /\ requests[i].outcome = "NONE" /\ requests'[i].outcome = "SUCCESS"
         /\ \A j \in DOMAIN requests : requests[j].outcome = "FAILURE" =>
              requests[j].wake <= requests[i].started]_vars

\* "waiting until that old deadline can leave ready work idle even though another
\* probe is already due" (providerRecovery.ts): nobody sleeps until the deadline of a
\* request when no request is left under way and those it may stand for have succeeded.
NoIdleWait ==
  \A t \in Task : status[t] = "READY" /\ wake[t] > now =>
    \/ Cooling > now
    \/ \E i \in DOMAIN call : call[i] # "over"
    \/ \E i \in DOMAIN requests : /\ requests[i].deadline >= wake[t]
                                  /\ requests[i].outcome # "SUCCESS"
=============================================================================
