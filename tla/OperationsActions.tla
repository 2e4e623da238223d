-------------------------- MODULE OperationsActions --------------------------
(***************************************************************************)
(* External writes (src/src/harness/foundry/operations/actions.ts).  One   *)
(* logical action, named by its key, is prepared and dispatched by one of  *)
(* the attempts that ask for it, reserves its resources until its outcome  *)
(* has been observed, and is shared by every run that uses it.             *)
(*                                                                         *)
(* `invoke' is three transactions with RPCs between them: claim, commit,   *)
(* and, when anything at all goes wrong, the catch that records UNKNOWN.   *)
(* The adapter and the service behind it are external.  They may lose a    *)
(* request, carry it out after everyone has given up on it, and answer an  *)
(* `execute' with anything; an `inspect' that answers CONFIRMED or         *)
(* REJECTED is true, and a refusal is final (PROJECT_OPERATIONS.md).       *)
(***************************************************************************)
EXTENDS Integers, Sequences, FiniteSets, FiniteSetsExt

CONSTANTS
  Key,        \* logical identities of external writes
  Caller,     \* workers that invoke them, one invocation at a time each
  Run, RunOf, \* RunOf[c]: the run of c's task
  Resource,
  Limit,      \* Limit[r]: the ceiling of a resource
  Reserve,    \* Reserve[k][r]: the bound on its use that k's capability declares
  Resolving,  \* keys whose capability has the purpose "resolve"
  Lease,      \* how long a dispatched action belongs to its caller
  Poll,       \* the pause before an unresolved action is inspected again
  MaxUsage,   \* bound: the most an adapter reports, beyond some reservation
  NoCaller,   \* the NULL owner
  NoKey

VARIABLES
  mode,       \* operations_services.mode
  state,      \* operations_actions.state; "NONE" without a row
  owner,      \* operations_actions.owner
  lease,      \* operations_actions.lease - now, never below 0
  retry,      \* operations_actions.retry_at - now, never below 0
  reserved,   \* operations_resources.held
  spent,      \* operations_resources.spent
  uses,       \* operations_action_uses
  live,       \* callers whose attempt is current: RUNNING, its fence, not late
  call,       \* what each caller's invocation is waiting for, in its memory
  issued,     \* per key, the runs that sent an execute request
  wire,       \* per key, execute requests under way
  outcome,    \* per key, what became of it outside: "open", "done", "refused"
  effects     \* per key, how often the external transition happened

rows == <<state, owner, lease, retry, reserved, spent, uses>>
outside == <<wire, outcome, effects>>
vars == <<mode, rows, live, call, issued, outside>>

Settled == {"CONFIRMED", "REJECTED"}
Reply   == Settled \cup {"PENDING", "UNKNOWN"}
Usage   == [Resource -> Nat]
NoUsage == [r \in Resource |-> 0]
Idle    == [phase |-> "idle", key |-> NoKey, status |-> "UNKNOWN", usage |-> NoUsage]
Call    == [phase : {"execute", "inspect", "commit"}, key : Key, status : Reply,
            usage : Usage]

ASSUME OperationsAssumption ==
  /\ RunOf \in [Caller -> Run]
  /\ Limit \in [Resource -> Nat] /\ Reserve \in [Key -> [Resource -> Nat]]
  /\ Lease \in Nat \ {0} /\ Poll \in Nat /\ MaxUsage \in Nat
  /\ NoCaller \notin Caller /\ NoKey \notin Key

Init ==
  /\ mode = "ACTIVE"
  /\ state = [k \in Key |-> "NONE"]
  /\ owner = [k \in Key |-> NoCaller]
  /\ lease = [k \in Key |-> 0] /\ retry = [k \in Key |-> 0]
  /\ reserved = NoUsage /\ spent = NoUsage
  /\ uses = {}
  /\ live = Caller
  /\ call = [c \in Caller |-> Idle]
  /\ issued = [k \in Key |-> <<>>]
  /\ wire = [k \in Key |-> 0]
  /\ outcome = [k \in Key |-> "open"]
  /\ effects = [k \in Key |-> 0]

-----------------------------------------------------------------------------
(* The claim transaction of invoke.                                        *)

Admitting(k) == mode = "ACTIVE" \/ (mode = "DRAINING" /\ k \in Resolving)

\* Mutant of Affordable: only what is spent counts.
AffordableSpent(k) == \A r \in Resource : spent[r] + Reserve[k][r] <= Limit[r]

Affordable(k) == \A r \in Resource : spent[r] + reserved[r] + Reserve[k][r] <= Limit[r]

\* Someone else is at it, or it is too early to look again.
Busy(k) == (owner[k] # NoCaller /\ lease[k] > 0) \/ retry[k] > 0

\* Mutant of Operation: an action of unknown outcome is tried again.
OperationAgain(k) == IF state[k] \in {"NONE", "UNKNOWN"} THEN "execute" ELSE "inspect"

\* A row is PREPARED only inside the transaction that inserts it, so every other
\* claim inspects.
Operation(k) == IF state[k] = "NONE" THEN "execute" ELSE "inspect"

\* Mutant of Using: only the run that prepares the action is recorded.
UsingFirst(c, k) == IF state[k] = "NONE" THEN uses \cup {<<k, RunOf[c]>>} ELSE uses

Using(c, k) == uses \cup {<<k, RunOf[c]>>}

May(c) == c \in live /\ call[c] = Idle

\* The action is settled: its receipt is the result.
Reuse(c, k) ==
  /\ May(c) /\ state[k] \in Settled
  /\ uses' = Using(c, k)
  /\ UNCHANGED <<mode, state, owner, lease, retry, reserved, spent, live, call, issued,
                 outside>>

\* The attempt is deferred until the action can be looked at.
Await(c, k) ==
  /\ May(c) /\ state[k] \notin Settled \cup {"NONE"} /\ Busy(k)
  /\ uses' = Using(c, k)
  /\ live' = live \ {c}
  /\ UNCHANGED <<mode, state, owner, lease, retry, reserved, spent, call, issued, outside>>

\* A new action is admitted and reserved, or one whose owner is late is taken over;
\* then the request leaves.  Observations an action requires may be missing, which
\* leaves the caller where it was.
Dispatch(c, k) ==
  /\ May(c) /\ state[k] \notin Settled /\ ~Busy(k)
  /\ state[k] = "NONE" => Admitting(k) /\ Affordable(k)
  /\ reserved' = IF state[k] = "NONE" THEN [r \in Resource |-> reserved[r] + Reserve[k][r]]
                 ELSE reserved
  /\ uses' = Using(c, k)
  /\ state' = [state EXCEPT ![k] = "DISPATCHING"]
  /\ owner' = [owner EXCEPT ![k] = c]
  /\ lease' = [lease EXCEPT ![k] = Lease]
  /\ call' = [call EXCEPT ![c] = [phase |-> Operation(k), key |-> k, status |-> "UNKNOWN",
                                  usage |-> NoUsage]]
  /\ IF Operation(k) = "execute"
     THEN /\ issued' = [issued EXCEPT ![k] = Append(@, RunOf[c])]
          /\ wire' = [wire EXCEPT ![k] = @ + 1]
     ELSE UNCHANGED <<issued, wire>>
  /\ UNCHANGED <<mode, retry, spent, live, outcome, effects>>

-----------------------------------------------------------------------------
(* The replies.                                                            *)

\* Mutant of Observe: whatever answers execute is believed.
ObserveNothing(c, status) == "commit"

\* A final answer to execute is not believed before an inspection says so too.
Observe(c, status) ==
  IF call[c].phase = "execute" /\ status \in Settled THEN "inspect" ELSE "commit"

Truthful(k, status) ==
  /\ status = "CONFIRMED" => outcome[k] = "done"
  /\ status = "REJECTED" => outcome[k] = "refused"

\* Only the usage of a final reply is ever read.
Answer(c, status, usage) ==
  /\ call[c].phase \in {"execute", "inspect"}
  /\ call[c].phase = "inspect" => Truthful(call[c].key, status)
  /\ call' = [call EXCEPT ![c] =
       IF Observe(c, status) = "inspect"
       THEN [phase |-> "inspect", key |-> call[c].key, status |-> "UNKNOWN", usage |-> NoUsage]
       ELSE [phase |-> "commit", key |-> call[c].key, status |-> status,
             usage |-> IF status \in Settled THEN usage ELSE NoUsage]]
  /\ UNCHANGED <<mode, rows, live, issued, outside>>

-----------------------------------------------------------------------------
(* The commit transaction, and the catch.                                  *)

\* Mutant of Owns: the row is not compared with the caller.
OwnsAny(c, k) == c \in live

Owns(c, k) == c \in live /\ owner[k] = c /\ lease[k] > 0 /\ state[k] \notin Settled

Plausible(k, status, usage) ==
  \A r \in Resource : usage[r] <= Reserve[k][r] /\ (status = "REJECTED" => usage[r] = 0)

Spending(k, usage) == [r \in Resource |-> spent[r] + usage[r]]

\* The outcome is known: the reservation becomes what was used.
Settle(c) ==
  LET k == call[c].key  status == call[c].status  usage == call[c].usage
  IN  /\ call[c].phase = "commit" /\ status \in Settled
      /\ Owns(c, k) /\ Plausible(k, status, usage)
      /\ reserved' = [r \in Resource |-> reserved[r] - Reserve[k][r]]
      /\ spent' = Spending(k, usage)
      /\ state' = [state EXCEPT ![k] = status]
      /\ owner' = [owner EXCEPT ![k] = NoCaller]
      /\ lease' = [lease EXCEPT ![k] = 0]
      /\ call' = [call EXCEPT ![c] = Idle]
      /\ UNCHANGED <<mode, retry, uses, live, issued, outside>>

Unresolved(c, k, status) ==
  /\ state' = [state EXCEPT ![k] = status]
  /\ owner' = [owner EXCEPT ![k] = NoCaller]
  /\ lease' = [lease EXCEPT ![k] = 0]
  /\ retry' = [retry EXCEPT ![k] = Poll]

\* The outcome is still open: the attempt is deferred, the reservation stays.
Postpone(c) ==
  LET k == call[c].key
  IN  /\ call[c].phase = "commit" /\ call[c].status \notin Settled
      /\ Owns(c, k)
      /\ Unresolved(c, k, call[c].status)
      /\ call' = [call EXCEPT ![c] = Idle]
      /\ live' = live \ {c}
      /\ UNCHANGED <<mode, reserved, spent, uses, issued, outside>>

Mine(c, k) == owner[k] = c /\ state[k] \notin Settled

\* A timeout, an abort, an invalid reply, a failed check of the commit: whatever was
\* sent, the outcome is unknown unless someone else has taken over.
Abandon(c) ==
  LET k == call[c].key
  IN  /\ call[c] # Idle
      /\ IF Mine(c, k) THEN Unresolved(c, k, "UNKNOWN")
         ELSE UNCHANGED <<state, owner, lease, retry>>
      /\ call' = [call EXCEPT ![c] = Idle]
      /\ live' = live \ {c}
      /\ UNCHANGED <<mode, reserved, spent, uses, issued, outside>>

-----------------------------------------------------------------------------
(* Attempts, processes, the operator and the clock.                        *)

\* The attempt of a caller is over although it may not know: its lease is late.
Revoke(c) ==
  /\ c \in live
  /\ live' = live \ {c}
  /\ UNCHANGED <<mode, rows, call, issued, outside>>

\* The task is claimed again.
Resume(c) ==
  /\ c \notin live /\ call[c] = Idle
  /\ live' = live \cup {c}
  /\ UNCHANGED <<mode, rows, call, issued, outside>>

\* The process dies in the middle of an invocation.
Crash(c) ==
  /\ call[c] # Idle
  /\ call' = [call EXCEPT ![c] = Idle]
  /\ live' = live \ {c}
  /\ UNCHANGED <<mode, rows, issued, outside>>

SetMode(m) ==
  /\ m # mode
  /\ mode' = m
  /\ UNCHANGED <<rows, live, call, issued, outside>>

Tick ==
  /\ \E k \in Key : lease[k] > 0 \/ retry[k] > 0
  /\ lease' = [k \in Key |-> IF lease[k] > 0 THEN lease[k] - 1 ELSE 0]
  /\ retry' = [k \in Key |-> IF retry[k] > 0 THEN retry[k] - 1 ELSE 0]
  /\ UNCHANGED <<mode, state, owner, reserved, spent, uses, live, call, issued, outside>>

-----------------------------------------------------------------------------
(* The adapter and the service behind it.                                  *)

\* An execute request arrives, perhaps long after its sender stopped waiting.
Deliver(k) ==
  /\ wire[k] > 0 /\ outcome[k] # "refused"
  /\ wire' = [wire EXCEPT ![k] = @ - 1]
  /\ outcome' = [outcome EXCEPT ![k] = "done"]
  /\ effects' = [effects EXCEPT ![k] = @ + 1]
  /\ UNCHANGED <<mode, rows, live, call, issued>>

Lose(k) ==
  /\ wire[k] > 0
  /\ wire' = [wire EXCEPT ![k] = @ - 1]
  /\ UNCHANGED <<mode, rows, live, call, issued, outcome, effects>>

\* The service decides that the transition has not happened and never will.
Refuse(k) ==
  /\ issued[k] # <<>> /\ outcome[k] = "open"
  /\ outcome' = [outcome EXCEPT ![k] = "refused"]
  /\ UNCHANGED <<mode, rows, live, call, issued, wire, effects>>

-----------------------------------------------------------------------------
Next ==
  \/ \E c \in Caller, k \in Key : Reuse(c, k) \/ Await(c, k) \/ Dispatch(c, k)
  \/ \E c \in Caller, status \in Reply, usage \in [Resource -> 0..MaxUsage] :
       Answer(c, status, usage)
  \/ \E c \in Caller : Settle(c) \/ Postpone(c) \/ Abandon(c)
  \/ \E c \in Caller : Revoke(c) \/ Resume(c) \/ Crash(c)
  \/ \E m \in {"ACTIVE", "DRAINING", "PAUSED"} : SetMode(m)
  \/ Tick
  \/ \E k \in Key : Deliver(k) \/ Lose(k) \/ Refuse(k)

Spec == Init /\ [][Next]_vars

-----------------------------------------------------------------------------
(* Properties.                                                             *)

TypeOK ==
  /\ mode \in {"ACTIVE", "DRAINING", "PAUSED"}
  /\ state \in [Key -> Reply \cup {"NONE", "DISPATCHING"}]
  /\ owner \in [Key -> Caller \cup {NoCaller}]
  /\ lease \in [Key -> 0..Lease] /\ retry \in [Key -> 0..Poll]
  /\ reserved \in [Resource -> Int] /\ spent \in Usage
  /\ uses \subseteq Key \X Run
  /\ live \subseteq Caller
  /\ call \in [Caller -> Call \cup {Idle}]
  /\ issued \in [Key -> Seq(Run)]
  /\ wire \in [Key -> Nat] /\ effects \in [Key -> Nat]
  /\ outcome \in [Key -> {"open", "done", "refused"}]

\* "it never automatically sends a second mutation because a connection failed"
\* (docs/agent-platform/PROJECT_OPERATIONS.md): through timeouts, crashes, takeovers
\* and retries by other runs, one execute request per key leaves the host, so the
\* external transition happens at most once even if the service is not idempotent.
AtMostOnce == \A k \in Key : Len(issued[k]) <= 1 /\ effects[k] <= 1

\* A settled action says what happened outside, and nothing can happen any more.
ReceiptTruthful ==
  \A k \in Key :
    /\ state[k] = "CONFIRMED" => effects[k] = 1
    /\ state[k] = "REJECTED" => effects[k] = 0 /\ outcome[k] = "refused"

\* What is held for each resource is exactly what the unsettled actions reserved: a
\* late commit, a catch or a takeover never releases a reservation twice or leaks it.
BudgetExact ==
  \A r \in Resource :
    reserved[r] = MapThenSumSet(LAMBDA k : Reserve[k][r],
                                {k \in Key : state[k] \notin Settled \cup {"NONE"}})

\* The ceilings are never exceeded, whatever the adapters report.
WithinCeiling == \A r \in Resource : spent[r] + reserved[r] <= Limit[r]

\* actionEvidenceGate: every action the run used is settled.
Gate(run) == \A k \in Key : <<k, run>> \in uses => state[k] \in Settled

\* The gate of a run is closed as long as a request one of its attempts sent, or an
\* answer one of them waits for, may still decide what happens outside.
GateSound ==
  \A run \in Run : Gate(run) => \A k \in Key :
    \/ \E i \in DOMAIN issued[k] : issued[k][i] = run
    \/ \E c \in Caller : RunOf[c] = run /\ call[c].key = k
    => outcome[k] # "open"

\* A settled action stays as it is, and what was spent is never given back.
SettledStep ==
  /\ \A k \in Key : state[k] \in Settled => state'[k] = state[k]
  /\ \A r \in Resource : spent'[r] >= spent[r]

SettledIsFinal == [][SettledStep]_vars
=============================================================================
