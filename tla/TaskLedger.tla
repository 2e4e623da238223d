----------------------------- MODULE TaskLedger -----------------------------
(***************************************************************************)
(* What a Foundry run promises, without leases, attempts, retries, index   *)
(* or coordinators: a ledger of decisions.  A task is open until it is     *)
(* accepted or rejected once and for all, it is accepted on accepted       *)
(* inputs only, and the run is closed with the verdict of its tasks when   *)
(* nothing is open.  New work may be admitted, which reopens a closed run. *)
(***************************************************************************)
CONSTANTS
  Task,  \* every task that can ever be in the run's graph
  Root,  \* the tasks the run is started with
  Dep    \* Dep[t]: the dependencies of t

VARIABLES
  decision,  \* per task: "absent", "open", "accepted" or "rejected"
  verdict    \* "RUNNING", "PASS" or "FAIL"

vars == <<decision, verdict>>

Init ==
  /\ decision = [t \in Task |-> IF t \in Root THEN "open" ELSE "absent"]
  /\ verdict = "RUNNING"

Admit(B) ==
  /\ B # {} /\ \A t \in B : decision[t] = "absent"
  /\ decision' = [t \in Task |-> IF t \in B THEN "open" ELSE decision[t]]
  /\ verdict' = "RUNNING"

Accept(t) ==
  /\ verdict = "RUNNING" /\ decision[t] = "open"
  /\ \A d \in Dep[t] : decision[d] = "accepted"
  /\ decision' = [decision EXCEPT ![t] = "accepted"]
  /\ UNCHANGED verdict

\* The tasks of S are rejected together, and the run is closed if that, or an earlier
\* decision, leaves nothing open; closing may also wait for a later step.
Settle(S) ==
  /\ verdict = "RUNNING"
  /\ \A t \in S : decision[t] = "open"
  /\ decision' = [t \in Task |-> IF t \in S THEN "rejected" ELSE decision[t]]
  /\ \/ UNCHANGED verdict
     \/ /\ \A t \in Task : decision'[t] # "open"
        /\ verdict' = IF \E t \in Task : decision'[t] = "rejected" THEN "FAIL" ELSE "PASS"

Next ==
  \/ \E B \in SUBSET Task : Admit(B)
  \/ \E t \in Task : Accept(t)
  \/ \E S \in SUBSET Task : Settle(S)

Spec == Init /\ [][Next]_vars
=============================================================================
