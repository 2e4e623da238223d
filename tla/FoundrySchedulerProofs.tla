----------------------- MODULE FoundrySchedulerProofs -----------------------
(***************************************************************************)
(* Theorems about FoundryScheduler, for every task graph, recipe, number   *)
(* of coordinators and bound.                                              *)
(***************************************************************************)
EXTENDS FoundryScheduler, SumTheorems, FiniteSetTheorems, SequenceTheorems, TLAPS

-----------------------------------------------------------------------------
(* What the operators return.                                              *)

\* Ending an attempt keeps the rows of every task a sequence of attempts and
\* changes no other row.
LEMMA EndAttemptType ==
  ASSUME attempts \in [Task -> Seq(Attempt)],
         NEW t \in Task, NEW n \in DOMAIN attempts[t],
         NEW how \in AttemptStatus, NEW print \in Fingerprint \cup {NoFingerprint}
  PROVE  /\ EndAttempt(t, n, how, print) \in [Task -> Seq(Attempt)]
         /\ \A u \in Task : Len(EndAttempt(t, n, how, print)[u]) = Len(attempts[u])
         /\ \A u \in Task : \A i \in DOMAIN attempts[u] :
              EndAttempt(t, n, how, print)[u][i] =
                IF u = t /\ i = n THEN [status |-> how, fp |-> print] ELSE attempts[u][i]
<1> DEFINE row == [status |-> how, fp |-> print]
           rows == [attempts[t] EXCEPT ![n] = row]
<1>1. attempts[t] \in Seq(Attempt) /\ n \in 1..Len(attempts[t])
  OBVIOUS
<1>2. row \in Attempt
  BY DEF Attempt
<1>3. /\ rows \in Seq(Attempt) /\ Len(rows) = Len(attempts[t])
      /\ \A j \in 1..Len(attempts[t]) : rows[j] = IF j = n THEN row ELSE attempts[t][j]
  BY <1>1, <1>2, ExceptSeq
<1>4. EndAttempt(t, n, how, print) = [attempts EXCEPT ![t] = rows]
  BY DEF EndAttempt
<1> HIDE DEF rows
<1>5. /\ EndAttempt(t, n, how, print) \in [Task -> Seq(Attempt)]
      /\ \A u \in Task : EndAttempt(t, n, how, print)[u] = IF u = t THEN rows ELSE attempts[u]
  BY <1>3, <1>4
<1> HIDE DEF row
<1>6. ASSUME NEW u \in Task
      PROVE  /\ Len(EndAttempt(t, n, how, print)[u]) = Len(attempts[u])
             /\ \A i \in DOMAIN attempts[u] :
                  EndAttempt(t, n, how, print)[u][i] =
                    IF u = t /\ i = n THEN row ELSE attempts[u][i]
  <2>1. CASE u = t
    <3>1. DOMAIN attempts[u] = 1..Len(attempts[u])
      BY <2>1, <1>1
    <3>2. QED
      BY <1>3, <1>5, <2>1, <3>1
  <2>2. CASE u # t
    BY <1>5, <2>2
  <2>3. QED
    BY <2>1, <2>2
<1>7. QED
  BY <1>5, <1>6 DEF row


\* Reclaiming expired leases reopens, fails or blocks exactly those tasks, and
\* blocks some READY ones; everything else keeps its status.
LEMMA ReclaimedStatus ==
  ASSUME status \in [Task -> Status], NEW after \in SUBSET (Expired \ Spent)
  PROVE  LET st == StatusAfterExpiry(after)
         IN  /\ st \in [Task -> Status]
             /\ \A t \in Expired : st[t] \in {"READY", "FAIL", "BLOCKED"}
             /\ \A t \in Task \ Expired :
                  st[t] = status[t] \/ (status[t] = "READY" /\ st[t] = "BLOCKED")
<1> DEFINE failed == [t \in Task |-> IF t \in Spent THEN "FAIL"
                                     ELSE IF t \in Expired \ after THEN "READY" ELSE status[t]]
           doomed == Doomed(requests, failed, Spent)
           st == StatusAfterExpiry(after)
<1>1. Spent \subseteq Expired /\ Expired \subseteq Task
  BY DEF Spent, Expired
<1>2. \A t \in doomed : t \in Task /\ failed[t] = "READY"
  BY DEF Doomed
<1>3. st = [t \in Task |-> IF t \in after THEN "READY"
                           ELSE IF t \in doomed THEN "BLOCKED" ELSE failed[t]]
  BY DEF StatusAfterExpiry, Blocking
<1> HIDE DEF doomed, st
<1>4. QED
  BY <1>1, <1>2, <1>3 DEF Status, st

\* An expired attempt becomes EXPIRED; no other row changes.
LEMMA ReclaimedAttempts ==
  ASSUME TypeOK, OneOpenAttempt
  PROVE  /\ AfterExpiry \in [Task -> Seq(Attempt)]
         /\ \A t \in Task : Len(AfterExpiry[t]) = Fence(t)
         /\ \A t \in Task : \A i \in DOMAIN attempts[t] :
              IF t \in Expired /\ i = Fence(t)
              THEN AfterExpiry[t][i].status = "EXPIRED"
              ELSE AfterExpiry[t][i] = attempts[t][i]
<1>1. ASSUME NEW t \in Task
      PROVE  /\ AfterExpiry[t] \in Seq(Attempt)
             /\ Len(AfterExpiry[t]) = Fence(t)
             /\ \A i \in DOMAIN attempts[t] :
                  IF t \in Expired /\ i = Fence(t)
                  THEN AfterExpiry[t][i].status = "EXPIRED"
                  ELSE AfterExpiry[t][i] = attempts[t][i]
  <2>1. attempts[t] \in Seq(Attempt) /\ DOMAIN attempts[t] = 1..Len(attempts[t])
    BY DEF TypeOK
  <2>2. CASE t \in Expired
    <3> DEFINE row == [status |-> "EXPIRED", fp |-> attempts[t][Fence(t)].fp]
    <3>1. Fence(t) \in 1..Len(attempts[t])
      BY <2>1, <2>2 DEF Expired, OneOpenAttempt, Fence
    <3>2. row \in Attempt
      <4>1. attempts[t][Fence(t)] \in Attempt
        BY <2>1, <3>1
      <4>2. QED
        BY <4>1 DEF Attempt, AttemptStatus
    <3>3. AfterExpiry[t] = [attempts[t] EXCEPT ![Fence(t)] = row]
      BY <2>2 DEF AfterExpiry
    <3>4. /\ AfterExpiry[t] \in Seq(Attempt) /\ Len(AfterExpiry[t]) = Len(attempts[t])
          /\ \A j \in 1..Len(attempts[t]) :
               AfterExpiry[t][j] = IF j = Fence(t) THEN row ELSE attempts[t][j]
      BY <2>1, <3>1, <3>2, <3>3, ExceptSeq
    <3>5. QED
      BY <2>1, <2>2, <3>4 DEF Fence
  <2>3. CASE t \notin Expired
    BY <2>1, <2>3 DEF AfterExpiry, Fence
  <2>4. QED
    BY <2>2, <2>3
<1>2. QED
  BY <1>1 DEF AfterExpiry

\* The index counts natural numbers.
LEMMA CountedType ==
  ASSUME NEW rs \in SUBSET Request, NEW st
  PROVE  Counted(rs, st) \in [Task -> Nat]
<1>1. ASSUME NEW t \in Task
      PROVE  Cardinality({p \in Prereq(rs, t) : st[p] # "PASS"}) \in Nat
  <2>1. {p \in Prereq(rs, t) : st[p] # "PASS"} \subseteq Task
    BY GraphAssumption DEF Prereq, Spawned, Request
  <2>2. IsFiniteSet({p \in Prereq(rs, t) : st[p] # "PASS"})
    BY <2>1, GraphAssumption, FS_Subset
  <2>3. QED
    BY <2>2, FS_CardinalityType
<1>2. QED
  BY <1>1 DEF Counted

LEMMA DepthType ==
  ASSUME NEW rs \in SUBSET Request, NEW t \in Task
  PROVE  Depth(rs, t) \in Nat
<1>1. CASE \E r \in rs : t \in r.children
  <2>1. (CHOOSE r \in rs : t \in r.children) \in rs
    BY <1>1
  <2>2. QED
    BY <1>1, <2>1 DEF Depth, Request
<1>2. CASE ~\E r \in rs : t \in r.children
  BY <1>2 DEF Depth
<1>3. QED
  BY <1>1, <1>2

\* Two tasks exclude each other whichever is named first.
LEMMA ExcludesSymmetric ==
  ASSUME NEW t \in Task, NEW u \in Task, Excludes(t, u)
  PROVE  Excludes(u, t)
<1>1. \A P, Q : Conflicts(P, Q) => Conflicts(Q, P)
  BY DEF Conflicts
<1>2. QED
  BY <1>1 DEF Excludes, AccessConflicts

\* Nothing is blocked unless something failed, and only READY tasks are.
LEMMA DoomedByFailure ==
  ASSUME NEW rs, NEW st, NEW failed
  PROVE  /\ Doomed(rs, st, failed) \subseteq {t \in Task : st[t] = "READY"}
         /\ failed = {} => Doomed(rs, st, failed) = {}
<1>1. Doomed(rs, st, failed) \subseteq {t \in Task : st[t] = "READY"}
  BY DEF Doomed
<1>2. ASSUME failed = {}, NEW u \in Doomed(rs, st, failed)
      PROVE  FALSE
  <2>1. (\A v \in Task : st[v] = "READY" /\ Prereq(rs, v) \cap (failed \cup {}) # {} => v \in {})
           => u \in {}
    BY DEF Doomed
  <2>2. QED
    BY <1>2, <2>1
<1>3. QED
  BY <1>1, <1>2

-----------------------------------------------------------------------------
(* The inductive invariant.  No part is inductive alone: a claim keeps the *)
(* attempts in order because READY tasks have none open, and it appends to *)
(* no accepted task because an acceptance makes its task PASS.             *)

Inv ==
  /\ TypeOK
  /\ OneOpenAttempt
  /\ AcceptedOnce
  /\ InputsAccepted
  /\ ScopeExclusion
  /\ VerdictSound

\* Invariants over the graph survive every step in which nothing starts and an
\* acceptance comes from a task that ran and is kept.
LEMMA NothingStarts ==
  ASSUME TypeOK, InputsAccepted, ScopeExclusion,
         \A t \in Task : status[t] = "PASS" => status'[t] = "PASS",
         \A t \in Task : status'[t] \in {"RUNNING", "PASS"} => status[t] \in {"RUNNING", "PASS"},
         \A t \in Task : status'[t] = "RUNNING" => status[t] = "RUNNING"
  PROVE  InputsAccepted' /\ ScopeExclusion'
<1>1. \A t \in Task : \A d \in Dep[t] : d \in Task
  BY GraphAssumption
<1>2. InputsAccepted'
  BY <1>1 DEF InputsAccepted
<1>3. Running(status') \subseteq Running(status)
  BY DEF Running
<1>4. ScopeExclusion'
  BY <1>3 DEF ScopeExclusion
<1>5. QED
  BY <1>2, <1>4

\* A step that ends the current attempt of one task, releases its lease and opens
\* nothing keeps the attempts in order and the history intact.
LEMMA EndKeeps ==
  ASSUME TypeOK, OneOpenAttempt, AcceptedOnce,
         NEW l \in held, Current(l),
         NEW how \in AttemptStatus \ {"RUNNING"},
         NEW print \in Fingerprint \cup {NoFingerprint},
         attempts' = EndAttempt(l.task, l.fence, how, print),
         ReleaseLease(l.task),
         status'[l.task] # "RUNNING",
         how = "PASS" => status'[l.task] = "PASS",
         \A t \in Task \ {l.task} :
           /\ status'[t] = "RUNNING" <=> status[t] = "RUNNING"
           /\ status[t] \in {"PASS", "FAIL", "BLOCKED"} => status'[t] = status[t]
  PROVE  /\ attempts' \in [Task -> Seq(Attempt)]
         /\ owner' \in [Task -> Coordinator \cup {NoOwner}]
         /\ due' \in [Task -> 0..Timeout]
         /\ OneOpenAttempt' /\ AcceptedOnce' /\ HistoryStep
<1> DEFINE t0 == l.task
           n0 == l.fence
<1>1. t0 \in Task /\ n0 \in Nat \ {0} /\ n0 = Len(attempts[t0]) /\ status[t0] = "RUNNING"
  BY DEF TypeOK, Lease, Current, Fence
<1>2. \A t \in Task : attempts[t] \in Seq(Attempt) /\ DOMAIN attempts[t] = 1..Len(attempts[t])
  BY DEF TypeOK
<1>3. n0 \in DOMAIN attempts[t0]
  BY <1>1, <1>2
<1>4. /\ attempts' \in [Task -> Seq(Attempt)]
      /\ \A u \in Task : Len(attempts'[u]) = Len(attempts[u])
      /\ \A u \in Task : \A n \in DOMAIN attempts[u] :
           attempts'[u][n] = IF u = t0 /\ n = n0 THEN [status |-> how, fp |-> print]
                             ELSE attempts[u][n]
  BY <1>1, <1>3, EndAttemptType DEF TypeOK
<1>5. \A t \in Task : DOMAIN attempts'[t] = DOMAIN attempts[t]
  BY <1>2, <1>4
<1>6. /\ owner' \in [Task -> Coordinator \cup {NoOwner}]
      /\ due' \in [Task -> 0..Timeout]
      /\ \A t \in Task \ {t0} : owner'[t] = owner[t]
  <2>1. owner' = [owner EXCEPT ![t0] = NoOwner] /\ due' = [due EXCEPT ![t0] = 0]
    BY DEF ReleaseLease
  <2>2. 0 \in 0..Timeout
    BY RecipeAssumption
  <2>3. QED
    BY <1>1, <2>1, <2>2 DEF TypeOK
<1> HIDE DEF t0, n0
<1>7. OneOpenAttempt'
  <2> SUFFICES ASSUME NEW t \in Task
               PROVE  /\ \A n \in DOMAIN attempts'[t] : attempts'[t][n].status = "RUNNING" =>
                           status'[t] = "RUNNING" /\ n = Len(attempts'[t])
                      /\ status'[t] = "RUNNING" =>
                           /\ Len(attempts'[t]) > 0
                           /\ attempts'[t][Len(attempts'[t])].status = "RUNNING"
                           /\ owner'[t] \in Coordinator
    BY DEF OneOpenAttempt, Fence
  <2>1. CASE t = t0
    BY <1>1, <1>2, <1>4, <1>5, <2>1 DEF OneOpenAttempt, Fence, t0
  <2>2. CASE t # t0
    <3>1. status'[t] = "RUNNING" <=> status[t] = "RUNNING"
      BY <2>2 DEF t0
    <3>2. \A n \in DOMAIN attempts[t] : attempts'[t][n] = attempts[t][n]
      BY <1>4, <2>2
    <3>3. status[t] = "RUNNING" => Len(attempts[t]) \in DOMAIN attempts[t]
      BY <1>2 DEF OneOpenAttempt, Fence
    <3>4. Len(attempts'[t]) = Len(attempts[t]) /\ DOMAIN attempts'[t] = DOMAIN attempts[t]
      BY <1>4, <1>5
    <3>5. \A n \in DOMAIN attempts[t] : attempts[t][n].status = "RUNNING" =>
            status[t] = "RUNNING" /\ n = Len(attempts[t])
      BY DEF OneOpenAttempt, Fence
    <3>6. status[t] = "RUNNING" =>
            /\ Len(attempts[t]) > 0
            /\ attempts[t][Len(attempts[t])].status = "RUNNING"
            /\ owner[t] \in Coordinator
      BY DEF OneOpenAttempt, Fence
    <3>7. owner'[t] = owner[t]
      BY <1>6, <2>2
    <3>8. QED
      BY <3>1, <3>2, <3>3, <3>4, <3>5, <3>6, <3>7
  <2>3. QED
    BY <2>1, <2>2
<1>8. AcceptedOnce'
  <2> SUFFICES ASSUME NEW t \in Task, NEW n \in DOMAIN attempts'[t],
                      attempts'[t][n].status = "PASS"
               PROVE  status'[t] = "PASS" /\ n = Len(attempts'[t])
    BY DEF AcceptedOnce, Fence
  <2>1. CASE t = t0 /\ n = n0
    BY <1>1, <1>4, <1>5, <2>1 DEF t0
  <2>2. CASE ~(t = t0 /\ n = n0)
    <3>1. status[t] = "PASS" /\ n = Len(attempts[t])
      BY <1>4, <1>5, <2>2 DEF AcceptedOnce, Fence
    <3>2. QED
      BY <1>1, <1>4, <3>1 DEF t0
  <2>3. QED
    BY <2>1, <2>2
<1>9. HistoryStep
  <2> SUFFICES ASSUME NEW t \in Task
               PROVE  /\ Len(attempts[t]) <= Len(attempts'[t])
                      /\ \A n \in DOMAIN attempts[t] :
                           attempts[t][n].status # "RUNNING" => attempts'[t][n] = attempts[t][n]
                      /\ status[t] \in {"PASS", "FAIL", "BLOCKED"} => status'[t] = status[t]
    BY DEF HistoryStep
  <2>1. attempts[t0][n0].status = "RUNNING"
    BY <1>1 DEF OneOpenAttempt, Fence
  <2>2. QED
    BY <1>1, <1>2, <1>4, <2>1 DEF t0
<1>10. QED
  BY <1>4, <1>6, <1>7, <1>8, <1>9

\* A step that touches no attempt and starts or stops nothing keeps them in order.
LEMMA QuietKeeps ==
  ASSUME TypeOK, OneOpenAttempt, AcceptedOnce, UNCHANGED <<attempts, owner>>,
         \A t \in Task :
           /\ status'[t] = "RUNNING" <=> status[t] = "RUNNING"
           /\ status[t] \in {"PASS", "FAIL", "BLOCKED"} => status'[t] = status[t]
  PROVE  OneOpenAttempt' /\ AcceptedOnce' /\ HistoryStep
<1>1. \A t \in Task : Len(attempts[t]) \in Nat
  BY DEF TypeOK
<1>2. OneOpenAttempt'
  BY DEF OneOpenAttempt, Fence
<1>3. AcceptedOnce'
  BY DEF AcceptedOnce, Fence
<1>4. HistoryStep
  BY <1>1 DEF HistoryStep
<1>5. QED
  BY <1>2, <1>3, <1>4

\* A lease is current only in an open run.
LEMMA CurrentInOpenRun ==
  ASSUME TypeOK, VerdictSound, NEW l \in held, Current(l)
  PROVE  /\ runStatus = "RUNNING"
         /\ l.task \in Task /\ status[l.task] = "RUNNING"
         /\ l.fence \in DOMAIN attempts[l.task]
         /\ attempts[l.task][l.fence].fp \in Fingerprint \cup {NoFingerprint}
<1>1. l.task \in Task /\ status[l.task] = "RUNNING" /\ l.fence = Len(attempts[l.task])
      /\ l.fence \in Nat \ {0}
  BY DEF TypeOK, Lease, Current, Fence
<1>2. runStatus = "RUNNING"
  BY <1>1 DEF VerdictSound, Present, TypeOK
<1>3. attempts[l.task] \in Seq(Attempt)
  BY <1>1 DEF TypeOK
<1>4. l.fence \in DOMAIN attempts[l.task] /\ attempts[l.task][l.fence] \in Attempt
  BY <1>1, <1>3
<1>5. QED
  BY <1>1, <1>2, <1>4 DEF Attempt

-----------------------------------------------------------------------------
(* One lemma per action.                                                   *)

LEMMA FinishKeeps ==
  ASSUME Inv, NEW l \in held, Finish(l)
  PROVE  Inv' /\ HistoryStep
<1>1. Current(l) /\ TypeOK /\ OneOpenAttempt /\ AcceptedOnce /\ VerdictSound
  BY DEF Inv, Finish
<1>2. /\ runStatus = "RUNNING" /\ l.task \in Task /\ status[l.task] = "RUNNING"
      /\ l.fence \in DOMAIN attempts[l.task]
      /\ attempts[l.task][l.fence].fp \in Fingerprint \cup {NoFingerprint}
  BY <1>1, CurrentInOpenRun
<1>3. /\ status' \in [Task -> Status]
      /\ status'[l.task] = "PASS"
      /\ \A t \in Task \ {l.task} : status'[t] = status[t]
  BY <1>1, <1>2 DEF Finish, TypeOK, Status
<1>4. /\ attempts' = EndAttempt(l.task, l.fence, "PASS", attempts[l.task][l.fence].fp)
      /\ ReleaseLease(l.task)
  BY DEF Finish
<1>5. /\ attempts' \in [Task -> Seq(Attempt)]
      /\ owner' \in [Task -> Coordinator \cup {NoOwner}]
      /\ due' \in [Task -> 0..Timeout]
      /\ OneOpenAttempt' /\ AcceptedOnce' /\ HistoryStep
  <2>1. "PASS" \in AttemptStatus \ {"RUNNING"}
    BY DEF AttemptStatus
  <2>2. QED
    BY <1>1, <1>2, <1>3, <1>4, <2>1, EndKeeps
<1>6. remaining' \in [Task -> Nat]
  BY <1>1 DEF Finish, Released, TypeOK
<1>7. UNCHANGED <<runStatus, policy, wake, requests>> /\ held' \subseteq held
  BY DEF Finish, Forget
<1>8. TypeOK'
  BY <1>1, <1>3, <1>5, <1>6, <1>7 DEF TypeOK
<1>9. InputsAccepted' /\ ScopeExclusion'
  BY <1>1, <1>2, <1>3, NothingStarts DEF Inv
<1>10. VerdictSound'
  BY <1>1, <1>2, <1>3, <1>7 DEF VerdictSound
<1>11. QED
  BY <1>5, <1>8, <1>9, <1>10 DEF Inv

\* A failure retries or fails its task, and blocks READY tasks only if it fails it.
LEMMA FailEffect ==
  ASSUME Inv, NEW l \in held, NEW print \in Fingerprint, NEW retryable \in BOOLEAN,
         Fail(l, print, retryable), l.task \in Task
  PROVE  /\ status' \in [Task -> Status]
         /\ status'[l.task] \in {"READY", "FAIL"}
         /\ \A t \in Task \ {l.task} :
              \/ status'[t] = status[t]
              \/ status[t] = "READY" /\ status'[t] = "BLOCKED" /\ status'[l.task] = "FAIL"
<1>1. PICK final \in BOOLEAN :
        LET failed == [status EXCEPT ![l.task] = IF final THEN "FAIL" ELSE "READY"]
        IN  status' = IF final THEN Blocking(failed, Doomed(requests, failed, {l.task}))
                      ELSE failed
  BY DEF Fail
<1> DEFINE failed == [status EXCEPT ![l.task] = IF final THEN "FAIL" ELSE "READY"]
           doomed == Doomed(requests, failed, {l.task})
<1>2. \A t \in doomed : t \in Task /\ failed[t] = "READY"
  BY DEF Doomed
<1>3. status' = IF final THEN [t \in Task |-> IF t \in doomed THEN "BLOCKED" ELSE failed[t]]
                ELSE failed
  BY <1>1 DEF Blocking
<1> HIDE DEF doomed
<1>4. QED
  BY <1>2, <1>3 DEF Inv, TypeOK, Status

LEMMA FailKeeps ==
  ASSUME Inv, NEW l \in held, NEW print \in Fingerprint, NEW retryable \in BOOLEAN,
         Fail(l, print, retryable)
  PROVE  Inv' /\ HistoryStep
<1>1. Current(l) /\ TypeOK /\ OneOpenAttempt /\ AcceptedOnce /\ VerdictSound
  BY DEF Inv, Fail
<1>2. /\ runStatus = "RUNNING" /\ l.task \in Task /\ status[l.task] = "RUNNING"
  BY <1>1, CurrentInOpenRun
<1>3. /\ status' \in [Task -> Status]
      /\ status'[l.task] \in {"READY", "FAIL"}
      /\ \A t \in Task \ {l.task} :
           \/ status'[t] = status[t]
           \/ status[t] = "READY" /\ status'[t] = "BLOCKED" /\ status'[l.task] = "FAIL"
  BY <1>2, FailEffect
<1>4. /\ attempts' = EndAttempt(l.task, l.fence, "FAIL", print)
      /\ ReleaseLease(l.task)
  BY DEF Fail
<1>5. /\ attempts' \in [Task -> Seq(Attempt)]
      /\ owner' \in [Task -> Coordinator \cup {NoOwner}]
      /\ due' \in [Task -> 0..Timeout]
      /\ OneOpenAttempt' /\ AcceptedOnce' /\ HistoryStep
  <2>1. "FAIL" \in AttemptStatus \ {"RUNNING"} /\ print \in Fingerprint \cup {NoFingerprint}
    BY DEF AttemptStatus
  <2>2. \A t \in Task \ {l.task} :
           /\ status'[t] = "RUNNING" <=> status[t] = "RUNNING"
           /\ status[t] \in {"PASS", "FAIL", "BLOCKED"} => status'[t] = status[t]
    BY <1>3
  <2>3. QED
    BY <1>1, <1>3, <1>4, <2>1, <2>2, EndKeeps
<1>6. UNCHANGED <<runStatus, policy, wake, requests, remaining>> /\ held' \subseteq held
  BY DEF Fail, Forget
<1>7. TypeOK'
  BY <1>1, <1>3, <1>5, <1>6 DEF TypeOK
<1>8. InputsAccepted' /\ ScopeExclusion'
  BY <1>1, <1>2, <1>3, NothingStarts DEF Inv
<1>9. VerdictSound'
  BY <1>1, <1>2, <1>3, <1>6 DEF VerdictSound
<1>10. QED
  BY <1>5, <1>7, <1>8, <1>9 DEF Inv

\* Parking a task, whatever else the step admits to the graph.
LEMMA ParkKeeps ==
  ASSUME Inv, NEW l \in held, NEW wait \in 0..MaxWait, Current(l), Park(l, wait),
         UNCHANGED <<runStatus, policy>>,
         requests' \subseteq Request, remaining' \in [Task -> Nat],
         status' \in [Task -> Status], status'[l.task] = "READY",
         \A t \in Task \ {l.task} :
           status'[t] = status[t] \/ (status[t] = "ABSENT" /\ status'[t] = "READY")
  PROVE  Inv' /\ HistoryStep
<1>1. TypeOK /\ OneOpenAttempt /\ AcceptedOnce /\ VerdictSound
  BY DEF Inv
<1>2. /\ runStatus = "RUNNING" /\ l.task \in Task /\ status[l.task] = "RUNNING"
      /\ attempts[l.task][l.fence].fp \in Fingerprint \cup {NoFingerprint}
  BY <1>1, CurrentInOpenRun
<1>3. /\ attempts' = EndAttempt(l.task, l.fence, "DEFERRED", attempts[l.task][l.fence].fp)
      /\ ReleaseLease(l.task)
      /\ wake' = [wake EXCEPT ![l.task] = wait]
      /\ held' \subseteq held
  BY DEF Park, Forget
<1>4. /\ attempts' \in [Task -> Seq(Attempt)]
      /\ owner' \in [Task -> Coordinator \cup {NoOwner}]
      /\ due' \in [Task -> 0..Timeout]
      /\ OneOpenAttempt' /\ AcceptedOnce' /\ HistoryStep
  <2>1. "DEFERRED" \in AttemptStatus \ {"RUNNING"}
    BY DEF AttemptStatus
  <2>2. \A t \in Task \ {l.task} :
           /\ status'[t] = "RUNNING" <=> status[t] = "RUNNING"
           /\ status[t] \in {"PASS", "FAIL", "BLOCKED"} => status'[t] = status[t]
    OBVIOUS
  <2>3. QED
    BY <1>1, <1>2, <1>3, <2>1, <2>2, EndKeeps
<1>5. wake' \in [Task -> 0..MaxWait]
  BY <1>1, <1>2, <1>3 DEF TypeOK
<1>6. TypeOK'
  BY <1>1, <1>3, <1>4, <1>5 DEF TypeOK
<1>7. InputsAccepted' /\ ScopeExclusion'
  BY <1>1, <1>2, NothingStarts DEF Inv
<1>8. VerdictSound'
  BY <1>1, <1>2 DEF VerdictSound
<1>9. QED
  BY <1>4, <1>6, <1>7, <1>8 DEF Inv

LEMMA DeferKeeps ==
  ASSUME Inv, NEW l \in held, NEW wait \in 0..MaxWait, Defer(l, wait)
  PROVE  Inv' /\ HistoryStep
<1>1. l.task \in Task /\ Current(l)
  BY DEF Inv, TypeOK, Lease, Defer
<1>2. /\ status' \in [Task -> Status] /\ status'[l.task] = "READY"
      /\ \A t \in Task \ {l.task} : status'[t] = status[t]
  BY <1>1 DEF Defer, Inv, TypeOK, Status
<1>3. Park(l, wait) /\ UNCHANGED <<runStatus, policy, requests, remaining>>
  BY DEF Defer
<1>4. requests' \subseteq Request /\ remaining' \in [Task -> Nat]
  BY <1>3 DEF Inv, TypeOK
<1>5. QED
  BY <1>1, <1>2, <1>3, <1>4, ParkKeeps

LEMMA RespawnKeeps ==
  ASSUME Inv, NEW l \in held, NEW r \in requests, Respawn(l, r)
  PROVE  Inv' /\ HistoryStep
<1>1. l.task \in Task /\ Current(l) /\ 0 \in 0..MaxWait
  BY RecipeAssumption DEF Inv, TypeOK, Lease, Respawn
<1>2. /\ status' \in [Task -> Status] /\ status'[l.task] = "READY"
      /\ \A t \in Task \ {l.task} : status'[t] = status[t]
  BY <1>1 DEF Respawn, Inv, TypeOK, Status
<1>3. Park(l, 0) /\ UNCHANGED <<runStatus, policy, requests, remaining>>
  BY DEF Respawn
<1>4. requests' \subseteq Request /\ remaining' \in [Task -> Nat]
  BY <1>3 DEF Inv, TypeOK
<1>5. QED
  BY <1>1, <1>2, <1>3, <1>4, ParkKeeps

\* What Insert adds to the graph is typed.
LEMMA InsertType ==
  ASSUME requests \subseteq Request, NEW p \in Task, NEW B \in SUBSET Task,
         NEW by \in {"worker", "policy", "host"}, NEW st, Insert(p, B, by, st)
  PROVE  requests' \subseteq Request /\ remaining' \in [Task -> Nat]
<1>1. Depth(requests, p) \in Nat
  BY DepthType
<1>2. [parent |-> p, children |-> B, depth |-> Depth(requests, p) + 1, by |-> by] \in Request
  BY <1>1 DEF Request
<1>3. requests' \subseteq Request
  BY <1>2 DEF Insert
<1>4. PICK g : remaining' = Counted(requests', g)
  BY DEF Insert
<1>5. QED
  BY <1>3, <1>4, CountedType

\* Growing the graph without parking anybody.
LEMMA GrowthKeeps ==
  ASSUME Inv, UNCHANGED <<policy, owner, due, attempts, wake, held>>,
         runStatus = "RUNNING" \/ runStatus' = "RUNNING",
         UNCHANGED runStatus \/ runStatus' = "RUNNING",
         requests' \subseteq Request, remaining' \in [Task -> Nat],
         status' \in [Task -> Status],
         \A t \in Task :
           status'[t] = status[t] \/ (status[t] = "ABSENT" /\ status'[t] = "READY")
  PROVE  Inv' /\ HistoryStep
<1>1. TypeOK /\ OneOpenAttempt /\ AcceptedOnce /\ VerdictSound
  BY DEF Inv
<1>2. TypeOK'
  BY <1>1 DEF TypeOK
<1>3. OneOpenAttempt' /\ AcceptedOnce' /\ HistoryStep
  BY <1>1, QuietKeeps
<1>4. InputsAccepted' /\ ScopeExclusion'
  BY <1>1, NothingStarts DEF Inv
<1>5. VerdictSound'
  BY <1>1 DEF VerdictSound
<1>6. QED
  BY <1>2, <1>3, <1>4, <1>5 DEF Inv

LEMMA SpawnKeeps ==
  ASSUME Inv, NEW l \in held, NEW yields \in YieldChoice, NEW B \in Batch[l.task],
         Spawn(l, B, yields)
  PROVE  Inv' /\ HistoryStep
<1>1. /\ l.task \in Task /\ Current(l) /\ 0 \in 0..MaxWait
      /\ runStatus = "RUNNING" /\ requests \subseteq Request
  BY RecipeAssumption DEF Inv, TypeOK, Lease, Spawn
<1>2. B \in SUBSET Task
  BY <1>1, GraphAssumption
<1>3. \A t \in B : status[t] = "ABSENT"
  BY <1>2 DEF Spawn, Admissible, Present
<1>4. requests' \subseteq Request /\ remaining' \in [Task -> Nat]
  <2>1. Insert(l.task, B, "worker", status)
    BY DEF Spawn
  <2>2. QED
    BY <1>1, <1>2, <2>1, InsertType
<1>5. UNCHANGED <<runStatus, policy>>
  BY DEF Spawn
<1>6. status \in [Task -> Status]
  BY DEF Inv, TypeOK
<1>7. CASE /\ status' = [t \in Task |-> IF t \in B \cup {l.task} THEN "READY" ELSE status[t]]
           /\ Park(l, 0)
  <2>1. /\ status' \in [Task -> Status] /\ status'[l.task] = "READY"
        /\ \A t \in Task \ {l.task} :
             status'[t] = status[t] \/ (status[t] = "ABSENT" /\ status'[t] = "READY")
    BY <1>1, <1>2, <1>3, <1>6, <1>7 DEF Status
  <2>2. QED
    BY <1>1, <1>4, <1>5, <1>7, <2>1, ParkKeeps
<1>8. CASE /\ status' = [t \in Task |-> IF t \in B THEN "READY" ELSE status[t]]
           /\ UNCHANGED <<attempts, owner, due, wake, held>>
  <2>1. /\ status' \in [Task -> Status]
        /\ \A t \in Task :
             status'[t] = status[t] \/ (status[t] = "ABSENT" /\ status'[t] = "READY")
    BY <1>3, <1>6, <1>8 DEF Status
  <2>2. QED
    BY <1>1, <1>4, <1>5, <1>8, <2>1, GrowthKeeps
<1>9. QED
  BY <1>7, <1>8 DEF Spawn

LEMMA ExpandKeeps ==
  ASSUME Inv, NEW p \in Present, NEW B \in Batch[p], Expand(p, B)
  PROVE  Inv' /\ HistoryStep
<1>1. p \in Task /\ B \in SUBSET Task /\ requests \subseteq Request
  BY GraphAssumption DEF Present, Inv, TypeOK
<1>2. \A t \in B : status[t] = "ABSENT"
  BY <1>1 DEF Expand, Admissible, Present
<1>3. requests' \subseteq Request /\ remaining' \in [Task -> Nat]
  <2>1. Insert(p, B, "policy", status)
    BY DEF Expand
  <2>2. QED
    BY <1>1, <2>1, InsertType
<1>4. /\ status' \in [Task -> Status]
      /\ \A t \in Task :
           status'[t] = status[t] \/ (status[t] = "ABSENT" /\ status'[t] = "READY")
  BY <1>2 DEF Expand, Inv, TypeOK, Status
<1>5. /\ runStatus = "RUNNING"
      /\ UNCHANGED <<runStatus, policy, owner, due, attempts, wake, held>>
  BY DEF Expand
<1>6. QED
  BY <1>3, <1>4, <1>5, GrowthKeeps

LEMMA AdjudicateKeeps ==
  ASSUME Inv, NEW p \in Present, NEW d \in Adjudicator, Adjudicate(p, d)
  PROVE  Inv' /\ HistoryStep
<1>1. p \in Task /\ d \in Task /\ requests \subseteq Request
  BY GraphAssumption DEF Present, Inv, TypeOK
<1>2. status[d] = "ABSENT"
  BY <1>1 DEF Adjudicate, Present
<1>3. requests' \subseteq Request /\ remaining' \in [Task -> Nat]
  <2>1. Insert(p, {d}, "host", status) /\ {d} \in SUBSET Task
    BY <1>1 DEF Adjudicate
  <2>2. QED
    BY <1>1, <2>1, InsertType
<1>4. /\ status' \in [Task -> Status]
      /\ \A t \in Task :
           status'[t] = status[t] \/ (status[t] = "ABSENT" /\ status'[t] = "READY")
  BY <1>1, <1>2 DEF Adjudicate, Inv, TypeOK, Status
<1>5. runStatus' = "RUNNING" /\ UNCHANGED <<policy, owner, due, attempts, wake, held>>
  BY DEF Adjudicate
<1>6. QED
  BY <1>3, <1>4, <1>5, GrowthKeeps

\* Steps that leave tasks, attempts and owners alone: a stale lease dropped, the
\* policy, a crash, the clock.
LEMMA FrameKeeps ==
  ASSUME Inv, UNCHANGED <<runStatus, status, owner, attempts, requests, remaining>>,
         policy' \in 1..Parallelism, held' \subseteq held,
         due' \in [Task -> 0..Timeout], wake' \in [Task -> 0..MaxWait]
  PROVE  Inv' /\ HistoryStep
<1>1. TypeOK /\ OneOpenAttempt /\ AcceptedOnce /\ VerdictSound
  BY DEF Inv
<1>2. TypeOK'
  BY <1>1 DEF TypeOK
<1>3. OneOpenAttempt' /\ AcceptedOnce' /\ HistoryStep
  BY <1>1, QuietKeeps
<1>4. InputsAccepted' /\ ScopeExclusion'
  BY <1>1, NothingStarts DEF Inv
<1>5. VerdictSound'
  BY <1>1 DEF VerdictSound, Present
<1>6. QED
  BY <1>2, <1>3, <1>4, <1>5 DEF Inv

LEMMA TickKeeps ==
  ASSUME Inv, Tick
  PROVE  Inv' /\ HistoryStep
<1>1. /\ due' \in [Task -> 0..Timeout] /\ wake' \in [Task -> 0..MaxWait]
  BY RecipeAssumption DEF Tick, Inv, TypeOK
<1>2. QED
  BY <1>1, FrameKeeps DEF Tick, Inv, TypeOK

-----------------------------------------------------------------------------
(* Claims.                                                                 *)

\* What a claim grants after it reclaimed the expired leases: READY tasks whose
\* prerequisites all passed, and that may run beside each other and what runs.
LEMMA ClaimEffect ==
  ASSUME Inv, NEW w \in Coordinator, ClaimMany(w)
  PROVE  \E st \in [Task -> Status], S \in SUBSET Task :
           /\ \A t \in Expired : st[t] \in {"READY", "FAIL", "BLOCKED"}
           /\ \A t \in Task \ Expired :
                st[t] = status[t] \/ (status[t] = "READY" /\ st[t] = "BLOCKED")
           /\ (\E t \in Task : st[t] = "BLOCKED") => \E t \in Task : st[t] = "FAIL"
           /\ \A t \in S : st[t] = "READY" /\ AuthoritativeReady(st, t)
           /\ S = {} \/ Together(S, Running(st))
           /\ Grant(w, st, S)
           /\ remaining' \in [Task -> Nat]
           /\ \/ UNCHANGED runStatus
              \/ /\ S = {} /\ ~Open(st)
                 /\ runStatus' = IF \E t \in Task : st[t] \in {"FAIL", "BLOCKED"}
                                 THEN "FAIL" ELSE "PASS"
<1>1. PICK after \in SUBSET (Expired \ Spent) :
        LET st == StatusAfterExpiry(after)
            capacity == Capacity(w, st)
        IN \/ /\ ~Open(st)
              /\ runStatus' = IF \E t \in Task : st[t] \in {"FAIL", "BLOCKED"}
                              THEN "FAIL" ELSE "PASS"
              /\ Grant(w, st, {})
              /\ UNCHANGED remaining
           \/ /\ Open(st)
              /\ \E S \in Refills(st, capacity) :
                   /\ Grant(w, st, S)
                   /\ remaining' = IF IndexSuspect(st, capacity, S)
                                   THEN Counted(requests, st) ELSE remaining
              /\ UNCHANGED runStatus
  BY DEF ClaimMany
<1> DEFINE st == StatusAfterExpiry(after)
<1>2. status \in [Task -> Status] /\ requests \subseteq Request /\ remaining \in [Task -> Nat]
  BY DEF Inv, TypeOK
<1>3. /\ st \in [Task -> Status]
      /\ \A t \in Expired : st[t] \in {"READY", "FAIL", "BLOCKED"}
      /\ \A t \in Task \ Expired :
           st[t] = status[t] \/ (status[t] = "READY" /\ st[t] = "BLOCKED")
  BY <1>2, ReclaimedStatus
<1>4. (\E t \in Task : st[t] = "BLOCKED") => \E t \in Task : st[t] = "FAIL"
  <2> DEFINE failed == [t \in Task |-> IF t \in Spent THEN "FAIL"
                                       ELSE IF t \in Expired \ after THEN "READY" ELSE status[t]]
             doomed == Doomed(requests, failed, Spent)
  <2>1. st = [t \in Task |-> IF t \in after THEN "READY"
                             ELSE IF t \in doomed THEN "BLOCKED" ELSE failed[t]]
    BY DEF StatusAfterExpiry, Blocking
  <2>2. /\ doomed \subseteq {t \in Task : failed[t] = "READY"}
        /\ Spent = {} => doomed = {}
    BY DoomedByFailure
  <2>3. \A t \in Spent : t \in Task /\ status[t] = "RUNNING" /\ t \notin after
    BY DEF Spent, Expired
  <2>4. \A t \in Task : status[t] = "FAIL" => t \notin Expired
    BY DEF Expired
  <2>5. (\E t \in Task : status[t] = "BLOCKED") => \E t \in Task : status[t] = "FAIL"
    BY DEF Inv, VerdictSound
  <2>6. \A t \in Spent : st[t] = "FAIL"
    <3>1. \A t \in Spent : failed[t] = "FAIL" /\ t \notin doomed
      BY <2>2, <2>3
    <3> HIDE DEF failed, doomed, st
    <3>2. QED
      BY <2>1, <2>3, <3>1
  <2>7. \A t \in Task : status[t] = "FAIL" => st[t] = "FAIL"
    BY <1>3, <2>4
  <2>8. CASE Spent # {}
    BY <2>3, <2>6, <2>8
  <2>9. CASE Spent = {}
    <3>1. \A t \in Task : st[t] = "BLOCKED" => status[t] = "BLOCKED"
      <4>1. doomed = {} /\ \A t \in Task : failed[t] \in {"READY", status[t]}
        BY <2>2, <2>9
      <4> HIDE DEF failed, doomed, st
      <4>2. QED
        BY <2>1, <4>1
    <3>2. QED
      BY <2>5, <2>7, <3>1
  <2>10. QED
    BY <2>8, <2>9
<1> HIDE DEF st
<1>5. CASE /\ ~Open(st)
           /\ runStatus' = IF \E t \in Task : st[t] \in {"FAIL", "BLOCKED"}
                           THEN "FAIL" ELSE "PASS"
           /\ Grant(w, st, {})
           /\ UNCHANGED remaining
  <2>1. {} \in SUBSET Task /\ remaining' \in [Task -> Nat]
    BY <1>2, <1>5
  <2>2. QED
    BY <1>3, <1>4, <1>5, <2>1
<1>6. ASSUME NEW S \in Refills(st, Capacity(w, st)), Grant(w, st, S), UNCHANGED runStatus,
             remaining' = IF IndexSuspect(st, Capacity(w, st), S)
                          THEN Counted(requests, st) ELSE remaining
      PROVE  \E T \in SUBSET Task :
           /\ \A t \in T : st[t] = "READY" /\ AuthoritativeReady(st, t)
           /\ T = {} \/ Together(T, Running(st))
           /\ Grant(w, st, T)
           /\ remaining' \in [Task -> Nat]
           /\ UNCHANGED runStatus
  <2>1. /\ S \in SUBSET Task
        /\ \A t \in S : st[t] = "READY" /\ AuthoritativeReady(st, t)
        /\ S = {} \/ Together(S, Running(st))
    BY <1>6 DEF Refills, Candidates
  <2>2. remaining' \in [Task -> Nat]
    BY <1>2, <1>6, CountedType
  <2>3. QED
    BY <1>6, <2>1, <2>2
<1>7. QED
  BY <1>1, <1>3, <1>4, <1>5, <1>6 DEF st

\* The rows after a claim: ended attempts are kept, expired ones are EXPIRED, and
\* every granted task has one more, which is open.
LEMMA GrantedRows ==
  ASSUME TypeOK, OneOpenAttempt, NEW w \in Coordinator, NEW st \in [Task -> Status],
         NEW S \in SUBSET Task, Grant(w, st, S), NEW t \in Task
  PROVE  /\ attempts'[t] \in Seq(Attempt)
         /\ Len(attempts'[t]) = IF t \in S THEN Fence(t) + 1 ELSE Fence(t)
         /\ \A n \in 1..Fence(t) :
              IF t \in Expired /\ n = Fence(t)
              THEN attempts'[t][n].status = "EXPIRED"
              ELSE attempts'[t][n] = attempts[t][n]
         /\ t \in S => attempts'[t][Fence(t) + 1].status = "RUNNING"
<1> DEFINE row == [status |-> "RUNNING", fp |-> NoFingerprint]
<1>1. /\ AfterExpiry[t] \in Seq(Attempt) /\ Len(AfterExpiry[t]) = Fence(t)
      /\ \A n \in DOMAIN attempts[t] :
           IF t \in Expired /\ n = Fence(t)
           THEN AfterExpiry[t][n].status = "EXPIRED"
           ELSE AfterExpiry[t][n] = attempts[t][n]
  BY ReclaimedAttempts
<1>2. DOMAIN attempts[t] = 1..Fence(t) /\ Fence(t) \in Nat
  BY DEF TypeOK, Fence
<1>3. row \in Attempt
  BY DEF Attempt, AttemptStatus
<1>4. attempts'[t] = IF t \in S THEN Append(AfterExpiry[t], row) ELSE AfterExpiry[t]
  BY DEF Grant
<1> HIDE DEF row
<1>5. CASE t \in S
  <2>1. /\ Append(AfterExpiry[t], row) \in Seq(Attempt)
        /\ Len(Append(AfterExpiry[t], row)) = Fence(t) + 1
        /\ \A n \in 1..Fence(t) : Append(AfterExpiry[t], row)[n] = AfterExpiry[t][n]
        /\ Append(AfterExpiry[t], row)[Fence(t) + 1] = row
    BY <1>1, <1>3, AppendProperties
  <2>2. QED
    BY <1>1, <1>2, <1>4, <1>5, <2>1 DEF row
<1>6. CASE t \notin S
  BY <1>1, <1>2, <1>4, <1>6
<1>7. QED
  BY <1>5, <1>6

LEMMA ClaimKeeps ==
  ASSUME Inv, NEW w \in Coordinator, ClaimMany(w)
  PROVE  Inv' /\ HistoryStep
<1>1. TypeOK /\ OneOpenAttempt /\ AcceptedOnce /\ InputsAccepted /\ ScopeExclusion /\ VerdictSound
  BY DEF Inv
<1>2. PICK st \in [Task -> Status], S \in SUBSET Task :
           /\ \A t \in Expired : st[t] \in {"READY", "FAIL", "BLOCKED"}
           /\ \A t \in Task \ Expired :
                st[t] = status[t] \/ (status[t] = "READY" /\ st[t] = "BLOCKED")
           /\ (\E t \in Task : st[t] = "BLOCKED") => \E t \in Task : st[t] = "FAIL"
           /\ \A t \in S : st[t] = "READY" /\ AuthoritativeReady(st, t)
           /\ S = {} \/ Together(S, Running(st))
           /\ Grant(w, st, S)
           /\ remaining' \in [Task -> Nat]
           /\ \/ UNCHANGED runStatus
              \/ /\ S = {} /\ ~Open(st)
                 /\ runStatus' = IF \E t \in Task : st[t] \in {"FAIL", "BLOCKED"}
                                 THEN "FAIL" ELSE "PASS"
  BY ClaimEffect
<1>3. UNCHANGED <<policy, wake, requests>> /\ runStatus = "RUNNING"
  BY DEF ClaimMany
<1>4. \A t \in Expired : t \in Task /\ status[t] = "RUNNING"
  BY DEF Expired
<1>5. \A t \in Task : status'[t] = IF t \in S THEN "RUNNING" ELSE st[t]
  BY <1>2 DEF Grant
<1>6. \A t \in Task :
        /\ Fence(t) \in Nat /\ DOMAIN attempts[t] = 1..Fence(t) /\ Len(attempts[t]) = Fence(t)
        /\ attempts'[t] \in Seq(Attempt) /\ DOMAIN attempts'[t] = 1..Len(attempts'[t])
        /\ Len(attempts'[t]) = IF t \in S THEN Fence(t) + 1 ELSE Fence(t)
        /\ \A n \in 1..Fence(t) :
             IF t \in Expired /\ n = Fence(t)
             THEN attempts'[t][n].status = "EXPIRED"
             ELSE attempts'[t][n] = attempts[t][n]
        /\ t \in S => attempts'[t][Fence(t) + 1].status = "RUNNING"
  <2> SUFFICES ASSUME NEW t \in Task
               PROVE  /\ Fence(t) \in Nat /\ DOMAIN attempts[t] = 1..Fence(t)
                      /\ Len(attempts[t]) = Fence(t)
                      /\ attempts'[t] \in Seq(Attempt)
                      /\ DOMAIN attempts'[t] = 1..Len(attempts'[t])
                      /\ Len(attempts'[t]) = IF t \in S THEN Fence(t) + 1 ELSE Fence(t)
                      /\ \A n \in 1..Fence(t) :
                           IF t \in Expired /\ n = Fence(t)
                           THEN attempts'[t][n].status = "EXPIRED"
                           ELSE attempts'[t][n] = attempts[t][n]
                      /\ t \in S => attempts'[t][Fence(t) + 1].status = "RUNNING"
    OBVIOUS
  <2>1. attempts[t] \in Seq(Attempt)
    BY <1>1 DEF TypeOK
  <2>2. QED
    BY <1>1, <1>2, <2>1, GrantedRows DEF Fence
<1>7. TypeOK'
  <2>1. status' \in [Task -> Status] /\ owner' \in [Task -> Coordinator \cup {NoOwner}]
    BY <1>1, <1>2 DEF Grant, TypeOK, Status
  <2>2. due' \in [Task -> 0..Timeout]
    BY <1>1, <1>2, RecipeAssumption DEF Grant, TypeOK
  <2>3. attempts' \in [Task -> Seq(Attempt)]
    BY <1>2, <1>6 DEF Grant
  <2>4. held' \subseteq Lease
    <3>1. \A t \in S : [task |-> t, owner |-> w, fence |-> Fence(t) + 1] \in Lease
      BY <1>6 DEF Lease
    <3>2. QED
      BY <1>1, <1>2, <3>1 DEF Grant, TypeOK
  <2>5. runStatus' \in {"RUNNING", "PASS", "FAIL"}
    BY <1>1, <1>2 DEF TypeOK
  <2>6. QED
    BY <1>1, <1>2, <1>3, <2>1, <2>2, <2>3, <2>4, <2>5 DEF TypeOK
<1>8. \A t \in S : t \in Task /\ (status[t] = "READY" \/ t \in Expired)
  BY <1>2
<1>9. OneOpenAttempt'
  <2> SUFFICES ASSUME NEW t \in Task
               PROVE  /\ \A n \in DOMAIN attempts'[t] : attempts'[t][n].status = "RUNNING" =>
                           status'[t] = "RUNNING" /\ n = Len(attempts'[t])
                      /\ status'[t] = "RUNNING" =>
                           /\ Len(attempts'[t]) > 0
                           /\ attempts'[t][Len(attempts'[t])].status = "RUNNING"
                           /\ owner'[t] \in Coordinator
    BY DEF OneOpenAttempt, Fence
  <2>1. /\ \A n \in 1..Fence(t) : attempts[t][n].status = "RUNNING" =>
             status[t] = "RUNNING" /\ n = Fence(t)
        /\ status[t] = "RUNNING" =>
             /\ Fence(t) > 0
             /\ attempts[t][Fence(t)].status = "RUNNING"
             /\ owner[t] \in Coordinator
    BY <1>1, <1>6 DEF OneOpenAttempt
  <2>2. CASE t \in S
    <3>1. \A n \in 1..Fence(t) : attempts'[t][n].status # "RUNNING"
      BY <1>6, <1>8, <2>1, <2>2
    <3>2. owner'[t] = w
      BY <1>2, <2>2 DEF Grant
    <3>3. QED
      BY <1>5, <1>6, <2>2, <3>1, <3>2
  <2>3. CASE t \notin S /\ t \in Expired
    <3>1. status'[t] # "RUNNING"
      BY <1>2, <1>5, <2>3
    <3>2. \A n \in 1..Fence(t) : attempts'[t][n].status # "RUNNING"
      BY <1>6, <2>1, <2>3
    <3>3. QED
      BY <1>6, <2>3, <3>1, <3>2
  <2>4. CASE t \notin S /\ t \notin Expired
    <3>1. status'[t] = "RUNNING" <=> status[t] = "RUNNING"
      BY <1>2, <1>5, <2>4
    <3>2. owner'[t] = owner[t]
      BY <1>2, <2>4 DEF Grant
    <3>3. \A n \in 1..Fence(t) : attempts'[t][n] = attempts[t][n]
      BY <1>6, <2>4
    <3>4. Len(attempts'[t]) = Fence(t) /\ DOMAIN attempts'[t] = 1..Fence(t) /\ Fence(t) \in Nat
      BY <1>6, <2>4
    <3>5. QED
      BY <2>1, <3>1, <3>2, <3>3, <3>4
  <2>5. QED
    BY <2>2, <2>3, <2>4
<1>10. AcceptedOnce'
  <2> SUFFICES ASSUME NEW t \in Task, NEW n \in DOMAIN attempts'[t],
                      attempts'[t][n].status = "PASS"
               PROVE  status'[t] = "PASS" /\ n = Len(attempts'[t])
    BY DEF AcceptedOnce, Fence
  <2>1. n \in 1..Fence(t) /\ ~(t \in Expired /\ n = Fence(t))
    BY <1>6
  <2>2. attempts[t][n].status = "PASS"
    BY <1>6, <2>1
  <2>3. status[t] = "PASS" /\ n = Fence(t)
    BY <1>1, <1>6, <2>1, <2>2 DEF AcceptedOnce
  <2>4. t \notin Expired /\ t \notin S
    BY <1>4, <1>8, <2>3
  <2>5. QED
    BY <1>2, <1>5, <1>6, <2>3, <2>4
<1>11. InputsAccepted'
  <2> SUFFICES ASSUME NEW t \in Task, status'[t] \in {"RUNNING", "PASS"}, NEW d \in Dep[t]
               PROVE  status'[d] = "PASS"
    BY DEF InputsAccepted
  <2>1. d \in Task
    BY GraphAssumption
  <2>2. st[d] = "PASS"
    <3>1. CASE t \in S
      BY <1>2, <3>1 DEF AuthoritativeReady, Prereq
    <3>2. CASE t \notin S
      <4>1. status[t] \in {"RUNNING", "PASS"}
        BY <1>2, <1>5, <3>2
      <4>2. status[d] = "PASS"
        BY <1>1, <4>1 DEF InputsAccepted
      <4>3. QED
        BY <1>2, <1>4, <2>1, <4>2
    <3>3. QED
      BY <3>1, <3>2
  <2>3. QED
    BY <1>2, <1>5, <2>1, <2>2
<1>12. ScopeExclusion'
  <2> SUFFICES ASSUME NEW t \in Running(status'), NEW u \in Running(status'), t # u
               PROVE  ~Excludes(t, u)
    BY DEF ScopeExclusion
  <2>1. /\ t \in Task /\ (t \in S \/ t \in Running(st))
        /\ u \in Task /\ (u \in S \/ u \in Running(st))
    BY <1>5 DEF Running
  <2>2. Running(st) \subseteq Running(status)
    BY <1>2 DEF Running
  <2>3. CASE t \in S
    BY <1>2, <2>1, <2>3 DEF Together
  <2>4. CASE u \in S
    <3>1. ~Excludes(u, t)
      BY <1>2, <2>1, <2>4 DEF Together
    <3>2. QED
      BY <2>1, <3>1, ExcludesSymmetric
  <2>5. CASE t \notin S /\ u \notin S
    BY <1>1, <2>1, <2>2, <2>5 DEF ScopeExclusion
  <2>6. QED
    BY <2>3, <2>4, <2>5
<1>13. VerdictSound'
  <2>1. (\E t \in Task : status'[t] = "BLOCKED") => \E t \in Task : status'[t] = "FAIL"
    BY <1>2, <1>5
  <2>2. CASE UNCHANGED runStatus
    BY <1>3, <2>1, <2>2 DEF VerdictSound
  <2>3. CASE /\ S = {} /\ ~Open(st)
             /\ runStatus' = IF \E t \in Task : st[t] \in {"FAIL", "BLOCKED"}
                             THEN "FAIL" ELSE "PASS"
    <3>1. \A t \in Task : status'[t] = st[t] /\ st[t] \in {"ABSENT", "PASS", "FAIL", "BLOCKED"}
      BY <1>2, <1>5, <2>3 DEF Open, Status
    <3>2. runStatus' = "PASS" => \A t \in Task : status'[t] \in {"ABSENT", "PASS"}
      BY <2>3, <3>1
    <3>3. runStatus' = "FAIL" => \E t \in Task : status'[t] = "FAIL"
      BY <2>1, <2>3, <3>1
    <3>4. QED
      BY <2>1, <3>1, <3>2, <3>3 DEF VerdictSound, Present
  <2>4. QED
    BY <1>2, <2>2, <2>3
<1>14. HistoryStep
  <2> SUFFICES ASSUME NEW t \in Task
               PROVE  /\ Len(attempts[t]) <= Len(attempts'[t])
                      /\ \A n \in DOMAIN attempts[t] :
                           attempts[t][n].status # "RUNNING" => attempts'[t][n] = attempts[t][n]
                      /\ status[t] \in {"PASS", "FAIL", "BLOCKED"} => status'[t] = status[t]
    BY DEF HistoryStep
  <2>1. Len(attempts[t]) <= Len(attempts'[t])
    BY <1>6
  <2>2. t \in Expired => attempts[t][Fence(t)].status = "RUNNING"
    BY <1>1, <1>4 DEF OneOpenAttempt
  <2>3. \A n \in DOMAIN attempts[t] :
          attempts[t][n].status # "RUNNING" => attempts'[t][n] = attempts[t][n]
    BY <1>6, <2>2
  <2>4. status[t] \in {"PASS", "FAIL", "BLOCKED"} => status'[t] = status[t]
    BY <1>2, <1>4, <1>5, <1>8
  <2>5. QED
    BY <2>1, <2>3, <2>4
<1>15. QED
  BY <1>7, <1>9, <1>10, <1>11, <1>12, <1>13, <1>14 DEF Inv

-----------------------------------------------------------------------------
(* The theorems.                                                           *)

LEMMA InitInv ==
  ASSUME Init
  PROVE  Inv
<1>1. \A t \in Task : attempts[t] = <<>> /\ status[t] \in {"READY", "ABSENT"}
  BY DEF Init
<1>2. TypeOK
  <2>1. remaining \in [Task -> Nat]
    BY CountedType DEF Init
  <2>2. QED
    BY <2>1, RecipeAssumption DEF Init, TypeOK, Status
<1>3. OneOpenAttempt /\ AcceptedOnce
  BY <1>1 DEF OneOpenAttempt, AcceptedOnce
<1>4. InputsAccepted /\ ScopeExclusion
  BY <1>1 DEF InputsAccepted, ScopeExclusion, Running
<1>5. VerdictSound
  BY <1>1 DEF VerdictSound, Init
<1>6. QED
  BY <1>2, <1>3, <1>4, <1>5 DEF Inv

LEMMA StepInv ==
  ASSUME Inv, [Next]_vars
  PROVE  Inv' /\ (HistoryStep \/ UNCHANGED vars)
<1>1. CASE UNCHANGED vars
  <2>1. TypeOK' /\ OneOpenAttempt' /\ AcceptedOnce' /\ VerdictSound'
    BY <1>1 DEF Inv, vars, TypeOK, OneOpenAttempt, AcceptedOnce, VerdictSound, Fence, Present
  <2>2. InputsAccepted' /\ ScopeExclusion'
    BY <1>1 DEF Inv, vars, InputsAccepted, ScopeExclusion, Running
  <2>3. QED
    BY <1>1, <2>1, <2>2 DEF Inv
<1>2. ASSUME NEW w \in Coordinator, ClaimMany(w)
      PROVE  Inv' /\ HistoryStep
  BY <1>2, ClaimKeeps
<1>3. ASSUME NEW l \in held, Settle(l)
      PROVE  Inv' /\ HistoryStep
  <2>1. CASE DropStale(l)
    BY <2>1, FrameKeeps DEF DropStale, Forget, Inv, TypeOK
  <2>2. CASE Finish(l)
    BY <2>2, FinishKeeps
  <2>3. CASE \E print \in Fingerprint, retryable \in BOOLEAN : Fail(l, print, retryable)
    BY <2>3, FailKeeps
  <2>4. CASE \E wait \in 0..MaxWait : Defer(l, wait)
    BY <2>4, DeferKeeps
  <2>5. QED
    BY <1>3, <2>1, <2>2, <2>3, <2>4 DEF Settle
<1>4. CASE Grow
  BY <1>4, SpawnKeeps, RespawnKeeps, ExpandKeeps, AdjudicateKeeps DEF Grow
<1>5. ASSUME NEW n \in 1..Parallelism, SetParallelism(n)
      PROVE  Inv' /\ HistoryStep
  BY <1>5, FrameKeeps DEF SetParallelism, Inv, TypeOK
<1>6. ASSUME NEW w \in Coordinator, Crash(w)
      PROVE  Inv' /\ HistoryStep
  BY <1>6, FrameKeeps DEF Crash, Inv, TypeOK
<1>7. CASE Tick
  BY <1>7, TickKeeps
<1>8. QED
  BY <1>1, <1>2, <1>3, <1>4, <1>5, <1>6, <1>7 DEF Next

\* Every reachable state satisfies the inductive invariant (all transactions of
\* scheduler.ts, dynamicDag.ts and adjudication.ts, claims by any coordinator).
THEOREM Invariance == Spec => []Inv
<1>1. Init => Inv
  BY InitInv
<1>2. Inv /\ [Next]_vars => Inv'
  BY StepInv
<1>3. QED
  BY <1>1, <1>2, PTL DEF Spec

\* The database rows and the leases in memory keep their types.
THEOREM TypeCorrect == Spec => []TypeOK
<1>1. Inv => TypeOK
  BY DEF Inv
<1>2. QED
  BY <1>1, Invariance, PTL

\* However leases expire, come back late or are lost with their coordinator, a task
\* has an attempt in progress exactly while it is RUNNING, and only its newest.
THEOREM OneAttemptInProgress == Spec => []OneOpenAttempt
<1>1. Inv => OneOpenAttempt
  BY DEF Inv
<1>2. QED
  BY <1>1, Invariance, PTL

\* Scheduler.finish accepts a task at most once, and nothing follows an acceptance.
THEOREM AtMostOneAcceptance == Spec => []AcceptedOnce
<1>1. Inv => AcceptedOnce
  BY DEF Inv
<1>2. QED
  BY <1>1, Invariance, PTL

\* Tasks that run at the same time never have conflicting scopes, for any number of
\* coordinators and whatever order a refill visits its candidates in.
THEOREM NoScopeConflict == Spec => []ScopeExclusion
<1>1. Inv => ScopeExclusion
  BY DEF Inv
<1>2. QED
  BY <1>1, Invariance, PTL

\* The verdict claimMany writes at the end of a run is that of its tasks, and stays
\* so until a discriminator reopens the run.
THEOREM VerdictOfTasks == Spec => []VerdictSound
<1>1. Inv => VerdictSound
  BY DEF Inv
<1>2. QED
  BY <1>1, Invariance, PTL

\* No step rewrites the outcome of an attempt or of a task: Scheduler.current keeps
\* every stale lease from reporting over a newer one.
THEOREM FinalHistory == Spec => HistoryIsFinal
<1>1. Inv /\ [Next]_vars => [HistoryStep]_vars
  BY StepInv
<1>2. QED
  BY <1>1, Invariance, PTL DEF Spec, HistoryIsFinal

-----------------------------------------------------------------------------
(* The ledger.                                                             *)

\* How the statuses of tasks stand for decisions.
LEMMA DecidedCases ==
  ASSUME NEW v \in Status
  PROVE  /\ Decided(v) = "absent" <=> v = "ABSENT"
         /\ Decided(v) = "open" <=> v \in {"READY", "RUNNING"}
         /\ Decided(v) = "accepted" <=> v = "PASS"
         /\ Decided(v) = "rejected" <=> v \in {"FAIL", "BLOCKED"}
         /\ Decided(v) \in {"absent", "open", "accepted", "rejected"}
  BY DEF Decided, Status

\* A step after which every task stands for the decision it stood for is a stutter.
LEMMA NothingDecided ==
  ASSUME status \in [Task -> Status], status' \in [Task -> Status], UNCHANGED runStatus,
         \A t \in Task : Decided(status'[t]) = Decided(status[t])
  PROVE  UNCHANGED Ledger!vars
  BY DEF Ledger!vars

\* A step that makes absent tasks of B claimable is an admission.
LEMMA Admits ==
  ASSUME status \in [Task -> Status], NEW B \in SUBSET Task, B # {},
         runStatus' = "RUNNING",
         \A t \in B : status[t] = "ABSENT" /\ status'[t] = "READY",
         \A t \in Task \ B : Decided(status'[t]) = Decided(status[t])
  PROVE  Ledger!Next
<1>1. Decided("ABSENT") = "absent" /\ Decided("READY") = "open"
  BY DEF Decided
<1>2. Ledger!Admit(B)
  BY <1>1 DEF Ledger!Admit
<1>3. QED
  BY <1>2 DEF Ledger!Next

LEMMA FinishAccepts ==
  ASSUME Inv, NEW l \in held, Finish(l)
  PROVE  Ledger!Next
<1>1. Current(l) /\ TypeOK /\ VerdictSound /\ InputsAccepted
  BY DEF Inv, Finish
<1>2. runStatus = "RUNNING" /\ l.task \in Task /\ status[l.task] = "RUNNING"
  BY <1>1, CurrentInOpenRun
<1>3. status \in [Task -> Status] /\ UNCHANGED runStatus
      /\ status' = [status EXCEPT ![l.task] = "PASS"]
  BY <1>1 DEF Finish, TypeOK
<1>4. \A d \in Dep[l.task] : d \in Task /\ status[d] = "PASS"
  BY <1>1, <1>2, GraphAssumption DEF InputsAccepted
<1>5. Decided("RUNNING") = "open" /\ Decided("PASS") = "accepted"
  BY DEF Decided
<1>6. Ledger!Accept(l.task)
  BY <1>2, <1>3, <1>4, <1>5 DEF Ledger!Accept
<1>7. QED
  BY <1>2, <1>6 DEF Ledger!Next

\* A step that only fails or blocks open tasks, and may close the run, settles them.
LEMMA Settles ==
  ASSUME status \in [Task -> Status], status' \in [Task -> Status], runStatus = "RUNNING",
         \A t \in Task :
           \/ Decided(status'[t]) = Decided(status[t])
           \/ status[t] \in {"READY", "RUNNING"} /\ status'[t] \in {"FAIL", "BLOCKED"},
         \/ UNCHANGED runStatus
         \/ /\ \A t \in Task : status'[t] \notin {"READY", "RUNNING"}
            /\ runStatus' = IF \E t \in Task : status'[t] \in {"FAIL", "BLOCKED"}
                            THEN "FAIL" ELSE "PASS"
  PROVE  Ledger!Next
<1> DEFINE S == {t \in Task : status[t] \in {"READY", "RUNNING"} /\ status'[t] \in {"FAIL", "BLOCKED"}}
<1>1. \A t \in Task :
        /\ Decided(status'[t]) = IF t \in S THEN "rejected" ELSE Decided(status[t])
        /\ t \in S => Decided(status[t]) = "open"
        /\ Decided(status'[t]) = "open" <=> status'[t] \in {"READY", "RUNNING"}
        /\ Decided(status'[t]) = "rejected" <=> status'[t] \in {"FAIL", "BLOCKED"}
  BY DecidedCases
<1> HIDE DEF S
<1>2. Ledger!Settle(S)
  BY <1>1 DEF Ledger!Settle, S
<1>3. QED
  BY <1>2 DEF Ledger!Next, S

LEMMA FailSettles ==
  ASSUME Inv, NEW l \in held, NEW print \in Fingerprint, NEW retryable \in BOOLEAN,
         Fail(l, print, retryable)
  PROVE  Ledger!Next
<1>1. Current(l) /\ TypeOK /\ VerdictSound
  BY DEF Inv, Fail
<1>2. runStatus = "RUNNING" /\ l.task \in Task /\ status[l.task] = "RUNNING"
  BY <1>1, CurrentInOpenRun
<1>3. /\ status' \in [Task -> Status] /\ status \in [Task -> Status]
      /\ status'[l.task] \in {"READY", "FAIL"}
      /\ \A t \in Task \ {l.task} :
           status'[t] = status[t] \/ (status[t] = "READY" /\ status'[t] = "BLOCKED")
  BY <1>1, <1>2, FailEffect DEF TypeOK
<1>4. UNCHANGED runStatus
  BY DEF Fail
<1>5. Decided("RUNNING") = Decided("READY")
  BY DEF Decided
<1>6. QED
  BY <1>2, <1>3, <1>4, <1>5, Settles

LEMMA ClaimSettles ==
  ASSUME Inv, NEW w \in Coordinator, ClaimMany(w)
  PROVE  Ledger!Next
<1>1. PICK st \in [Task -> Status], S \in SUBSET Task :
           /\ \A t \in Expired : st[t] \in {"READY", "FAIL", "BLOCKED"}
           /\ \A t \in Task \ Expired :
                st[t] = status[t] \/ (status[t] = "READY" /\ st[t] = "BLOCKED")
           /\ \A t \in S : st[t] = "READY"
           /\ Grant(w, st, S)
           /\ \/ UNCHANGED runStatus
              \/ /\ S = {} /\ ~Open(st)
                 /\ runStatus' = IF \E t \in Task : st[t] \in {"FAIL", "BLOCKED"}
                                 THEN "FAIL" ELSE "PASS"
  BY ClaimEffect
<1>2. runStatus = "RUNNING" /\ status \in [Task -> Status]
  BY DEF ClaimMany, Inv, TypeOK
<1>3. \A t \in Task : status'[t] = IF t \in S THEN "RUNNING" ELSE st[t]
  BY <1>1 DEF Grant
<1>4. status' \in [Task -> Status]
  BY <1>1 DEF Grant, Status
<1>5. Decided("RUNNING") = Decided("READY")
  BY DEF Decided
<1>6. \A t \in Task :
        \/ Decided(status'[t]) = Decided(status[t])
        \/ status[t] \in {"READY", "RUNNING"} /\ status'[t] \in {"FAIL", "BLOCKED"}
  <2>1. \A t \in Expired : t \in Task /\ status[t] = "RUNNING"
    BY DEF Expired
  <2>2. QED
    BY <1>1, <1>3, <1>5, <2>1
<1>7. \/ UNCHANGED runStatus
      \/ /\ \A t \in Task : status'[t] \notin {"READY", "RUNNING"}
         /\ runStatus' = IF \E t \in Task : status'[t] \in {"FAIL", "BLOCKED"}
                         THEN "FAIL" ELSE "PASS"
  BY <1>1, <1>3 DEF Open
<1>8. QED
  BY <1>2, <1>4, <1>6, <1>7, Settles

LEMMA GrowAdmits ==
  ASSUME Inv, Grow
  PROVE  Ledger!Next \/ UNCHANGED Ledger!vars
<1>1. status \in [Task -> Status] /\ held \subseteq Lease
  BY DEF Inv, TypeOK
<1>2. Decided("RUNNING") = Decided("READY") /\ "READY" \in Status
  BY DEF Decided, Status
<1>3. ASSUME NEW l \in held, NEW yields \in YieldChoice, NEW B \in Batch[l.task],
             Spawn(l, B, yields)
      PROVE  Ledger!Next
  <2>1. /\ l.task \in Task /\ status[l.task] = "RUNNING" /\ B # {} /\ B \cap Present = {}
        /\ runStatus' = "RUNNING"
    BY <1>1, <1>3 DEF Spawn, Current, Lease, Admissible
  <2>2. B \in SUBSET Task /\ \A t \in B : status[t] = "ABSENT"
    BY <2>1, GraphAssumption DEF Present
  <2>3. \A t \in Task : status'[t] = IF t \in B THEN "READY"
                                     ELSE IF t = l.task THEN status'[t] ELSE status[t]
    BY <1>3 DEF Spawn
  <2>4. status'[l.task] \in {"READY", "RUNNING"}
    BY <1>3, <2>1 DEF Spawn
  <2>5. QED
    BY <1>1, <1>2, <2>1, <2>2, <2>3, <2>4, Admits
<1>4. ASSUME NEW l \in held, NEW r \in requests, Respawn(l, r)
      PROVE  UNCHANGED Ledger!vars
  <2>1. l.task \in Task /\ status[l.task] = "RUNNING" /\ UNCHANGED runStatus
    BY <1>1, <1>4 DEF Respawn, Current, Lease
  <2>2. status' = [status EXCEPT ![l.task] = "READY"]
    BY <1>4 DEF Respawn
  <2>3. QED
    BY <1>1, <1>2, <2>1, <2>2, NothingDecided
<1>5. ASSUME NEW p \in Present, NEW B \in Batch[p], Expand(p, B)
      PROVE  Ledger!Next
  <2>1. /\ p \in Task /\ B # {} /\ B \cap Present = {} /\ runStatus' = "RUNNING"
        /\ status' = [t \in Task |-> IF t \in B THEN "READY" ELSE status[t]]
    BY <1>5 DEF Expand, Present, Admissible
  <2>2. B \in SUBSET Task /\ \A t \in B : status[t] = "ABSENT"
    BY <2>1, GraphAssumption DEF Present
  <2>3. QED
    BY <1>1, <2>1, <2>2, Admits
<1>6. ASSUME NEW p \in Present, NEW d \in Adjudicator, Adjudicate(p, d)
      PROVE  Ledger!Next
  <2>1. /\ d \in Task /\ status[d] = "ABSENT" /\ runStatus' = "RUNNING"
        /\ status' = [status EXCEPT ![d] = "READY"]
    BY <1>6, GraphAssumption DEF Adjudicate, Present
  <2>2. {d} \in SUBSET Task /\ {d} # {}
    BY <2>1
  <2>3. QED
    BY <1>1, <2>1, <2>2, Admits
<1>7. QED
  BY <1>3, <1>4, <1>5, <1>6 DEF Grow

\* The database implements the ledger: no interleaving of claims, results, expiries,
\* deferrals, crashes and growth decides a task twice, accepts one on inputs that are
\* not accepted, or closes a run over open work or with another verdict.
THEOREM Refinement == Spec => ImplementsLedger
<1>1. Init => Ledger!Init
  <2> SUFFICES ASSUME Init PROVE Ledger!Init
    OBVIOUS
  <2>1. Decided("READY") = "open" /\ Decided("ABSENT") = "absent"
    BY DEF Decided
  <2>2. [t \in Task |-> Decided(status[t])]
          = [t \in Task |-> IF t \in Root THEN "open" ELSE "absent"]
    BY <2>1 DEF Init
  <2>3. QED
    BY <2>2 DEF Init, Ledger!Init
<1>2. Inv /\ [Next]_vars => [Ledger!Next]_(Ledger!vars)
  <2> SUFFICES ASSUME Inv, [Next]_vars
               PROVE  Ledger!Next \/ UNCHANGED Ledger!vars
    OBVIOUS
  <2>1. CASE UNCHANGED vars
    BY <2>1 DEF vars, Ledger!vars
  <2>2. ASSUME NEW w \in Coordinator, ClaimMany(w)
        PROVE  Ledger!Next
    BY <2>2, ClaimSettles
  <2>3. ASSUME NEW l \in held, Settle(l)
        PROVE  Ledger!Next \/ UNCHANGED Ledger!vars
    <3>1. CASE DropStale(l)
      BY <3>1 DEF DropStale, Ledger!vars
    <3>2. CASE Finish(l)
      BY <3>2, FinishAccepts
    <3>3. CASE \E print \in Fingerprint, retryable \in BOOLEAN : Fail(l, print, retryable)
      BY <3>3, FailSettles
    <3>4. ASSUME NEW wait \in 0..MaxWait, Defer(l, wait)
          PROVE  UNCHANGED Ledger!vars
      <4>1. /\ l.task \in Task /\ status[l.task] = "RUNNING" /\ UNCHANGED runStatus
            /\ status' = [status EXCEPT ![l.task] = "READY"]
            /\ status \in [Task -> Status] /\ "READY" \in Status
        BY <3>4 DEF Defer, Current, Lease, Inv, TypeOK, Status
      <4>2. Decided("RUNNING") = Decided("READY")
        BY DEF Decided
      <4>3. QED
        BY <4>1, <4>2, NothingDecided
    <3>5. QED
      BY <2>3, <3>1, <3>2, <3>3, <3>4 DEF Settle
  <2>4. CASE Grow
    BY <2>4, GrowAdmits
  <2>5. ASSUME NEW n \in 1..Parallelism, SetParallelism(n)
        PROVE  UNCHANGED Ledger!vars
    BY <2>5 DEF SetParallelism, Ledger!vars
  <2>6. ASSUME NEW w \in Coordinator, Crash(w)
        PROVE  UNCHANGED Ledger!vars
    BY <2>6 DEF Crash, Ledger!vars
  <2>7. CASE Tick
    BY <2>7 DEF Tick, Ledger!vars
  <2>8. QED
    BY <2>1, <2>2, <2>3, <2>4, <2>5, <2>6, <2>7 DEF Next
<1>3. QED
  BY <1>1, <1>2, Invariance, PTL DEF Spec, ImplementsLedger, Ledger!Spec

-----------------------------------------------------------------------------
(* The graph as it grows: what every kind of growth adds, and what every   *)
(* other step leaves alone.                                                *)

\* The tasks that some rows of the graph name are in the graph.
GraphClosed ==
  /\ \A t \in Present : Dep[t] \subseteq Present
  /\ \A r \in requests : r.parent \in Present /\ r.children \subseteq Present

\* What spawnTasks, the workflow policy and adjudication have in common: B is new
\* and hangs below p, and the index is counted again.
Grows(p, B) ==
  /\ p \in Present /\ B \in SUBSET Task /\ B \cap Present = {} /\ B # {}
  /\ \E d, by : requests' = requests \cup {[parent |-> p, children |-> B, depth |-> d, by |-> by]}
  /\ remaining' = Counted(requests', [t \in Task |-> IF t \in B THEN "READY" ELSE status[t]])
  /\ \A t \in B : status'[t] = "READY"
  /\ \A t \in Task \ B : \/ status'[t] = status[t]
                         \/ t = p /\ status[t] = "RUNNING" /\ status'[t] = "READY"

\* A batch of children inherits the dependencies of the parent and adds some among
\* themselves only.  The parent is open, and parked where every spawn yields.
Delegated(p, B) ==
  /\ \A c \in B : Dep[p] \subseteq Dep[c] /\ Dep[c] \ Dep[p] \subseteq B
  /\ ~Cyclic(Present \cup B, Dep)
  /\ status[p] \in {"READY", "RUNNING"}
  /\ YieldChoice \subseteq {TRUE} => status'[p] = "READY"

\* A discriminator depends on tasks of the graph and closes no circle.
Hung(p, B) ==
  \E j \in Adjudicator : B = {j} /\ Dep[j] \subseteq Present /\ Untangled(p, j)

LEMMA GrowEffect ==
  ASSUME Inv, Grow
  PROVE  \/ \E l \in held, r \in requests : Respawn(l, r)
         \/ \E p \in Present, B \in SUBSET Task : Grows(p, B) /\ (Delegated(p, B) \/ Hung(p, B))
<1>1. status \in [Task -> Status] /\ held \subseteq Lease
  BY DEF Inv, TypeOK
<1>2. ASSUME NEW l \in held, NEW yields \in YieldChoice, NEW B \in Batch[l.task],
             Spawn(l, B, yields)
      PROVE  \E p \in Present, C \in SUBSET Task : Grows(p, C) /\ Delegated(p, C)
  <2>1. l.task \in Task /\ status[l.task] = "RUNNING" /\ l.task \in Present
    BY <1>1, <1>2 DEF Spawn, Current, Lease, Present
  <2>2. B \in SUBSET Task /\ B \cap Present = {} /\ B # {}
    BY <1>2, <2>1, GraphAssumption DEF Spawn, Admissible
  <2>3. \A t \in B : status'[t] = "READY"
    BY <1>2, <2>2 DEF Spawn
  <2>4. \A t \in Task \ B : \/ status'[t] = status[t]
                            \/ t = l.task /\ status[t] = "RUNNING" /\ status'[t] = "READY"
    BY <1>2, <2>1 DEF Spawn
  <2>5. Insert(l.task, B, "worker", status)
    BY <1>2 DEF Spawn
  <2>6. Grows(l.task, B)
    BY <2>1, <2>2, <2>3, <2>4, <2>5 DEF Insert, Grows
  <2>7. Delegated(l.task, B)
    <3>1. YieldChoice \subseteq {TRUE} => status'[l.task] = "READY"
      BY <1>2, <2>1 DEF Spawn
    <3>2. QED
      BY <1>2, <2>1, <3>1 DEF Spawn, Admissible, Delegated
  <2>8. QED
    BY <2>1, <2>2, <2>6, <2>7
<1>3. ASSUME NEW p \in Present, NEW B \in Batch[p], Expand(p, B)
      PROVE  \E C \in SUBSET Task : Grows(p, C) /\ Delegated(p, C)
  <2>1. p \in Task
    BY DEF Present
  <2>2. B \in SUBSET Task /\ B \cap Present = {} /\ B # {}
    BY <1>3, <2>1, GraphAssumption DEF Expand, Admissible
  <2>3. status' = [t \in Task |-> IF t \in B THEN "READY" ELSE status[t]]
        /\ Insert(p, B, "policy", status)
    BY <1>3 DEF Expand
  <2>4. Grows(p, B)
    BY <2>2, <2>3 DEF Insert, Grows
  <2>5. Delegated(p, B)
    <3>1. status[p] = "READY" /\ status'[p] = "READY"
      BY <1>3, <2>1, <2>3 DEF Expand
    <3>2. QED
      BY <1>3, <3>1 DEF Expand, Admissible, Delegated
  <2>6. QED
    BY <2>2, <2>4, <2>5
<1>4. ASSUME NEW p \in Present, NEW j \in Adjudicator, Adjudicate(p, j)
      PROVE  \E C \in SUBSET Task : Grows(p, C) /\ Hung(p, C)
  <2>1. j \in Task /\ j \notin Present
    BY <1>4, GraphAssumption DEF Adjudicate
  <2>2. status' = [status EXCEPT ![j] = "READY"] /\ Insert(p, {j}, "host", status)
    BY <1>4 DEF Adjudicate
  <2>3. Grows(p, {j})
    BY <1>1, <2>1, <2>2 DEF Insert, Grows
  <2>4. Hung(p, {j})
    BY <1>4 DEF Adjudicate, Hung
  <2>5. QED
    BY <2>1, <2>3, <2>4
<1>5. QED
  BY <1>2, <1>3, <1>4 DEF Grow

\* What t waits for after p asked for the children B.
LEMMA PrereqGrown ==
  ASSUME NEW p, NEW B, NEW d, NEW by,
         requests' = requests \cup {[parent |-> p, children |-> B, depth |-> d, by |-> by]},
         NEW t
  PROVE  Prereq(requests', t) = Prereq(requests, t) \cup (IF t = p THEN B ELSE {})
<1> DEFINE new == [parent |-> p, children |-> B, depth |-> d, by |-> by]
<1>1. new.parent = p /\ new.children = B
  OBVIOUS
<1>2. requests' = requests \cup {new}
  OBVIOUS
<1> HIDE DEF new
<1>3. Spawned(requests', t) = Spawned(requests, t) \cup (IF t = p THEN B ELSE {})
  <2>1. ASSUME NEW c \in Spawned(requests', t)
        PROVE  c \in Spawned(requests, t) \cup (IF t = p THEN B ELSE {})
    BY <1>1, <1>2, <2>1 DEF Spawned
  <2>2. ASSUME NEW c \in Spawned(requests, t) \cup (IF t = p THEN B ELSE {})
        PROVE  c \in Spawned(requests', t)
    BY <1>1, <1>2, <2>2 DEF Spawned
  <2>3. QED
    BY <2>1, <2>2
<1>4. QED
  BY <1>3 DEF Prereq

\* What a task of the graph waits for is in the graph; nothing was asked for by a
\* task that is not.
LEMMA PrereqPresent ==
  ASSUME GraphClosed
  PROVE  /\ \A t \in Present : Prereq(requests, t) \subseteq Present
         /\ \A t \in Task \ Present : Spawned(requests, t) = {}
  BY DEF GraphClosed, Prereq, Spawned

LEMMA PrereqFinite ==
  ASSUME requests \subseteq Request, NEW t \in Task, NEW T \in SUBSET Prereq(requests, t)
  PROVE  T \subseteq Task /\ IsFiniteSet(T)
<1>1. Prereq(requests, t) \subseteq Task
  BY GraphAssumption DEF Prereq, Spawned, Request
<1>2. QED
  BY <1>1, GraphAssumption, FS_Subset

\* The other things a step does to the graph and to the statuses of its tasks.
Accepts(t) ==
  /\ status[t] = "RUNNING" /\ status' = [status EXCEPT ![t] = "PASS"]
  /\ remaining' = Released(t) /\ UNCHANGED requests

Fails(t) ==
  /\ status[t] = "RUNNING" /\ UNCHANGED <<requests, remaining>>
  /\ LET failed == [status EXCEPT ![t] = "FAIL"]
     IN  status' = Blocking(failed, Doomed(requests, failed, {t}))

Reopens(t) ==
  /\ status[t] = "RUNNING" /\ UNCHANGED <<requests, remaining>>
  /\ status' = [status EXCEPT ![t] = "READY"]

Refilled(after, S) ==
  LET st == StatusAfterExpiry(after)
  IN  /\ UNCHANGED requests
      /\ status' = [t \in Task |-> IF t \in S THEN "RUNNING" ELSE st[t]]
      /\ \A t \in S : st[t] = "READY" /\ AuthoritativeReady(st, t)
      /\ \/ S = {}
         \/ /\ Together(S, Running(st))
            /\ Cardinality(S) <= policy - Cardinality(Running(st))
      /\ \A t \in Task : Starts(t) => t \in S
      /\ remaining' \in {remaining, Counted(requests, st)}

LEMMA ClaimRefills ==
  ASSUME Inv, IsFiniteSet(held), NEW w \in Coordinator, ClaimMany(w)
  PROVE  \E after \in SUBSET (Expired \ Spent), S \in SUBSET Task : Refilled(after, S)
<1>1. PICK after \in SUBSET (Expired \ Spent) :
        LET st == StatusAfterExpiry(after)
            capacity == Capacity(w, st)
        IN \/ Grant(w, st, {}) /\ UNCHANGED remaining
           \/ \E S \in Refills(st, capacity) :
                /\ Grant(w, st, S)
                /\ remaining' = IF IndexSuspect(st, capacity, S)
                                THEN Counted(requests, st) ELSE remaining
  BY DEF ClaimMany
<1> DEFINE st == StatusAfterExpiry(after)
<1>2. UNCHANGED requests
  BY DEF ClaimMany
<1>3. Capacity(w, st) \in Int /\ Capacity(w, st) <= policy - Cardinality(Running(st))
  <2> DEFINE slots == Parallelism - Cardinality({l \in held : l.owner = w})
             shared == policy - Cardinality(Running(st))
  <2>1. Cardinality(Running(st)) \in Nat /\ policy \in Int
    <3>1. Running(st) \in SUBSET Task
      BY DEF Running
    <3>2. QED
      BY <3>1, GraphAssumption, FS_Subset, FS_CardinalityType DEF Inv, TypeOK
  <2>2. Capacity(w, st) = IF slots < shared THEN slots ELSE shared
    BY DEF Capacity
  <2>3. Cardinality({l \in held : l.owner = w}) \in Nat
    BY FS_Subset, FS_CardinalityType
  <2>4. slots \in Int /\ shared \in Int
    BY <2>1, <2>3, RecipeAssumption
  <2> HIDE DEF slots
  <2>5. Capacity(w, st) \in Int /\ Capacity(w, st) <= policy - Cardinality(Running(st))
    BY <2>1, <2>2, <2>4
  <2>6. QED
    BY <2>5
<1>7. ASSUME NEW S \in SUBSET Task, Grant(w, st, S), NEW t \in Task, Starts(t)
      PROVE  t \in S
  <2>1. st \in [Task -> Status] /\ TypeOK /\ OneOpenAttempt
    BY ReclaimedStatus DEF Inv, TypeOK
  <2> HIDE DEF st
  <2>2. Len(attempts'[t]) = IF t \in S THEN Fence(t) + 1 ELSE Fence(t)
    BY <1>7, <2>1, GrantedRows
  <2>3. Fence(t) \in Nat
    BY <2>1 DEF TypeOK, Fence
  <2>4. QED
    BY <1>7, <2>2, <2>3 DEF Starts, Fence
<1> HIDE DEF st
<1>4. CASE Grant(w, st, {}) /\ UNCHANGED remaining
  <2>1. /\ {} \in SUBSET Task /\ status' = [t \in Task |-> IF t \in {} THEN "RUNNING" ELSE st[t]]
        /\ \A t \in Task : Starts(t) => t \in {}
    <3>1. {} \in SUBSET Task /\ Grant(w, st, {})
      BY <1>4
    <3>2. \A t \in Task : Starts(t) => t \in {}
      BY <3>1, <1>7
    <3>3. QED
      BY <3>1, <3>2 DEF Grant
  <2>2. Refilled(after, {})
    BY <1>2, <1>4, <2>1 DEF Refilled, st
  <2>3. QED
    BY <2>2
<1>5. ASSUME NEW S \in Refills(st, Capacity(w, st)), Grant(w, st, S),
             remaining' \in {remaining, Counted(requests, st)}
      PROVE  S \in SUBSET Task /\ Refilled(after, S)
  <2>1. /\ S \in SUBSET Task
        /\ \A t \in S : st[t] = "READY" /\ AuthoritativeReady(st, t)
        /\ S = {} \/ Together(S, Running(st))
        /\ S = {} \/ Cardinality(S) <= Capacity(w, st)
    BY <1>5 DEF Refills, Candidates
  <2>2. S = {} \/ Cardinality(S) <= policy - Cardinality(Running(st))
    <3>1. SUFFICES ASSUME S # {} PROVE Cardinality(S) <= policy - Cardinality(Running(st))
      OBVIOUS
    <3>2. Cardinality(S) \in Nat /\ Cardinality(Running(st)) \in Nat /\ policy \in Int
      <4>1. Running(st) \in SUBSET Task
        BY DEF Running
      <4>2. QED
        BY <2>1, <4>1, GraphAssumption, FS_Subset, FS_CardinalityType DEF Inv, TypeOK
    <3>3. QED
      BY <1>3, <2>1, <3>1, <3>2
  <2>3. status' = [t \in Task |-> IF t \in S THEN "RUNNING" ELSE st[t]]
    BY <1>5 DEF Grant
  <2>4. Refilled(after, S)
    BY <1>2, <1>5, <1>7, <2>1, <2>2, <2>3 DEF Refilled, st
  <2>5. QED
    BY <2>1, <2>4
<1>6. QED
  BY <1>1, <1>4, <1>5 DEF st

\* Coordinators remember finitely many leases.
LEMMA HeldFinite ==
  ASSUME IsFiniteSet(held), [Next]_vars
  PROVE  IsFiniteSet(held')
<1>1. CASE held' \subseteq held
  BY <1>1, FS_Subset
<1>2. ASSUME NEW w \in Coordinator, ClaimMany(w)
      PROVE  IsFiniteSet(held')
  <2>1. ASSUME NEW st, NEW S \in SUBSET Task, Grant(w, st, S)
        PROVE  IsFiniteSet(held')
    <3> DEFINE lease == [t \in S |-> [task |-> t, owner |-> w, fence |-> Fence(t) + 1]]
               new == {[task |-> t, owner |-> w, fence |-> Fence(t) + 1] : t \in S}
    <3>1. lease \in Surjection(S, new)
      BY DEF Surjection
    <3>2. IsFiniteSet(S)
      BY GraphAssumption, FS_Subset
    <3> HIDE DEF lease
    <3>3. IsFiniteSet(new)
      BY <3>1, <3>2, FS_Surjection
    <3>4. held' = held \cup new
      BY <2>1 DEF Grant
    <3> HIDE DEF new
    <3>5. QED
      BY <3>3, <3>4, FS_Union
  <2>2. PICK after \in SUBSET (Expired \ Spent) :
          LET st == StatusAfterExpiry(after)
          IN  Grant(w, st, {}) \/ \E S \in Refills(st, Capacity(w, st)) : Grant(w, st, S)
    BY <1>2 DEF ClaimMany
  <2>3. \A st : \A S \in Refills(st, Capacity(w, st)) : S \in SUBSET Task
    BY DEF Refills, Candidates
  <2>4. QED
    BY <2>1, <2>2, <2>3
<1>3. ASSUME NEW l \in held, Settle(l)
      PROVE  held' \subseteq held
  BY <1>3 DEF Settle, DropStale, Finish, Fail, Defer, Park, Forget
<1>4. CASE Grow
  BY <1>4, <1>1 DEF Grow, Spawn, Respawn, Expand, Adjudicate, Park, Forget
<1>5. QED
  BY <1>1, <1>2, <1>3, <1>4 DEF Next, vars, SetParallelism, Crash, Tick

LEMMA StepKinds ==
  ASSUME Inv, IsFiniteSet(held), [Next]_vars
  PROVE  \/ \E p \in Present, B \in SUBSET Task : Grows(p, B) /\ (Delegated(p, B) \/ Hung(p, B))
         \/ \E after \in SUBSET (Expired \ Spent), S \in SUBSET Task : Refilled(after, S)
         \/ \E t \in Task : Accepts(t) \/ Fails(t) \/ Reopens(t)
         \/ UNCHANGED <<status, requests, remaining>>
<1>1. ASSUME NEW l \in held, Current(l)
      PROVE  l.task \in Task /\ status[l.task] = "RUNNING"
  BY <1>1 DEF Inv, TypeOK, Lease, Current
<1>2. ASSUME NEW l \in held, Settle(l)
      PROVE  \/ \E t \in Task : Accepts(t) \/ Fails(t) \/ Reopens(t)
             \/ UNCHANGED <<status, requests, remaining>>
  <2>1. CASE DropStale(l)
    BY <2>1 DEF DropStale
  <2>2. CASE Finish(l)
    BY <1>1, <2>2 DEF Finish, Accepts
  <2>3. ASSUME NEW print \in Fingerprint, NEW retryable \in BOOLEAN, Fail(l, print, retryable)
        PROVE  Fails(l.task) \/ Reopens(l.task)
    BY <1>1, <2>3 DEF Fail, Fails, Reopens
  <2>4. ASSUME NEW wait \in 0..MaxWait, Defer(l, wait)
        PROVE  Reopens(l.task)
    BY <1>1, <2>4 DEF Defer, Reopens
  <2>5. Current(l) \/ DropStale(l)
    BY <1>2 DEF Settle, Finish, Fail, Defer
  <2>6. QED
    BY <1>1, <1>2, <2>1, <2>2, <2>3, <2>4, <2>5 DEF Settle
<1>3. CASE Grow
  <2>1. CASE \E l \in held, r \in requests : Respawn(l, r)
    BY <1>1, <2>1 DEF Respawn, Reopens
  <2>2. CASE ~\E l \in held, r \in requests : Respawn(l, r)
    <3>1. \E p \in Present, B \in SUBSET Task : Grows(p, B) /\ (Delegated(p, B) \/ Hung(p, B))
      BY <1>3, <2>2, GrowEffect
    <3>2. QED
      BY <3>1
  <2>3. QED
    BY <2>1, <2>2
<1>4. ASSUME NEW w \in Coordinator, ClaimMany(w)
      PROVE  \E after \in SUBSET (Expired \ Spent), S \in SUBSET Task : Refilled(after, S)
  BY <1>4, ClaimRefills
<1>5. QED
  BY <1>2, <1>3, <1>4 DEF Next, vars, SetParallelism, Crash, Tick

\* A current lease names the newest attempt of its task.
LEMMA CurrentRow ==
  ASSUME Inv, NEW l \in held, Current(l)
  PROVE  l.task \in Task /\ l.fence \in DOMAIN attempts[l.task]
<1>1. l.task \in Task /\ l.fence \in Nat \ {0} /\ Len(attempts[l.task]) = l.fence
  BY DEF Inv, TypeOK, Lease, Current, Fence
<1>2. attempts[l.task] \in Seq(Attempt)
  BY <1>1 DEF Inv, TypeOK
<1>3. DOMAIN attempts[l.task] = 1..Len(attempts[l.task])
  BY <1>2
<1>4. QED
  BY <1>1, <1>3

\* The end of an attempt opens no other.
LEMMA EndStartsNothing ==
  ASSUME Inv, NEW u \in Task, NEW n \in DOMAIN attempts[u], NEW how \in AttemptStatus,
         NEW print \in Fingerprint \cup {NoFingerprint},
         attempts' = EndAttempt(u, n, how, print), NEW t \in Task
  PROVE  ~Starts(t)
<1>1. attempts \in [Task -> Seq(Attempt)] /\ Len(attempts[t]) \in Nat
  BY DEF Inv, TypeOK
<1>2. /\ EndAttempt(u, n, how, print) \in [Task -> Seq(Attempt)]
      /\ \A v \in Task : Len(EndAttempt(u, n, how, print)[v]) = Len(attempts[v])
      /\ \A v \in Task : \A i \in DOMAIN attempts[v] :
           EndAttempt(u, n, how, print)[v][i] =
             IF v = u /\ i = n THEN [status |-> how, fp |-> print] ELSE attempts[v][i]
  BY <1>1, EndAttemptType
<1>3. QED
  BY <1>1, <1>2 DEF Starts

\* A task is started by a refill, and by nothing else.
LEMMA StartsAreRefills ==
  ASSUME Inv, IsFiniteSet(held), [Next]_vars, NEW t \in Task, Starts(t)
  PROVE  \E after \in SUBSET (Expired \ Spent), S \in SUBSET Task :
           Refilled(after, S) /\ t \in S
<1>1. attempts \in [Task -> Seq(Attempt)] /\ Len(attempts[t]) \in Nat
  BY DEF Inv, TypeOK
<1>2. CASE UNCHANGED attempts
  BY <1>1, <1>2 DEF Starts
<1>3. ASSUME NEW l \in held, Current(l), NEW how \in AttemptStatus,
             NEW print \in Fingerprint \cup {NoFingerprint},
             attempts' = EndAttempt(l.task, l.fence, how, print)
      PROVE  FALSE
  BY <1>3, CurrentRow, EndStartsNothing
<1>4. ASSUME NEW l \in held, Current(l)
      PROVE  attempts[l.task][l.fence].fp \in Fingerprint \cup {NoFingerprint}
  <2>1. l.task \in Task /\ l.fence \in DOMAIN attempts[l.task]
    BY <1>1, <1>4, CurrentRow
  <2>2. attempts[l.task][l.fence] \in Attempt
    BY <1>1, <2>1
  <2>3. QED
    BY <2>2 DEF Attempt
<1>5. ASSUME NEW l \in held, NEW wait, Current(l), Park(l, wait)
      PROVE  FALSE
  BY <1>3, <1>4, <1>5 DEF Park, AttemptStatus
<1>6. ASSUME NEW l \in held, Settle(l)
      PROVE  FALSE
  <2>1. CASE DropStale(l)
    BY <1>2, <1>1, <2>1 DEF DropStale, Starts
  <2>2. CASE Finish(l)
    BY <1>3, <1>4, <2>2 DEF Finish, AttemptStatus
  <2>3. CASE \E print \in Fingerprint, retryable \in BOOLEAN : Fail(l, print, retryable)
    BY <1>3, <2>3 DEF Fail, AttemptStatus
  <2>4. CASE \E wait \in 0..MaxWait : Defer(l, wait)
    BY <1>5, <2>4 DEF Defer
  <2>5. QED
    BY <1>6, <2>1, <2>2, <2>3, <2>4 DEF Settle
<1>7. CASE Grow
  <2>1. CASE \E l \in held, yields \in YieldChoice : \E B \in Batch[l.task] : Spawn(l, B, yields)
    BY <1>2, <1>5, <2>1 DEF Spawn
  <2>2. CASE \E l \in held, r \in requests : Respawn(l, r)
    BY <1>5, <2>2 DEF Respawn
  <2>3. CASE ~(\E l \in held, yields \in YieldChoice : \E B \in Batch[l.task] : Spawn(l, B, yields))
             /\ ~\E l \in held, r \in requests : Respawn(l, r)
    BY <1>2, <1>7, <2>3 DEF Grow, Expand, Adjudicate
  <2>4. QED
    BY <2>1, <2>2, <2>3
<1>8. ASSUME NEW w \in Coordinator, ClaimMany(w)
      PROVE  \E after \in SUBSET (Expired \ Spent), S \in SUBSET Task :
               Refilled(after, S) /\ t \in S
  <2>1. PICK after \in SUBSET (Expired \ Spent), S \in SUBSET Task : Refilled(after, S)
    BY <1>8, ClaimRefills
  <2>2. t \in S
    BY <2>1 DEF Refilled
  <2>3. QED
    BY <2>1, <2>2
<1>9. QED
  BY <1>2, <1>6, <1>7, <1>8 DEF Next, vars, SetParallelism, Crash, Tick

-----------------------------------------------------------------------------
(* What becomes of statuses.                                               *)

\* Growth adds B to the graph and accepts, fails and blocks nobody.
LEMMA GrownStatus ==
  ASSUME Inv, NEW p \in Present, NEW B \in SUBSET Task, Grows(p, B)
  PROVE  /\ Present' = Present \cup B
         /\ \A t \in B : status[t] = "ABSENT"
         /\ \A t \in Task : \A v \in {"PASS", "FAIL", "BLOCKED"} : status'[t] = v <=> status[t] = v
         /\ Running(status') \subseteq Running(status)
<1>1. \A t \in B : status[t] = "ABSENT"
  BY DEF Grows, Present
<1>2. QED
  BY <1>1 DEF Grows, Present, Running

\* A refill accepts nobody, before its claims and after them.
LEMMA RefilledStatus ==
  ASSUME Inv, NEW after \in SUBSET (Expired \ Spent), NEW S \in SUBSET Task, Refilled(after, S)
  PROVE  LET st == StatusAfterExpiry(after)
         IN  /\ st \in [Task -> Status]
             /\ \A t \in Task :
                  /\ st[t] = "PASS" <=> status[t] = "PASS"
                  /\ status'[t] = "PASS" <=> status[t] = "PASS"
                  /\ st[t] = "ABSENT" <=> status[t] = "ABSENT"
                  /\ status'[t] = "ABSENT" <=> status[t] = "ABSENT"
                  /\ t \notin S => status'[t] = st[t]
                  /\ st[t] = "RUNNING" => status[t] = "RUNNING"
             /\ Present' = Present
<1> DEFINE st == StatusAfterExpiry(after)
<1>1. status \in [Task -> Status]
  BY DEF Inv, TypeOK
<1>2. /\ st \in [Task -> Status]
      /\ \A t \in Expired : st[t] \in {"READY", "FAIL", "BLOCKED"}
      /\ \A t \in Task \ Expired :
           st[t] = status[t] \/ (status[t] = "READY" /\ st[t] = "BLOCKED")
  BY <1>1, ReclaimedStatus
<1>3. \A t \in Expired : t \in Task /\ status[t] = "RUNNING"
  BY DEF Expired
<1>4. /\ status' = [t \in Task |-> IF t \in S THEN "RUNNING" ELSE st[t]]
      /\ \A t \in S : st[t] = "READY"
  BY DEF Refilled
<1> HIDE DEF st
<1>5. \A t \in Task :
        /\ st[t] = "PASS" <=> status[t] = "PASS"
        /\ status'[t] = "PASS" <=> status[t] = "PASS"
        /\ st[t] = "ABSENT" <=> status[t] = "ABSENT"
        /\ status'[t] = "ABSENT" <=> status[t] = "ABSENT"
        /\ t \notin S => status'[t] = st[t]
        /\ st[t] = "RUNNING" => status[t] = "RUNNING"
  BY <1>2, <1>3, <1>4
<1>6. Present' = Present
  BY <1>5 DEF Present
<1>7. QED
  BY <1>2, <1>5, <1>6 DEF st

\* The failures of a task, with those it blocks, are exactly that.
LEMMA FailedStatus ==
  ASSUME Inv, NEW t \in Task, Fails(t)
  PROVE  LET failed == [status EXCEPT ![t] = "FAIL"]
             doomed == Doomed(requests, failed, {t})
         IN  /\ status' = [u \in Task |-> IF u \in doomed THEN "BLOCKED" ELSE failed[u]]
             /\ \A u \in doomed : u # t /\ status[u] = "READY"
             /\ Present' = Present
             /\ \A u \in Task : status'[u] = "PASS" <=> status[u] = "PASS"
             /\ Running(status') \subseteq Running(status)
<1> DEFINE failed == [status EXCEPT ![t] = "FAIL"]
           doomed == Doomed(requests, failed, {t})
<1>1. status \in [Task -> Status] /\ status[t] = "RUNNING"
  BY DEF Inv, TypeOK, Fails
<1>2. status' = [u \in Task |-> IF u \in doomed THEN "BLOCKED" ELSE failed[u]]
  BY DEF Fails, Blocking
<1>3. \A u \in doomed : u \in Task /\ failed[u] = "READY"
  BY DEF Doomed
<1> HIDE DEF doomed
<1>4. \A u \in doomed : u # t /\ status[u] = "READY"
  BY <1>1, <1>3
<1>5. \A u \in Task : /\ status'[u] = "PASS" <=> status[u] = "PASS"
                      /\ status'[u] = "ABSENT" <=> status[u] = "ABSENT"
                      /\ status'[u] = "RUNNING" => status[u] = "RUNNING"
  BY <1>1, <1>2, <1>4
<1>6. Present' = Present /\ Running(status') \subseteq Running(status)
  BY <1>5 DEF Present, Running
<1>7. QED
  BY <1>2, <1>4, <1>5, <1>6 DEF doomed

LEMMA ReopenedStatus ==
  ASSUME Inv, NEW t \in Task, Reopens(t)
  PROVE  /\ Present' = Present
         /\ \A u \in Task : \A v \in {"PASS", "FAIL", "BLOCKED"} : status'[u] = v <=> status[u] = v
         /\ Running(status') \subseteq Running(status)
  BY DEF Inv, TypeOK, Reopens, Present, Running

LEMMA AcceptedStatus ==
  ASSUME Inv, NEW t \in Task, Accepts(t)
  PROVE  /\ Present' = Present
         /\ \A u \in Task : status'[u] = IF u = t THEN "PASS" ELSE status[u]
         /\ Running(status') \subseteq Running(status)
  BY DEF Inv, TypeOK, Accepts, Present, Running

\* Whatever a step does, it only adds to the graph.
LEMMA GraphStaysClosed ==
  ASSUME Inv, IsFiniteSet(held), GraphClosed, [Next]_vars
  PROVE  GraphClosed'
<1>1. ASSUME NEW p \in Present, NEW B \in SUBSET Task, Grows(p, B),
             Delegated(p, B) \/ Hung(p, B)
      PROVE  GraphClosed'
  <2>1. Present' = Present \cup B
    BY <1>1, GrownStatus
  <2>2. Dep[p] \subseteq Present
    BY DEF GraphClosed
  <2>3. \A c \in B : Dep[c] \subseteq Present \cup B
    BY <1>1, <2>2 DEF Delegated, Hung
  <2>4. \A t \in Present' : Dep[t] \subseteq Present'
    BY <2>1, <2>3 DEF GraphClosed
  <2>5. \A r \in requests' : r.parent \in Present' /\ r.children \subseteq Present'
    <3>1. PICK d, by : requests' = requests \cup {[parent |-> p, children |-> B, depth |-> d, by |-> by]}
      BY <1>1 DEF Grows
    <3>2. \A r \in requests' : r \in requests \/ (r.parent = p /\ r.children = B)
      BY <3>1
    <3>3. QED
      BY <2>1, <3>2 DEF GraphClosed
  <2>6. QED
    BY <2>4, <2>5 DEF GraphClosed
<1>2. ASSUME Present' = Present, UNCHANGED requests
      PROVE  GraphClosed'
  BY <1>2 DEF GraphClosed
<1>3. ASSUME NEW after \in SUBSET (Expired \ Spent), NEW S \in SUBSET Task, Refilled(after, S)
      PROVE  GraphClosed'
  BY <1>2, <1>3, RefilledStatus DEF Refilled
<1>4. ASSUME NEW t \in Task, Accepts(t) \/ Fails(t) \/ Reopens(t)
      PROVE  GraphClosed'
  BY <1>2, <1>4, AcceptedStatus, FailedStatus, ReopenedStatus DEF Accepts, Fails, Reopens
<1>5. CASE UNCHANGED <<status, requests, remaining>>
  BY <1>2, <1>5 DEF Present
<1>6. QED
  BY <1>1, <1>3, <1>4, <1>5, StepKinds

-----------------------------------------------------------------------------
(* The index.                                                              *)

\* The prerequisites that have not passed: what the index counts.
Unpassed(rs, st, t) == {p \in Prereq(rs, t) : st[p] # "PASS"}

\* releaseDependents is right: one prerequisite fewer for those that wait for t.
LEMMA AcceptKeepsIndex ==
  ASSUME Inv, IndexExact, NEW t \in Task, Accepts(t)
  PROVE  IndexExact'
<1>1. /\ Present' = Present /\ requests' = requests /\ status[t] = "RUNNING"
      /\ \A u \in Task : status'[u] = IF u = t THEN "PASS" ELSE status[u]
  BY AcceptedStatus DEF Accepts
<1>2. requests \subseteq Request
  BY DEF Inv, TypeOK
<1> SUFFICES ASSUME NEW u \in Present
             PROVE  remaining'[u] = Cardinality(Unpassed(requests', status', u))
  BY <1>1 DEF IndexExact, Unpassed
<1>3. u \in Task /\ status[u] # "ABSENT"
  BY DEF Present
<1>4. IsFiniteSet(Unpassed(requests, status, u)) /\ Prereq(requests, u) \subseteq Task
  BY <1>2, <1>3, PrereqFinite DEF Unpassed
<1>5. remaining[u] = Cardinality(Unpassed(requests, status, u))
  BY DEF IndexExact, Unpassed
<1>6. Unpassed(requests', status', u) = Unpassed(requests, status, u) \ {t}
  BY <1>1, <1>4 DEF Unpassed
<1>7. remaining'[u] = IF t \in Prereq(requests, u) /\ remaining[u] > 0
                      THEN remaining[u] - 1 ELSE remaining[u]
  BY <1>3 DEF Accepts, Released
<1>8. t \in Prereq(requests, u) <=> t \in Unpassed(requests, status, u)
  BY <1>1 DEF Unpassed
<1>9. Cardinality(Unpassed(requests, status, u)) \in Nat
  BY <1>4, FS_CardinalityType
<1>10. Cardinality(Unpassed(requests, status, u) \ {t})
         = IF t \in Unpassed(requests, status, u) THEN remaining[u] - 1 ELSE remaining[u]
  BY <1>4, <1>5, FS_RemoveElement
<1>11. t \in Unpassed(requests, status, u) => remaining[u] > 0
  <2>1. Cardinality(Unpassed(requests, status, u)) = 0 => Unpassed(requests, status, u) = {}
    BY <1>4, FS_EmptySet
  <2>2. QED
    BY <1>5, <1>9, <2>1
<1>12. QED
  BY <1>6, <1>7, <1>8, <1>10, <1>11

\* Counting again is right if the statuses counted accept the same tasks.
LEMMA RecountKeepsIndex ==
  ASSUME NEW st, remaining' = Counted(requests', st), requests' \subseteq Request,
         \A t \in Task : st[t] = "PASS" <=> status'[t] = "PASS",
         \A t \in Task : st[t] = "ABSENT" => status'[t] = "ABSENT"
  PROVE  IndexExact'
<1> SUFFICES ASSUME NEW u \in Task, status'[u] # "ABSENT"
             PROVE  remaining'[u] = Cardinality({p \in Prereq(requests', u) : status'[p] # "PASS"})
  BY DEF IndexExact, Present
<1>1. Prereq(requests', u) \subseteq Task
  BY GraphAssumption DEF Prereq, Spawned, Request
<1>2. {p \in Prereq(requests', u) : status'[p] # "PASS"}
        = {p \in Prereq(requests', u) : st[p] # "PASS"}
  BY <1>1
<1>3. remaining'[u] = Cardinality({p \in Prereq(requests', u) : st[p] # "PASS"})
  BY DEF Counted
<1>4. QED
  BY <1>2, <1>3

LEMMA IndexStaysExact ==
  ASSUME Inv, Inv', IsFiniteSet(held), IndexExact, [Next]_vars
  PROVE  IndexExact'
<1>0. requests \subseteq Request /\ requests' \subseteq Request
  BY DEF Inv, TypeOK
<1>1. ASSUME UNCHANGED <<requests, remaining>>, Present' = Present,
             \A u \in Task : status'[u] = "PASS" <=> status[u] = "PASS"
      PROVE  IndexExact'
  <2> SUFFICES ASSUME NEW u \in Present
               PROVE  remaining[u] = Cardinality({p \in Prereq(requests, u) : status'[p] # "PASS"})
    BY <1>1 DEF IndexExact
  <2>1. Prereq(requests, u) \subseteq Task
    BY <1>0, GraphAssumption DEF Prereq, Spawned, Request, Present
  <2>2. {p \in Prereq(requests, u) : status'[p] # "PASS"}
          = {p \in Prereq(requests, u) : status[p] # "PASS"}
    BY <1>1, <2>1
  <2>3. QED
    BY <2>2 DEF IndexExact
<1>2. ASSUME NEW p \in Present, NEW B \in SUBSET Task, Grows(p, B)
      PROVE  IndexExact'
  <2> DEFINE st == [t \in Task |-> IF t \in B THEN "READY" ELSE status[t]]
  <2>1. remaining' = Counted(requests', st)
    BY <1>2 DEF Grows
  <2>2. \A t \in Task : \A v \in {"PASS", "FAIL", "BLOCKED"} : status'[t] = v <=> status[t] = v
    BY <1>2, GrownStatus
  <2>3. \A t \in Task : /\ st[t] = "PASS" <=> status'[t] = "PASS"
                        /\ st[t] = "ABSENT" => status'[t] = "ABSENT"
    BY <1>2, <2>2 DEF Grows
  <2> HIDE DEF st
  <2>4. QED
    BY <1>0, <2>1, <2>3, RecountKeepsIndex
<1>3. ASSUME NEW after \in SUBSET (Expired \ Spent), NEW S \in SUBSET Task, Refilled(after, S)
      PROVE  IndexExact'
  <2> DEFINE st == StatusAfterExpiry(after)
  <2>1. /\ Present' = Present
        /\ \A t \in Task : /\ status'[t] = "PASS" <=> status[t] = "PASS"
                           /\ st[t] = "PASS" <=> status[t] = "PASS"
                           /\ st[t] = "ABSENT" <=> status[t] = "ABSENT"
                           /\ status'[t] = "ABSENT" <=> status[t] = "ABSENT"
    BY <1>3, RefilledStatus
  <2>2. requests' = requests /\ (remaining' = remaining \/ remaining' = Counted(requests', st))
    BY <1>3 DEF Refilled
  <2> HIDE DEF st
  <2>3. CASE remaining' = remaining
    BY <1>1, <2>1, <2>2, <2>3
  <2>4. CASE remaining' = Counted(requests', st)
    BY <1>0, <2>1, <2>4, RecountKeepsIndex
  <2>5. QED
    BY <2>2, <2>3, <2>4
<1>4. ASSUME NEW t \in Task, Fails(t) \/ Reopens(t)
      PROVE  IndexExact'
  <2>1. UNCHANGED <<requests, remaining>>
    BY <1>4 DEF Fails, Reopens
  <2>2. Present' = Present /\ \A u \in Task : status'[u] = "PASS" <=> status[u] = "PASS"
    BY <1>4, FailedStatus, ReopenedStatus
  <2>3. QED
    BY <1>1, <2>1, <2>2
<1>5. CASE UNCHANGED <<status, requests, remaining>>
  BY <1>1, <1>5 DEF Present
<1>6. QED
  BY <1>2, <1>3, <1>4, <1>5, AcceptKeepsIndex, StepKinds

-----------------------------------------------------------------------------
(* No circular wait.                                                       *)

\* A batch that inherits the dependencies of its parent, and has no circle of its
\* own, closes none through the tasks that were there: whoever in a circle waits
\* for a task outside the batch waits for one the parent waits for as well.
LEMMA BatchClosesNoCircle ==
  ASSUME Inv, GraphClosed, NoCircularWait,
         NEW p \in Present, NEW B \in SUBSET Task, Grows(p, B), Delegated(p, B)
  PROVE  NoCircularWait'
<1> DEFINE pre(t) == Prereq(requests, t)
<1>1. /\ Present' = Present \cup B /\ B \cap Present = {}
      /\ B \subseteq Task /\ p \in Task /\ Present \subseteq Task
  BY GrownStatus DEF Grows, Present
<1>2. \A t : Prereq(requests', t) = pre(t) \cup (IF t = p THEN B ELSE {})
  BY PrereqGrown DEF Grows
<1>3. /\ \A t \in Present : pre(t) \subseteq Present
      /\ \A c \in B : pre(c) = Dep[c]
  BY <1>1, PrereqPresent DEF Prereq
<1>4. \A S \in SUBSET Present : S # {} => \E t \in S : pre(t) \cap S = {}
  BY <1>1 DEF NoCircularWait, Cyclic
<1>5. \A S \in SUBSET B : S # {} => \E t \in S : Dep[t] \cap S = {}
  BY DEF Delegated, Cyclic
<1>6. \A c \in B : Dep[c] \subseteq Dep[p] \cup B
  BY DEF Delegated
<1>7. Dep[p] \subseteq pre(p)
  BY DEF Prereq
<1> HIDE DEF pre
<1>8. SUFFICES ASSUME NEW S \in SUBSET (Present \cup B), S # {},
                      \A t \in S : Prereq(requests', t) \cap S # {}
               PROVE  FALSE
  BY <1>1 DEF NoCircularWait, Cyclic
<1>9. CASE S \cap B = {}
  <2>1. S \subseteq Present /\ \A t \in S : pre(t) \cap S # {}
    BY <1>2, <1>8, <1>9
  <2>2. QED
    BY <1>4, <1>8, <2>1
<1>10. CASE S \cap B # {}
  <2>1. PICK c \in S \cap B : Dep[c] \cap (S \cap B) = {}
    BY <1>5, <1>10
  <2>2. Dep[c] \cap S # {}
    <3>1. c # p
      BY <1>1
    <3>2. QED
      BY <1>2, <1>3, <1>8, <3>1
  <2>3. Dep[p] \cap (S \ B) # {}
    BY <1>6, <2>1, <2>2
  <2>4. \A t \in S \ B : pre(t) \cap (S \ B) # {}
    <3> SUFFICES ASSUME NEW t \in S \ B
                 PROVE  pre(t) \cap (S \ B) # {}
      OBVIOUS
    <3>1. CASE t = p
      BY <1>7, <2>3, <3>1
    <3>2. CASE t # p
      <4>1. pre(t) \cap S # {} /\ pre(t) \subseteq Present
        BY <1>2, <1>3, <1>8, <3>2
      <4>2. QED
        BY <1>1, <4>1
    <3>3. QED
      BY <3>1, <3>2
  <2>5. S \ B \in SUBSET Present /\ S \ B # {}
    BY <2>3
  <2>6. QED
    BY <1>4, <2>4, <2>5
<1>11. QED
  BY <1>9, <1>10

LEMMA StaysUncircular ==
  ASSUME Inv, IsFiniteSet(held), GraphClosed, NoCircularWait, [Next]_vars
  PROVE  NoCircularWait'
<1>1. ASSUME NEW p \in Present, NEW B \in SUBSET Task, Grows(p, B), Hung(p, B)
      PROVE  NoCircularWait'
  <2>1. PICK j \in Adjudicator : B = {j} /\ Untangled(p, j)
    BY <1>1 DEF Hung
  <2>2. Present' = Present \cup {j}
    BY <1>1, <2>1, GrownStatus
  <2>3. \A t : Prereq(requests', t) = Prereq(requests, t) \cup (IF t = p THEN {j} ELSE {})
    <3>1. PICK d, by : requests' = requests \cup {[parent |-> p, children |-> B, depth |-> d, by |-> by]}
      BY <1>1 DEF Grows
    <3>2. QED
      BY <2>1, <3>1, PrereqGrown
  <2>4. [t \in Task |-> Prereq(requests', t)]
          = [t \in Task |-> Prereq(requests, t) \cup (IF t = p THEN {j} ELSE {})]
    BY <2>3
  <2>5. QED
    BY <2>1, <2>2, <2>4 DEF Untangled, NoCircularWait
<1>2. ASSUME Present' = Present, UNCHANGED requests
      PROVE  NoCircularWait'
  BY <1>2 DEF NoCircularWait
<1>3. ASSUME NEW after \in SUBSET (Expired \ Spent), NEW S \in SUBSET Task, Refilled(after, S)
      PROVE  NoCircularWait'
  BY <1>2, <1>3, RefilledStatus DEF Refilled
<1>4. ASSUME NEW t \in Task, Accepts(t) \/ Fails(t) \/ Reopens(t)
      PROVE  NoCircularWait'
  BY <1>2, <1>4, AcceptedStatus, FailedStatus, ReopenedStatus DEF Accepts, Fails, Reopens
<1>5. CASE UNCHANGED <<status, requests, remaining>>
  BY <1>2, <1>5 DEF Present
<1>6. QED
  BY <1>1, <1>3, <1>4, <1>5, BatchClosesNoCircle, StepKinds

-----------------------------------------------------------------------------
(* Blocked tasks.                                                          *)

\* blockDependents reaches everything it should, and nothing else: the READY tasks
\* that wait for a failed or a blocked task are blocked, and those only.
LEMMA DoomedExactly ==
  ASSUME NEW rs, NEW st, NEW failed
  PROVE  LET doomed == Doomed(rs, st, failed)
         IN  \A u \in Task : st[u] = "READY" =>
               (u \in doomed <=> Prereq(rs, u) \cap (failed \cup doomed) # {})
<1> DEFINE doomed == Doomed(rs, st, failed)
           ready == {u \in Task : st[u] = "READY"}
           closed(S) == \A u \in Task :
             st[u] = "READY" /\ Prereq(rs, u) \cap (failed \cup S) # {} => u \in S
<1>1. doomed = {u \in ready : \A S \in SUBSET ready : closed(S) => u \in S}
  BY DEF Doomed
<1>2. \A u : u \in ready <=> u \in Task /\ st[u] = "READY"
  OBVIOUS
<1> HIDE DEF doomed, ready
<1>3. doomed \subseteq ready
  BY <1>1
<1>4. closed(doomed)
  <2> SUFFICES ASSUME NEW u \in ready, Prereq(rs, u) \cap (failed \cup doomed) # {},
                      NEW S \in SUBSET ready, closed(S)
               PROVE  u \in S
    BY <1>1, <1>2
  <2>1. doomed \subseteq S
    BY <1>1
  <2>2. QED
    BY <1>2, <2>1
<1>5. ASSUME NEW u \in doomed, Prereq(rs, u) \cap (failed \cup doomed) = {}
      PROVE  FALSE
  <2>1. closed(doomed \ {u})
    BY <1>4, <1>5
  <2>2. doomed \ {u} \in SUBSET ready
    BY <1>3
  <2> HIDE DEF closed
  <2>3. u \in doomed \ {u}
    BY <1>1, <1>5, <2>1, <2>2
  <2>4. QED
    BY <2>3
<1>6. QED
  BY <1>4, <1>5 DEF doomed

\* What a refill does with the leases that expired: it fails those without retries
\* and blocks exactly the READY tasks behind them.
LEMMA ReclaimedDoomed ==
  ASSUME Inv, NEW after \in SUBSET (Expired \ Spent)
  PROVE  LET failed == [t \in Task |-> IF t \in Spent THEN "FAIL"
                                       ELSE IF t \in Expired \ after THEN "READY" ELSE status[t]]
             doomed == Doomed(requests, failed, Spent)
             st == StatusAfterExpiry(after)
         IN  /\ \A t \in Task : st[t] = IF t \in after THEN "READY"
                                        ELSE IF t \in doomed THEN "BLOCKED" ELSE failed[t]
             /\ \A t \in Spent : t \in Task /\ st[t] = "FAIL"
             /\ \A t \in doomed : t \in Task /\ st[t] = "BLOCKED" /\ failed[t] = "READY"
<1> DEFINE failed == [t \in Task |-> IF t \in Spent THEN "FAIL"
                                     ELSE IF t \in Expired \ after THEN "READY" ELSE status[t]]
           doomed == Doomed(requests, failed, Spent)
           st == StatusAfterExpiry(after)
<1>1. /\ \A t \in Spent : t \in Expired /\ t \notin after
      /\ \A t \in Expired : t \in Task /\ status[t] = "RUNNING"
  BY DEF Spent, Expired
<1>2. \A t \in doomed : t \in Task /\ failed[t] = "READY"
  BY DEF Doomed
<1>3. st = [t \in Task |-> IF t \in after THEN "READY"
                           ELSE IF t \in doomed THEN "BLOCKED" ELSE failed[t]]
  BY DEF StatusAfterExpiry, Blocking
<1>4. \A t \in Task : failed[t] = IF t \in Spent THEN "FAIL"
                                 ELSE IF t \in Expired \ after THEN "READY" ELSE status[t]
  OBVIOUS
<1> HIDE DEF failed, doomed, st
<1>5. \A t \in Spent : t \in Task /\ t \notin doomed /\ failed[t] = "FAIL" /\ t \notin after
  BY <1>1, <1>2, <1>4
<1>6. \A t \in doomed : t \notin after
  BY <1>1, <1>2, <1>4
<1>7. QED
  BY <1>2, <1>3, <1>5, <1>6 DEF failed, doomed, st

LEMMA BlocksStayJustified ==
  ASSUME Inv, IsFiniteSet(held), BlockJustified, [Next]_vars
  PROVE  BlockJustified'
<1>0. requests \subseteq Request /\ status \in [Task -> Status]
  BY DEF Inv, TypeOK
<1>1. \A t \in Task : Prereq(requests, t) \subseteq Task
  BY <1>0, GraphAssumption DEF Prereq, Spawned, Request
<1>2. ASSUME \A t \in Task : Prereq(requests, t) \subseteq Prereq(requests', t),
             \A t \in Task : status[t] \in {"FAIL", "BLOCKED"} => status'[t] = status[t],
             NEW F \in SUBSET Task, NEW doomed \in SUBSET Task,
             \A t \in F : status'[t] = "FAIL",
             \A t \in doomed : status'[t] = "BLOCKED",
             \A t \in doomed : Prereq(requests, t) \cap (F \cup doomed) # {},
             \A t \in Task : status'[t] = "BLOCKED" => status[t] = "BLOCKED" \/ t \in doomed
      PROVE  BlockJustified'
  <2> SUFFICES ASSUME NEW t \in Task, status'[t] = "BLOCKED"
               PROVE  \E p \in Prereq(requests', t) : status'[p] \in {"FAIL", "BLOCKED"}
    BY DEF BlockJustified
  <2>1. CASE status[t] = "BLOCKED"
    <3>1. PICK p \in Prereq(requests, t) : status[p] \in {"FAIL", "BLOCKED"}
      BY <2>1 DEF BlockJustified
    <3>2. p \in Task /\ p \in Prereq(requests', t) /\ status'[p] = status[p]
      BY <1>1, <1>2, <3>1
    <3>3. QED
      BY <3>1, <3>2
  <2>2. CASE t \in doomed
    <3>1. PICK p \in Prereq(requests, t) : p \in F \cup doomed
      BY <1>2, <2>2
    <3>2. p \in Prereq(requests', t) /\ status'[p] \in {"FAIL", "BLOCKED"}
      BY <1>2, <3>1
    <3>3. QED
      BY <3>2
  <2>3. QED
    BY <1>2, <2>1, <2>2
<1>3. ASSUME \A t \in Task : Prereq(requests, t) \subseteq Prereq(requests', t),
             \A t \in Task : \A v \in {"FAIL", "BLOCKED"} : status'[t] = v <=> status[t] = v
      PROVE  BlockJustified'
  BY <1>1, <1>3 DEF BlockJustified
<1>4. ASSUME NEW p \in Present, NEW B \in SUBSET Task, Grows(p, B)
      PROVE  BlockJustified'
  <2>1. \A t \in Task : Prereq(requests, t) \subseteq Prereq(requests', t)
    <3>1. PICK d, by : requests' = requests \cup {[parent |-> p, children |-> B, depth |-> d, by |-> by]}
      BY <1>4 DEF Grows
    <3>2. \A t : Prereq(requests', t) = Prereq(requests, t) \cup (IF t = p THEN B ELSE {})
      BY <3>1, PrereqGrown
    <3>3. QED
      BY <3>2
  <2>2. \A t \in Task : \A v \in {"PASS", "FAIL", "BLOCKED"} : status'[t] = v <=> status[t] = v
    BY <1>4, GrownStatus
  <2>3. QED
    BY <1>3, <2>1, <2>2
<1>5. ASSUME NEW after \in SUBSET (Expired \ Spent), NEW S \in SUBSET Task, Refilled(after, S)
      PROVE  BlockJustified'
  <2> DEFINE failed == [t \in Task |-> IF t \in Spent THEN "FAIL"
                                       ELSE IF t \in Expired \ after THEN "READY" ELSE status[t]]
             doomed == Doomed(requests, failed, Spent)
             st == StatusAfterExpiry(after)
  <2>1. /\ \A t \in Task : st[t] = IF t \in after THEN "READY"
                                   ELSE IF t \in doomed THEN "BLOCKED" ELSE failed[t]
        /\ \A t \in Spent : t \in Task /\ st[t] = "FAIL"
        /\ \A t \in doomed : t \in Task /\ st[t] = "BLOCKED" /\ failed[t] = "READY"
    BY ReclaimedDoomed
  <2>2. \A t \in doomed : Prereq(requests, t) \cap (Spent \cup doomed) # {}
    BY <2>1, DoomedExactly
  <2>3. /\ requests' = requests
        /\ status' = [t \in Task |-> IF t \in S THEN "RUNNING" ELSE st[t]]
        /\ \A t \in S : st[t] = "READY"
    BY <1>5 DEF Refilled
  <2>4. \A t \in Expired : t \in Task /\ status[t] = "RUNNING"
    BY DEF Expired
  <2>5. \A t \in Task : failed[t] = IF t \in Spent THEN "FAIL"
                                   ELSE IF t \in Expired \ after THEN "READY" ELSE status[t]
    OBVIOUS
  <2>6. \A t \in Spent : t \in Expired
    BY DEF Spent
  <2> HIDE DEF failed, doomed, st
  <2>7. \A t \in Task : status[t] \in {"FAIL", "BLOCKED"} => status'[t] = status[t]
    BY <2>1, <2>3, <2>4, <2>5, <2>6
  <2>8. \A t \in Task : status'[t] = "BLOCKED" => status[t] = "BLOCKED" \/ t \in doomed
    BY <2>1, <2>3, <2>4, <2>5, <2>6
  <2>9. /\ \A t \in Spent : status'[t] = "FAIL"
        /\ \A t \in doomed : status'[t] = "BLOCKED"
        /\ Spent \in SUBSET Task /\ doomed \in SUBSET Task
    BY <2>1, <2>3
  <2>10. QED
    BY <1>2, <2>2, <2>3, <2>7, <2>8, <2>9
<1>6. ASSUME NEW t \in Task, Fails(t)
      PROVE  BlockJustified'
  <2> DEFINE failed == [status EXCEPT ![t] = "FAIL"]
             doomed == Doomed(requests, failed, {t})
  <2>1. /\ status' = [u \in Task |-> IF u \in doomed THEN "BLOCKED" ELSE failed[u]]
        /\ \A u \in doomed : u # t /\ status[u] = "READY"
    BY <1>6, FailedStatus
  <2>2. doomed \subseteq Task
    BY DEF Doomed
  <2>3. \A u \in Task : failed[u] = IF u = t THEN "FAIL" ELSE status[u]
    BY <1>0
  <2>4. \A u \in doomed : Prereq(requests, u) \cap ({t} \cup doomed) # {}
    BY <2>1, <2>2, <2>3, DoomedExactly
  <2>5. requests' = requests /\ status[t] = "RUNNING"
    BY <1>6 DEF Fails
  <2> HIDE DEF failed, doomed
  <2>6. /\ \A u \in Task : status[u] \in {"FAIL", "BLOCKED"} => status'[u] = status[u]
        /\ \A u \in Task : status'[u] = "BLOCKED" => status[u] = "BLOCKED" \/ u \in doomed
        /\ \A u \in {t} : status'[u] = "FAIL"
        /\ \A u \in doomed : status'[u] = "BLOCKED"
    BY <2>1, <2>2, <2>3, <2>5
  <2>7. /\ {t} \in SUBSET Task /\ doomed \in SUBSET Task
        /\ \A u \in Task : Prereq(requests, u) \subseteq Prereq(requests', u)
    BY <2>2, <2>5
  <2> DEFINE F == {t}
  <2>8. /\ F \in SUBSET Task
        /\ \A u \in F : status'[u] = "FAIL"
        /\ \A u \in doomed : Prereq(requests, u) \cap (F \cup doomed) # {}
    BY <2>4, <2>6, <2>7
  <2> HIDE DEF F
  <2>9. QED
    BY <1>2, <2>6, <2>7, <2>8
<1>7. ASSUME NEW t \in Task, Accepts(t) \/ Reopens(t)
      PROVE  BlockJustified'
  <2>1. UNCHANGED requests /\ status[t] = "RUNNING"
    BY <1>7 DEF Accepts, Reopens
  <2>2. \A u \in Task : \A v \in {"FAIL", "BLOCKED"} : status'[u] = v <=> status[u] = v
    BY <1>7, <2>1, AcceptedStatus, ReopenedStatus
  <2>3. QED
    BY <1>3, <2>1, <2>2
<1>8. CASE UNCHANGED <<status, requests, remaining>>
  BY <1>3, <1>8
<1>9. QED
  BY <1>4, <1>5, <1>6, <1>7, <1>8, StepKinds

\* A transaction that rejects tasks blocks the READY ones behind them and no others.
LEMMA FailuresReach ==
  ASSUME Inv, IsFiniteSet(held), [Next]_vars
  PROVE  FailureStep
<1>0. requests \subseteq Request /\ status \in [Task -> Status]
  BY DEF Inv, TypeOK
<1>1. \A t \in Task : Prereq(requests, t) \subseteq Task
  BY <1>0, GraphAssumption DEF Prereq, Spawned, Request
<1>2. ASSUME NEW F \in SUBSET Task, NEW doomed \in SUBSET F,
             \A t \in F : status'[t] \in Rejected,
             \A t \in Task : status[t] \notin Rejected /\ status'[t] \in Rejected => t \in F,
             \A t \in Task : status[t] # "BLOCKED" /\ status'[t] = "BLOCKED" => t \in doomed,
             \A t \in doomed : status'[t] = "BLOCKED" /\ Prereq(requests, t) \cap F # {},
             \A t \in Task : status[t] = "READY" /\ Prereq(requests, t) \cap F # {} => t \in doomed
      PROVE  FailureStep
  BY <1>1, <1>2 DEF FailureStep
<1>3. ASSUME \A t \in Task : \A v \in {"FAIL", "BLOCKED"} : status'[t] = v <=> status[t] = v
      PROVE  FailureStep
  BY <1>1, <1>3 DEF FailureStep, Rejected
<1>4. ASSUME NEW p \in Present, NEW B \in SUBSET Task, Grows(p, B)
      PROVE  FailureStep
  BY <1>3, <1>4, GrownStatus
<1>5. ASSUME NEW after \in SUBSET (Expired \ Spent), NEW S \in SUBSET Task, Refilled(after, S)
      PROVE  FailureStep
  <2> DEFINE failed == [t \in Task |-> IF t \in Spent THEN "FAIL"
                                       ELSE IF t \in Expired \ after THEN "READY" ELSE status[t]]
             doomed == Doomed(requests, failed, Spent)
             st == StatusAfterExpiry(after)
  <2>1. /\ \A t \in Task : st[t] = IF t \in after THEN "READY"
                                   ELSE IF t \in doomed THEN "BLOCKED" ELSE failed[t]
        /\ \A t \in Spent : t \in Task /\ st[t] = "FAIL"
        /\ \A t \in doomed : t \in Task /\ st[t] = "BLOCKED" /\ failed[t] = "READY"
    BY ReclaimedDoomed
  <2>2. \A t \in Task : failed[t] = "READY" =>
          (t \in doomed <=> Prereq(requests, t) \cap (Spent \cup doomed) # {})
    BY DoomedExactly
  <2>3. /\ status' = [t \in Task |-> IF t \in S THEN "RUNNING" ELSE st[t]]
        /\ \A t \in S : st[t] = "READY"
    BY <1>5 DEF Refilled
  <2>4. /\ \A t \in Expired : t \in Task /\ status[t] = "RUNNING"
        /\ \A t \in Spent : t \in Expired
        /\ \A t \in after : t \in Expired
    BY DEF Expired, Spent
  <2>5. \A t \in Task : failed[t] = IF t \in Spent THEN "FAIL"
                                   ELSE IF t \in Expired \ after THEN "READY" ELSE status[t]
    OBVIOUS
  <2> DEFINE F == Spent \cup doomed
  <2> HIDE DEF failed, doomed, st
  <2>6. F \in SUBSET Task /\ doomed \in SUBSET F /\ \A t \in F : status'[t] \in Rejected
    BY <2>1, <2>3 DEF Rejected
  <2>7. \A t \in Task : status[t] \notin Rejected /\ status'[t] \in Rejected => t \in F
    BY <2>1, <2>3, <2>5 DEF Rejected
  <2>8. \A t \in Task : status[t] # "BLOCKED" /\ status'[t] = "BLOCKED" => t \in doomed
    BY <2>1, <2>3, <2>5
  <2>9. \A t \in doomed : status'[t] = "BLOCKED" /\ Prereq(requests, t) \cap F # {}
    BY <2>1, <2>2, <2>3
  <2>10. \A t \in Task : status[t] = "READY" /\ Prereq(requests, t) \cap F # {} => t \in doomed
    BY <2>2, <2>4, <2>5
  <2> HIDE DEF F
  <2>11. QED
    BY <1>2, <2>6, <2>7, <2>8, <2>9, <2>10
<1>6. ASSUME NEW t \in Task, Fails(t)
      PROVE  FailureStep
  <2> DEFINE failed == [status EXCEPT ![t] = "FAIL"]
             doomed == Doomed(requests, failed, {t})
             F == {t} \cup doomed
  <2>1. /\ status' = [u \in Task |-> IF u \in doomed THEN "BLOCKED" ELSE failed[u]]
        /\ \A u \in doomed : u # t /\ status[u] = "READY"
    BY <1>6, FailedStatus
  <2>2. doomed \subseteq Task
    BY DEF Doomed
  <2>3. \A u \in Task : failed[u] = IF u = t THEN "FAIL" ELSE status[u]
    BY <1>0
  <2>4. \A u \in Task : failed[u] = "READY" =>
          (u \in doomed <=> Prereq(requests, u) \cap ({t} \cup doomed) # {})
    BY DoomedExactly
  <2>5. status[t] = "RUNNING"
    BY <1>6 DEF Fails
  <2> HIDE DEF failed, doomed
  <2>6. F \in SUBSET Task /\ doomed \in SUBSET F /\ \A u \in F : status'[u] \in Rejected
    BY <2>1, <2>2, <2>3 DEF Rejected
  <2>7. \A u \in Task : status[u] \notin Rejected /\ status'[u] \in Rejected => u \in F
    BY <2>1, <2>3 DEF Rejected
  <2>8. \A u \in Task : status[u] # "BLOCKED" /\ status'[u] = "BLOCKED" => u \in doomed
    BY <2>1, <2>3
  <2>9. \A u \in doomed : status'[u] = "BLOCKED" /\ Prereq(requests, u) \cap F # {}
    BY <2>1, <2>2, <2>3, <2>4
  <2>10. \A u \in Task : status[u] = "READY" /\ Prereq(requests, u) \cap F # {} => u \in doomed
    BY <2>3, <2>4, <2>5
  <2> HIDE DEF F
  <2>11. QED
    BY <1>2, <2>6, <2>7, <2>8, <2>9, <2>10
<1>7. ASSUME NEW t \in Task, Accepts(t) \/ Reopens(t)
      PROVE  FailureStep
  <2>1. status[t] = "RUNNING"
    BY <1>7 DEF Accepts, Reopens
  <2>2. \A u \in Task : \A v \in {"FAIL", "BLOCKED"} : status'[u] = v <=> status[u] = v
    BY <1>7, <2>1, AcceptedStatus, ReopenedStatus
  <2>3. QED
    BY <1>3, <2>2
<1>8. CASE UNCHANGED <<status, requests, remaining>>
  BY <1>3, <1>8
<1>9. QED
  BY <1>4, <1>5, <1>6, <1>7, <1>8, StepKinds

-----------------------------------------------------------------------------
(* What runs at the same time.                                             *)

\* Except for a refill that claims something, no step starts a task.
LEMMA RunningShrinks ==
  ASSUME Inv, IsFiniteSet(held), [Next]_vars
  PROVE  \/ Running(status') \subseteq Running(status)
         \/ \E after \in SUBSET (Expired \ Spent), S \in SUBSET Task :
              /\ Refilled(after, S) /\ S # {}
              /\ Running(status') = S \cup Running(StatusAfterExpiry(after))
<1>1. ASSUME NEW p \in Present, NEW B \in SUBSET Task, Grows(p, B)
      PROVE  Running(status') \subseteq Running(status)
  BY <1>1, GrownStatus
<1>2. ASSUME NEW t \in Task, Accepts(t) \/ Fails(t) \/ Reopens(t)
      PROVE  Running(status') \subseteq Running(status)
  BY <1>2, AcceptedStatus, FailedStatus, ReopenedStatus
<1>3. ASSUME NEW after \in SUBSET (Expired \ Spent), NEW S \in SUBSET Task, Refilled(after, S)
      PROVE  /\ Running(status') = S \cup Running(StatusAfterExpiry(after))
             /\ S = {} => Running(status') \subseteq Running(status)
  <2> DEFINE st == StatusAfterExpiry(after)
  <2>1. \A t \in Task : st[t] = "RUNNING" => status[t] = "RUNNING"
    BY <1>3, RefilledStatus
  <2>2. status' = [t \in Task |-> IF t \in S THEN "RUNNING" ELSE st[t]]
    BY <1>3 DEF Refilled
  <2> HIDE DEF st
  <2>3. /\ Running(status') = S \cup Running(st)
        /\ S = {} => Running(status') \subseteq Running(status)
    BY <2>1, <2>2 DEF Running
  <2>4. QED
    BY <2>3 DEF st
<1>4. CASE UNCHANGED <<status, requests, remaining>>
  BY <1>4
<1>5. QED
  BY <1>1, <1>2, <1>3, <1>4, StepKinds

LEMMA RunningFinite ==
  ASSUME NEW st
  PROVE  IsFiniteSet(Running(st)) /\ Cardinality(Running(st)) \in Nat
<1>1. Running(st) \in SUBSET Task
  BY DEF Running
<1>2. QED
  BY <1>1, GraphAssumption, FS_Subset, FS_CardinalityType

\* A refill claims at most what the policy leaves beside what runs.
LEMMA StaysWithinParallelism ==
  ASSUME Inv, IsFiniteSet(held), Cardinality(Running(status)) <= Parallelism, [Next]_vars
  PROVE  Cardinality(Running(status')) <= Parallelism
<1>1. CASE Running(status') \subseteq Running(status)
  <2>1. /\ Cardinality(Running(status')) <= Cardinality(Running(status))
        /\ Cardinality(Running(status')) \in Nat /\ Cardinality(Running(status)) \in Nat
    BY <1>1, RunningFinite, FS_Subset
  <2>2. QED
    BY <2>1, RecipeAssumption
<1>2. ASSUME NEW after \in SUBSET (Expired \ Spent), NEW S \in SUBSET Task,
             Refilled(after, S), S # {},
             Running(status') = S \cup Running(StatusAfterExpiry(after))
      PROVE  Cardinality(Running(status')) <= Parallelism
  <2> DEFINE R == Running(StatusAfterExpiry(after))
  <2>1. Cardinality(S) <= policy - Cardinality(R)
    BY <1>2 DEF Refilled
  <2>2. /\ IsFiniteSet(S) /\ Cardinality(S) \in Nat
        /\ IsFiniteSet(R) /\ Cardinality(R) \in Nat
    BY GraphAssumption, FS_Subset, FS_CardinalityType, RunningFinite
  <2> HIDE DEF R
  <2>3. /\ Cardinality(S \cup R) = Cardinality(S) + Cardinality(R) - Cardinality(S \cap R)
        /\ Cardinality(S \cap R) \in Nat /\ Cardinality(S \cup R) \in Nat
    BY <2>2, FS_Union, FS_Intersection, FS_CardinalityType
  <2>4. policy \in 1..Parallelism
    BY DEF Inv, TypeOK
  <2>5. Cardinality(S \cup R) <= Parallelism
    BY <2>1, <2>2, <2>3, <2>4, RecipeAssumption
  <2>6. QED
    BY <1>2, <2>5 DEF R
<1>3. QED
  BY <1>1, <1>2, RunningShrinks

\* Who starts something leaves no more running than the policy in force allows.
LEMMA StartsWithinPolicy ==
  ASSUME Inv, IsFiniteSet(held), [Next]_vars
  PROVE  PolicyStep
<1> SUFFICES ASSUME NEW t \in Task, Starts(t)
             PROVE  Cardinality(Running(status')) <= policy
  BY DEF PolicyStep
<1>1. PICK after \in SUBSET (Expired \ Spent), S \in SUBSET Task : Refilled(after, S) /\ t \in S
  BY StartsAreRefills
<1> DEFINE R == Running(StatusAfterExpiry(after))
<1>2. Cardinality(S) <= policy - Cardinality(R)
  BY <1>1 DEF Refilled
<1>3. Running(status') = S \cup R
  BY <1>1 DEF Refilled, Running
<1>4. /\ IsFiniteSet(S) /\ Cardinality(S) \in Nat
      /\ IsFiniteSet(R) /\ Cardinality(R) \in Nat
  BY GraphAssumption, FS_Subset, FS_CardinalityType, RunningFinite
<1> HIDE DEF R
<1>5. /\ Cardinality(S \cup R) = Cardinality(S) + Cardinality(R) - Cardinality(S \cap R)
      /\ Cardinality(S \cap R) \in Nat
  BY <1>4, FS_Union, FS_Intersection, FS_CardinalityType
<1>6. policy \in Int
  BY DEF Inv, TypeOK
<1>7. QED
  BY <1>2, <1>3, <1>4, <1>5, <1>6

\* What a refill starts has all its prerequisites accepted.
LEMMA StartsWhenAccepted ==
  ASSUME Inv, IsFiniteSet(held), [Next]_vars
  PROVE  StartStep
<1> SUFFICES ASSUME NEW t \in Task, Starts(t), NEW p \in Dep[t] \cup Spawned(requests, t)
             PROVE  status'[p] = "PASS"
  BY DEF StartStep
<1>1. PICK after \in SUBSET (Expired \ Spent), S \in SUBSET Task : Refilled(after, S) /\ t \in S
  BY StartsAreRefills
<1>2. p \in Prereq(requests, t)
  BY DEF Prereq
<1>3. p \in Task
  <2>1. requests \subseteq Request
    BY DEF Inv, TypeOK
  <2>2. QED
    BY <2>1, GraphAssumption DEF Spawned, Request
<1>4. StatusAfterExpiry(after)[p] = "PASS"
  BY <1>1, <1>2 DEF Refilled, AuthoritativeReady
<1>5. QED
  BY <1>1, <1>3, <1>4, RefilledStatus

\* Growth never raises what a task is allocated.
AllocationsFall ==
  \A P, Q \in SUBSET Task : P \subseteq Q => \A t \in P : Budget[Q][t] <= Budget[P][t]

LEMMA ReservedIsSum ==
  ASSUME NEW S
  PROVE  Reserved(S) = SumOf(Budget[Present], S)
  BY DEF Reserved, SumOf

LEMMA PresentGrows ==
  ASSUME Inv, IsFiniteSet(held), [Next]_vars
  PROVE  Present \subseteq Present'
<1>1. ASSUME NEW after \in SUBSET (Expired \ Spent), NEW S \in SUBSET Task, Refilled(after, S)
      PROVE  Present' = Present
  BY <1>1, RefilledStatus
<1>2. ASSUME NEW t \in Task, Accepts(t) \/ Fails(t) \/ Reopens(t)
      PROVE  Present' = Present
  BY <1>2, AcceptedStatus, FailedStatus, ReopenedStatus
<1>3. CASE UNCHANGED <<status, requests, remaining>>
  BY <1>3 DEF Present
<1>4. ASSUME NEW p \in Present, NEW B \in SUBSET Task, Grows(p, B)
      PROVE  Present \subseteq Present'
  BY <1>4, GrownStatus
<1>5. QED
  BY <1>1, <1>2, <1>3, <1>4, StepKinds

\* The cap in terms of the sum, now and in the next state.
CapAgrees == ContextCapped <=> SumOf(Budget[Present], Running(status)) <= MaxContext

LEMMA CapIsSum == CapAgrees
  BY ReservedIsSum DEF CapAgrees, ContextCapped

LEMMA CapIsSumAlways == []CapAgrees
  BY CapIsSum, PTL

LEMMA CapIsSumNext ==
  ContextCapped' <=> SumOf(Budget[Present'], Running(status')) <= MaxContext
<1>1. CapAgrees'
  BY CapIsSumAlways, PTL
<1>2. QED
  BY <1>1 DEF CapAgrees, Running

LEMMA StaysWithinContext ==
  ASSUME AllocationsFall, Inv, IsFiniteSet(held), ContextCapped, [Next]_vars
  PROVE  ContextCapped'
<1> DEFINE old == Budget[Present]
           new == Budget[Present']
<1>1. /\ Present \in SUBSET Task /\ Present' \in SUBSET Task /\ Present \subseteq Present'
      /\ Running(status) \subseteq Present
  BY PresentGrows DEF Present, Running
<1>2. ContextCapped <=> SumOf(old, Running(status)) <= MaxContext
  BY CapIsSum DEF CapAgrees
<1>3. ContextCapped' <=> SumOf(new, Running(status')) <= MaxContext
  BY CapIsSumNext
<1>4. \A t \in Task : old[t] \in Nat /\ new[t] \in Nat
  BY <1>1, GraphAssumption
<1>5. \A t \in Present : new[t] <= old[t]
  BY <1>1 DEF AllocationsFall
<1>6. CASE Running(status') \subseteq Running(status)
  <2> DEFINE R == Running(status)
             Q == Running(status')
  <2>1. IsFiniteSet(R) /\ R \subseteq Task /\ R \subseteq Present /\ Q \in SUBSET R
    BY <1>1, <1>6, RunningFinite DEF Running
  <2> HIDE DEF R, Q, old, new
  <2>2. \A t \in R : new[t] \in Nat /\ new[t] \in Int /\ old[t] \in Int /\ new[t] <= old[t]
    BY <1>4, <1>5, <2>1
  <2>3. SumOf(new, Q) <= SumOf(new, R) /\ SumOf(new, Q) \in Nat
    BY <2>1, <2>2, SumMonotone
  <2>4. SumOf(new, R) <= SumOf(old, R)
    BY <2>1, <2>2, SumPointwise
  <2>5. SumOf(new, R) \in Int /\ SumOf(old, R) \in Int
    BY <2>1, <2>2, SumType
  <2>6. SumOf(old, R) <= MaxContext
    BY <1>2 DEF R
  <2>7. SumOf(new, Q) <= MaxContext
    BY <2>3, <2>4, <2>5, <2>6, RecipeAssumption
  <2>8. QED
    BY <1>3, <2>7 DEF Q
<1>7. ASSUME NEW after \in SUBSET (Expired \ Spent), NEW S \in SUBSET Task,
             Refilled(after, S), S # {},
             Running(status') = S \cup Running(StatusAfterExpiry(after))
      PROVE  ContextCapped'
  <2>1. Present' = Present
    BY <1>7, RefilledStatus
  <2>2. Reserved(S \cup Running(StatusAfterExpiry(after))) <= MaxContext
    BY <1>7 DEF Refilled, Together
  <2>3. QED
    BY <1>3, <1>7, <2>1, <2>2, ReservedIsSum
<1>8. QED
  BY <1>6, <1>7, RunningShrinks

-----------------------------------------------------------------------------
(* Children first.                                                         *)

\* Every spawn yields and the host adds nothing below a task that has started.
YieldingRun == YieldChoice \subseteq {TRUE} /\ Adjudicator = {}

\* What has started waits for nothing any more.
StartedSettled ==
  \A t \in Task : status[t] \in {"RUNNING", "PASS"} =>
    \A p \in Prereq(requests, t) : status[p] = "PASS"

LEMMA StartedStaysSettled ==
  ASSUME YieldingRun, Inv, IsFiniteSet(held), GraphClosed, StartedSettled, [Next]_vars
  PROVE  StartedSettled'
<1>0. requests \subseteq Request /\ status \in [Task -> Status]
  BY DEF Inv, TypeOK
<1>1. \A t \in Task : Prereq(requests, t) \subseteq Task
  BY <1>0, GraphAssumption DEF Prereq, Spawned, Request
<1>2. ASSUME UNCHANGED requests,
             \A t \in Task : status[t] = "PASS" => status'[t] = "PASS",
             \A t \in Task : status'[t] \in {"RUNNING", "PASS"} =>
               \/ status[t] \in {"RUNNING", "PASS"}
               \/ \A p \in Prereq(requests, t) : status'[p] = "PASS"
      PROVE  StartedSettled'
  BY <1>1, <1>2 DEF StartedSettled
<1>3. ASSUME NEW p \in Present, NEW B \in SUBSET Task, Grows(p, B), Delegated(p, B)
      PROVE  StartedSettled'
  <2>1. PICK d, by : requests' = requests \cup {[parent |-> p, children |-> B, depth |-> d, by |-> by]}
    BY <1>3 DEF Grows
  <2>2. \A t : Prereq(requests', t) = Prereq(requests, t) \cup (IF t = p THEN B ELSE {})
    BY <2>1, PrereqGrown
  <2>3. status'[p] = "READY"
    BY <1>3 DEF Delegated, YieldingRun
  <2>4. \A t \in Task : \A v \in {"PASS", "FAIL", "BLOCKED"} : status'[t] = v <=> status[t] = v
    BY <1>3, GrownStatus
  <2>5. \A t \in Task : status'[t] = "RUNNING" => status[t] = "RUNNING"
    BY <1>3 DEF Grows
  <2>6. QED
    BY <1>1, <2>2, <2>3, <2>4, <2>5 DEF StartedSettled
<1>4. ASSUME NEW after \in SUBSET (Expired \ Spent), NEW S \in SUBSET Task, Refilled(after, S)
      PROVE  StartedSettled'
  <2> DEFINE st == StatusAfterExpiry(after)
  <2>1. \A t \in Task : /\ st[t] = "PASS" <=> status[t] = "PASS"
                        /\ status'[t] = "PASS" <=> status[t] = "PASS"
                        /\ t \notin S => status'[t] = st[t]
                        /\ st[t] = "RUNNING" => status[t] = "RUNNING"
    BY <1>4, RefilledStatus
  <2>2. \A t \in S : \A p \in Prereq(requests, t) : st[p] = "PASS"
    BY <1>4 DEF Refilled, AuthoritativeReady
  <2>3. UNCHANGED requests
    BY <1>4 DEF Refilled
  <2> HIDE DEF st
  <2>4. QED
    BY <1>1, <1>2, <2>1, <2>2, <2>3
<1>5. ASSUME NEW t \in Task, Accepts(t) \/ Fails(t) \/ Reopens(t)
      PROVE  StartedSettled'
  <2>1. UNCHANGED requests /\ status[t] = "RUNNING"
    BY <1>5 DEF Accepts, Fails, Reopens
  <2>2. \A u \in Task : /\ status[u] = "PASS" => status'[u] = "PASS"
                        /\ status'[u] \in {"RUNNING", "PASS"} => status[u] \in {"RUNNING", "PASS"}
    <3>1. CASE Accepts(t)
      BY <2>1, <3>1, AcceptedStatus
    <3>2. CASE Fails(t) \/ Reopens(t)
      BY <2>1, <3>2, FailedStatus, ReopenedStatus DEF Running
    <3>3. QED
      BY <1>5, <3>1, <3>2
  <2>3. QED
    BY <1>2, <2>1, <2>2
<1>6. CASE UNCHANGED <<status, requests, remaining>>
  BY <1>2, <1>6
<1>7. QED
  BY <1>3, <1>4, <1>5, <1>6, StepKinds DEF Hung, YieldingRun

LEMMA NobodyGetsStranded ==
  ASSUME YieldingRun, Inv, IsFiniteSet(held), GraphClosed, StartedSettled, NoStrandedTask,
         [Next]_vars
  PROVE  NoStrandedTask'
<1>0. requests \subseteq Request /\ status \in [Task -> Status]
  BY DEF Inv, TypeOK
<1>1. \A t \in Task : Prereq(requests, t) \subseteq Task
  BY <1>0, GraphAssumption DEF Prereq, Spawned, Request
\* A task that is READY afterwards was so before, and is not behind what the step
\* fails or blocks; or it was running, with all it waits for accepted.
<1>2. ASSUME UNCHANGED requests, NEW F,
             \A t \in Task : status[t] = "PASS" => status'[t] = "PASS",
             \A t \in Task : status'[t] \in {"FAIL", "BLOCKED"} =>
               status[t] \in {"FAIL", "BLOCKED"} \/ t \in F,
             \A t \in Task : status'[t] = "READY" =>
               \/ status[t] = "RUNNING"
               \/ status[t] = "READY" /\ Prereq(requests, t) \cap F = {}
      PROVE  NoStrandedTask'
  <2> SUFFICES ASSUME NEW t \in Task, status'[t] = "READY", NEW p \in Prereq(requests, t)
               PROVE  status'[p] \notin {"FAIL", "BLOCKED"}
    BY <1>2 DEF NoStrandedTask
  <2>1. p \in Task
    BY <1>1
  <2>2. CASE status[t] = "RUNNING"
    BY <1>2, <2>1, <2>2 DEF StartedSettled
  <2>3. CASE status[t] = "READY" /\ Prereq(requests, t) \cap F = {}
    BY <1>2, <2>1, <2>3 DEF NoStrandedTask
  <2>4. QED
    BY <1>2, <2>2, <2>3
<1>3. ASSUME NEW p \in Present, NEW B \in SUBSET Task, Grows(p, B), Delegated(p, B)
      PROVE  NoStrandedTask'
  <2>1. PICK d, by : requests' = requests \cup {[parent |-> p, children |-> B, depth |-> d, by |-> by]}
    BY <1>3 DEF Grows
  <2>2. \A t : Prereq(requests', t) = Prereq(requests, t) \cup (IF t = p THEN B ELSE {})
    BY <2>1, PrereqGrown
  <2>3. \A t \in Task : \A v \in {"PASS", "FAIL", "BLOCKED"} : status'[t] = v <=> status[t] = v
    BY <1>3, GrownStatus
  <2>4. \A q \in Prereq(requests, p) : status[q] \notin {"FAIL", "BLOCKED"} /\ q \in Task
    BY <1>1, <1>3 DEF Delegated, StartedSettled, NoStrandedTask, Present
  <2>5. \A c \in B : Prereq(requests', c) \subseteq Prereq(requests, p) \cup B
    <3>1. \A c \in B : c # p /\ Spawned(requests, c) = {}
      BY <1>3, PrereqPresent DEF Grows
    <3>2. QED
      BY <1>3, <2>2, <3>1 DEF Delegated, Prereq
  <2>6. \A c \in B : c \in Task /\ status'[c] = "READY"
    BY <1>3 DEF Grows
  <2> SUFFICES ASSUME NEW t \in Task, status'[t] = "READY", NEW q \in Prereq(requests', t)
               PROVE  status'[q] \notin {"FAIL", "BLOCKED"}
    BY DEF NoStrandedTask
  <2>7. CASE t \in B \cup {p}
    BY <2>2, <2>3, <2>4, <2>5, <2>6, <2>7
  <2>8. CASE t \notin B \cup {p}
    <3>1. status[t] = "READY"
      BY <1>3, <2>8 DEF Grows
    <3>2. q \in Prereq(requests, t) /\ q \in Task
      BY <1>1, <2>2, <2>8
    <3>3. QED
      BY <2>3, <3>1, <3>2 DEF NoStrandedTask
  <2>9. QED
    BY <2>7, <2>8
<1>4. ASSUME NEW after \in SUBSET (Expired \ Spent), NEW S \in SUBSET Task, Refilled(after, S)
      PROVE  NoStrandedTask'
  <2> DEFINE failed == [t \in Task |-> IF t \in Spent THEN "FAIL"
                                       ELSE IF t \in Expired \ after THEN "READY" ELSE status[t]]
             doomed == Doomed(requests, failed, Spent)
             st == StatusAfterExpiry(after)
  <2>1. /\ \A t \in Task : st[t] = IF t \in after THEN "READY"
                                   ELSE IF t \in doomed THEN "BLOCKED" ELSE failed[t]
        /\ \A t \in Spent : t \in Task /\ st[t] = "FAIL"
        /\ \A t \in doomed : t \in Task /\ st[t] = "BLOCKED" /\ failed[t] = "READY"
    BY ReclaimedDoomed
  <2>2. \A t \in Task : failed[t] = "READY" =>
          (t \in doomed <=> Prereq(requests, t) \cap (Spent \cup doomed) # {})
    BY DoomedExactly
  <2>3. /\ requests' = requests
        /\ status' = [t \in Task |-> IF t \in S THEN "RUNNING" ELSE st[t]]
    BY <1>4 DEF Refilled
  <2>4. \A t \in Expired : t \in Task /\ status[t] = "RUNNING"
    BY DEF Expired
  <2>5. \A t \in Task : failed[t] = IF t \in Spent THEN "FAIL"
                                   ELSE IF t \in Expired \ after THEN "READY" ELSE status[t]
    OBVIOUS
  <2>6. \A t \in Task : status'[t] = "PASS" <=> status[t] = "PASS"
    BY <1>4, RefilledStatus
  <2>7. \A t \in after : t \in Expired
    OBVIOUS
  <2> DEFINE F == Spent \cup doomed
  <2>8. \A t \in Spent : t \in Expired
    BY DEF Spent
  <2> HIDE DEF failed, doomed, st
  <2>9. \A t \in Task : status'[t] \in {"FAIL", "BLOCKED"} =>
          status[t] \in {"FAIL", "BLOCKED"} \/ t \in F
    BY <2>1, <2>3, <2>5
  <2>10. \A t \in Task : status'[t] = "READY" =>
          \/ status[t] = "RUNNING"
          \/ status[t] = "READY" /\ Prereq(requests, t) \cap F = {}
    BY <2>1, <2>2, <2>3, <2>4, <2>5, <2>7, <2>8
  <2> HIDE DEF F
  <2>11. QED
    BY <1>2, <2>3, <2>6, <2>9, <2>10
<1>5. ASSUME NEW t \in Task, Fails(t)
      PROVE  NoStrandedTask'
  <2> DEFINE failed == [status EXCEPT ![t] = "FAIL"]
             doomed == Doomed(requests, failed, {t})
             F == {t} \cup doomed
  <2>1. /\ status' = [u \in Task |-> IF u \in doomed THEN "BLOCKED" ELSE failed[u]]
        /\ \A u \in doomed : u # t /\ status[u] = "READY"
        /\ \A u \in Task : status'[u] = "PASS" <=> status[u] = "PASS"
    BY <1>5, FailedStatus
  <2>2. \A u \in Task : failed[u] = IF u = t THEN "FAIL" ELSE status[u]
    BY <1>0
  <2>3. \A u \in Task : failed[u] = "READY" =>
          (u \in doomed <=> Prereq(requests, u) \cap ({t} \cup doomed) # {})
    BY DoomedExactly
  <2>4. requests' = requests
    BY <1>5 DEF Fails
  <2> HIDE DEF failed, doomed
  <2>5. \A u \in Task : status'[u] \in {"FAIL", "BLOCKED"} =>
          status[u] \in {"FAIL", "BLOCKED"} \/ u \in F
    BY <2>1, <2>2
  <2>6. \A u \in Task : status'[u] = "READY" =>
          status[u] = "READY" /\ Prereq(requests, u) \cap F = {}
    BY <2>1, <2>2, <2>3
  <2> HIDE DEF F
  <2>7. QED
    BY <1>2, <2>1, <2>4, <2>5, <2>6
<1>6. ASSUME NEW t \in Task, Accepts(t) \/ Reopens(t)
      PROVE  NoStrandedTask'
  <2>1. /\ UNCHANGED requests /\ status[t] = "RUNNING"
        /\ \A u \in Task : u # t => status'[u] = status[u]
        /\ status'[t] \in {"PASS", "READY"}
    BY <1>0, <1>6 DEF Accepts, Reopens
  <2> DEFINE F == {}
  <2>2. Prereq(requests, t) \cap F = {} /\ \A u \in Task : Prereq(requests, u) \cap F = {}
    OBVIOUS
  <2>3. /\ \A u \in Task : status[u] = "PASS" => status'[u] = "PASS"
        /\ \A u \in Task : status'[u] \in {"FAIL", "BLOCKED"} => status[u] \in {"FAIL", "BLOCKED"}
        /\ \A u \in Task : status'[u] = "READY" => status[u] \in {"RUNNING", "READY"}
    BY <2>1
  <2> HIDE DEF F
  <2>4. QED
    BY <1>2, <2>1, <2>2, <2>3
<1>7. CASE UNCHANGED <<status, requests, remaining>>
  BY <1>7 DEF NoStrandedTask
<1>8. QED
  BY <1>3, <1>4, <1>5, <1>6, <1>7, StepKinds DEF Hung, YieldingRun

-----------------------------------------------------------------------------
(* The invariants of the graph.                                            *)

\* What the steps of the graph need of the state before them, beside Inv.
GraphInv ==
  /\ IsFiniteSet(held)
  /\ GraphClosed
  /\ IndexExact
  /\ NoCircularWait
  /\ BlockJustified
  /\ Cardinality(Running(status)) <= Parallelism

LEMMA InitStatus ==
  ASSUME Init
  PROVE  /\ Present = Root /\ Running(status) = {} /\ requests = {} /\ held = {}
         /\ \A t \in Task : status[t] \in {"READY", "ABSENT"}
         /\ \A t \in Task : Prereq(requests, t) = Dep[t]
  BY GraphAssumption DEF Init, Present, Running, Prereq, Spawned

LEMMA InitGraph ==
  ASSUME Init
  PROVE  GraphInv
<1>1. IsFiniteSet(held) /\ Cardinality(Running(status)) <= Parallelism
  BY InitStatus, FS_EmptySet, RecipeAssumption
<1>2. GraphClosed
  BY InitStatus, GraphAssumption DEF GraphClosed
<1>3. IndexExact
  BY InitStatus DEF Init, IndexExact, Counted, Present
<1>4. NoCircularWait
  <2>1. [t \in Task |-> Prereq(requests, t)] = Dep
    BY InitStatus, GraphAssumption
  <2>2. QED
    BY <2>1, InitStatus, PlanAssumption DEF NoCircularWait
<1>5. BlockJustified
  BY InitStatus DEF BlockJustified
<1>6. QED
  BY <1>1, <1>2, <1>3, <1>4, <1>5 DEF GraphInv

LEMMA StepGraph ==
  ASSUME Inv, Inv', GraphInv, [Next]_vars
  PROVE  GraphInv'
<1>1. /\ IsFiniteSet(held) /\ GraphClosed /\ IndexExact /\ NoCircularWait
      /\ BlockJustified /\ Cardinality(Running(status)) <= Parallelism
  BY DEF GraphInv
<1>2. IsFiniteSet(held') /\ GraphClosed' /\ IndexExact'
  BY <1>1, HeldFinite, GraphStaysClosed, IndexStaysExact
<1>3. NoCircularWait' /\ BlockJustified'
  BY <1>1, StaysUncircular, BlocksStayJustified
<1>4. Cardinality(Running(status'))  <= Parallelism
  BY <1>1, StaysWithinParallelism
<1>5. QED
  BY <1>2, <1>3, <1>4 DEF GraphInv

\* The index, the runtime graph, the blocked tasks and the number of running ones are kept
\* together: claims count, walks and growth (schedulerIndex.ts, dynamicDag.ts) rely on all.
THEOREM GraphInvariance == Spec => []GraphInv
<1>1. Init => GraphInv
  BY InitGraph
<1>2. Inv /\ Inv' /\ GraphInv /\ [Next]_vars => GraphInv'
  BY StepGraph
<1>3. QED
  BY <1>1, <1>2, Invariance, PTL DEF Spec

\* The index never drifts: acceptances, expiries, recounts and every kind of growth
\* leave each task with exactly the number of prerequisites that have not passed.
THEOREM ExactIndex == Spec => []IndexExact
<1>1. GraphInv => IndexExact
  BY DEF GraphInv
<1>2. QED
  BY <1>1, GraphInvariance, PTL

\* No growth, by workers, policy or host and in any order, closes a circle of waits.
THEOREM NoCircleCloses == Spec => []NoCircularWait
<1>1. GraphInv => NoCircularWait
  BY DEF GraphInv
<1>2. QED
  BY <1>1, GraphInvariance, PTL

\* Whatever is BLOCKED is behind something that failed or is blocked itself.
THEOREM BlocksHaveCauses == Spec => []BlockJustified
<1>1. GraphInv => BlockJustified
  BY DEF GraphInv
<1>2. QED
  BY <1>1, GraphInvariance, PTL

\* Coordinators with free slots of their own never run more tasks together than the
\* recipe allows (claimMany counts what runs in the transaction that claims), even when a
\* patch has lowered the policy below what is running.
THEOREM NeverTooMany == Spec => [](Cardinality(Running(status)) <= Parallelism)
<1>1. GraphInv => Cardinality(Running(status)) <= Parallelism
  BY DEF GraphInv
<1>2. QED
  BY <1>1, GraphInvariance, PTL

\* Whatever the index says, a claim starts a task on accepted inputs only: what its
\* specification names and every child hung below it by then, whoever hung it there.
THEOREM StartsOnAcceptedInputs == Spec => StartsAccepted
<1>1. Inv /\ GraphInv /\ [Next]_vars => [StartStep]_vars
  BY StartsWhenAccepted DEF GraphInv
<1>2. QED
  BY <1>1, Invariance, GraphInvariance, PTL DEF Spec, StartsAccepted

\* A refill reckons with what all coordinators run and with the policy in force: a patch
\* below what is running stops further claims until enough has ended.
THEOREM PolicyBindsClaims == Spec => ClaimsWithinPolicy
<1>1. Inv /\ GraphInv /\ [Next]_vars => [PolicyStep]_vars
  BY StartsWithinPolicy DEF GraphInv
<1>2. QED
  BY <1>1, Invariance, GraphInvariance, PTL DEF Spec, ClaimsWithinPolicy

\* Every failure, by report or by expiry, blocks in its own transaction all READY tasks
\* that wait for it, however indirectly, and nothing else (blockDependents).
THEOREM FailuresReachDependents == Spec => FailuresSpread
<1>1. Inv /\ GraphInv /\ [Next]_vars => [FailureStep]_vars
  BY FailuresReach DEF GraphInv
<1>2. QED
  BY <1>1, Invariance, GraphInvariance, PTL DEF Spec, FailuresSpread

\* Where growth never raises an allocation, what runs stays within the recipe's
\* parallelism and in-flight context: a sum over the running tasks, however claims
\* of several coordinators, policy patches, expiries and growth interleave.
THEOREM StaysWithinBudget == ASSUME AllocationsFall PROVE Spec => []WithinBudget
<1>1. Init => ContextCapped
  <2> SUFFICES ASSUME Init PROVE ContextCapped
    OBVIOUS
  <2>1. SumOf(Budget[Present], Running(status)) = 0
    BY InitStatus, SumEmpty
  <2>2. QED
    BY <2>1, CapIsSum, RecipeAssumption DEF CapAgrees
<1>2. Inv /\ GraphInv /\ ContextCapped /\ [Next]_vars => ContextCapped'
  BY StaysWithinContext DEF GraphInv
<1>3. GraphInv /\ ContextCapped => WithinBudget
  BY DEF GraphInv, WithinBudget
<1>4. QED
  BY <1>1, <1>2, <1>3, Invariance, GraphInvariance, PTL DEF Spec

\* Where every spawn yields and no discriminator is added, what has started or was
\* accepted has had all it waits for accepted, the children it asked for included.
THEOREM StartedIsSettled == ASSUME YieldingRun PROVE Spec => []StartedSettled
<1>1. Init => StartedSettled
  BY InitStatus DEF StartedSettled
<1>2. Inv /\ GraphInv /\ StartedSettled /\ [Next]_vars => StartedSettled'
  BY StartedStaysSettled DEF GraphInv
<1>3. QED
  BY <1>1, <1>2, Invariance, GraphInvariance, PTL DEF Spec

\* A parent is accepted after its children.
THEOREM ParentsAfterChildren == ASSUME YieldingRun PROVE Spec => []ChildrenFirst
<1>1. StartedSettled => ChildrenFirst
  BY DEF StartedSettled, ChildrenFirst, Prereq
<1>2. QED
  BY <1>1, StartedIsSettled, PTL

\* No READY task is left behind a failure: blockDependents has reached every one of
\* them, in every order of failures, expiries and growth.
THEOREM NobodyIsStranded == ASSUME YieldingRun PROVE Spec => []NoStrandedTask
<1>1. Init => NoStrandedTask
  <2> SUFFICES ASSUME Init PROVE NoStrandedTask
    OBVIOUS
  <2>1. \A t \in Task : status[t] = "READY" => Dep[t] \subseteq Task
    BY GraphAssumption
  <2>2. QED
    BY <2>1, InitStatus DEF NoStrandedTask
<1>2. Inv /\ GraphInv /\ StartedSettled /\ NoStrandedTask /\ [Next]_vars => NoStrandedTask'
  BY NobodyGetsStranded DEF GraphInv
<1>3. QED
  BY <1>1, <1>2, Invariance, GraphInvariance, StartedIsSettled, PTL DEF Spec
=============================================================================
