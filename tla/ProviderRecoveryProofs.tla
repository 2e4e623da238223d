------------------------- MODULE ProviderRecoveryProofs -------------------------
(* One probe, one backoff and no lost wakeup, for any tasks, requests and delays. *)
EXTENDS ProviderRecovery, FiniteSetTheorems, SequenceTheorems, WellFoundedInduction, TLAPS

Failed == {j \in DOMAIN requests : requests[j].outcome = "FAILURE"}

\* A request belongs to the epoch it was admitted in, which its failure ends.
Epochs ==
  \A i \in DOMAIN requests :
    requests[i].epoch <= epoch /\ (i \in Failed => requests[i].epoch < epoch)

\* An answer is judged once.
Pending ==
  \A i \in DOMAIN requests :
    call[i] \in {"sent", "answered", "failed"} => requests[i].outcome = "NONE"

\* The cooldown covers every pause, and a request of this epoch was sent after it.
Paused ==
  /\ retryAt <= cooldown
  /\ \A i \in Failed : requests[i].wake <= cooldown
  /\ \A i \in DOMAIN requests :
       requests[i].started <= now /\ (requests[i].epoch = epoch => cooldown <= requests[i].started)

CircuitInv == TypeOK /\ Epochs /\ Pending /\ Paused /\ OneProbe /\ BackoffPerRound

-----------------------------------------------------------------------------
(* Requests and the circuit.                                               *)

Steps   == {"sent", "answered", "failed", "judged", "over"}
Pends   == {"sent", "answered", "failed"}

\* What no step changes of a request.
Same(i) ==
  /\ requests'[i].task = requests[i].task /\ requests'[i].fence = requests[i].fence
  /\ requests'[i].started = requests[i].started /\ requests'[i].deadline = requests[i].deadline
  /\ requests'[i].epoch = requests[i].epoch /\ (requests'[i].active => requests[i].active)

\* A step without a verdict or a new request.
Unjudged ==
  /\ DOMAIN requests' = DOMAIN requests
  /\ \A i \in DOMAIN requests :
       /\ Same(i)
       /\ requests'[i].outcome = requests[i].outcome /\ requests'[i].wake = requests[i].wake
       /\ call'[i] \in Pends => call[i] \in Pends

\* The types, one request at a time.
LEMMA RequestTyped ==
  ASSUME RequestsOK
  PROVE  /\ Len(requests) \in Nat /\ DOMAIN requests = 1..Len(requests) /\ DOMAIN call = DOMAIN requests
         /\ \A i \in DOMAIN requests :
              /\ requests[i] \in Request /\ requests[i].task \in Task /\ requests[i].fence \in Nat
              /\ requests[i].started \in Nat /\ requests[i].deadline \in Nat
              /\ requests[i].active \in BOOLEAN /\ requests[i].epoch \in Nat
              /\ requests[i].outcome \in Outcome /\ requests[i].wake \in Nat
              /\ call[i] \in Steps
<1>1. /\ Len(requests) \in Nat /\ DOMAIN requests = 1..Len(requests)
      /\ requests \in [1..Len(requests) -> Request]
  BY LenProperties DEF RequestsOK
<1>2. DOMAIN call = DOMAIN requests /\ call \in [1..Len(requests) -> Steps]
  BY <1>1, LenProperties DEF RequestsOK, Steps
<1>3. ASSUME NEW i \in DOMAIN requests
      PROVE  /\ requests[i] \in Request /\ requests[i].task \in Task /\ requests[i].fence \in Nat
             /\ requests[i].started \in Nat /\ requests[i].deadline \in Nat
             /\ requests[i].active \in BOOLEAN /\ requests[i].epoch \in Nat
             /\ requests[i].outcome \in Outcome /\ requests[i].wake \in Nat
             /\ call[i] \in Steps
  <2>1. requests[i] \in Request /\ call[i] \in Steps
    BY <1>1, <1>2
  <2> QED BY <2>1 DEF Request
<1> QED BY <1>1, <1>2, <1>3

\* One request is written to.
LEMMA RequestWritten ==
  ASSUME RequestsOK, NEW i \in DOMAIN requests, NEW r \in Request, NEW c \in Steps,
         requests' = [requests EXCEPT ![i] = r], call' = [call EXCEPT ![i] = c]
  PROVE  /\ RequestsOK' /\ DOMAIN requests' = DOMAIN requests
         /\ \A j \in DOMAIN requests : requests'[j] = IF j = i THEN r ELSE requests[j]
         /\ \A j \in DOMAIN requests : call'[j] = IF j = i THEN c ELSE call[j]
<1>1. /\ requests \in Seq(Request) /\ call \in Seq(Steps) /\ Len(call) = Len(requests)
      /\ DOMAIN requests = 1..Len(requests) /\ i \in 1..Len(requests) /\ i \in 1..Len(call)
  BY RequestTyped DEF RequestsOK, Steps
<1>2. /\ requests' \in Seq(Request) /\ Len(requests') = Len(requests)
      /\ \A j \in 1..Len(requests) : requests'[j] = IF j = i THEN r ELSE requests[j]
  BY <1>1, ExceptSeq
<1>3. /\ call' \in Seq(Steps) /\ Len(call') = Len(call)
      /\ \A j \in 1..Len(call) : call'[j] = IF j = i THEN c ELSE call[j]
  BY <1>1, ExceptSeq
<1>4. DOMAIN requests' = 1..Len(requests')
  BY <1>2, LenProperties
<1> QED BY <1>1, <1>2, <1>3, <1>4 DEF RequestsOK, Steps

\* The sweep changes nothing but permits.
LEMMA SweptTyped ==
  ASSUME RequestsOK
  PROVE  /\ Swept \in Seq(Request) /\ Len(Swept) = Len(requests) /\ DOMAIN Swept = DOMAIN requests
         /\ \A i \in DOMAIN requests :
              /\ Swept[i].task = requests[i].task /\ Swept[i].fence = requests[i].fence
              /\ Swept[i].started = requests[i].started /\ Swept[i].deadline = requests[i].deadline
              /\ Swept[i].epoch = requests[i].epoch /\ Swept[i].outcome = requests[i].outcome
              /\ Swept[i].wake = requests[i].wake /\ Swept[i].active = (i \in Live)
<1>1. /\ Len(requests) \in Nat /\ DOMAIN requests = 1..Len(requests)
      /\ \A i \in DOMAIN requests : requests[i] \in Request
  BY RequestTyped
<1>2. ASSUME NEW i \in DOMAIN requests
      PROVE  LET r == [requests[i] EXCEPT !.active = i \in Live]
             IN  /\ r \in Request /\ r.task = requests[i].task /\ r.fence = requests[i].fence
                 /\ r.started = requests[i].started /\ r.deadline = requests[i].deadline
                 /\ r.epoch = requests[i].epoch /\ r.outcome = requests[i].outcome
                 /\ r.wake = requests[i].wake /\ r.active = (i \in Live)
  <2>1. requests[i] \in Request /\ (i \in Live) \in BOOLEAN
    BY <1>1
  <2> QED BY <2>1 DEF Request
<1>3. /\ Swept \in [1..Len(requests) -> Request]
      /\ \A i \in DOMAIN requests : Swept[i] = [requests[i] EXCEPT !.active = i \in Live]
  BY <1>1, <1>2 DEF Swept
<1>4. Swept \in Seq(Request) /\ Len(Swept) = Len(requests) /\ DOMAIN Swept = DOMAIN requests
  BY <1>1, <1>3
<1> QED BY <1>2, <1>3, <1>4

\* One request is added to the swept ones.
LEMMA RequestAdded ==
  ASSUME RequestsOK, NEW r \in Request, requests' = Append(Swept, r), call' = Append(call, "sent")
  PROVE  LET n == Len(requests) + 1
         IN  /\ RequestsOK' /\ DOMAIN requests' = DOMAIN requests \cup {n}
             /\ n \notin DOMAIN requests /\ n \in Nat
             /\ requests'[n] = r /\ call'[n] = "sent"
             /\ \A i \in DOMAIN requests : requests'[i] = Swept[i] /\ call'[i] = call[i]
<1> DEFINE n == Len(requests) + 1
<1>1. /\ Len(requests) \in Nat /\ DOMAIN requests = 1..Len(requests)
      /\ call \in Seq(Steps) /\ Len(call) = Len(requests) /\ "sent" \in Steps
  BY RequestTyped DEF RequestsOK, Steps
<1>2. /\ requests' \in Seq(Request) /\ Len(requests') = n /\ requests'[n] = r
      /\ \A i \in 1..Len(requests) : requests'[i] = Swept[i]
  BY <1>1, SweptTyped, AppendProperties
<1>3. /\ call' \in Seq(Steps) /\ Len(call') = n /\ call'[n] = "sent"
      /\ \A i \in 1..Len(requests) : call'[i] = call[i]
  BY <1>1, AppendProperties
<1>4. DOMAIN requests' = 1..n
  BY <1>2, LenProperties
<1> QED BY <1>1, <1>2, <1>3, <1>4 DEF RequestsOK, Steps

\* Of the requests under way one is the first to end.
LEMMA ProbeDeadlineLive ==
  ASSUME TypeOK
  PROVE  \/ Live = {} /\ ProbeDeadline = now
         \/ \E i \in Live : ProbeDeadline = requests[i].deadline /\ ProbeDeadline > now
<1>1. CASE Live = {}
  BY <1>1 DEF ProbeDeadline
<1>2. CASE Live # {}
  <2> DEFINE T == {requests[i].deadline : i \in Live}
             IsFirst(i) == \A j \in Live : requests[i].deadline <= requests[j].deadline
  <2>1. \A i \in Live : requests[i].deadline \in Nat /\ requests[i].deadline > now
    BY RequestTyped DEF TypeOK, Live
  <2>2. T \subseteq Nat /\ T # {}
    BY <1>2, <2>1
  <2>3. PICK x \in T : \A y \in T : ~(<<y, x>> \in OpToRel(<, Nat))
    BY <2>2, WFMin, NatLessThanWellFounded
  <2>4. \A y \in T : ~(y < x)
    BY <2>2, <2>3 DEF OpToRel
  <2>5. PICK i \in Live : x = requests[i].deadline
    OBVIOUS
  <2>6. IsFirst(i)
    BY <2>1, <2>4, <2>5
  <2> DEFINE first == CHOOSE k \in Live : IsFirst(k)
  <2>7. first \in Live
    BY <2>6
  <2>8. ProbeDeadline = requests[first].deadline
    BY <1>2 DEF ProbeDeadline
  <2> QED BY <2>1, <2>7, <2>8
<1> QED BY <1>1, <1>2

\* Before the cooldown is over, or while the probe is under way, nothing is admitted.
LEMMA AdmissionBounds ==
  ASSUME TypeOK
  PROVE  /\ Admission \in Nat /\ now \in Nat /\ Cooling \in Nat /\ Admission >= now
         /\ Admission <= now => Cooling <= now /\ (failures > 0 => Live = {})
         /\ Admission <= Later(now, Cooling) \/
              (failures > 0 /\ \E i \in Live : requests[i].deadline = Admission)
<1>1. now \in Nat /\ Cooling \in Nat
  BY DEF TypeOK, CircuitOK, Cooling, Later
<1>2. \A i \in Live : requests[i].deadline \in Nat
  BY RequestTyped DEF TypeOK, Live
<1>3. CASE Cooling > now
  BY <1>1, <1>3 DEF Admission, Later
<1>4. CASE ~(Cooling > now) /\ failures > 0
  BY <1>1, <1>2, <1>4, ProbeDeadlineLive DEF Admission, Later
<1>5. CASE ~(Cooling > now) /\ ~(failures > 0)
  BY <1>1, <1>5 DEF Admission, Later
<1> QED BY <1>3, <1>4, <1>5

\* The first states are consistent.
LEMMA InitCircuit == Init => CircuitInv
<1> SUFFICES ASSUME Init PROVE CircuitInv
  OBVIOUS
<1>1. requests = <<>> /\ call = <<>> /\ DOMAIN requests = {} /\ failures = 0
  BY DEF Init
<1>2. RequestsOK
  BY <1>1, EmptySeq DEF RequestsOK
<1>3. TypeOK
  BY <1>2, ProviderAssumption DEF Init, TypeOK, CircuitOK, TasksOK, MemoryOK
<1>4. Epochs /\ Pending
  BY <1>1 DEF Epochs, Pending
<1>5. Paused
  BY <1>1 DEF Init, Paused, Failed
<1>6. OneProbe
  BY <1>1 DEF OneProbe
<1>7. BackoffPerRound
  <2>1. {requests[i].epoch : i \in Failed} = {}
    BY <1>1 DEF Failed
  <2>2. Cardinality({requests[i].epoch : i \in Failed}) = 0
    BY <2>1, FS_EmptySet
  <2> QED BY <1>1, <2>2 DEF BackoffPerRound, Failed
<1> QED BY <1>3, <1>4, <1>5, <1>6, <1>7 DEF CircuitInv

\* The epochs that failed are counted.
LEMMA RoundsCounted ==
  ASSUME TypeOK, Epochs
  PROVE  /\ IsFiniteSet({requests[i].epoch : i \in Failed})
         /\ Cardinality({requests[i].epoch : i \in Failed}) \in Nat
<1>1. {requests[i].epoch : i \in Failed} \subseteq 0..epoch
  BY RequestTyped DEF TypeOK, CircuitOK, Epochs, Failed
<1>2. IsFiniteSet(0..epoch)
  BY FS_Interval DEF TypeOK, CircuitOK
<1> QED BY <1>1, <1>2, FS_Subset, FS_CardinalityType

\* Fewer requests are under way, when no new one is.
LEMMA FewerLive ==
  ASSUME TypeOK, now' >= now, now' \in Nat, DOMAIN requests' = DOMAIN requests,
         \A i \in DOMAIN requests : Same(i)
  PROVE  Live' \subseteq Live
BY RequestTyped DEF TypeOK, CircuitOK, Live, Same

\* A step without a verdict or a new request leaves the circuit consistent.
LEMMA UnjudgedCircuit ==
  ASSUME CircuitInv, TypeOK', Unjudged, UNCHANGED circuit, now' >= now
  PROVE  CircuitInv'
<1>1. now \in Nat /\ now' \in Nat /\ UNCHANGED <<failures, epoch, retryAt, cooldown>>
  BY DEF CircuitInv, TypeOK, CircuitOK, circuit
<1>2. /\ DOMAIN requests' = DOMAIN requests
      /\ \A i \in DOMAIN requests :
           /\ requests'[i].epoch = requests[i].epoch /\ requests'[i].started = requests[i].started
           /\ requests'[i].outcome = requests[i].outcome /\ requests'[i].wake = requests[i].wake
           /\ requests[i].started \in Nat
  BY RequestTyped DEF Unjudged, Same, CircuitInv, TypeOK
<1>3. Failed' = Failed
  BY <1>2 DEF Failed
<1>4. Epochs'
  BY <1>1, <1>2, <1>3 DEF CircuitInv, Epochs
<1>5. Pending'
  BY <1>2 DEF CircuitInv, Pending, Unjudged, Pends
<1>6. Paused'
  BY <1>1, <1>2, <1>3 DEF CircuitInv, Paused, Failed
<1>7. OneProbe'
  <2>1. Live' \subseteq Live
    BY <1>1, FewerLive DEF CircuitInv, Unjudged
  <2> SUFFICES ASSUME failures > 0, NEW i \in Live', requests'[i].epoch = epoch
               PROVE  Live' = {i}
    BY <1>1 DEF OneProbe
  <2>2. i \in Live /\ requests[i].epoch = epoch
    BY <1>2, <2>1 DEF Live
  <2> QED BY <2>1, <2>2 DEF CircuitInv, OneProbe
<1>8. BackoffPerRound'
  <2>1. {requests[i].epoch : i \in Failed}' = {requests[i].epoch : i \in Failed}
    BY <1>2, <1>3 DEF Failed
  <2> QED BY <1>1, <2>1 DEF CircuitInv, BackoffPerRound, Failed
<1> QED BY <1>4, <1>5, <1>6, <1>7, <1>8 DEF CircuitInv

\* An attempt claims a task, loses it or gives it up; time passes.
LEMMA TaskMoves ==
  ASSUME CircuitInv,
         \/ \E t \in Task : Claim(t) \/ Exhaust(t) \/ Turn(t) \/ Queue(t) \/ Expire(t) \/ Crash(t)
         \/ \E d \in thrown : Persist(d)
         \/ Tick
  PROVE  TypeOK' /\ Unjudged /\ UNCHANGED circuit /\ now' >= now
<1> USE DEF CircuitInv
<1>1. CircuitOK /\ RequestsOK /\ TasksOK /\ MemoryOK /\ losses \in 0..MaxLosses /\ now \in Nat
  BY DEF TypeOK, CircuitOK
<1>2. ASSUME UNCHANGED <<requests, call>> PROVE RequestsOK' /\ Unjudged
  BY <1>1, <1>2 DEF RequestsOK, Unjudged, Same
<1>3. ASSUME UNCHANGED <<now, circuit>> PROVE CircuitOK' /\ now' >= now
  BY <1>1, <1>3 DEF CircuitOK, circuit
<1>4. ASSUME requests' = Swept, UNCHANGED call PROVE RequestsOK' /\ Unjudged
  BY <1>1, <1>4, SweptTyped DEF RequestsOK, Unjudged, Same, Live
<1>5. ASSUME NEW t \in Task, Claim(t) \/ Exhaust(t) \/ Expire(t)
      PROVE  TypeOK' /\ Unjudged /\ UNCHANGED circuit /\ now' >= now
  <2>1. UNCHANGED <<now, circuit, requests, call, waits, wake, thrown>>
    BY <1>5 DEF Claim, Exhaust, Expire
  <2>2. TasksOK'
    BY <1>1, <1>5, <2>1 DEF Claim, Exhaust, Expire, TasksOK
  <2>3. MemoryOK'
    BY <1>1, <1>5, <2>1 DEF Claim, Exhaust, Expire, MemoryOK
  <2>4. losses' \in 0..MaxLosses
    BY <1>1, <1>5, ProviderAssumption DEF Claim, Exhaust, Expire
  <2> QED BY <1>2, <1>3, <2>1, <2>2, <2>3, <2>4 DEF TypeOK
<1>6. ASSUME NEW t \in Task, Turn(t)
      PROVE  TypeOK' /\ Unjudged /\ UNCHANGED circuit /\ now' >= now
  <2>1. UNCHANGED <<now, circuit, status, fence, wake, call, losses>> /\ requests' = Swept
    BY <1>6 DEF Turn, tasks
  <2>2. Admission \in Nat /\ fence[t] \in Nat
    BY <1>1, AdmissionBounds DEF TasksOK
  <2>3. [fence |-> fence[t], wake |-> Admission] \in [fence : Nat, wake : Nat]
    BY <2>2
  <2>4. TasksOK'
    BY <1>1, <1>6, <2>1, <2>3 DEF Turn, TasksOK
  <2>5. [task |-> t, fence |-> fence[t], wake |-> Admission] \in Deferral
    BY <2>2 DEF Deferral
  <2>6. MemoryOK'
    BY <1>1, <1>6, <2>5 DEF Turn, MemoryOK
  <2> QED BY <1>1, <1>3, <1>4, <2>1, <2>4, <2>6 DEF TypeOK
<1>7. ASSUME NEW t \in Task, Queue(t)
      PROVE  TypeOK' /\ Unjudged /\ UNCHANGED circuit /\ now' >= now
  <2>1. /\ UNCHANGED <<now, circuit, status, fence, wake, asking, thrown, call, losses>>
        /\ requests' = Swept
    BY <1>7 DEF Queue, tasks, memory
  <2>2. TasksOK'
    BY <1>1, <1>7, <2>1 DEF Queue, TasksOK
  <2>3. MemoryOK'
    BY <1>1, <2>1 DEF MemoryOK
  <2> QED BY <1>1, <1>3, <1>4, <2>1, <2>2, <2>3 DEF TypeOK
<1>8. ASSUME NEW t \in Task, Crash(t)
      PROVE  TypeOK' /\ Unjudged /\ UNCHANGED circuit /\ now' >= now
  <2>1. UNCHANGED <<now, circuit, requests, waits, fence, wake>>
    BY <1>8 DEF Crash
  <2>2. TasksOK'
    BY <1>1, <1>8, <2>1 DEF Crash, TasksOK
  <2>3. MemoryOK'
    BY <1>1, <1>8 DEF Crash, MemoryOK
  <2>4. losses' \in 0..MaxLosses
    BY <1>1, <1>8, ProviderAssumption DEF Crash
  <2>5. /\ call' \in [1..Len(requests) -> Steps]
        /\ \A i \in DOMAIN requests : call'[i] \in {call[i], "over"}
    <3>1. /\ Len(requests) \in Nat /\ DOMAIN call = 1..Len(requests)
          /\ DOMAIN requests = 1..Len(requests)
          /\ \A i \in 1..Len(requests) : call[i] \in Steps /\ "over" \in Steps
      BY <1>1, RequestTyped DEF Steps
    <3>2. call' = [i \in DOMAIN call |->
             IF requests[i].task = t /\ requests[i].fence = fence[t] THEN "over" ELSE call[i]]
      BY <1>8 DEF Crash
    <3> QED BY <3>1, <3>2
  <2>6. RequestsOK'
    <3>1. Len(requests) \in Nat
      BY <1>1, RequestTyped
    <3>2. call' \in Seq(Steps) /\ Len(call') = Len(requests)
      BY <2>5, <3>1
    <3> QED BY <1>1, <2>1, <3>2 DEF RequestsOK, Steps
  <2>7. Unjudged
    BY <2>1, <2>5 DEF Unjudged, Same, Pends
  <2> QED BY <1>3, <2>1, <2>2, <2>3, <2>4, <2>6, <2>7 DEF TypeOK
<1>9. ASSUME NEW d \in thrown, Persist(d)
      PROVE  TypeOK' /\ Unjudged /\ UNCHANGED circuit /\ now' >= now
  <2>1. UNCHANGED <<now, circuit, requests, call, waits, fence, asking, losses>>
    BY <1>9 DEF Persist
  <2>2. d \in Deferral /\ d.task \in Task /\ d.wake \in Nat
    BY <1>1 DEF MemoryOK, Deferral
  <2>3. Later(now, Earlier(d.wake, WaitDeadline(d))) \in Nat
    BY <1>1, <2>2, AdmissionBounds DEF WaitDeadline, Later, Earlier
  <2>4. TasksOK'
    BY <1>1, <1>9, <2>1, <2>2, <2>3 DEF Persist, TasksOK
  <2>5. MemoryOK'
    BY <1>1, <1>9 DEF Persist, MemoryOK
  <2> QED BY <1>1, <1>2, <1>3, <2>1, <2>4, <2>5 DEF TypeOK
<1>10. ASSUME Tick
       PROVE  TypeOK' /\ Unjudged /\ UNCHANGED circuit /\ now' >= now
  <2>1. /\ UNCHANGED <<circuit, requests, waits, status, fence, wake, asking, call, thrown, losses>>
        /\ now' = now + 1
    BY <1>10 DEF Tick, tasks, memory
  <2>2. CircuitOK' /\ now' >= now
    BY <1>1, <2>1 DEF CircuitOK, circuit
  <2>3. TasksOK' /\ MemoryOK'
    BY <1>1, <2>1 DEF TasksOK, MemoryOK
  <2> QED BY <1>1, <1>2, <2>1, <2>2, <2>3 DEF TypeOK
<1> QED BY <1>5, <1>6, <1>7, <1>8, <1>9, <1>10

\* Waking a task early keeps the types.
LEMMA WakeTyped ==
  ASSUME TypeOK, NEW time \in Nat, WakeWaiters(time)
  PROVE  /\ wake' \in [Task -> Nat]
         /\ \A t \in Task : wake'[t] = IF t \in Waiting THEN Earlier(wake[t], time) ELSE wake[t]
BY DEF TypeOK, TasksOK, WakeWaiters, Earlier

\* The reply of a request is recorded.
LEMMA CompletionMoves ==
  ASSUME CircuitInv, NEW i \in DOMAIN requests,
         \/ \E verdict \in {"answered", "failed"} : Complete(i, verdict)
         \/ CompleteSilently(i) \/ CompleteJudged(i)
  PROVE  /\ TypeOK' /\ Unjudged /\ UNCHANGED <<circuit, now, waits, fence, wake, thrown>>
         /\ \A j \in DOMAIN requests : j # i => call'[j] = call[j]
<1> DEFINE r == [requests[i] EXCEPT !.active = FALSE]
<1>1. /\ CircuitOK /\ RequestsOK /\ TasksOK /\ MemoryOK /\ losses \in 0..MaxLosses
      /\ requests[i].task \in Task /\ requests[i] \in Request
  BY RequestTyped DEF CircuitInv, TypeOK
<1>2. /\ UNCHANGED <<circuit, now, waits, fence, wake, thrown, losses>>
      /\ requests' = [requests EXCEPT ![i] = r]
  BY DEF Complete, CompleteSilently, CompleteJudged, Completed, tasks
<1>3. \E c \in Steps : call' = [call EXCEPT ![i] = c] /\ (c \in Pends => call[i] \in Pends)
  <2>1. CASE \E verdict \in {"answered", "failed"} : Complete(i, verdict)
    BY <2>1 DEF Complete, Steps, Pends
  <2>2. CASE CompleteSilently(i) \/ CompleteJudged(i)
    BY <2>2 DEF CompleteSilently, CompleteJudged, Steps, Pends
  <2> QED BY <2>1, <2>2
<1>4. r \in Request
  BY <1>1 DEF Request
<1>5. /\ r.task = requests[i].task /\ r.fence = requests[i].fence /\ r.started = requests[i].started
      /\ r.deadline = requests[i].deadline /\ r.epoch = requests[i].epoch /\ ~r.active
      /\ r.outcome = requests[i].outcome /\ r.wake = requests[i].wake
  BY <1>1 DEF Request
<1> HIDE DEF r
<1>6. /\ RequestsOK' /\ DOMAIN requests' = DOMAIN requests
      /\ \A j \in DOMAIN requests : requests'[j] = IF j = i THEN r ELSE requests[j]
      /\ \A j \in DOMAIN requests : j # i => call'[j] = call[j]
      /\ call'[i] \in Pends => call[i] \in Pends
  <2> SUFFICES ASSUME NEW c \in Steps, call' = [call EXCEPT ![i] = c],
                      c \in Pends => call[i] \in Pends
               PROVE  /\ RequestsOK' /\ DOMAIN requests' = DOMAIN requests
                      /\ \A j \in DOMAIN requests : requests'[j] = IF j = i THEN r ELSE requests[j]
                      /\ \A j \in DOMAIN requests : j # i => call'[j] = call[j]
                      /\ call'[i] \in Pends => call[i] \in Pends
    BY <1>3
  <2>1. RequestsOK /\ r \in Request /\ requests' = [requests EXCEPT ![i] = r]
    BY <1>1, <1>2, <1>4
  <2>2. /\ RequestsOK' /\ DOMAIN requests' = DOMAIN requests
        /\ \A j \in DOMAIN requests : requests'[j] = IF j = i THEN r ELSE requests[j]
        /\ \A j \in DOMAIN requests : call'[j] = IF j = i THEN c ELSE call[j]
    BY <2>1, RequestWritten
  <2> QED BY <2>2
<1>7. Unjudged
  <2>1. ASSUME NEW j \in DOMAIN requests
        PROVE  /\ Same(j)
               /\ requests'[j].outcome = requests[j].outcome /\ requests'[j].wake = requests[j].wake
               /\ call'[j] \in Pends => call[j] \in Pends
    <3>1. CASE j = i
      <4>1. requests'[j] = r
        BY <1>6, <3>1
      <4>2. ~requests'[j].active
        BY <1>5, <4>1
      <4> QED BY <1>5, <1>6, <3>1, <4>1, <4>2 DEF Same
    <3>2. CASE j # i
      BY <1>6, <3>2 DEF Same
    <3> QED BY <3>1, <3>2
  <2> QED BY <1>6, <2>1 DEF Unjudged
<1>8. asking' \subseteq Task /\ status' \in [Task -> {"READY", "RUNNING", "ENDED"}]
  BY <1>1 DEF Complete, CompleteSilently, CompleteJudged, Served, MemoryOK, TasksOK, tasks
<1>9. TasksOK' /\ MemoryOK' /\ CircuitOK'
  BY <1>1, <1>2, <1>8 DEF TasksOK, MemoryOK, CircuitOK, circuit
<1> QED BY <1>1, <1>2, <1>6, <1>7, <1>9 DEF TypeOK

\* A verdict is recorded with its request.
LEMMA VerdictWritten ==
  ASSUME CircuitInv, NEW i \in DOMAIN requests, NEW r \in Request, requests' = [requests EXCEPT ![i] = r],
         call' = [call EXCEPT ![i] = After(i)],
         r.task = requests[i].task, r.fence = requests[i].fence, r.started = requests[i].started,
         r.deadline = requests[i].deadline, r.epoch = requests[i].epoch, r.active = requests[i].active
  PROVE  /\ RequestsOK' /\ DOMAIN requests' = DOMAIN requests
         /\ \A j \in DOMAIN requests : Same(j)
         /\ \A j \in DOMAIN requests : requests'[j] = IF j = i THEN r ELSE requests[j]
         /\ \A j \in DOMAIN requests : call'[j] = IF j = i THEN After(i) ELSE call[j]
         /\ After(i) \in {"judged", "over"}
         /\ Pending'
<1>1. After(i) \in Steps /\ After(i) \in {"judged", "over"}
  BY DEF After, Steps
<1>2. /\ RequestsOK' /\ DOMAIN requests' = DOMAIN requests
      /\ \A j \in DOMAIN requests : requests'[j] = IF j = i THEN r ELSE requests[j]
      /\ \A j \in DOMAIN requests : call'[j] = IF j = i THEN After(i) ELSE call[j]
  BY <1>1, RequestWritten DEF CircuitInv, TypeOK
<1>3. \A j \in DOMAIN requests : Same(j)
  BY <1>2 DEF Same
<1>4. Pending'
  BY <1>1, <1>2 DEF CircuitInv, Pending
<1> QED BY <1>1, <1>2, <1>3, <1>4

\* A success closes the circuit when it is of this epoch.
LEMMA SuccessCircuit ==
  ASSUME CircuitInv, NEW i \in DOMAIN requests, Success(i)
  PROVE  /\ CircuitInv' /\ DOMAIN requests' = DOMAIN requests /\ \A j \in DOMAIN requests : Same(j)
         /\ requests[i].outcome = "NONE" /\ requests'[i].outcome = "SUCCESS"
         /\ \A j \in DOMAIN requests : j # i => requests'[j] = requests[j] /\ call'[j] = call[j]
<1> DEFINE r == [requests[i] EXCEPT !.outcome = "SUCCESS"]
<1>1. /\ CircuitOK /\ RequestsOK /\ TasksOK /\ MemoryOK /\ losses \in 0..MaxLosses
      /\ requests[i].task \in Task /\ requests[i] \in Request /\ now \in Nat
  BY RequestTyped DEF CircuitInv, TypeOK, CircuitOK
<1>2. /\ UNCHANGED <<now, epoch, cooldown, waits, fence, thrown, losses>>
      /\ requests' = [requests EXCEPT ![i] = r] /\ call' = [call EXCEPT ![i] = After(i)]
      /\ failures' \in {0, failures} /\ retryAt' \in {0, retryAt}
      /\ requests[i].outcome = "NONE"
  BY DEF Success, CircuitInv, Pending
<1>3. /\ r \in Request /\ r.outcome = "SUCCESS"
      /\ r.task = requests[i].task /\ r.fence = requests[i].fence /\ r.started = requests[i].started
      /\ r.deadline = requests[i].deadline /\ r.epoch = requests[i].epoch
      /\ r.active = requests[i].active /\ r.wake = requests[i].wake
  BY <1>1 DEF Request, Outcome
<1> HIDE DEF r
<1>4. /\ RequestsOK' /\ DOMAIN requests' = DOMAIN requests /\ \A j \in DOMAIN requests : Same(j)
      /\ \A j \in DOMAIN requests : requests'[j] = IF j = i THEN r ELSE requests[j]
      /\ \A j \in DOMAIN requests : call'[j] = IF j = i THEN After(i) ELSE call[j]
      /\ Pending'
  BY <1>2, <1>3, VerdictWritten
<1>5. \A j \in DOMAIN requests :
        /\ requests'[j].outcome = IF j = i THEN "SUCCESS" ELSE requests[j].outcome
        /\ requests'[j].wake = requests[j].wake
  BY <1>3, <1>4
<1>6. Failed' = Failed
  BY <1>2, <1>4, <1>5 DEF Failed
<1>7. TypeOK'
  <2>1. CircuitOK'
    BY <1>1, <1>2, ProviderAssumption DEF CircuitOK
  <2>2. asking' \subseteq Task /\ status' \in [Task -> {"READY", "RUNNING", "ENDED"}]
    BY <1>1 DEF Success, Served, MemoryOK, TasksOK
  <2>3. wake' \in [Task -> Nat]
    <3>1. CASE WakeWaiters(now)
      BY <1>1, <3>1, WakeTyped DEF CircuitInv
    <3>2. CASE UNCHANGED wake
      BY <1>1, <3>2 DEF TasksOK
    <3> QED BY <3>1, <3>2 DEF Success
  <2> QED BY <1>1, <1>2, <1>4, <2>1, <2>2, <2>3 DEF TypeOK, TasksOK, MemoryOK
<1>8. Epochs'
  BY <1>2, <1>4, <1>6 DEF CircuitInv, Epochs, Same
<1>9. Paused'
  BY <1>1, <1>2, <1>4, <1>5, <1>6 DEF CircuitInv, Paused, Same, Failed, CircuitOK
<1>10. OneProbe'
  <2>1. Live' \subseteq Live
    BY <1>1, <1>2, <1>4, FewerLive DEF CircuitInv
  <2> SUFFICES ASSUME failures' > 0, NEW k \in Live', requests'[k].epoch = epoch
               PROVE  Live' = {k}
    BY <1>2 DEF OneProbe
  <2>2. k \in Live /\ requests[k].epoch = epoch /\ failures > 0
    BY <1>2, <1>4, <2>1 DEF Live, Same
  <2> QED BY <2>1, <2>2 DEF CircuitInv, OneProbe
<1>11. BackoffPerRound'
  <2>1. {requests[k].epoch : k \in Failed}' = {requests[k].epoch : k \in Failed}
    BY <1>4, <1>6 DEF Failed, Same
  <2>2. Cardinality({requests[k].epoch : k \in Failed}) \in Nat
    BY RoundsCounted DEF CircuitInv
  <2>3. failures <= Cardinality({requests[k].epoch : k \in Failed})
    BY DEF CircuitInv, BackoffPerRound, Failed
  <2>4. failures' <= Cardinality({requests[k].epoch : k \in Failed})
    BY <1>2, <2>2, <2>3
  <2> QED BY <2>1, <2>4 DEF BackoffPerRound, Failed
<1> QED BY <1>2, <1>4, <1>5, <1>7, <1>8, <1>9, <1>10, <1>11 DEF CircuitInv

\* A failure opens the circuit, and ends the epoch.
LEMMA FailureCircuit ==
  ASSUME CircuitInv, NEW i \in DOMAIN requests, NEW hint \in Hints, Failure(i, hint)
  PROVE  /\ CircuitInv' /\ failures' > 0
         /\ DOMAIN requests' = DOMAIN requests /\ \A j \in DOMAIN requests : Same(j)
         /\ requests'[i].outcome = "FAILURE"
         /\ \A j \in DOMAIN requests : j # i => requests'[j] = requests[j] /\ call'[j] = call[j]
         /\ cooldown <= cooldown' /\ WakeWaiters(cooldown')
         /\ thrown' = thrown \cup {[task |-> requests[i].task, fence |-> requests[i].fence,
                                   wake |-> cooldown']}
<1> DEFINE count == Earlier(MaxFailures, Later(1, failures + Round(i)))
           until == Later(Cooling, now + Later(Backoff[count], hint))
           r == [requests[i] EXCEPT !.outcome = "FAILURE", !.wake = until]
           d == [task |-> requests[i].task, fence |-> requests[i].fence, wake |-> until]
<1>1. /\ CircuitOK /\ RequestsOK /\ TasksOK /\ MemoryOK /\ losses \in 0..MaxLosses
      /\ requests[i].task \in Task /\ requests[i].fence \in Nat /\ requests[i] \in Request
      /\ now \in Nat /\ cooldown \in Nat /\ retryAt \in Nat /\ epoch \in Nat
      /\ failures \in 0..MaxFailures /\ MaxFailures \in Nat \ {0}
  BY RequestTyped, ProviderAssumption DEF CircuitInv, TypeOK, CircuitOK
<1>2. /\ failures' = count /\ epoch' = epoch + 1 /\ retryAt' = until /\ cooldown' = until
      /\ requests' = [requests EXCEPT ![i] = r] /\ call' = [call EXCEPT ![i] = After(i)]
      /\ WakeWaiters(until) /\ thrown' = thrown \cup {d}
      /\ UNCHANGED <<now, waits, status, fence, asking, losses>>
      /\ requests[i].outcome = "NONE"
  BY DEF Failure, CircuitInv, Pending
<1>3. /\ count \in 1..MaxFailures /\ count <= Later(1, failures + Round(i))
      /\ Round(i) = IF requests[i].epoch = epoch THEN 1 ELSE 0
  BY <1>1 DEF Earlier, Later, Round, Fresh
<1>4. until \in Nat /\ cooldown <= until
  <2>1. Backoff[count] \in Nat /\ hint \in Nat
    BY <1>3, ProviderAssumption
  <2> HIDE DEF count
  <2> QED BY <1>1, <2>1 DEF Cooling, Later
<1> HIDE DEF until, count
<1>5. /\ r \in Request /\ r.outcome = "FAILURE" /\ r.wake = until
      /\ r.task = requests[i].task /\ r.fence = requests[i].fence /\ r.started = requests[i].started
      /\ r.deadline = requests[i].deadline /\ r.epoch = requests[i].epoch
      /\ r.active = requests[i].active
  BY <1>1, <1>4 DEF Request, Outcome
<1>6. d \in Deferral /\ d.task = requests[i].task
  BY <1>1, <1>4 DEF Deferral
<1> HIDE DEF r, d
<1>7. /\ RequestsOK' /\ DOMAIN requests' = DOMAIN requests /\ \A j \in DOMAIN requests : Same(j)
      /\ \A j \in DOMAIN requests : requests'[j] = IF j = i THEN r ELSE requests[j]
      /\ \A j \in DOMAIN requests : call'[j] = IF j = i THEN After(i) ELSE call[j]
      /\ Pending'
  BY <1>2, <1>5, VerdictWritten
<1>8. Failed' = Failed \cup {i} /\ i \notin Failed
  BY <1>2, <1>5, <1>7 DEF Failed
<1>9. TypeOK'
  <2>1. CircuitOK'
    BY <1>1, <1>2, <1>3, <1>4 DEF CircuitOK
  <2>2. wake' \in [Task -> Nat]
    BY <1>2, <1>4, WakeTyped DEF CircuitInv
  <2>3. TasksOK' /\ MemoryOK'
    BY <1>1, <1>2, <1>6, <2>2 DEF TasksOK, MemoryOK
  <2> QED BY <1>1, <1>2, <1>7, <2>1, <2>3 DEF TypeOK
<1>10. \A j \in DOMAIN requests : requests'[j].epoch <= epoch /\ requests[j].epoch \in Nat
  BY <1>1, <1>7, RequestTyped DEF CircuitInv, Epochs, Same
<1>11. Epochs'
  BY <1>1, <1>2, <1>7, <1>10, RequestTyped DEF Epochs, Same
<1>12. Paused'
  <2>1. \A k \in Failed' : requests'[k].wake <= until
    BY <1>1, <1>4, <1>5, <1>7, <1>8, RequestTyped DEF CircuitInv, Paused, Failed
  <2>2. \A k \in DOMAIN requests : requests'[k].started <= now /\ requests'[k].epoch # epoch + 1
    BY <1>1, <1>7, <1>10, RequestTyped DEF CircuitInv, Paused, Same
  <2> QED BY <1>2, <1>4, <1>7, <2>1, <2>2 DEF Paused
<1>13. OneProbe'
  <2>1. \A k \in DOMAIN requests' : requests'[k].epoch # epoch'
    BY <1>1, <1>2, <1>7, <1>10, RequestTyped DEF Same
  <2> QED BY <2>1 DEF OneProbe, Live
<1>14. BackoffPerRound'
  <2> DEFINE F == {requests[k].epoch : k \in Failed}
             G == {requests'[k].epoch : k \in Failed'}
  <2>1. G = F \cup {requests[i].epoch}
    BY <1>7, <1>8 DEF Failed, Same
  <2>2. IsFiniteSet(F) /\ Cardinality(F) \in Nat /\ failures <= Cardinality(F)
    BY RoundsCounted DEF CircuitInv, BackoffPerRound, Failed
  <2>3. IsFiniteSet(G) /\ Cardinality(G) =
          IF requests[i].epoch \in F THEN Cardinality(F) ELSE Cardinality(F) + 1
    <3> HIDE DEF F, G
    <3> QED BY <2>1, <2>2, FS_AddElement
  <2>4. requests[i].epoch = epoch => requests[i].epoch \notin F
    <3>1. \A k \in Failed : requests[k].epoch < epoch /\ requests[k].epoch \in Nat
      BY <1>1, RequestTyped DEF CircuitInv, Epochs, Failed
    <3> QED BY <1>1, <3>1
  <2>5. requests[i].epoch \in F => Cardinality(F) >= 1
    <3> SUFFICES ASSUME requests[i].epoch \in F PROVE Cardinality(F) # 0
      BY <2>2
    <3> QED BY <2>2, FS_EmptySet
  <2> HIDE DEF F, G
  <2>6. count <= Cardinality(G)
    BY <1>1, <1>3, <2>2, <2>3, <2>4, <2>5 DEF Later
  <2> QED BY <1>2, <2>6 DEF BackoffPerRound, Failed, G
<1> QED BY <1>1, <1>2, <1>3, <1>4, <1>5, <1>7, <1>9, <1>11, <1>12, <1>13, <1>14 DEF CircuitInv, d

\* A request is admitted after every pause, and alone while the circuit is open.
LEMMA AdmitCircuit ==
  ASSUME CircuitInv, NEW t \in Task, Admit(t)
  PROVE  CircuitInv'
<1> DEFINE n == Len(requests) + 1
           r == [task |-> t, fence |-> fence[t], started |-> now, deadline |-> now + Timeout,
                 active |-> TRUE, epoch |-> epoch, outcome |-> "NONE", wake |-> 0]
<1>1. /\ CircuitOK /\ RequestsOK /\ TasksOK /\ MemoryOK /\ losses \in 0..MaxLosses
      /\ now \in Nat /\ cooldown \in Nat /\ retryAt \in Nat /\ epoch \in Nat /\ fence[t] \in Nat
  BY DEF CircuitInv, TypeOK, CircuitOK, TasksOK
<1>2. /\ UNCHANGED <<now, circuit, status, fence, wake, thrown, losses>> /\ Admission <= now
      /\ UNCHANGED <<failures, epoch, retryAt, cooldown>>
      /\ requests' = Append(Swept, r) /\ call' = Append(call, "sent")
      /\ waits' = [waits EXCEPT ![t] = NoWait] /\ asking' = asking \ {t}
  BY DEF Admit, tasks, circuit
<1>3. r \in Request
  BY <1>1, ProviderAssumption DEF Request, Outcome
<1>4. r.started = now /\ r.epoch = epoch /\ r.outcome = "NONE"
  OBVIOUS
<1> HIDE DEF r
<1>5. /\ RequestsOK' /\ DOMAIN requests' = DOMAIN requests \cup {n}
      /\ n \notin DOMAIN requests /\ requests'[n] = r /\ call'[n] = "sent"
      /\ \A i \in DOMAIN requests : requests'[i] = Swept[i] /\ call'[i] = call[i]
  BY <1>1, <1>2, <1>3, RequestAdded
<1>6. \A i \in DOMAIN requests :
        /\ Same(i) /\ requests'[i].outcome = requests[i].outcome /\ requests'[i].wake = requests[i].wake
  BY <1>1, <1>5, SweptTyped DEF Same, Live
<1> HIDE DEF n
<1>7. Failed' = Failed /\ n \notin Failed'
  BY <1>4, <1>5, <1>6 DEF Failed
<1>8. TypeOK'
  <2>1. CircuitOK' /\ MemoryOK' /\ TasksOK'
    BY <1>1, <1>2 DEF CircuitOK, MemoryOK, TasksOK
  <2> QED BY <1>1, <1>2, <1>5, <2>1 DEF TypeOK
<1>9. Epochs'
  BY <1>1, <1>2, <1>4, <1>5, <1>6, <1>7 DEF CircuitInv, Epochs, Same
<1>10. Pending'
  BY <1>4, <1>5, <1>6 DEF CircuitInv, Pending
<1>11. Paused'
  <2>1. cooldown <= now
    BY <1>1, <1>2, AdmissionBounds DEF CircuitInv, Cooling, Later
  <2>2. \A i \in Failed' : requests'[i].wake <= cooldown
    BY <1>6, <1>7 DEF CircuitInv, Paused, Failed
  <2>3. ASSUME NEW i \in DOMAIN requests'
        PROVE  /\ requests'[i].started <= now
               /\ requests'[i].epoch = epoch => cooldown <= requests'[i].started
    <3>1. CASE i = n
      BY <1>1, <1>4, <1>5, <2>1, <3>1
    <3>2. CASE i \in DOMAIN requests
      BY <1>6, <3>2 DEF CircuitInv, Paused, Same
    <3> QED BY <1>5, <3>1, <3>2
  <2>4. retryAt <= cooldown
    BY DEF CircuitInv, Paused
  <2> QED BY <1>2, <2>2, <2>3, <2>4 DEF Paused
<1>12. OneProbe'
  <2> SUFFICES ASSUME failures > 0 PROVE Live' \subseteq {n}
    BY <1>2 DEF OneProbe
  <2>1. Live = {}
    BY <1>2, AdmissionBounds DEF CircuitInv
  <2>2. \A i \in DOMAIN requests : i \notin Live'
    BY <1>2, <1>6, <2>1 DEF Live, Same
  <2> QED BY <1>5, <2>2 DEF Live
<1>13. BackoffPerRound'
  <2>1. {requests[i].epoch : i \in Failed}' = {requests[i].epoch : i \in Failed}
    BY <1>6, <1>7 DEF Failed, Same
  <2> QED BY <1>2, <2>1 DEF CircuitInv, BackoffPerRound, Failed
<1> QED BY <1>8, <1>9, <1>10, <1>11, <1>12, <1>13 DEF CircuitInv

\* Every step keeps the circuit consistent, and only a fresh answer closes it.
LEMMA CircuitStep ==
  ASSUME CircuitInv, [Next]_vars
  PROVE  /\ CircuitInv'
         /\ failures > 0 /\ failures' = 0 =>
              \E i \in DOMAIN requests :
                /\ requests[i].outcome = "NONE" /\ requests'[i].outcome = "SUCCESS"
                /\ \A j \in DOMAIN requests : requests[j].outcome = "FAILURE" =>
                     requests[j].wake <= requests[i].started
<1>1. ASSUME TypeOK', Unjudged, UNCHANGED circuit, now' >= now
      PROVE  CircuitInv' /\ failures' = failures
  BY <1>1, UnjudgedCircuit DEF circuit
<1>2. CASE UNCHANGED vars
  <2>1. UNCHANGED <<now, circuit, requests, waits, status, fence, wake, asking, call, thrown, losses>>
    BY <1>2 DEF vars, tasks, memory
  <2>2. UNCHANGED <<failures, epoch, retryAt, cooldown>>
    BY <2>1 DEF circuit
  <2>3. now' >= now
    BY <2>1 DEF CircuitInv, TypeOK, CircuitOK
  <2>4. TypeOK' /\ Unjudged
    BY <2>1, <2>2 DEF CircuitInv, TypeOK, CircuitOK, RequestsOK, TasksOK, MemoryOK, Unjudged, Same
  <2> QED BY <1>1, <2>1, <2>3, <2>4
<1>3. CASE \/ \E t \in Task : Claim(t) \/ Exhaust(t) \/ Turn(t) \/ Queue(t) \/ Expire(t) \/ Crash(t)
           \/ \E d \in thrown : Persist(d)
           \/ Tick
  BY <1>1, <1>3, TaskMoves
<1>4. ASSUME NEW t \in Task, Admit(t) PROVE CircuitInv' /\ failures' = failures
  BY <1>4, AdmitCircuit DEF Admit, circuit
<1>5. ASSUME NEW i \in DOMAIN requests,
             \/ \E verdict \in {"answered", "failed"} : Complete(i, verdict)
             \/ CompleteSilently(i) \/ CompleteJudged(i)
      PROVE  CircuitInv' /\ failures' = failures
  <2>1. now' >= now
    BY <1>5, CompletionMoves DEF CircuitInv, TypeOK, CircuitOK
  <2> QED BY <1>1, <1>5, <2>1, CompletionMoves
<1>6. ASSUME NEW i \in DOMAIN requests, NEW hint \in Hints, Failure(i, hint)
      PROVE  CircuitInv' /\ failures' # 0
  <2>1. CircuitInv' /\ failures' > 0
    BY <1>6, FailureCircuit
  <2>2. ~(0 > 0)
    OBVIOUS
  <2> QED BY <2>1, <2>2
<1>7. ASSUME NEW i \in DOMAIN requests, Success(i), failures > 0, failures' = 0
      PROVE  /\ requests[i].outcome = "NONE" /\ requests'[i].outcome = "SUCCESS"
             /\ \A j \in DOMAIN requests : requests[j].outcome = "FAILURE" =>
                  requests[j].wake <= requests[i].started
  <2>1. requests[i].outcome = "NONE" /\ requests'[i].outcome = "SUCCESS"
    BY <1>7, SuccessCircuit
  <2>2. requests[i].epoch = epoch
    BY <1>7 DEF Success, Fresh
  <2>3. cooldown <= requests[i].started
    BY <2>2 DEF CircuitInv, Paused
  <2>4. ASSUME NEW j \in DOMAIN requests, requests[j].outcome = "FAILURE"
        PROVE  requests[j].wake <= requests[i].started
    <3>1. requests[j].wake <= cooldown
      BY <2>4 DEF CircuitInv, Paused, Failed
    <3>2. requests[j].wake \in Nat /\ requests[i].started \in Nat /\ cooldown \in Nat
      BY RequestTyped DEF CircuitInv, TypeOK, CircuitOK
    <3> QED BY <2>3, <3>1, <3>2
  <2> QED BY <2>1, <2>4
<1>8. ASSUME NEW i \in DOMAIN requests, Success(i) PROVE CircuitInv'
  BY <1>8, SuccessCircuit
<1>9. failures' = failures => ~(failures > 0 /\ failures' = 0)
  OBVIOUS
<1> QED BY <1>2, <1>3, <1>4, <1>5, <1>6, <1>7, <1>8, <1>9 DEF Next, Reserve, Proceed

\* The circuit is consistent in every state.
LEMMA CircuitInvariant == Spec => []CircuitInv
<1>1. Init => CircuitInv
  BY InitCircuit
<1>2. CircuitInv /\ [Next]_vars => CircuitInv'
  BY CircuitStep
<1> QED BY <1>1, <1>2, PTL DEF Spec

\* While the circuit is open, a request sent since the last failure is the only one
\* under way (reserve and providerAdmission).
THEOREM OneProbeAtATime == Spec => [](TypeOK /\ OneProbe)
<1>1. CircuitInv => TypeOK /\ OneProbe
  BY DEF CircuitInv
<1> QED BY <1>1, CircuitInvariant, PTL

\* The pause grows with the epochs in which requests failed, never with the number of
\* calls that failed in one of them (ProviderRecovery.failure).
THEOREM BackoffByRounds == Spec => []BackoffPerRound
<1>1. CircuitInv => BackoffPerRound
  BY DEF CircuitInv
<1> QED BY <1>1, CircuitInvariant, PTL

\* The circuit is closed by an answer to a request sent after every pause that a
\* failure had asked for (ProviderRecovery.success).
THEOREM ClosedByProbes == Spec => ClosedByProbe
<1>1. CircuitInv /\ [Next]_vars =>
        [failures > 0 /\ failures' = 0 =>
           \E i \in DOMAIN requests :
             /\ requests[i].outcome = "NONE" /\ requests'[i].outcome = "SUCCESS"
             /\ \A j \in DOMAIN requests : requests[j].outcome = "FAILURE" =>
                  requests[j].wake <= requests[i].started]_vars
  BY CircuitStep
<1> QED BY <1>1, CircuitInvariant, PTL DEF Spec, ClosedByProbe

-----------------------------------------------------------------------------
(* What an attempt is at: at most one thing.                               *)

\* A request that can still lead its task to another one, or to a deferral.
Open(i) == \/ call[i] \in Pends
           \/ call[i] = "judged" /\ requests[i].outcome = "SUCCESS"

\* The open requests, and the thrown deferrals, of the current attempt of t.
OpenOf(t)   == {i \in DOMAIN requests :
                  Open(i) /\ requests[i].task = t /\ requests[i].fence = fence[t]}
ThrownOf(t) == {d \in thrown : d.task = t /\ d.fence = fence[t]}

\* An attempt is about to ask, waits for one answer, or has thrown a deferral.
OneErrand ==
  \A t \in Task :
    /\ t \in asking => status[t] = "RUNNING" /\ OpenOf(t) = {} /\ ThrownOf(t) = {}
    /\ \A i, j \in OpenOf(t) : i = j
    /\ OpenOf(t) = {} \/ ThrownOf(t) = {}

\* No request and no deferral is of an attempt to come.
Fenced ==
  /\ \A i \in DOMAIN requests : requests[i].fence <= fence[requests[i].task]
  /\ \A d \in thrown : d.fence <= fence[d.task]

\* A step that opens no request and throws nothing.
LEMMA ErrandKept ==
  ASSUME TypeOK, OneErrand, Fenced, fence' = fence,
         DOMAIN requests' = DOMAIN requests,
         \A i \in DOMAIN requests : Same(i) /\ (Open(i)' => Open(i)),
         thrown' \subseteq thrown, asking' \subseteq asking,
         \A t \in asking' : status'[t] = "RUNNING"
  PROVE  OneErrand' /\ Fenced'
<1>1. \A i \in DOMAIN requests :
        requests'[i].task = requests[i].task /\ requests'[i].fence = requests[i].fence
  BY DEF Same
<1>2. \A t \in Task : OpenOf(t)' \subseteq OpenOf(t) /\ ThrownOf(t)' \subseteq ThrownOf(t)
  BY <1>1 DEF OpenOf, ThrownOf
<1>3. OneErrand'
  BY <1>2 DEF OneErrand
<1>4. Fenced'
  BY <1>1 DEF Fenced
<1> QED BY <1>3, <1>4

\* An answer that the task can use lets its attempt ask again.
LEMMA ErrandServed ==
  ASSUME CircuitInv, OneErrand, Fenced, NEW i \in DOMAIN requests, Open(i), ~Open(i)',
         Served(i), UNCHANGED <<fence, thrown>>, DOMAIN requests' = DOMAIN requests,
         \A j \in DOMAIN requests : Same(j) /\ (Open(j)' => Open(j))
  PROVE  OneErrand' /\ Fenced'
<1>0. PICK t \in Task : t = requests[i].task
  BY RequestTyped DEF CircuitInv, TypeOK
<1>1. t \in Task /\ status \in [Task -> {"READY", "RUNNING", "ENDED"}] /\ TypeOK
  BY RequestTyped DEF CircuitInv, TypeOK, TasksOK
<1>2. Holds(t, requests[i].fence) => i \in OpenOf(t) /\ t \notin asking
  BY <1>0, <1>1 DEF Holds, OpenOf, OneErrand
<1>3. CASE UNCHANGED asking
  <2>1. \A u \in asking' : status'[u] = "RUNNING"
    BY <1>0, <1>1, <1>2, <1>3 DEF Served, OneErrand, CircuitInv, TypeOK, MemoryOK
  <2> QED BY <1>1, <1>3, <2>1, ErrandKept
<1>4. CASE asking' = asking \cup {t} /\ UNCHANGED status /\ Holds(t, requests[i].fence)
  <2>1. \A j \in DOMAIN requests :
          requests'[j].task = requests[j].task /\ requests'[j].fence = requests[j].fence
    BY DEF Same
  <2>2. \A u \in Task : OpenOf(u)' \subseteq OpenOf(u) \ {i} /\ ThrownOf(u)' = ThrownOf(u)
    BY <2>1 DEF OpenOf, ThrownOf
  <2>3. i \in OpenOf(t) /\ status'[t] = "RUNNING"
    BY <1>2, <1>4 DEF Holds
  <2>4. OpenOf(t)' = {} /\ ThrownOf(t)' = {}
    <3>1. (\A j \in OpenOf(t) : j = i) /\ ThrownOf(t) = {}
      BY <1>1, <2>3 DEF OneErrand
    <3> QED BY <1>1, <2>2, <3>1
  <2>5. ASSUME NEW u \in Task
        PROVE  /\ u \in asking' => status'[u] = "RUNNING" /\ OpenOf(u)' = {} /\ ThrownOf(u)' = {}
               /\ \A k, j \in OpenOf(u)' : k = j
               /\ OpenOf(u)' = {} \/ ThrownOf(u)' = {}
    <3>1. CASE u = t
      BY <2>3, <2>4, <3>1
    <3>2. CASE u # t
      <4>1. u \in asking' => u \in asking /\ status'[u] = status[u]
        BY <1>4, <3>2
      <4> QED BY <2>2, <4>1 DEF OneErrand
    <3> QED BY <3>1, <3>2
  <2>6. OneErrand'
    BY <2>5 DEF OneErrand
  <2>7. Fenced'
    BY <2>1 DEF Fenced
  <2> QED BY <2>6, <2>7
<1> QED BY <1>0, <1>3, <1>4 DEF Served

LEMMA ErrandMoves ==
  ASSUME CircuitInv, OneErrand, Fenced,
         \/ \E t \in Task : Exhaust(t) \/ Queue(t) \/ Expire(t) \/ Crash(t)
         \/ \E d \in thrown : Persist(d)
         \/ Tick
  PROVE  OneErrand' /\ Fenced'
<1>1. /\ TypeOK /\ DOMAIN requests' = DOMAIN requests /\ \A i \in DOMAIN requests : Same(i)
      /\ \A i \in DOMAIN requests : requests'[i].outcome = requests[i].outcome
      /\ asking \subseteq Task /\ status \in [Task -> {"READY", "RUNNING", "ENDED"}]
      /\ DOMAIN call = DOMAIN requests
  BY TaskMoves, RequestTyped DEF CircuitInv, Unjudged, TypeOK, MemoryOK, TasksOK
<1>2. \A t \in asking : status[t] = "RUNNING"
  BY <1>1 DEF OneErrand
<1>3. ASSUME NEW t \in Task, Exhaust(t) \/ Queue(t) \/ Expire(t) \/ Crash(t)
      PROVE  /\ fence' = fence /\ thrown' \subseteq thrown /\ asking' \subseteq asking
             /\ \A u \in asking' : status'[u] = "RUNNING"
             /\ \A i \in DOMAIN requests : call'[i] \in {call[i], "over"}
  BY <1>1, <1>2, <1>3 DEF Exhaust, Queue, Expire, Crash, tasks, memory
<1>4. ASSUME NEW d \in thrown, Persist(d)
      PROVE  /\ fence' = fence /\ thrown' \subseteq thrown /\ asking' \subseteq asking
             /\ \A u \in asking' : status'[u] = "RUNNING"
             /\ \A i \in DOMAIN requests : call'[i] \in {call[i], "over"}
  <2>1. Holds(d.task, d.fence) => d.task \notin asking
    BY <1>1 DEF Holds, OneErrand, ThrownOf
  <2> QED BY <1>1, <1>2, <1>4, <2>1 DEF Persist
<1>5. ASSUME Tick
      PROVE  /\ fence' = fence /\ thrown' \subseteq thrown /\ asking' \subseteq asking
             /\ \A u \in asking' : status'[u] = "RUNNING"
             /\ \A i \in DOMAIN requests : call'[i] \in {call[i], "over"}
  BY <1>2, <1>5 DEF Tick, tasks, memory
<1>6. /\ fence' = fence /\ thrown' \subseteq thrown /\ asking' \subseteq asking
      /\ \A u \in asking' : status'[u] = "RUNNING"
      /\ \A i \in DOMAIN requests : call'[i] \in {call[i], "over"}
  BY <1>3, <1>4, <1>5
<1>7. \A i \in DOMAIN requests : Open(i)' => Open(i)
  BY <1>1, <1>6 DEF Open, Pends
<1> QED BY <1>1, <1>6, <1>7, ErrandKept

LEMMA ErrandClaim ==
  ASSUME CircuitInv, OneErrand, Fenced, NEW t \in Task, Claim(t)
  PROVE  OneErrand' /\ Fenced'
<1>1. /\ fence \in [Task -> Nat] /\ status \in [Task -> {"READY", "RUNNING", "ENDED"}]
      /\ \A i \in DOMAIN requests : requests[i].task \in Task /\ requests[i].fence \in Nat
      /\ \A d \in thrown : d.task \in Task /\ d.fence \in Nat
      /\ asking \subseteq Task
  BY RequestTyped DEF CircuitInv, TypeOK, TasksOK, MemoryOK, Deferral
<1>2. /\ UNCHANGED <<requests, call, thrown>> /\ fence' = [fence EXCEPT ![t] = fence[t] + 1]
      /\ status' = [status EXCEPT ![t] = "RUNNING"] /\ asking' = asking \cup {t}
  BY DEF Claim
<1>3. OpenOf(t)' = {} /\ ThrownOf(t)' = {}
  BY <1>1, <1>2 DEF OpenOf, ThrownOf, Fenced
<1>4. \A u \in Task \ {t} : OpenOf(u)' = OpenOf(u) /\ ThrownOf(u)' = ThrownOf(u)
  BY <1>1, <1>2 DEF OpenOf, ThrownOf, Open
<1>5. \A u \in Task : u # t => status'[u] = status[u] /\ (u \in asking' <=> u \in asking)
  BY <1>1, <1>2
<1>6. OneErrand'
  BY <1>1, <1>2, <1>3, <1>4, <1>5 DEF OneErrand
<1>7. Fenced'
  BY <1>1, <1>2 DEF Fenced
<1> QED BY <1>6, <1>7

LEMMA ErrandTurn ==
  ASSUME CircuitInv, OneErrand, Fenced, NEW t \in Task, Turn(t)
  PROVE  OneErrand' /\ Fenced'
<1> DEFINE d == [task |-> t, fence |-> fence[t], wake |-> Admission]
<1>1. /\ DOMAIN requests' = DOMAIN requests /\ \A i \in DOMAIN requests : Same(i)
      /\ \A i \in DOMAIN requests : requests'[i].outcome = requests[i].outcome
      /\ fence[t] \in Nat /\ asking \subseteq Task
  BY TaskMoves DEF CircuitInv, Unjudged, TypeOK, TasksOK, MemoryOK
<1>2. /\ UNCHANGED <<status, fence, call>> /\ t \in asking
      /\ asking' = asking \ {t} /\ thrown' = thrown \cup {d}
  BY DEF Turn, tasks
<1>3. d.task = t /\ d.fence = fence[t]
  OBVIOUS
<1> HIDE DEF d
<1>4. \A u \in Task : OpenOf(u)' = OpenOf(u)
  BY <1>1, <1>2 DEF OpenOf, Open, Same
<1>5. \A u \in Task : ThrownOf(u)' \subseteq ThrownOf(u) \cup (IF u = t THEN {d} ELSE {})
  BY <1>2, <1>3 DEF ThrownOf
<1>6. OneErrand'
  BY <1>2, <1>4, <1>5 DEF OneErrand
<1>7. Fenced'
  BY <1>1, <1>2, <1>3 DEF Fenced, Same
<1> QED BY <1>6, <1>7

LEMMA ErrandAdmit ==
  ASSUME CircuitInv, OneErrand, Fenced, NEW t \in Task, Admit(t)
  PROVE  OneErrand' /\ Fenced'
<1> DEFINE n == Len(requests) + 1
           r == [task |-> t, fence |-> fence[t], started |-> now, deadline |-> now + Timeout,
                 active |-> TRUE, epoch |-> epoch, outcome |-> "NONE", wake |-> 0]
<1>1. /\ RequestsOK /\ now \in Nat /\ epoch \in Nat /\ fence[t] \in Nat /\ asking \subseteq Task
  BY DEF CircuitInv, TypeOK, CircuitOK, TasksOK, MemoryOK
<1>2. /\ UNCHANGED <<status, fence, thrown>> /\ t \in asking
      /\ requests' = Append(Swept, r) /\ call' = Append(call, "sent")
      /\ asking' = asking \ {t}
  BY DEF Admit, tasks
<1>3. r \in Request /\ r.task = t /\ r.fence = fence[t]
  BY <1>1, ProviderAssumption DEF Request, Outcome
<1> HIDE DEF r
<1>4. /\ DOMAIN requests' = DOMAIN requests \cup {n}
      /\ requests'[n] = r
      /\ \A i \in DOMAIN requests : requests'[i] = Swept[i] /\ call'[i] = call[i]
  BY <1>1, <1>2, <1>3, RequestAdded
<1>5. \A i \in DOMAIN requests : /\ requests'[i].task = requests[i].task
                                 /\ requests'[i].fence = requests[i].fence
                                 /\ requests'[i].outcome = requests[i].outcome
  BY <1>1, <1>4, SweptTyped
<1> HIDE DEF n
<1>6. \A u \in Task : OpenOf(u)' \subseteq OpenOf(u) \cup (IF u = t THEN {n} ELSE {})
  <2>1. \A i \in DOMAIN requests : Open(i)' <=> Open(i)
    BY <1>4, <1>5 DEF Open
  <2>2. \A u \in Task : n \in OpenOf(u)' => u = t
    BY <1>3, <1>4 DEF OpenOf
  <2>3. ASSUME NEW u \in Task, NEW j \in OpenOf(u)', j # n
        PROVE  j \in OpenOf(u)
    BY <1>2, <1>4, <1>5, <2>1, <2>3 DEF OpenOf
  <2> QED BY <2>2, <2>3
<1>7. \A u \in Task : ThrownOf(u)' = ThrownOf(u)
  BY <1>2 DEF ThrownOf
<1>8. OneErrand'
  BY <1>2, <1>6, <1>7 DEF OneErrand
<1>9. Fenced'
  BY <1>1, <1>2, <1>3, <1>4, <1>5 DEF Fenced
<1> QED BY <1>8, <1>9

LEMMA ErrandAnswered ==
  ASSUME CircuitInv, OneErrand, Fenced, NEW i \in DOMAIN requests, Proceed(i)
  PROVE  OneErrand' /\ Fenced'
<1>1. /\ TypeOK /\ asking \subseteq Task /\ status \in [Task -> {"READY", "RUNNING", "ENDED"}]
      /\ DOMAIN call = DOMAIN requests /\ requests[i].task \in Task
  BY RequestTyped DEF CircuitInv, TypeOK, MemoryOK, TasksOK
<1>2. \A t \in asking : status[t] = "RUNNING"
  BY <1>1 DEF OneErrand
<1>3. Open(i) /\ Holds(requests[i].task, requests[i].fence) => requests[i].task \notin asking
  BY <1>1 DEF Holds, OneErrand, OpenOf
<1>4. ASSUME NEW verdict \in {"answered", "failed"}, Complete(i, verdict)
      PROVE  OneErrand' /\ Fenced'
  <2>1. /\ UNCHANGED <<fence, thrown>> /\ Unjudged /\ UNCHANGED <<asking, status>>
        /\ \A j \in DOMAIN requests : call'[j] = IF j = i THEN verdict ELSE call[j]
        /\ call[i] = "sent"
    BY <1>1, <1>4, CompletionMoves DEF Complete, tasks
  <2>2. \A j \in DOMAIN requests : Open(j)' => Open(j)
    BY <2>1 DEF Open, Pends, Unjudged
  <2> QED BY <1>1, <1>2, <2>1, <2>2, ErrandKept DEF Unjudged
<1>5. CASE CompleteSilently(i)
  <2>1. /\ UNCHANGED <<fence, thrown>> /\ Unjudged /\ UNCHANGED asking /\ Open(i)
        /\ \A j \in DOMAIN requests : call'[j] = IF j = i THEN "over" ELSE call[j]
    BY <1>1, <1>5, CompletionMoves DEF CompleteSilently, tasks, Open, Pends
  <2>2. \A j \in DOMAIN requests : Open(j)' => Open(j)
    BY <2>1 DEF Open, Pends, Unjudged
  <2>3. \A t \in asking : status'[t] = "RUNNING"
    BY <1>1, <1>2, <1>3, <1>5, <2>1 DEF CompleteSilently
  <2> QED BY <1>1, <2>1, <2>2, <2>3, ErrandKept DEF Unjudged
<1>6. CASE CompleteJudged(i)
  <2>1. /\ UNCHANGED <<fence, thrown>> /\ Unjudged /\ call[i] = "judged"
        /\ \A j \in DOMAIN requests : call'[j] = IF j = i THEN "over" ELSE call[j]
    BY <1>1, <1>6, CompletionMoves DEF CompleteJudged
  <2>2. ~Open(i)' /\ \A j \in DOMAIN requests : Open(j)' => Open(j)
    BY <2>1 DEF Open, Pends, Unjudged
  <2>3. CASE requests[i].outcome = "SUCCESS"
    <3>1. Open(i) /\ Served(i)
      BY <1>6, <2>1, <2>3 DEF CompleteJudged, Open
    <3> QED BY <2>1, <2>2, <3>1, ErrandServed DEF Unjudged
  <2>4. CASE requests[i].outcome # "SUCCESS"
    <3>1. UNCHANGED <<status, asking>>
      BY <1>6, <2>4 DEF CompleteJudged
    <3> QED BY <1>1, <1>2, <2>1, <2>2, <3>1, ErrandKept DEF Unjudged
  <2> QED BY <2>3, <2>4
<1>7. CASE Success(i)
  <2>1. /\ DOMAIN requests' = DOMAIN requests /\ \A j \in DOMAIN requests : Same(j)
        /\ \A j \in DOMAIN requests : j # i => requests'[j] = requests[j] /\ call'[j] = call[j]
        /\ UNCHANGED <<fence, thrown>> /\ call[i] \in {"sent", "answered"}
        /\ call'[i] = After(i)
    BY <1>1, <1>7, SuccessCircuit DEF Success
  <2>2. Open(i) /\ \A j \in DOMAIN requests : Open(j)' => Open(j)
    BY <2>1 DEF Open, Pends
  <2>3. CASE call[i] = "answered"
    <3>1. ~Open(i)' /\ Served(i)
      BY <1>7, <2>1, <2>3 DEF Open, Pends, After, Success
    <3> QED BY <2>1, <2>2, <3>1, ErrandServed
  <2>4. CASE call[i] = "sent"
    <3>1. UNCHANGED <<status, asking>>
      BY <1>7, <2>4 DEF Success
    <3> QED BY <1>1, <1>2, <2>1, <2>2, <3>1, ErrandKept
  <2> QED BY <2>1, <2>3, <2>4
<1>8. ASSUME NEW hint \in Hints, Failure(i, hint)
      PROVE  OneErrand' /\ Fenced'
  <2> DEFINE d == [task |-> requests[i].task, fence |-> requests[i].fence, wake |-> cooldown']
  <2>1. /\ DOMAIN requests' = DOMAIN requests /\ \A j \in DOMAIN requests : Same(j)
        /\ \A j \in DOMAIN requests : j # i => requests'[j] = requests[j] /\ call'[j] = call[j]
        /\ requests'[i].outcome = "FAILURE" /\ thrown' = thrown \cup {d}
        /\ UNCHANGED <<fence, asking, status>> /\ call[i] \in {"sent", "failed"}
        /\ call'[i] = After(i)
    BY <1>1, <1>8, FailureCircuit DEF Failure
  <2>2. d.task = requests[i].task /\ d.fence = requests[i].fence
    OBVIOUS
  <2> HIDE DEF d
  <2>3. Open(i) /\ ~Open(i)'
    BY <2>1 DEF Open, Pends, After
  <2>4. \A j \in DOMAIN requests :
          requests'[j].task = requests[j].task /\ requests'[j].fence = requests[j].fence
    BY <2>1 DEF Same
  <2>5. \A t \in Task : OpenOf(t)' \subseteq OpenOf(t) \ {i}
    BY <2>1, <2>3, <2>4 DEF OpenOf, Open
  <2>6. \A t \in Task : ThrownOf(t)' \subseteq
                         ThrownOf(t) \cup (IF i \in OpenOf(t) THEN {d} ELSE {})
    BY <2>1, <2>2, <2>3 DEF OpenOf, ThrownOf
  <2>7. OneErrand'
    BY <2>1, <2>5, <2>6 DEF OneErrand
  <2>8. Fenced'
    BY <2>1, <2>2, <2>4 DEF Fenced
  <2> QED BY <2>7, <2>8
<1> QED BY <1>4, <1>5, <1>6, <1>7, <1>8 DEF Proceed

LEMMA ErrandStep ==
  ASSUME CircuitInv, OneErrand, Fenced, [Next]_vars
  PROVE  OneErrand' /\ Fenced'
<1>1. CASE UNCHANGED vars
  <2>1. UNCHANGED <<requests, status, fence, asking, call, thrown>>
    BY <1>1 DEF vars, tasks, memory
  <2>2. \A i \in DOMAIN requests : Same(i) /\ (Open(i)' => Open(i))
    BY <2>1 DEF Same, Open
  <2>3. TypeOK /\ \A t \in asking : status[t] = "RUNNING"
    BY DEF CircuitInv, TypeOK, MemoryOK, OneErrand
  <2> QED BY <2>1, <2>2, <2>3, ErrandKept
<1>2. ASSUME Next
      PROVE  OneErrand' /\ Fenced'
  BY <1>2, ErrandMoves, ErrandClaim, ErrandTurn, ErrandAdmit, ErrandAnswered DEF Next, Reserve
<1> QED BY <1>1, <1>2

-----------------------------------------------------------------------------
(* Who sleeps, and until when.                                             *)

\* A deferral beyond the cooldown is the one its attempt has recorded.
Recorded ==
  \A d \in thrown :
    Holds(d.task, d.fence) /\ d.wake > cooldown =>
      waits[d.task] = [fence |-> d.fence, wake |-> d.wake]

\* A task sleeps beyond the cooldown only where a recovery finds it.
Listed ==
  \A t \in Task :
    /\ status[t] = "RUNNING" => wake[t] <= now
    /\ status[t] = "READY" /\ wake[t] > Later(now, Cooling) => t \in Waiting

SleepInv == OneErrand /\ Fenced /\ Recorded /\ Listed /\ SleepJustified

LEMMA InitSleep == Init => SleepInv
<1> SUFFICES ASSUME Init PROVE SleepInv
  OBVIOUS
<1>1. /\ requests = <<>> /\ thrown = {} /\ asking = {} /\ DOMAIN requests = {} /\ now = 0
      /\ cooldown = 0 /\ retryAt = 0
      /\ \A t \in Task : status[t] = "READY" /\ wake[t] = 0
  BY DEF Init
<1>2. OneErrand /\ Fenced /\ Recorded
  BY <1>1 DEF OneErrand, OpenOf, ThrownOf, Fenced, Recorded
<1>3. Listed /\ SleepJustified
  BY <1>1 DEF Listed, SleepJustified, Later, Cooling
<1> QED BY <1>2, <1>3 DEF SleepInv

\* A step that throws nothing and leaves the waits of deferrals alone.
LEMMA RecordKept ==
  ASSUME CircuitInv, Recorded, thrown' \subseteq thrown, cooldown <= cooldown', cooldown' \in Nat,
         \A d \in thrown : Holds(d.task, d.fence)' =>
           Holds(d.task, d.fence) /\ waits'[d.task] = waits[d.task]
  PROVE  Recorded'
<1>1. cooldown \in Nat /\ \A d \in thrown : d.wake \in Nat
  BY DEF CircuitInv, TypeOK, CircuitOK, MemoryOK, Deferral
<1> QED BY <1>1 DEF Recorded

LEMMA RecordStep ==
  ASSUME CircuitInv, OneErrand, Fenced, Recorded, [Next]_vars
  PROVE  Recorded'
<1>1. /\ fence \in [Task -> Nat] /\ status \in [Task -> {"READY", "RUNNING", "ENDED"}]
      /\ waits \in [Task -> [fence : Nat, wake : Nat] \cup {NoWait}]
      /\ asking \subseteq Task /\ cooldown \in Nat /\ TypeOK
      /\ \A d \in thrown : d.task \in Task /\ d.fence \in Nat /\ d.wake \in Nat
  BY DEF CircuitInv, TypeOK, TasksOK, CircuitOK, MemoryOK, Deferral
<1>2. \A t \in asking : \A d \in thrown : ~(d.task = t /\ Holds(d.task, d.fence))
  BY <1>1 DEF OneErrand, ThrownOf, Holds
<1>3. CASE UNCHANGED vars
  <2>1. UNCHANGED <<cooldown, waits, status, fence, thrown>>
    BY <1>3 DEF vars, circuit, tasks, memory
  <2> QED BY <2>1 DEF Recorded, Holds
<1>4. ASSUME NEW t \in Task, Claim(t)
      PROVE  Recorded'
  <2>1. /\ UNCHANGED <<cooldown, waits, thrown>> /\ fence' = [fence EXCEPT ![t] = fence[t] + 1]
        /\ status' = [status EXCEPT ![t] = "RUNNING"]
    BY <1>4 DEF Claim, circuit
  <2>2. ASSUME NEW d \in thrown, Holds(d.task, d.fence)' PROVE Holds(d.task, d.fence)
    <3>1. d.task # t
      BY <1>1, <2>1, <2>2 DEF Fenced, Holds
    <3> QED BY <1>1, <2>1, <2>2, <3>1 DEF Holds
  <2> QED BY <1>1, <2>1, <2>2, RecordKept
<1>5. ASSUME NEW t \in Task, Exhaust(t) \/ Queue(t) \/ Admit(t) \/ Expire(t) \/ Crash(t)
      PROVE  Recorded'
  <2>1. UNCHANGED <<cooldown, fence>> /\ thrown' \subseteq thrown
    BY <1>5 DEF Exhaust, Queue, Admit, Expire, Crash, circuit, tasks, memory
  <2>2. status' = status \/ (UNCHANGED waits /\ \A u \in Task : status'[u] = "RUNNING" => status[u] = "RUNNING")
    BY <1>1, <1>5 DEF Exhaust, Queue, Admit, Expire, Crash, tasks
  <2>3. UNCHANGED waits \/ (t \in asking /\ waits' = [waits EXCEPT ![t] = NoWait])
    BY <1>5 DEF Exhaust, Queue, Admit, Expire, Crash
  <2>4. ASSUME NEW d \in thrown, Holds(d.task, d.fence)'
        PROVE  Holds(d.task, d.fence) /\ waits'[d.task] = waits[d.task]
    <3>1. Holds(d.task, d.fence)
      BY <1>1, <2>1, <2>2, <2>4 DEF Holds
    <3> QED BY <1>1, <1>2, <2>3, <3>1
  <2> QED BY <1>1, <2>1, <2>4, RecordKept
<1>6. ASSUME NEW t \in Task, Turn(t)
      PROVE  Recorded'
  <2> DEFINE e == [task |-> t, fence |-> fence[t], wake |-> Admission]
  <2>1. /\ UNCHANGED <<cooldown, status, fence>> /\ t \in asking /\ thrown' = thrown \cup {e}
        /\ waits' = [waits EXCEPT ![t] = [fence |-> fence[t], wake |-> Admission]]
    BY <1>6 DEF Turn, circuit, tasks
  <2>2. e.task = t /\ e.fence = fence[t] /\ e.wake = Admission
    OBVIOUS
  <2>3. waits'[t] = [fence |-> e.fence, wake |-> e.wake]
    BY <1>1, <2>1
  <2> HIDE DEF e
  <2>4. ASSUME NEW d \in thrown', Holds(d.task, d.fence)', d.wake > cooldown'
        PROVE  waits'[d.task] = [fence |-> d.fence, wake |-> d.wake]
    <3>1. CASE d = e
      BY <2>2, <2>3, <3>1
    <3>2. CASE d \in thrown
      <4>1. Holds(d.task, d.fence) /\ d.wake > cooldown
        BY <2>1, <2>4 DEF Holds
      <4>2. waits'[d.task] = waits[d.task]
        BY <1>1, <1>2, <2>1, <3>2, <4>1
      <4> QED BY <3>2, <4>1, <4>2 DEF Recorded
    <3> QED BY <2>1, <2>4, <3>1, <3>2
  <2> QED BY <2>4 DEF Recorded
<1>7. ASSUME NEW e \in thrown, Persist(e)
      PROVE  Recorded'
  <2>1. UNCHANGED <<cooldown, waits, fence>> /\ thrown' \subseteq thrown
    BY <1>7 DEF Persist, circuit
  <2>2. \A u \in Task : status'[u] = "RUNNING" => status[u] = "RUNNING"
    BY <1>1, <1>7 DEF Persist
  <2>3. \A d \in thrown : Holds(d.task, d.fence)' => Holds(d.task, d.fence)
    BY <1>1, <2>1, <2>2 DEF Holds
  <2> QED BY <1>1, <2>1, <2>3, RecordKept
<1>8. CASE Tick
  <2>1. UNCHANGED <<cooldown, waits, status, fence, thrown>>
    BY <1>8 DEF Tick, circuit, tasks, memory
  <2> QED BY <2>1 DEF Recorded, Holds
<1>9. ASSUME NEW i \in DOMAIN requests,
             \/ \E verdict \in {"answered", "failed"} : Complete(i, verdict)
             \/ CompleteSilently(i) \/ CompleteJudged(i) \/ Success(i)
      PROVE  Recorded'
  <2>1. UNCHANGED <<cooldown, waits, fence, thrown>>
    BY <1>9 DEF Complete, CompleteSilently, CompleteJudged, Success, circuit, tasks
  <2>2. \A u \in Task : status'[u] = "RUNNING" => status[u] = "RUNNING"
    BY <1>1, <1>9 DEF Complete, CompleteSilently, CompleteJudged, Success, Served, tasks
  <2>3. \A d \in thrown : Holds(d.task, d.fence)' => Holds(d.task, d.fence)
    BY <1>1, <2>1, <2>2 DEF Holds
  <2> QED BY <1>1, <2>1, <2>3, RecordKept
<1>10. ASSUME NEW i \in DOMAIN requests, NEW hint \in Hints, Failure(i, hint)
       PROVE  Recorded'
  <2> DEFINE e == [task |-> requests[i].task, fence |-> requests[i].fence, wake |-> cooldown']
  <2>1. /\ UNCHANGED <<waits, status, fence>> /\ cooldown <= cooldown' /\ cooldown' \in Nat
        /\ thrown' = thrown \cup {e}
    BY <1>10, FailureCircuit DEF Failure, CircuitInv, TypeOK, CircuitOK
  <2>2. e.wake = cooldown'
    OBVIOUS
  <2> HIDE DEF e
  <2>3. ASSUME NEW d \in thrown', Holds(d.task, d.fence)', d.wake > cooldown'
        PROVE  waits'[d.task] = [fence |-> d.fence, wake |-> d.wake]
    <3>1. d # e
      BY <2>1, <2>2, <2>3
    <3>2. d \in thrown /\ d.wake > cooldown /\ Holds(d.task, d.fence)
      BY <1>1, <2>1, <2>3, <3>1 DEF Holds
    <3> QED BY <2>1, <3>2 DEF Recorded
  <2> QED BY <2>3 DEF Recorded
<1> QED BY <1>3, <1>4, <1>5, <1>6, <1>7, <1>8, <1>9, <1>10 DEF Next, Reserve, Proceed

\* A step that lets nobody sleep longer than the circuit says.
LEMMA SleepKept ==
  ASSUME CircuitInv, Listed, SleepJustified, CircuitInv', now <= now',
         Later(now, Cooling) <= Later(now', Cooling'),
         \A i \in DOMAIN requests :
           i \in DOMAIN requests' /\ requests'[i].deadline = requests[i].deadline,
         \A t \in Task : status'[t] = "RUNNING" => wake'[t] <= now',
         \A t \in Task : status'[t] = "READY" =>
           \/ wake'[t] <= Later(now', Cooling')
           \/ /\ status[t] = "READY" /\ wake'[t] = wake[t]
              /\ waits'[t] = waits[t] /\ fence'[t] = fence[t]
              /\ failures > 0 => failures' > 0
           \/ /\ t \in Waiting' /\ failures' > 0
              /\ \E i \in DOMAIN requests' : requests'[i].deadline >= wake'[t]
  PROVE  Listed' /\ SleepJustified'
<1>1. /\ now \in Nat /\ now' \in Nat /\ wake \in [Task -> Nat] /\ wake' \in [Task -> Nat]
      /\ Later(now, Cooling) \in Nat /\ Later(now', Cooling') \in Nat
  BY DEF CircuitInv, TypeOK, CircuitOK, TasksOK, Cooling, Later
<1>2. ASSUME NEW t \in Task, status'[t] = "READY", wake'[t] > Later(now', Cooling')
      PROVE  /\ t \in Waiting' /\ failures' > 0
             /\ \E i \in DOMAIN requests' : requests'[i].deadline >= wake'[t]
  <2>1. CASE /\ status[t] = "READY" /\ wake'[t] = wake[t]
             /\ waits'[t] = waits[t] /\ fence'[t] = fence[t]
             /\ failures > 0 => failures' > 0
    <3>1. wake[t] > Later(now, Cooling)
      BY <1>1, <1>2, <2>1
    <3>2. t \in Waiting
      BY <2>1, <3>1 DEF Listed
    <3>3. failures > 0 /\ \E i \in DOMAIN requests : requests[i].deadline >= wake[t]
      BY <1>1, <2>1, <3>1 DEF SleepJustified
    <3>4. t \in Waiting'
      BY <1>2, <2>1, <3>2 DEF Waiting
    <3> QED BY <2>1, <3>3, <3>4
  <2>2. ~(wake'[t] <= Later(now', Cooling'))
    BY <1>1, <1>2
  <2> QED BY <1>2, <2>1, <2>2
<1>3. \A t \in Task : wake'[t] <= Later(now', Cooling') \/ wake'[t] > Later(now', Cooling')
  BY <1>1
<1>4. Listed'
  BY <1>2 DEF Listed
<1>5. SleepJustified'
  BY <1>2, <1>3 DEF SleepJustified
<1> QED BY <1>4, <1>5

\* The request of a verdict, and every other one, keeps its deadline.
LEMMA SleepVerdict ==
  ASSUME CircuitInv, SleepInv, NEW i \in DOMAIN requests,
         Success(i) \/ \E hint \in Hints : Failure(i, hint)
  PROVE  Listed' /\ SleepJustified'
<1>1. /\ now \in Nat /\ cooldown \in Nat /\ retryAt \in Nat /\ failures \in Nat
      /\ retryAt <= cooldown /\ TypeOK
      /\ wake \in [Task -> Nat] /\ status \in [Task -> {"READY", "RUNNING", "ENDED"}]
      /\ UNCHANGED now
  <2>1. UNCHANGED now
    BY DEF Success, Failure
  <2> QED BY <2>1, ProviderAssumption DEF CircuitInv, TypeOK, CircuitOK, TasksOK, Paused
<1>2. Listed /\ SleepJustified
  BY DEF SleepInv
<1>3. \A t \in Task : t \in Waiting => status[t] = "READY"
  BY DEF Waiting
<1>4. CASE Success(i)
  <2>1. /\ CircuitInv' /\ DOMAIN requests' = DOMAIN requests
        /\ \A j \in DOMAIN requests : requests'[j].deadline = requests[j].deadline
        /\ UNCHANGED <<cooldown, waits, fence>>
    BY <1>4, SuccessCircuit DEF Same, Success
  <2>2. \A t \in Task : status'[t] # "ENDED" => status'[t] = status[t]
    BY <1>1, <1>4 DEF Success, Served
  <2>3. CASE Fresh(i)
    <3>1. cooldown <= now
      BY <1>1, <2>3, RequestTyped DEF CircuitInv, TypeOK, Paused, Fresh
    <3>2. retryAt' = 0 /\ WakeWaiters(now)
      BY <1>1, <1>4, <2>3, <3>1 DEF Success
    <3>3. \A t \in Task : wake'[t] = IF t \in Waiting THEN Earlier(wake[t], now) ELSE wake[t]
      BY <1>1, <3>2, WakeTyped
    <3>4. Later(now, Cooling) = now /\ Later(now', Cooling') = now
      BY <1>1, <2>1, <3>1, <3>2 DEF Later, Cooling
    <3>5. \A t \in Task : status'[t] = "READY" => wake'[t] <= now
      BY <1>1, <1>2, <2>2, <3>3, <3>4 DEF Listed, Earlier
    <3>6. \A t \in Task : status'[t] = "RUNNING" => wake'[t] <= now'
      BY <1>1, <1>2, <1>3, <2>2, <3>3 DEF Listed
    <3>7. now <= now' /\ Later(now, Cooling) <= Later(now', Cooling')
      BY <1>1, <3>4
    <3> QED BY <1>1, <1>2, <2>1, <3>4, <3>5, <3>6, <3>7, SleepKept
  <2>4. CASE ~Fresh(i)
    <3>1. UNCHANGED <<failures, retryAt, wake>>
      BY <1>4, <2>4 DEF Success
    <3>2. Later(now, Cooling) = Later(now', Cooling') /\ Later(now, Cooling) \in Nat
      BY <1>1, <2>1, <3>1 DEF Later, Cooling
    <3>3. \A t \in Task : status'[t] = "RUNNING" => wake'[t] <= now'
      BY <1>1, <1>2, <2>2, <3>1 DEF Listed
    <3>4. now <= now' /\ Later(now, Cooling) <= Later(now', Cooling')
      BY <1>1, <3>2
    <3>5. \A t \in Task : status'[t] = "READY" =>
            /\ status[t] = "READY" /\ wake'[t] = wake[t]
            /\ waits'[t] = waits[t] /\ fence'[t] = fence[t]
            /\ failures > 0 => failures' > 0
      BY <2>1, <2>2, <3>1
    <3> QED BY <1>2, <2>1, <3>3, <3>4, <3>5, SleepKept
  <2> QED BY <2>3, <2>4
<1>5. ASSUME NEW hint \in Hints, Failure(i, hint)
      PROVE  Listed' /\ SleepJustified'
  <2>1. /\ CircuitInv' /\ DOMAIN requests' = DOMAIN requests
        /\ \A j \in DOMAIN requests : requests'[j].deadline = requests[j].deadline
        /\ cooldown <= cooldown' /\ WakeWaiters(cooldown') /\ UNCHANGED status
        /\ retryAt' = cooldown'
    BY <1>5, FailureCircuit DEF Same, Failure
  <2>2. cooldown' \in Nat
    BY <2>1 DEF CircuitInv, TypeOK, CircuitOK
  <2>3. \A t \in Task : wake'[t] = IF t \in Waiting THEN Earlier(wake[t], cooldown') ELSE wake[t]
    BY <1>1, <2>1, <2>2, WakeTyped
  <2>4. Later(now, Cooling) = Later(now, cooldown) /\ Later(now', Cooling') = Later(now, cooldown')
    BY <1>1, <2>1, <2>2 DEF Later, Cooling
  <2>5. Later(now, cooldown) <= Later(now, cooldown') /\ cooldown' <= Later(now, cooldown')
    BY <1>1, <2>1, <2>2 DEF Later
  <2>6. ASSUME NEW t \in Task, status'[t] = "READY" PROVE wake'[t] <= Later(now', Cooling')
    <3>1. wake[t] \in Nat /\ Later(now, cooldown) \in Nat /\ Later(now, cooldown') \in Nat
      BY <1>1, <2>2 DEF Later
    <3>2. CASE t \in Waiting
      BY <2>2, <2>3, <2>4, <2>5, <3>1, <3>2 DEF Earlier
    <3>3. CASE t \notin Waiting
      <4>1. ~(wake[t] > Later(now, cooldown))
        BY <1>2, <2>1, <2>4, <2>6, <3>3 DEF Listed
      <4> QED BY <2>3, <2>4, <2>5, <3>1, <3>3, <4>1
    <3> QED BY <3>2, <3>3
  <2>7. \A t \in Task : status'[t] = "RUNNING" => wake'[t] <= now'
    BY <1>1, <1>2, <1>3, <2>1, <2>3 DEF Listed
  <2>8. now <= now' /\ Later(now, Cooling) <= Later(now', Cooling')
    BY <1>1, <2>4, <2>5
  <2> QED BY <1>2, <2>1, <2>6, <2>7, <2>8, SleepKept
<1> QED BY <1>4, <1>5

\* A deferral sleeps no longer than it was thrown for, and no longer than the circuit
\* allows when it is persisted.
LEMMA SleepPersist ==
  ASSUME CircuitInv, SleepInv, NEW d \in thrown, Persist(d), CircuitInv'
  PROVE  Listed' /\ SleepJustified'
<1>1. /\ now \in Nat /\ cooldown \in Nat /\ Cooling \in Nat /\ cooldown <= Cooling
      /\ d.task \in Task /\ d.fence \in Nat /\ d.wake \in Nat /\ TypeOK
      /\ wake \in [Task -> Nat] /\ status \in [Task -> {"READY", "RUNNING", "ENDED"}]
  BY DEF CircuitInv, TypeOK, CircuitOK, TasksOK, MemoryOK, Deferral, Cooling, Later
<1>2. UNCHANGED <<now, failures, retryAt, cooldown, requests, waits, fence>>
  BY DEF Persist, circuit
<1>3. Listed /\ SleepJustified /\ Recorded
  BY DEF SleepInv
<1>4. Cooling' = Cooling /\ Later(now, Cooling) \in Nat /\ now <= Later(now, Cooling)
      /\ cooldown <= Later(now, Cooling)
  BY <1>1, <1>2 DEF Cooling, Later
<1>5. \A t \in Task : (t = d.task /\ Holds(d.task, d.fence)) \/ (status'[t] = status[t] /\ wake'[t] = wake[t])
  BY <1>1 DEF Persist
<1>6. ASSUME Holds(d.task, d.fence)
      PROVE  /\ status'[d.task] = "READY"
             /\ \/ wake'[d.task] <= Later(now, Cooling)
                \/ /\ d.task \in Waiting' /\ failures > 0
                   /\ \E i \in DOMAIN requests : requests[i].deadline >= wake'[d.task]
  <2>1. /\ status'[d.task] = "READY"
        /\ wake'[d.task] = Later(now, Earlier(d.wake, WaitDeadline(d)))
    BY <1>1, <1>6 DEF Persist
  <2>2. CASE waits[d.task] = [fence |-> d.fence, wake |-> d.wake]
    <3>1. WaitDeadline(d) = Admission /\ Admission \in Nat
      BY <1>1, <2>2, AdmissionBounds DEF WaitDeadline
    <3>2. CASE Admission <= Later(now, Cooling)
      BY <1>1, <1>4, <2>1, <3>1, <3>2 DEF Later, Earlier
    <3>3. CASE failures > 0 /\ \E i \in Live : requests[i].deadline = Admission
      <4>1. PICK i \in DOMAIN requests : requests[i].deadline = Admission
        BY <3>3 DEF Live
      <4>2. SUFFICES ASSUME ~(wake'[d.task] <= Later(now, Cooling))
                     PROVE  d.task \in Waiting' /\ wake'[d.task] <= Admission
        BY <2>1, <3>1, <3>3, <4>1
      <4>3. wake'[d.task] <= Admission /\ wake'[d.task] <= d.wake
        BY <1>1, <1>4, <2>1, <3>1, <4>2 DEF Later, Earlier
      <4>4. waits[d.task] # NoWait /\ waits[d.task].fence = d.fence /\ waits[d.task].wake = d.wake
        BY <1>1, <2>2, ProviderAssumption
      <4> QED BY <1>1, <1>2, <1>6, <2>1, <4>3, <4>4 DEF Waiting, Holds
    <3> QED BY <1>1, <2>1, <3>2, <3>3, AdmissionBounds
  <2>3. CASE waits[d.task] # [fence |-> d.fence, wake |-> d.wake]
    <3>1. d.wake <= cooldown /\ WaitDeadline(d) = d.wake
      BY <1>1, <1>3, <1>6, <2>3 DEF Recorded, WaitDeadline
    <3> QED BY <1>1, <1>4, <2>1, <3>1 DEF Later, Earlier
  <2> QED BY <2>2, <2>3
<1>7. \A t \in Task : status'[t] = "RUNNING" => wake'[t] <= now'
  BY <1>1, <1>2, <1>3, <1>5, <1>6 DEF Listed
<1>8. now <= now' /\ Later(now, Cooling) <= Later(now', Cooling')
  BY <1>1, <1>2, <1>4
<1>9. ASSUME NEW t \in Task, status'[t] = "READY"
      PROVE  \/ wake'[t] <= Later(now', Cooling')
             \/ /\ status[t] = "READY" /\ wake'[t] = wake[t]
                /\ waits'[t] = waits[t] /\ fence'[t] = fence[t]
                /\ failures > 0 => failures' > 0
             \/ /\ t \in Waiting' /\ failures' > 0
                /\ \E i \in DOMAIN requests' : requests'[i].deadline >= wake'[t]
  BY <1>2, <1>4, <1>5, <1>6, <1>9
<1> QED BY <1>2, <1>3, <1>7, <1>8, <1>9, SleepKept

\* Everybody else leaves the circuit alone.
LEMMA SleepMoves ==
  ASSUME CircuitInv, SleepInv, CircuitInv',
         \/ UNCHANGED vars
         \/ \E t \in Task : Claim(t) \/ Reserve(t) \/ Expire(t) \/ Crash(t)
         \/ \E i \in DOMAIN requests :
              \/ \E verdict \in {"answered", "failed"} : Complete(i, verdict)
              \/ CompleteSilently(i) \/ CompleteJudged(i)
         \/ Tick
  PROVE  Listed' /\ SleepJustified'
<1>1. /\ now \in Nat /\ now' \in Nat /\ cooldown \in Nat /\ retryAt \in Nat /\ TypeOK
      /\ wake \in [Task -> Nat] /\ status \in [Task -> {"READY", "RUNNING", "ENDED"}]
      /\ fence \in [Task -> Nat] /\ DOMAIN waits = Task /\ asking \subseteq Task
  BY DEF CircuitInv, TypeOK, CircuitOK, TasksOK, MemoryOK
<1>2. Listed /\ SleepJustified /\ \A t \in asking : status[t] = "RUNNING"
  BY <1>1 DEF SleepInv, OneErrand
<1>3. UNCHANGED <<failures, retryAt, cooldown, wake>> /\ now <= now'
  <2>1. UNCHANGED <<circuit, wake>>
    BY DEF Reserve, Claim, Exhaust, Turn, Queue, Admit, Expire, Crash, Complete,
           CompleteSilently, CompleteJudged, Tick, vars, tasks
  <2>2. now' = now \/ now' = now + 1
    BY DEF Reserve, Claim, Exhaust, Turn, Queue, Admit, Expire, Crash, Complete,
           CompleteSilently, CompleteJudged, Tick, vars
  <2> QED BY <1>1, <2>1, <2>2 DEF circuit
<1>4. Later(now, Cooling) <= Later(now', Cooling') /\ now' <= Later(now', Cooling')
      /\ Later(now', Cooling') \in Nat
  BY <1>1, <1>3 DEF Later, Cooling
<1>5. \A i \in DOMAIN requests :
        i \in DOMAIN requests' /\ requests'[i].deadline = requests[i].deadline
  <2>1. CASE requests' = requests
    BY <2>1
  <2>2. CASE requests' = Swept
    BY <1>1, <2>2, SweptTyped DEF TypeOK
  <2>3. ASSUME NEW t \in Task, Admit(t)
        PROVE  \A i \in DOMAIN requests :
                 i \in DOMAIN requests' /\ requests'[i].deadline = requests[i].deadline
    <3>1. PICK r : requests' = Append(Swept, r)
      BY <2>3 DEF Admit
    <3>2. DOMAIN requests = 1..Len(requests) /\ Len(requests) \in Nat
      BY <1>1, RequestTyped DEF TypeOK
    <3>3. DOMAIN Append(Swept, r) = 1..(Len(Swept) + 1)
      BY <1>1, SweptTyped DEF TypeOK
    <3>4. \A i \in DOMAIN requests : Append(Swept, r)[i] = Swept[i]
      BY <1>1, <3>2, SweptTyped DEF TypeOK
    <3> QED BY <1>1, <3>1, <3>2, <3>3, <3>4, SweptTyped DEF TypeOK
  <2>4. ASSUME NEW i \in DOMAIN requests,
               \/ \E verdict \in {"answered", "failed"} : Complete(i, verdict)
               \/ CompleteSilently(i) \/ CompleteJudged(i)
        PROVE  \A j \in DOMAIN requests :
                 j \in DOMAIN requests' /\ requests'[j].deadline = requests[j].deadline
    BY <2>4, CompletionMoves DEF Unjudged, Same
  <2> QED BY <2>1, <2>2, <2>3, <2>4
       DEF Reserve, Claim, Exhaust, Turn, Queue, Expire, Crash, Tick, vars
<1>6. ASSUME NEW t \in Task
      PROVE  /\ status'[t] = "RUNNING" => wake[t] <= now
             /\ status'[t] = "READY" =>
                  \/ status[t] = "RUNNING"
                  \/ status[t] = "READY" /\ waits'[t] = waits[t] /\ fence'[t] = fence[t]
  <2>1. status[t] = "RUNNING" => wake[t] <= now
    BY <1>2 DEF Listed
  <2>2. CASE UNCHANGED vars \/ Tick
    BY <2>1, <2>2 DEF vars, Tick, tasks
  <2>3. ASSUME NEW u \in Task, Claim(u)
        PROVE  /\ status'[t] = "RUNNING" => wake[t] <= now
               /\ status'[t] = "READY" =>
                    status[t] = "READY" /\ waits'[t] = waits[t] /\ fence'[t] = fence[t]
    BY <1>1, <2>1, <2>3 DEF Claim
  <2>4. ASSUME NEW u \in Task, Reserve(u)
        PROVE  /\ status'[t] = "RUNNING" => wake[t] <= now
               /\ status'[t] = "READY" =>
                    status[t] = "READY" /\ waits'[t] = waits[t] /\ fence'[t] = fence[t]
    BY <1>1, <1>2, <2>1, <2>4 DEF Reserve, Exhaust, Turn, Queue, Admit, tasks
  <2>5. ASSUME NEW u \in Task, Expire(u) \/ Crash(u)
        PROVE  /\ status'[t] = "RUNNING" => wake[t] <= now
               /\ status'[t] = "READY" =>
                    \/ status[t] = "RUNNING"
                    \/ status[t] = "READY" /\ waits'[t] = waits[t] /\ fence'[t] = fence[t]
    BY <1>1, <2>1, <2>5 DEF Expire, Crash
  <2>6. ASSUME NEW i \in DOMAIN requests,
               \/ \E verdict \in {"answered", "failed"} : Complete(i, verdict)
               \/ CompleteSilently(i) \/ CompleteJudged(i)
        PROVE  /\ status'[t] = "RUNNING" => wake[t] <= now
               /\ status'[t] = "READY" =>
                    status[t] = "READY" /\ waits'[t] = waits[t] /\ fence'[t] = fence[t]
    BY <1>1, <2>1, <2>6 DEF Complete, CompleteSilently, CompleteJudged, Served, tasks
  <2> QED BY <2>2, <2>3, <2>4, <2>5, <2>6
<1>7. \A t \in Task : status'[t] = "RUNNING" => wake'[t] <= now'
  BY <1>1, <1>3, <1>6
<1>8. ASSUME NEW t \in Task, status'[t] = "READY"
      PROVE  \/ wake'[t] <= Later(now', Cooling')
             \/ /\ status[t] = "READY" /\ wake'[t] = wake[t]
                /\ waits'[t] = waits[t] /\ fence'[t] = fence[t]
                /\ failures > 0 => failures' > 0
  <2>1. status[t] = "RUNNING" => wake[t] <= now
    BY <1>2 DEF Listed
  <2> QED BY <1>1, <1>3, <1>4, <1>6, <1>8, <2>1
<1> QED BY <1>2, <1>3, <1>4, <1>5, <1>7, <1>8, SleepKept

LEMMA SleepStep ==
  ASSUME CircuitInv, SleepInv, [Next]_vars
  PROVE  SleepInv'
<1>1. CircuitInv'
  BY CircuitStep
<1>2. OneErrand' /\ Fenced' /\ Recorded'
  BY ErrandStep, RecordStep DEF SleepInv
<1>3. Listed' /\ SleepJustified'
  BY <1>1, SleepVerdict, SleepPersist, SleepMoves DEF Next, Proceed
<1> QED BY <1>2, <1>3 DEF SleepInv

\* A deferred task sleeps until the cooldown is over, or until a request it waits for
\* could have taken, whatever verdicts come between the transactions of the deferral
\* (reserve, persistContinuation and wakeProviderWaiters).
THEOREM SleepersAreJustified == Spec => []SleepJustified
<1>1. Init => CircuitInv /\ SleepInv
  BY InitCircuit, InitSleep
<1>2. CircuitInv /\ SleepInv /\ [Next]_vars => CircuitInv' /\ SleepInv'
  BY CircuitStep, SleepStep
<1>3. SleepInv => SleepJustified
  BY DEF SleepInv
<1> QED BY <1>1, <1>2, <1>3, PTL DEF Spec
=============================================================================
