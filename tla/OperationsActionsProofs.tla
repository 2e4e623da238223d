----------------------- MODULE OperationsActionsProofs -----------------------
(***************************************************************************)
(* Theorems about OperationsActions, for every set of actions, callers,    *)
(* runs and resources.                                                     *)
(***************************************************************************)
EXTENDS OperationsActions, SumTheorems, SequenceTheorems, TLAPS

-----------------------------------------------------------------------------
(* The inductive invariant.                                                *)

\* Every transition outside answers an execute request of its own, and a request is
\* issued only when the row is inserted.
IssuedOnce ==
  \A k \in Key :
    /\ Len(issued[k]) <= 1
    /\ state[k] = "NONE" => Len(issued[k]) = 0
    /\ wire[k] + effects[k] <= Len(issued[k])

\* What became of an action outside is what happened there.
OutcomeCounted ==
  \A k \in Key : /\ outcome[k] = "done" <=> effects[k] > 0
                 /\ outcome[k] = "refused" => effects[k] = 0

\* A final answer that waits to be committed is true.
AnswersTrue ==
  \A c \in Caller : call[c].phase = "commit" => Truthful(call[c].key, call[c].status)

\* A run's use of an action is on record from the claim on.
UsesComplete ==
  /\ \A c \in Caller : call[c] # Idle => <<call[c].key, RunOf[c]>> \in uses
  /\ \A k \in Key : \A i \in DOMAIN issued[k] : <<k, issued[k][i]>> \in uses

Inv == /\ TypeOK /\ WithinCeiling /\ IssuedOnce /\ OutcomeCounted /\ AnswersTrue
       /\ ReceiptTruthful /\ UsesComplete

-----------------------------------------------------------------------------
(* The actions, by what they leave alone.                                  *)

\* A step is one of the actions for some caller, key and answer.
LEMMA Actions ==
  ASSUME Next
  PROVE  \/ \E c \in Caller, k \in Key : Dispatch(c, k)
         \/ \E c \in Caller, status \in Reply, usage \in [Resource -> 0..MaxUsage] :
              Answer(c, status, usage)
         \/ \E c \in Caller : Settle(c)
         \/ \E c \in Caller : Postpone(c)
         \/ \E c \in Caller : Abandon(c)
         \/ \E k \in Key : Deliver(k)
         \/ \E k \in Key : Lose(k)
         \/ \E k \in Key : Refuse(k)
         \/ \E c \in Caller, k \in Key : Reuse(c, k) \/ Await(c, k)
         \/ \E c \in Caller : Revoke(c) \/ Resume(c) \/ Crash(c)
         \/ \E m \in {"ACTIVE", "DRAINING", "PAUSED"} : SetMode(m)
         \/ Tick
BY DEF Next

\* Uses, attempts, processes, modes and time decide nothing.
LEMMA QuietSteps ==
  ASSUME TypeOK,
         \/ \E c \in Caller, k \in Key : Reuse(c, k) \/ Await(c, k)
         \/ \E c \in Caller : Revoke(c) \/ Resume(c) \/ Crash(c)
         \/ \E m \in {"ACTIVE", "DRAINING", "PAUSED"} : SetMode(m)
         \/ Tick
  PROVE  /\ UNCHANGED <<state, reserved, spent, issued, wire, outcome, effects>>
         /\ uses \subseteq uses'
         /\ call' \in [Caller -> Call \cup {Idle}]
         /\ \A c \in Caller : call'[c] = call[c] \/ call'[c] = Idle
BY DEF TypeOK, Reuse, Await, Revoke, Resume, Crash, SetMode, Tick, Using, rows, outside

-----------------------------------------------------------------------------
(* Each part of the invariant is kept.                                     *)

LEMMA IdleCall ==
  Idle.phase = "idle" /\ Idle.key = NoKey /\ Idle.usage = NoUsage /\ NoUsage \in Usage
BY DEF Idle, NoUsage, Usage

LEMMA TypeInit == Init => TypeOK
BY OperationsAssumption DEF OperationsAssumption, Init, TypeOK, Usage, NoUsage, Reply, Settled

\* What an adapter call holds.
LEMMA CallFields ==
  ASSUME TypeOK, NEW c \in Caller, call[c] # Idle
  PROVE  /\ call[c].key \in Key /\ call[c].status \in Reply /\ call[c].usage \in Usage
         /\ call[c].phase \in {"execute", "inspect", "commit"}
BY DEF TypeOK, Call

\* Every step keeps the types.
LEMMA TypeStep ==
  ASSUME TypeOK, Next
  PROVE  TypeOK'
<1> USE OperationsAssumption DEF OperationsAssumption
<1>1. ASSUME NEW c \in Caller, NEW k \in Key, Dispatch(c, k)
      PROVE  TypeOK'
  <2>1. [phase |-> Operation(k), key |-> k, status |-> "UNKNOWN", usage |-> NoUsage] \in Call
    BY DEF Operation, Call, Reply, Settled, Usage, NoUsage
  <2>2. call' \in [Caller -> Call \cup {Idle}]
    BY <1>1, <2>1 DEF TypeOK, Dispatch
  <2>3. issued' \in [Key -> Seq(Run)] /\ wire' \in [Key -> Nat]
    <3>1. Append(issued[k], RunOf[c]) \in Seq(Run)
      BY AppendProperties DEF TypeOK
    <3>2. \/ /\ issued' = [issued EXCEPT ![k] = Append(issued[k], RunOf[c])]
             /\ wire' = [wire EXCEPT ![k] = wire[k] + 1]
          \/ UNCHANGED <<issued, wire>>
      BY <1>1 DEF Dispatch
    <3>3. issued \in [Key -> Seq(Run)] /\ wire \in [Key -> Nat]
      BY DEF TypeOK
    <3>4. issued' \in [Key -> Seq(Run)]
      BY <3>1, <3>2, <3>3
    <3>5. wire' \in [Key -> Nat]
      BY <3>2, <3>3
    <3>6. QED
      BY <3>4, <3>5
  <2>4. reserved' \in [Resource -> Int]
    <3>1. \/ reserved' = [r \in Resource |-> reserved[r] + Reserve[k][r]]
          \/ reserved' = reserved
      BY <1>1 DEF Dispatch
    <3>2. QED
      BY <3>1 DEF TypeOK
  <2>5. uses' \subseteq Key \X Run
    BY <1>1 DEF TypeOK, Dispatch, Using
  <2>6. state' \in [Key -> Reply \cup {"NONE", "DISPATCHING"}] /\ owner' \in [Key -> Caller \cup {NoCaller}]
    BY <1>1 DEF TypeOK, Dispatch
  <2>7. lease' \in [Key -> 0..Lease] /\ UNCHANGED <<mode, retry, spent, live, outcome, effects>>
    BY <1>1 DEF TypeOK, Dispatch
  <2>8. QED
    BY <2>2, <2>3, <2>4, <2>5, <2>6, <2>7 DEF TypeOK
<1>2. ASSUME NEW c \in Caller, NEW status \in Reply, NEW usage \in [Resource -> 0..MaxUsage],
             Answer(c, status, usage)
      PROVE  TypeOK'
  <2>1. call[c] \in Call
    BY <1>2, IdleCall DEF TypeOK, Answer
  <2>2. call' \in [Caller -> Call \cup {Idle}]
    BY <1>2, <2>1 DEF TypeOK, Answer, Call, Reply, Settled, Usage, NoUsage, Observe
  <2>3. QED
    BY <1>2, <2>2 DEF TypeOK, Answer, rows, outside
<1>3. ASSUME NEW c \in Caller, Settle(c)
      PROVE  TypeOK'
  <2>1. call[c] # Idle
    BY <1>3, IdleCall DEF Settle
  <2>2. call[c].key \in Key /\ call[c].usage \in Usage /\ call[c].status \in Reply
    BY <2>1, CallFields
  <2>3. reserved' \in [Resource -> Int]
    <3>1. reserved' = [r \in Resource |-> reserved[r] - Reserve[call[c].key][r]]
      BY <1>3 DEF Settle
    <3>2. QED
      BY <2>2, <3>1 DEF TypeOK
  <2>4. spent' \in Usage
    <3>1. spent' = [r \in Resource |-> spent[r] + call[c].usage[r]]
      BY <1>3 DEF Settle, Spending
    <3>2. QED
      BY <2>2, <3>1 DEF TypeOK, Usage
  <2>5. /\ state' \in [Key -> Reply \cup {"NONE", "DISPATCHING"}]
        /\ owner' \in [Key -> Caller \cup {NoCaller}]
    BY <1>3, <2>2 DEF TypeOK, Settle
  <2>6. lease' \in [Key -> 0..Lease] /\ call' \in [Caller -> Call \cup {Idle}]
    BY <1>3, <2>2 DEF TypeOK, Settle
  <2>7. UNCHANGED <<mode, retry, uses, live, issued, wire, outcome, effects>>
    BY <1>3 DEF Settle, outside
  <2>8. QED
    BY <2>3, <2>4, <2>5, <2>6, <2>7 DEF TypeOK
<1>4. ASSUME NEW c \in Caller, Postpone(c) \/ Abandon(c)
      PROVE  TypeOK'
  <2>1. call[c] # Idle
    BY <1>4, IdleCall DEF Postpone, Abandon
  <2>2. call[c].key \in Key /\ call[c].status \in Reply
    BY <2>1, CallFields
  <2>3. \/ Unresolved(c, call[c].key, call[c].status)
        \/ Unresolved(c, call[c].key, "UNKNOWN")
        \/ UNCHANGED <<state, owner, lease, retry>>
    BY <1>4 DEF Postpone, Abandon
  <2>4. state' \in [Key -> Reply \cup {"NONE", "DISPATCHING"}]
    BY <2>2, <2>3 DEF TypeOK, Unresolved, Reply
  <2>5. owner' \in [Key -> Caller \cup {NoCaller}]
    BY <2>2, <2>3 DEF TypeOK, Unresolved
  <2>6. lease' \in [Key -> 0..Lease]
    <3>1. lease' = lease \/ lease' = [lease EXCEPT ![call[c].key] = 0]
      BY <2>3 DEF Unresolved
    <3>2. 0 \in 0..Lease /\ lease \in [Key -> 0..Lease]
      BY DEF TypeOK
    <3>3. QED
      BY <2>2, <3>1, <3>2
  <2>7. retry' \in [Key -> 0..Poll]
    <3>1. retry' = retry \/ retry' = [retry EXCEPT ![call[c].key] = Poll]
      BY <2>3 DEF Unresolved
    <3>2. Poll \in 0..Poll /\ retry \in [Key -> 0..Poll]
      BY DEF TypeOK
    <3>3. QED
      BY <2>2, <3>1, <3>2
  <2>8. live' \subseteq Caller /\ call' \in [Caller -> Call \cup {Idle}]
    BY <1>4 DEF TypeOK, Postpone, Abandon
  <2>9. UNCHANGED <<mode, reserved, spent, uses, issued, wire, outcome, effects>>
    BY <1>4 DEF Postpone, Abandon, outside
  <2>10. QED
    BY <2>4, <2>5, <2>6, <2>7, <2>8, <2>9 DEF TypeOK
<1>5. ASSUME NEW k \in Key, Deliver(k) \/ Lose(k) \/ Refuse(k)
      PROVE  TypeOK'
  <2>1. wire' = wire \/ (wire[k] > 0 /\ wire' = [wire EXCEPT ![k] = wire[k] - 1])
    BY <1>5 DEF Deliver, Lose, Refuse
  <2>2. effects' = effects \/ effects' = [effects EXCEPT ![k] = effects[k] + 1]
    BY <1>5 DEF Deliver, Lose, Refuse
  <2>3. wire \in [Key -> Nat] /\ effects \in [Key -> Nat]
    BY DEF TypeOK
  <2>4. wire' \in [Key -> Nat]
    BY <2>1, <2>3
  <2>5. effects' \in [Key -> Nat]
    BY <2>2, <2>3
  <2>6. outcome' \in [Key -> {"open", "done", "refused"}]
    BY <1>5 DEF TypeOK, Deliver, Lose, Refuse
  <2>7. UNCHANGED <<mode, rows, live, call, issued>>
    BY <1>5 DEF Deliver, Lose, Refuse
  <2>8. QED
    BY <2>4, <2>5, <2>6, <2>7 DEF TypeOK, rows
<1>6. ASSUME NEW c \in Caller, NEW k \in Key, Reuse(c, k) \/ Await(c, k)
      PROVE  TypeOK'
  BY <1>6 DEF TypeOK, Reuse, Await, Using, outside
<1>7. ASSUME NEW c \in Caller, Revoke(c) \/ Resume(c) \/ Crash(c)
      PROVE  TypeOK'
  BY <1>7 DEF TypeOK, Revoke, Resume, Crash, rows, outside
<1>8. CASE \E m \in {"ACTIVE", "DRAINING", "PAUSED"} : SetMode(m)
  BY <1>8 DEF TypeOK, SetMode, rows, outside
<1>9. CASE Tick
  <2>1. lease' = [k \in Key |-> IF lease[k] > 0 THEN lease[k] - 1 ELSE 0]
    BY <1>9 DEF Tick
  <2>2. retry' = [k \in Key |-> IF retry[k] > 0 THEN retry[k] - 1 ELSE 0]
    BY <1>9 DEF Tick
  <2>3. lease \in [Key -> 0..Lease] /\ retry \in [Key -> 0..Poll]
    BY DEF TypeOK
  <2>4. lease' \in [Key -> 0..Lease]
    BY <2>1, <2>3
  <2>5. retry' \in [Key -> 0..Poll]
    BY <2>2, <2>3
  <2>6. UNCHANGED <<mode, state, owner, reserved, spent, uses, live, call, issued, wire,
                    outcome, effects>>
    BY <1>9 DEF Tick, outside
  <2>7. QED
    BY <2>4, <2>5, <2>6 DEF TypeOK
<1>10. QED
  BY <1>1, <1>2, <1>3, <1>4, <1>5, <1>6, <1>7, <1>8, <1>9, Actions

\* Spending never exceeds what was reserved for it, so no ceiling is passed.
LEMMA CeilingStep ==
  ASSUME TypeOK, WithinCeiling, Next
  PROVE  WithinCeiling'
<1> USE OperationsAssumption DEF OperationsAssumption
<1>1. ASSUME NEW c \in Caller, NEW k \in Key, Dispatch(c, k)
      PROVE  WithinCeiling'
  <2>1. \/ reserved' = reserved
        \/ /\ Affordable(k)
           /\ reserved' = [r \in Resource |-> reserved[r] + Reserve[k][r]]
    BY <1>1 DEF Dispatch
  <2>2. spent' = spent
    BY <1>1 DEF Dispatch
  <2>3. reserved \in [Resource -> Int] /\ spent \in [Resource -> Nat]
    BY DEF TypeOK, Usage
  <2>4. ASSUME NEW r \in Resource
        PROVE  spent'[r] + reserved'[r] <= Limit[r]
    BY <2>1, <2>2, <2>3 DEF Affordable, WithinCeiling
  <2>5. QED
    BY <2>4 DEF WithinCeiling
<1>2. ASSUME NEW c \in Caller, Settle(c)
      PROVE  WithinCeiling'
  <2> DEFINE k == call[c].key
             usage == call[c].usage
  <2>1. k \in Key /\ usage \in [Resource -> Nat]
    BY <1>2, CallFields, IdleCall DEF Settle, Usage
  <2>2. /\ Plausible(k, call[c].status, usage)
        /\ reserved' = [r \in Resource |-> reserved[r] - Reserve[k][r]]
        /\ spent' = [r \in Resource |-> spent[r] + usage[r]]
    BY <1>2 DEF Settle, Spending
  <2>3. reserved \in [Resource -> Int] /\ spent \in [Resource -> Nat]
    BY DEF TypeOK, Usage
  <2> HIDE DEF k, usage
  <2>4. ASSUME NEW r \in Resource
        PROVE  spent'[r] + reserved'[r] <= Limit[r]
    <3>1. usage[r] <= Reserve[k][r]
      BY <2>2 DEF Plausible
    <3>2. /\ spent'[r] = spent[r] + usage[r]
          /\ reserved'[r] = reserved[r] - Reserve[k][r]
      BY <2>2
    <3>3. spent[r] + reserved[r] <= Limit[r]
      BY DEF WithinCeiling
    <3>4. /\ spent[r] \in Int /\ usage[r] \in Int /\ reserved[r] \in Int
          /\ Reserve[k][r] \in Int /\ Limit[r] \in Int
      BY <2>1, <2>3
    <3>5. QED
      BY <3>1, <3>2, <3>3, <3>4
  <2>5. QED
    BY <2>4 DEF WithinCeiling
<1>3. CASE UNCHANGED <<reserved, spent>>
  BY <1>3 DEF WithinCeiling
<1>4. QED
  <2>1. ASSUME NEW c \in Caller, Postpone(c) \/ Abandon(c)
        PROVE  UNCHANGED <<reserved, spent>>
    BY <2>1 DEF Postpone, Abandon
  <2>2. ASSUME NEW k \in Key, Deliver(k) \/ Lose(k) \/ Refuse(k)
        PROVE  UNCHANGED <<reserved, spent>>
    BY <2>2 DEF Deliver, Lose, Refuse, rows
  <2>3. ASSUME NEW c \in Caller, NEW status \in Reply,
               NEW usage \in [Resource -> 0..MaxUsage], Answer(c, status, usage)
        PROVE  UNCHANGED <<reserved, spent>>
    BY <2>3 DEF Answer, rows
  <2>4. QED
    BY <1>1, <1>2, <1>3, <2>1, <2>2, <2>3, Actions, QuietSteps

\* Only the claim that inserts the row sends a request, and a request has one effect
\* at most.
LEMMA IssuedStep ==
  ASSUME TypeOK, IssuedOnce, Next
  PROVE  IssuedOnce'
<1>1. ASSUME NEW c \in Caller, NEW k \in Key, Dispatch(c, k)
      PROVE  IssuedOnce'
  <2>1. CASE state[k] = "NONE"
    <3>1. /\ issued' = [issued EXCEPT ![k] = Append(issued[k], RunOf[c])]
          /\ wire' = [wire EXCEPT ![k] = wire[k] + 1]
          /\ state' = [state EXCEPT ![k] = "DISPATCHING"]
          /\ effects' = effects
      BY <1>1, <2>1 DEF Dispatch, Operation
    <3>2. Len(Append(issued[k], RunOf[c])) = Len(issued[k]) + 1 /\ Len(issued[k]) = 0
      BY <2>1, AppendProperties, OperationsAssumption
         DEF OperationsAssumption, TypeOK, IssuedOnce
    <3>3. /\ issued \in [Key -> Seq(Run)] /\ wire \in [Key -> Nat] /\ effects \in [Key -> Nat]
          /\ state \in [Key -> Reply \cup {"NONE", "DISPATCHING"}]
      BY DEF TypeOK
    <3>4. ASSUME NEW j \in Key
          PROVE  /\ Len(issued'[j]) <= 1
                 /\ state'[j] = "NONE" => Len(issued'[j]) = 0
                 /\ wire'[j] + effects'[j] <= Len(issued'[j])
      <4>1. CASE j = k
        <5>1. Len(issued'[j]) = 1 /\ state'[j] = "DISPATCHING"
          BY <3>1, <3>2, <3>3, <4>1
        <5>2. wire[k] + effects[k] <= 0 /\ wire'[j] = wire[k] + 1 /\ effects'[j] = effects[k]
          BY <3>1, <3>2, <3>3, <4>1 DEF IssuedOnce
        <5>3. QED
          BY <3>3, <5>1, <5>2
      <4>2. CASE j # k
        BY <3>1, <3>3, <4>2 DEF IssuedOnce
      <4>3. QED
        BY <4>1, <4>2
    <3>5. QED
      BY <3>4 DEF IssuedOnce
  <2>2. CASE state[k] # "NONE"
    <3>1. UNCHANGED <<issued, wire, effects>> /\ state' = [state EXCEPT ![k] = "DISPATCHING"]
      BY <1>1, <2>2 DEF Dispatch, Operation
    <3>2. QED
      BY <3>1 DEF TypeOK, IssuedOnce
  <2>3. QED
    BY <2>1, <2>2
<1>2. ASSUME NEW k \in Key, Deliver(k) \/ Lose(k) \/ Refuse(k)
      PROVE  IssuedOnce'
  <2>1. UNCHANGED <<state, issued>>
    BY <1>2 DEF Deliver, Lose, Refuse, rows
  <2>2. \/ UNCHANGED <<wire, effects>>
        \/ wire' = [wire EXCEPT ![k] = wire[k] - 1] /\ effects' = effects
        \/ /\ wire' = [wire EXCEPT ![k] = wire[k] - 1]
           /\ effects' = [effects EXCEPT ![k] = effects[k] + 1]
    BY <1>2 DEF Deliver, Lose, Refuse
  <2>3. wire \in [Key -> Nat] /\ effects \in [Key -> Nat] /\ issued \in [Key -> Seq(Run)]
    BY DEF TypeOK
  <2>4. ASSUME NEW j \in Key
        PROVE  wire'[j] + effects'[j] <= wire[j] + effects[j] /\ wire'[j] + effects'[j] \in Int
    <3>1. wire[j] \in Nat /\ effects[j] \in Nat
      BY <2>3
    <3>2. CASE j # k
      <4>1. wire'[j] = wire[j] /\ effects'[j] = effects[j]
        BY <2>2, <2>3, <3>2
      <4>2. QED
        BY <3>1, <4>1
    <3>3. CASE j = k
      <4>1. \/ wire'[j] = wire[j] /\ effects'[j] = effects[j]
            \/ wire'[j] = wire[j] - 1 /\ effects'[j] = effects[j]
            \/ wire'[j] = wire[j] - 1 /\ effects'[j] = effects[j] + 1
        BY <2>2, <2>3, <3>3
      <4>2. QED
        BY <3>1, <4>1
    <3>4. QED
      BY <3>2, <3>3
  <2>5. \A j \in Key : wire[j] + effects[j] <= Len(issued[j]) /\ Len(issued[j]) \in Nat
    BY <2>3 DEF IssuedOnce
  <2>6. \A j \in Key : wire'[j] + effects'[j] <= Len(issued[j])
    BY <2>3, <2>4, <2>5
  <2>7. QED
    BY <2>1, <2>6 DEF IssuedOnce
<1>3. ASSUME NEW c \in Caller, Settle(c) \/ Postpone(c) \/ Abandon(c)
      PROVE  IssuedOnce'
  <2>1. UNCHANGED <<issued, wire, effects>>
    BY <1>3 DEF Settle, Postpone, Abandon, outside
  <2>2. call[c].key \in Key /\ call[c].status \in Reply
    BY <1>3, CallFields, IdleCall DEF Settle, Postpone, Abandon
  <2>3. \A k \in Key : state'[k] = "NONE" => state[k] = "NONE"
    BY <1>3, <2>2 DEF Settle, Postpone, Abandon, Unresolved, TypeOK, Reply, Settled
  <2>4. QED
    BY <2>1, <2>3 DEF IssuedOnce
<1>4. ASSUME NEW c \in Caller, NEW status \in Reply,
             NEW usage \in [Resource -> 0..MaxUsage], Answer(c, status, usage)
      PROVE  IssuedOnce'
  BY <1>4 DEF IssuedOnce, Answer, rows, outside
<1>5. CASE UNCHANGED <<state, issued, wire, effects>>
  BY <1>5 DEF IssuedOnce
<1>6. QED
  BY <1>1, <1>2, <1>3, <1>4, <1>5, Actions, QuietSteps

\* What the service did, and what it decided, agree.
LEMMA OutcomeStep ==
  ASSUME TypeOK, OutcomeCounted, Next
  PROVE  /\ OutcomeCounted'
         /\ \A k \in Key : outcome[k] = "refused" => outcome'[k] = "refused"
         /\ \A k \in Key : outcome[k] = "done" => outcome'[k] = "done"
<1> DEFINE Goal == /\ OutcomeCounted'
                   /\ \A k \in Key : outcome[k] = "refused" => outcome'[k] = "refused"
                   /\ \A k \in Key : outcome[k] = "done" => outcome'[k] = "done"
<1>1. ASSUME NEW k \in Key, Deliver(k)
      PROVE  Goal
  <2>1. /\ outcome[k] # "refused"
        /\ outcome' = [outcome EXCEPT ![k] = "done"]
        /\ effects' = [effects EXCEPT ![k] = effects[k] + 1]
    BY <1>1 DEF Deliver
  <2>2. effects \in [Key -> Nat] /\ outcome \in [Key -> {"open", "done", "refused"}]
    BY DEF TypeOK
  <2>3. ASSUME NEW j \in Key
        PROVE  /\ outcome'[j] = "done" <=> effects'[j] > 0
               /\ outcome'[j] = "refused" => effects'[j] = 0
    <3>1. CASE j = k
      BY <2>1, <2>2, <3>1
    <3>2. CASE j # k
      BY <2>1, <2>2, <3>2 DEF OutcomeCounted
    <3>3. QED
      BY <3>1, <3>2
  <2>4. QED
    BY <2>1, <2>2, <2>3 DEF OutcomeCounted
<1>2. ASSUME NEW k \in Key, Refuse(k)
      PROVE  Goal
  BY <1>2 DEF TypeOK, Refuse, OutcomeCounted
<1>3. CASE UNCHANGED <<outcome, effects>>
  BY <1>3 DEF OutcomeCounted
<1>4. ASSUME NEW c \in Caller, Settle(c) \/ Postpone(c) \/ Abandon(c)
      PROVE  UNCHANGED <<outcome, effects>>
  BY <1>4 DEF Settle, Postpone, Abandon, outside
<1>5. ASSUME NEW c \in Caller, NEW status \in Reply,
             NEW usage \in [Resource -> 0..MaxUsage], Answer(c, status, usage)
      PROVE  UNCHANGED <<outcome, effects>>
  BY <1>5 DEF Answer, outside
<1>6. ASSUME NEW c \in Caller, NEW k \in Key, Dispatch(c, k) \/ Lose(k)
      PROVE  UNCHANGED <<outcome, effects>>
  BY <1>6 DEF Dispatch, Lose
<1>7. ASSUME NEW k \in Key, Lose(k)
      PROVE  UNCHANGED <<outcome, effects>>
  BY <1>7 DEF Lose
<1>8. QED
  BY <1>1, <1>2, <1>3, <1>4, <1>5, <1>6, <1>7, Actions, QuietSteps

\* Only an inspection puts a final answer before the commit, and what it says stays
\* true while the answer waits.
LEMMA AnswersStep ==
  ASSUME TypeOK, OutcomeCounted, AnswersTrue, Next
  PROVE  AnswersTrue'
<1> DEFINE TrueNext(k, s) == /\ s = "CONFIRMED" => outcome'[k] = "done"
                             /\ s = "REJECTED" => outcome'[k] = "refused"
<1>1. \A k \in Key, s \in Reply : Truthful(k, s) => TrueNext(k, s)
  BY OutcomeStep DEF Truthful
<1>2. ASSUME NEW c \in Caller,
             \/ call'[c] = call[c]
             \/ call'[c].phase # "commit"
             \/ call'[c].key \in Key /\ call'[c].status \in Reply \ Settled
      PROVE  call'[c].phase = "commit" => TrueNext(call'[c].key, call'[c].status)
  <2>1. CASE call'[c] = call[c]
    <3>1. ASSUME call[c].phase = "commit"
          PROVE  call[c].key \in Key /\ call[c].status \in Reply
      BY <3>1, CallFields, IdleCall
    <3>2. QED
      BY <1>1, <2>1, <3>1 DEF AnswersTrue
  <2>2. CASE call'[c].key \in Key /\ call'[c].status \in Reply \ Settled
    BY <2>2 DEF Settled
  <2>3. QED
    BY <1>2, <2>1, <2>2
<1>3. ASSUME NEW c \in Caller, NEW k \in Key, Dispatch(c, k), NEW d \in Caller
      PROVE  call'[d] = call[d] \/ call'[d].phase # "commit"
  BY <1>3 DEF TypeOK, Dispatch, Operation
<1>4. ASSUME NEW c \in Caller, Settle(c) \/ Postpone(c) \/ Abandon(c), NEW d \in Caller
      PROVE  call'[d] = call[d] \/ call'[d].phase # "commit"
  BY <1>4, IdleCall DEF TypeOK, Settle, Postpone, Abandon
<1>5. ASSUME NEW k \in Key, Deliver(k) \/ Lose(k) \/ Refuse(k)
      PROVE  call' = call
  BY <1>5 DEF Deliver, Lose, Refuse
<1>6. ASSUME NEW c \in Caller, NEW status \in Reply,
             NEW usage \in [Resource -> 0..MaxUsage], Answer(c, status, usage),
             NEW d \in Caller
      PROVE  call'[d].phase = "commit" => TrueNext(call'[d].key, call'[d].status)
  <2>1. CASE d # c
    <3>1. call'[d] = call[d]
      BY <1>6, <2>1 DEF TypeOK, Answer
    <3>2. QED
      BY <1>2, <3>1
  <2>2. CASE d = c
    <3>1. call[c].key \in Key
      BY <1>6, CallFields, IdleCall DEF Answer
    <3>2. CASE Observe(c, status) = "inspect"
      <4>1. call'[c].phase = "inspect"
        BY <1>6, <3>2 DEF TypeOK, Answer
      <4>2. QED
        BY <2>2, <4>1
    <3>3. CASE Observe(c, status) # "inspect"
      <4>1. call'[c].key = call[c].key /\ call'[c].status = status
        BY <1>6, <3>3 DEF TypeOK, Answer
      <4>2. status \notin Settled \/ call[c].phase = "inspect"
        BY <1>6, <3>3 DEF Answer, Observe
      <4>3. Truthful(call[c].key, status)
        BY <1>6, <4>2 DEF Answer, Truthful, Settled
      <4>4. QED
        BY <1>1, <2>2, <3>1, <4>1, <4>3
    <3>4. QED
      BY <3>2, <3>3
  <2>3. QED
    BY <2>1, <2>2
<1>7. ASSUME NEW d \in Caller
      PROVE  call'[d].phase = "commit" => TrueNext(call'[d].key, call'[d].status)
  BY <1>2, <1>3, <1>4, <1>5, <1>6, Actions, QuietSteps, IdleCall
<1>8. QED
  BY <1>7 DEF AnswersTrue, Truthful

\* A settled action stays settled, and one is settled only by a true answer.
LEMMA SettledRows ==
  ASSUME TypeOK, AnswersTrue, Next, NEW k \in Key
  PROVE  /\ state[k] \in Settled => state'[k] = state[k]
         /\ state'[k] \in Settled /\ state'[k] # state[k] => Truthful(k, state'[k])
<1>1. CASE state' = state
  BY <1>1
<1>2. ASSUME NEW c \in Caller, NEW j \in Key, Dispatch(c, j)
      PROVE  state[j] \notin Settled /\ state' = [state EXCEPT ![j] = "DISPATCHING"]
  BY <1>2 DEF Dispatch
<1>3. ASSUME NEW c \in Caller, Settle(c)
      PROVE  /\ call[c].key \in Key /\ state[call[c].key] \notin Settled
             /\ state' = [state EXCEPT ![call[c].key] = call[c].status]
             /\ Truthful(call[c].key, call[c].status)
  <2>1. call[c].key \in Key
    BY <1>3, CallFields, IdleCall DEF Settle
  <2>2. QED
    BY <1>3, <2>1 DEF Settle, Owns, AnswersTrue
<1>4. ASSUME NEW c \in Caller, Postpone(c) \/ Abandon(c), state' # state
      PROVE  /\ call[c].key \in Key /\ state[call[c].key] \notin Settled
             /\ \E s \in {"PENDING", "UNKNOWN"} : state' = [state EXCEPT ![call[c].key] = s]
  <2>1. call[c].key \in Key /\ call[c].status \in Reply
    BY <1>4, CallFields, IdleCall DEF Postpone, Abandon
  <2>2. CASE Postpone(c)
    BY <2>1, <2>2 DEF Postpone, Owns, Unresolved, Reply, Settled
  <2>3. CASE Abandon(c)
    BY <1>4, <2>1, <2>3 DEF Abandon, Mine, Unresolved
  <2>4. QED
    BY <1>4, <2>2, <2>3
<1>5. ASSUME NEW c \in Caller, NEW status \in Reply,
             NEW usage \in [Resource -> 0..MaxUsage], Answer(c, status, usage)
      PROVE  state' = state
  BY <1>5 DEF Answer, rows
<1>6. ASSUME NEW j \in Key, Deliver(j) \/ Lose(j) \/ Refuse(j)
      PROVE  state' = state
  BY <1>6 DEF Deliver, Lose, Refuse, rows
<1>7. \/ state' = state
      \/ \E j \in Key, s \in {"DISPATCHING", "PENDING", "UNKNOWN"} :
           state[j] \notin Settled /\ state' = [state EXCEPT ![j] = s]
      \/ \E j \in Key, s \in Reply \cup {"NONE", "DISPATCHING"} :
           state[j] \notin Settled /\ Truthful(j, s) /\ state' = [state EXCEPT ![j] = s]
  <2>1. ASSUME NEW c \in Caller, Settle(c)
        PROVE  call[c].status \in Reply
    BY <2>1, CallFields, IdleCall DEF Settle
  <2>2. QED
    BY <1>2, <1>3, <1>4, <1>5, <1>6, <2>1, Actions, QuietSteps
<1>8. QED
  BY <1>7 DEF TypeOK, Settled

LEMMA ReceiptStep ==
  ASSUME Inv, Next
  PROVE  ReceiptTruthful'
<1> USE DEF Inv
<1>1. IssuedOnce' /\ OutcomeCounted' /\ TypeOK'
  BY IssuedStep, OutcomeStep, TypeStep
<1>2. ASSUME NEW k \in Key
      PROVE  /\ state'[k] = "CONFIRMED" => effects'[k] = 1
             /\ state'[k] = "REJECTED" => effects'[k] = 0 /\ outcome'[k] = "refused"
  <2>1. state'[k] = "CONFIRMED" => outcome[k] = "done"
    <3>1. state[k] = "CONFIRMED" => outcome[k] = "done"
      BY DEF ReceiptTruthful, OutcomeCounted
    <3>2. QED
      BY <3>1, SettledRows DEF Truthful, Settled
  <2>2. state'[k] = "REJECTED" => outcome[k] = "refused"
    BY SettledRows DEF Truthful, Settled, ReceiptTruthful
  <2>3. outcome'[k] = "done" => effects'[k] = 1
    <3>1. wire'[k] \in Nat /\ effects'[k] \in Nat /\ Len(issued'[k]) \in Nat
      BY <1>1 DEF TypeOK
    <3>2. wire'[k] + effects'[k] <= Len(issued'[k]) /\ Len(issued'[k]) <= 1
      BY <1>1 DEF IssuedOnce
    <3>3. outcome'[k] = "done" => effects'[k] > 0
      BY <1>1 DEF OutcomeCounted
    <3>4. QED
      BY <3>1, <3>2, <3>3
  <2>4. QED
    BY <1>1, <2>1, <2>2, <2>3, OutcomeStep DEF OutcomeCounted
<1>3. QED
  BY <1>2 DEF ReceiptTruthful

\* Uses are recorded with the claim that needs them and never removed.
LEMMA UsesStep ==
  ASSUME TypeOK, UsesComplete, Next
  PROVE  UsesComplete'
<1>1. ASSUME NEW c \in Caller, NEW k \in Key, Dispatch(c, k)
      PROVE  UsesComplete'
  <2>1. uses' = uses \cup {<<k, RunOf[c]>>}
    BY <1>1 DEF Dispatch, Using
  <2>2. ASSUME NEW d \in Caller, call'[d] # Idle
        PROVE  <<call'[d].key, RunOf[d]>> \in uses'
    <3>1. CASE d = c
      <4>1. call'[c].key = k
        BY <1>1 DEF TypeOK, Dispatch
      <4>2. QED
        BY <2>1, <3>1, <4>1
    <3>2. CASE d # c
      <4>1. call'[d] = call[d]
        BY <1>1, <3>2 DEF TypeOK, Dispatch
      <4>2. QED
        BY <2>1, <2>2, <4>1 DEF UsesComplete
    <3>3. QED
      BY <3>1, <3>2
  <2>3. ASSUME NEW j \in Key, NEW i \in DOMAIN issued'[j]
        PROVE  <<j, issued'[j][i]>> \in uses'
    <3>1. CASE issued'[j] = issued[j]
      BY <2>1, <2>3, <3>1 DEF UsesComplete
    <3>2. CASE issued'[j] # issued[j]
      <4>1. j = k /\ issued'[j] = Append(issued[k], RunOf[c])
        BY <1>1, <3>2 DEF TypeOK, Dispatch
      <4>2. issued[k] \in Seq(Run) /\ RunOf[c] \in Run
        BY OperationsAssumption DEF OperationsAssumption, TypeOK
      <4>3. i \in 1..Len(issued[k]) + 1
        BY <2>3, <4>1, <4>2, AppendProperties
      <4>4. CASE i \in 1..Len(issued[k])
        <5>1. issued'[j][i] = issued[k][i] /\ i \in DOMAIN issued[k]
          BY <4>1, <4>2, <4>4, AppendProperties
        <5>2. QED
          BY <2>1, <4>1, <5>1 DEF UsesComplete
      <4>5. CASE i = Len(issued[k]) + 1
        <5>1. issued'[j][i] = RunOf[c]
          BY <4>1, <4>2, <4>5, AppendProperties
        <5>2. QED
          BY <2>1, <4>1, <5>1
      <4>6. QED
        BY <4>2, <4>3, <4>4, <4>5
    <3>3. QED
      BY <3>1, <3>2
  <2>4. QED
    BY <2>2, <2>3 DEF UsesComplete
<1>2. ASSUME NEW c \in Caller, Settle(c) \/ Postpone(c) \/ Abandon(c)
      PROVE  UsesComplete'
  <2>1. UNCHANGED <<uses, issued>> /\ call' = [call EXCEPT ![c] = Idle]
    BY <1>2 DEF Settle, Postpone, Abandon, outside
  <2>2. QED
    BY <2>1 DEF TypeOK, UsesComplete
<1>3. ASSUME NEW k \in Key, Deliver(k) \/ Lose(k) \/ Refuse(k)
      PROVE  UsesComplete'
  BY <1>3 DEF UsesComplete, Deliver, Lose, Refuse, rows
<1>4. ASSUME NEW c \in Caller, NEW status \in Reply,
             NEW usage \in [Resource -> 0..MaxUsage], Answer(c, status, usage)
      PROVE  UsesComplete'
  <2>1. UNCHANGED <<uses, issued>>
    BY <1>4 DEF Answer, rows
  <2>2. call[c] # Idle
    BY <1>4, IdleCall DEF Answer
  <2>3. \A d \in Caller : d # c => call'[d] = call[d]
    BY <1>4 DEF TypeOK, Answer
  <2>4. call'[c].key = call[c].key
    BY <1>4 DEF TypeOK, Answer
  <2>5. QED
    BY <2>1, <2>2, <2>3, <2>4 DEF UsesComplete
<1>5. ASSUME uses \subseteq uses', UNCHANGED issued,
             \A c \in Caller : call'[c] = call[c] \/ call'[c] = Idle
      PROVE  UsesComplete'
  BY <1>5 DEF UsesComplete
<1>6. QED
  BY <1>1, <1>2, <1>3, <1>4, <1>5, Actions, QuietSteps

-----------------------------------------------------------------------------
(* What is held for each resource.                                         *)

\* The actions that hold a reservation.
Unsettled == {k \in Key : state[k] \notin Settled \cup {"NONE"}}

\* What each action reserves of r.
Needs(r) == [k \in Key |-> Reserve[k][r]]

\* Only an action that holds its reservation has an owner.
OwnedUnsettled == \A k \in Key : owner[k] # NoCaller => k \in Unsettled

\* A claim that fails, a late commit and a catch find the row as BudgetExact needs it.
BudgetInv == OwnedUnsettled /\ IsFiniteSet(Unsettled) /\ BudgetExact

\* g tabulates what the subsets of S reserve of r.
NeedsTable(g, r, S) ==
  g = [s \in SUBSET S |-> IF s = {} THEN 0
                          ELSE Reserve[Chosen(s)][r] + g[s \ {Chosen(s)}]]

LEMMA NeedsSum ==
  ASSUME NEW r, NEW S \in SUBSET Key, IsFiniteSet(S)
  PROVE  MapThenSumSet(LAMBDA k : Reserve[k][r], S) = SumOf(Needs(r), S)
<1> DEFINE it == CHOOSE g : NeedsTable(g, r, S)
<1>1. PICK g : Tabulates(g, Needs(r), S) /\ SumOf(Needs(r), S) = g[S]
  BY SumIsTabulated
<1>2. \A s \in SUBSET S : s # {} => Needs(r)[Chosen(s)] = Reserve[Chosen(s)][r]
  BY ChosenIn DEF Needs
<1>3. \A h : NeedsTable(h, r, S) <=> Tabulates(h, Needs(r), S)
  <2> TAKE h
  <2>1. [s \in SUBSET S |-> IF s = {} THEN 0 ELSE Reserve[Chosen(s)][r] + h[s \ {Chosen(s)}]]
          = [s \in SUBSET S |-> IF s = {} THEN 0
                                ELSE Needs(r)[Chosen(s)] + h[s \ {Chosen(s)}]]
    BY <1>2
  <2>2. QED
    BY <2>1 DEF NeedsTable, Tabulates
<1>4. NeedsTable(it, r, S)
  BY <1>1, <1>3
<1>5. MapThenSumSet(LAMBDA k : Reserve[k][r], S) = it[S]
  BY DEF MapThenSumSet, MapThenFoldSet, NeedsTable, Chosen
<1> HIDE DEF it
<1>6. \A s \in SUBSET (S \cap S) : it[s] = g[s]
  BY <1>1, <1>3, <1>4, TablesAgree
<1>7. QED
  BY <1>1, <1>5, <1>6

\* The property in terms of sums, now and in the next state.
BudgetAgrees ==
  IsFiniteSet(Unsettled) =>
    (BudgetExact <=> \A r \in Resource : reserved[r] = SumOf(Needs(r), Unsettled))

LEMMA BudgetIsSum == BudgetAgrees
<1>1. Unsettled \in SUBSET Key
  BY DEF Unsettled
<1>2. IsFiniteSet(Unsettled) =>
        \A r : MapThenSumSet(LAMBDA k : Reserve[k][r], Unsettled) = SumOf(Needs(r), Unsettled)
  BY <1>1, NeedsSum
<1>3. QED
  BY <1>2 DEF BudgetAgrees, BudgetExact, Unsettled

LEMMA BudgetIsSumAlways == []BudgetAgrees
  BY BudgetIsSum, PTL

LEMMA BudgetIsSumNext ==
  IsFiniteSet(Unsettled') =>
    (BudgetExact' <=> \A r \in Resource : reserved'[r] = SumOf(Needs(r), Unsettled'))
<1>1. BudgetAgrees'
  BY BudgetIsSumAlways, PTL
<1>2. QED
  BY <1>1 DEF BudgetAgrees, Needs

\* A claim that inserts a row reserves for it, a commit that settles one gives that
\* reservation back, and nothing else changes what is held.
LEMMA Reservations ==
  ASSUME TypeOK, OwnedUnsettled, [Next]_vars
  PROVE  /\ OwnedUnsettled'
         /\ \/ Unsettled' = Unsettled /\ reserved' = reserved
            \/ \E k \in Key \ Unsettled :
                 /\ Unsettled' = Unsettled \cup {k}
                 /\ reserved' = [r \in Resource |-> reserved[r] + Reserve[k][r]]
            \/ \E k \in Unsettled :
                 /\ Unsettled' = Unsettled \ {k}
                 /\ reserved' = [r \in Resource |-> reserved[r] - Reserve[k][r]]
<1> USE OperationsAssumption DEF OperationsAssumption
<1>1. /\ state \in [Key -> Reply \cup {"NONE", "DISPATCHING"}]
      /\ owner \in [Key -> Caller \cup {NoCaller}]
  BY DEF TypeOK
<1>2. CASE UNCHANGED <<state, owner, reserved>>
  BY <1>2 DEF OwnedUnsettled, Unsettled
<1>3. ASSUME NEW c \in Caller, NEW k \in Key, Dispatch(c, k)
      PROVE  /\ OwnedUnsettled'
             /\ \/ Unsettled' = Unsettled /\ reserved' = reserved
                \/ /\ k \notin Unsettled /\ Unsettled' = Unsettled \cup {k}
                   /\ reserved' = [r \in Resource |-> reserved[r] + Reserve[k][r]]
  <2>1. /\ state' = [state EXCEPT ![k] = "DISPATCHING"] /\ state[k] \notin Settled
        /\ owner' = [owner EXCEPT ![k] = c]
        /\ reserved' = IF state[k] = "NONE"
                       THEN [r \in Resource |-> reserved[r] + Reserve[k][r]] ELSE reserved
    BY <1>3 DEF Dispatch
  <2>2. Unsettled' = Unsettled \cup {k} /\ (k \notin Unsettled <=> state[k] = "NONE")
    BY <1>1, <2>1 DEF Unsettled, Settled
  <2>3. OwnedUnsettled'
    BY <1>1, <2>1, <2>2 DEF OwnedUnsettled
  <2>4. QED
    BY <2>1, <2>2, <2>3
<1>4. ASSUME NEW c \in Caller, Settle(c)
      PROVE  /\ OwnedUnsettled'
             /\ \E k \in Unsettled :
                  /\ Unsettled' = Unsettled \ {k}
                  /\ reserved' = [r \in Resource |-> reserved[r] - Reserve[k][r]]
  <2> DEFINE k == call[c].key
  <2>1. k \in Key /\ call[c].status \in Settled
    BY <1>4, CallFields, IdleCall DEF Settle
  <2>2. /\ owner[k] = c /\ state' = [state EXCEPT ![k] = call[c].status]
        /\ owner' = [owner EXCEPT ![k] = NoCaller]
        /\ reserved' = [r \in Resource |-> reserved[r] - Reserve[k][r]]
    BY <1>4 DEF Settle, Owns
  <2> HIDE DEF k
  <2>3. k \in Unsettled
    BY <2>1, <2>2 DEF OwnedUnsettled
  <2>4. Unsettled' = Unsettled \ {k}
    BY <1>1, <2>1, <2>2 DEF Unsettled
  <2>5. OwnedUnsettled'
    BY <1>1, <2>1, <2>2, <2>4 DEF OwnedUnsettled
  <2>6. QED
    BY <2>2, <2>3, <2>4, <2>5
<1>5. ASSUME NEW c \in Caller, Postpone(c) \/ Abandon(c)
      PROVE  OwnedUnsettled' /\ Unsettled' = Unsettled /\ reserved' = reserved
  <2> DEFINE k == call[c].key
  <2>1. k \in Key /\ call[c].status \in Reply
    BY <1>5, CallFields, IdleCall DEF Postpone, Abandon
  <2>2. reserved' = reserved
    BY <1>5 DEF Postpone, Abandon
  <2>3. CASE UNCHANGED <<state, owner>>
    BY <2>2, <2>3 DEF OwnedUnsettled, Unsettled
  <2>4. CASE ~UNCHANGED <<state, owner>>
    <3>1. PICK s \in Reply \ Settled : owner[k] = c /\ Unresolved(c, k, s)
      BY <1>5, <2>1, <2>4 DEF Postpone, Abandon, Owns, Mine, Reply, Settled
    <3>2. state' = [state EXCEPT ![k] = s] /\ owner' = [owner EXCEPT ![k] = NoCaller]
      BY <3>1 DEF Unresolved
    <3> HIDE DEF k
    <3>3. k \in Unsettled
      BY <2>1, <3>1 DEF OwnedUnsettled
    <3>4. Unsettled' = Unsettled
      BY <1>1, <3>1, <3>2, <3>3 DEF Unsettled, Reply, Settled
    <3>5. OwnedUnsettled'
      BY <1>1, <2>1, <3>2, <3>4 DEF OwnedUnsettled
    <3>6. QED
      BY <2>2, <3>4, <3>5
  <2>5. QED
    BY <2>3, <2>4
<1>6. ASSUME \/ \E c \in Caller, status \in Reply, usage \in [Resource -> 0..MaxUsage] :
                  Answer(c, status, usage)
             \/ \E k \in Key : Deliver(k) \/ Lose(k) \/ Refuse(k)
             \/ \E c \in Caller, k \in Key : Reuse(c, k) \/ Await(c, k)
             \/ \E c \in Caller : Revoke(c) \/ Resume(c) \/ Crash(c)
             \/ \E m \in {"ACTIVE", "DRAINING", "PAUSED"} : SetMode(m)
             \/ Tick
      PROVE  UNCHANGED <<state, owner, reserved>>
  BY <1>6 DEF Answer, Deliver, Lose, Refuse, Reuse, Await, Revoke, Resume, Crash, SetMode,
              Tick, rows
<1>7. CASE UNCHANGED vars
  BY <1>2, <1>7 DEF vars, rows
<1>8. CASE Next
  BY <1>2, <1>3, <1>4, <1>5, <1>6, <1>8, Actions
<1>9. QED
  BY <1>7, <1>8

LEMMA BudgetStep ==
  ASSUME TypeOK, BudgetInv, [Next]_vars
  PROVE  BudgetInv'
<1> USE OperationsAssumption DEF OperationsAssumption
<1>1. OwnedUnsettled /\ IsFiniteSet(Unsettled) /\ Unsettled \subseteq Key
  BY DEF BudgetInv, Unsettled
<1>2. \A r \in Resource : reserved[r] = SumOf(Needs(r), Unsettled)
  BY <1>1, NeedsSum DEF BudgetInv, BudgetExact, Unsettled
<1>3. \A r \in Resource : \A k \in Key : Needs(r)[k] = Reserve[k][r] /\ Needs(r)[k] \in Int
  BY DEF Needs
<1>4. reserved \in [Resource -> Int]
  BY DEF TypeOK
<1>5. /\ OwnedUnsettled' /\ IsFiniteSet(Unsettled') /\ Unsettled' \subseteq Key
      /\ \A r \in Resource : reserved'[r] = SumOf(Needs(r), Unsettled')
  <2>1. OwnedUnsettled'
    BY <1>1, Reservations
  <2>2. CASE Unsettled' = Unsettled /\ reserved' = reserved
    BY <1>1, <1>2, <2>1, <2>2
  <2>3. ASSUME NEW k \in Key \ Unsettled, Unsettled' = Unsettled \cup {k},
               reserved' = [r \in Resource |-> reserved[r] + Reserve[k][r]]
        PROVE  /\ IsFiniteSet(Unsettled') /\ Unsettled' \subseteq Key
               /\ \A r \in Resource : reserved'[r] = SumOf(Needs(r), Unsettled')
    <3> DEFINE S == Unsettled \cup {k}
               T == Unsettled
    <3>1. IsFiniteSet(S) /\ S \subseteq Key /\ T \in SUBSET S /\ k \in S /\ k \notin T
      BY <1>1, FS_AddElement
    <3> HIDE DEF S, T
    <3>2. ASSUME NEW r \in Resource
          PROVE  SumOf(Needs(r), T \cup {k}) = SumOf(Needs(r), T) + Needs(r)[k]
      <4>1. \A t \in S : Needs(r)[t] \in Int
        BY <1>3, <3>1
      <4>2. QED
        BY <3>1, <4>1, SumAdd
    <3>3. QED
      BY <1>2, <1>3, <2>3, <3>1, <3>2 DEF S, T
  <2>4. ASSUME NEW k \in Unsettled, Unsettled' = Unsettled \ {k},
               reserved' = [r \in Resource |-> reserved[r] - Reserve[k][r]]
        PROVE  /\ IsFiniteSet(Unsettled') /\ Unsettled' \subseteq Key
               /\ \A r \in Resource : reserved'[r] = SumOf(Needs(r), Unsettled')
    <3> DEFINE S == Unsettled
    <3>1. IsFiniteSet(S \ {k}) /\ S \ {k} \subseteq Key /\ IsFiniteSet(S) /\ S \subseteq Key
      BY <1>1, FS_RemoveElement
    <3> HIDE DEF S
    <3>2. ASSUME NEW r \in Resource
          PROVE  reserved'[r] = SumOf(Needs(r), S \ {k})
      <4> DEFINE f == Needs(r)
      <4>1. \A t \in S : f[t] \in Int
        BY <1>3, <3>1
      <4> HIDE DEF f
      <4>2. k \in S /\ (S \ {k}) \cup {k} = S
        BY DEF S
      <4>3. \A T \in SUBSET S : SumOf(f, T) \in Int
        BY <3>1, <4>1, SumType
      <4>4. SumOf(Needs(r), S) = Needs(r)[k] + SumOf(Needs(r), S \ {k})
        <5> DEFINE T == S \ {k}
                   U == T \cup {k}
        <5>1. T \in SUBSET S /\ k \notin T /\ U = S
          BY <4>2
        <5> HIDE DEF T
        <5>2. SumOf(f, U) = SumOf(f, T) + f[k]
          BY <3>1, <4>1, <4>2, <5>1, SumAdd
        <5> HIDE DEF U
        <5>3. SumOf(f, T) \in Int /\ f[k] \in Int
          BY <4>1, <4>2, <4>3, <5>1
        <5>4. SumOf(f, S) = f[k] + SumOf(f, T)
          BY <5>1, <5>2, <5>3
        <5>5. QED
          BY <5>4 DEF T, f
      <4>5. SumOf(Needs(r), S \ {k}) \in Int /\ Needs(r)[k] = Reserve[k][r] /\ Needs(r)[k] \in Int
        BY <1>1, <1>3, <4>3 DEF f
      <4>6. reserved'[r] = reserved[r] - Reserve[k][r] /\ reserved[r] = SumOf(Needs(r), S)
        BY <1>2, <2>4 DEF S
      <4>7. QED
        BY <4>4, <4>5, <4>6
    <3>3. QED
      BY <2>4, <3>1, <3>2 DEF S
  <2>5. QED
    BY <1>1, <2>1, <2>2, <2>3, <2>4, Reservations
<1>6. BudgetExact'
  BY <1>5, BudgetIsSumNext
<1>7. QED
  BY <1>5, <1>6 DEF BudgetInv

-----------------------------------------------------------------------------
(* The theorems.                                                           *)

\* The invariant holds whatever callers, processes, adapters and operators do.
THEOREM Invariance == Spec => []Inv
<1> USE OperationsAssumption DEF OperationsAssumption
<1>1. Init => Inv
  <2> SUFFICES ASSUME Init PROVE Inv
    OBVIOUS
  <2>1. WithinCeiling
    BY DEF Init, WithinCeiling, NoUsage
  <2>2. IssuedOnce /\ OutcomeCounted
    BY DEF Init, IssuedOnce, OutcomeCounted
  <2>3. AnswersTrue /\ ReceiptTruthful /\ UsesComplete
    BY IdleCall DEF Init, AnswersTrue, ReceiptTruthful, UsesComplete
  <2>4. QED
    BY TypeInit, <2>1, <2>2, <2>3 DEF Inv
<1>2. Inv /\ [Next]_vars => Inv'
  <2> SUFFICES ASSUME Inv, [Next]_vars PROVE Inv'
    OBVIOUS
  <2>1. CASE Next
    BY <2>1, TypeStep, CeilingStep, IssuedStep, OutcomeStep, AnswersStep, ReceiptStep, UsesStep
       DEF Inv
  <2>2. CASE UNCHANGED vars
    BY <2>2 DEF Inv, vars, rows, outside, TypeOK, WithinCeiling, IssuedOnce, OutcomeCounted,
                AnswersTrue, ReceiptTruthful, UsesComplete, Truthful
  <2>3. QED
    BY <2>1, <2>2
<1>3. QED
  BY <1>1, <1>2, PTL DEF Spec

\* All variables keep their types.
THEOREM ActionTypes == Spec => []TypeOK
<1>1. Inv => TypeOK
  BY DEF Inv
<1>2. QED
  BY <1>1, Invariance, PTL

\* No external transition is requested, or happens, twice.
THEOREM ExecutedAtMostOnce == Spec => []AtMostOnce
<1>1. Inv => AtMostOnce
  <2> SUFFICES ASSUME Inv, NEW k \in Key
               PROVE  Len(issued[k]) <= 1 /\ effects[k] <= 1
    BY DEF AtMostOnce
  <2>1. Len(issued[k]) <= 1 /\ wire[k] + effects[k] <= Len(issued[k])
    BY DEF Inv, IssuedOnce
  <2>2. wire[k] \in Nat /\ effects[k] \in Nat /\ Len(issued[k]) \in Nat
    BY DEF Inv, TypeOK
  <2>3. QED
    BY <2>1, <2>2
<1>2. QED
  BY <1>1, Invariance, PTL

\* A receipt agrees with what happened outside.
THEOREM TrueReceipts == Spec => []ReceiptTruthful
<1>1. Inv => ReceiptTruthful
  BY DEF Inv
<1>2. QED
  BY <1>1, Invariance, PTL

\* No ceiling is passed, whatever usage adapters report.
THEOREM CeilingsHold == Spec => []WithinCeiling
<1>1. Inv => WithinCeiling
  BY DEF Inv
<1>2. QED
  BY <1>1, Invariance, PTL

\* A run's evidence gate opens only when nothing its attempts started is undecided.
THEOREM GateOfRun == Spec => []GateSound
<1>1. Inv => GateSound
  <2> SUFFICES ASSUME Inv, NEW run \in Run, Gate(run), NEW k \in Key,
                      \/ \E i \in DOMAIN issued[k] : issued[k][i] = run
                      \/ \E c \in Caller : RunOf[c] = run /\ call[c].key = k
               PROVE  outcome[k] # "open"
    BY DEF GateSound
  <2>1. <<k, run>> \in uses
    <3>1. ASSUME NEW c \in Caller, call[c].key = k
          PROVE  call[c] # Idle
      BY <3>1, IdleCall, OperationsAssumption DEF OperationsAssumption
    <3>2. QED
      BY <3>1 DEF Inv, UsesComplete
  <2>2. state[k] \in Settled
    BY <2>1 DEF Gate
  <2>3. effects[k] = 1 \/ outcome[k] = "refused"
    BY <2>2 DEF Settled, Inv, ReceiptTruthful
  <2>4. QED
    BY <2>3 DEF Inv, OutcomeCounted
<1>2. QED
  BY <1>1, Invariance, PTL

\* Settled actions and spent resources are never taken back.
THEOREM FinalSettlement == Spec => SettledIsFinal
<1>1. Inv /\ [Next]_vars => [SettledStep]_vars
  <2> SUFFICES ASSUME Inv, Next PROVE SettledStep
    BY DEF vars
  <2>1. \A k \in Key : state[k] \in Settled => state'[k] = state[k]
    BY SettledRows DEF Inv
  <2>2. ASSUME NEW r \in Resource
        PROVE  spent'[r] >= spent[r]
    <3>1. spent[r] \in Nat
      BY DEF Inv, TypeOK, Usage
    <3>2. ASSUME NEW c \in Caller, Settle(c)
          PROVE  spent'[r] >= spent[r]
      <4>1. call[c].usage \in [Resource -> Nat]
        BY <3>2, CallFields, IdleCall DEF Settle, Inv, Usage
      <4>2. spent'[r] = spent[r] + call[c].usage[r]
        BY <3>2 DEF Settle, Spending
      <4>3. QED
        BY <3>1, <4>1, <4>2
    <3>3. ASSUME NEW c \in Caller, NEW k \in Key, Dispatch(c, k)
          PROVE  spent' = spent
      BY <3>3 DEF Dispatch
    <3>4. ASSUME NEW c \in Caller, Postpone(c) \/ Abandon(c)
          PROVE  spent' = spent
      BY <3>4 DEF Postpone, Abandon
    <3>5. ASSUME NEW k \in Key, Deliver(k) \/ Lose(k) \/ Refuse(k)
          PROVE  spent' = spent
      BY <3>5 DEF Deliver, Lose, Refuse, rows
    <3>6. ASSUME NEW c \in Caller, NEW status \in Reply,
                 NEW usage \in [Resource -> 0..MaxUsage], Answer(c, status, usage)
          PROVE  spent' = spent
      BY <3>6 DEF Answer, rows
    <3>7. spent' = spent \/ spent'[r] >= spent[r]
      BY <3>2, <3>3, <3>4, <3>5, <3>6, Actions, QuietSteps DEF Inv
    <3>8. QED
      BY <3>1, <3>7
  <2>3. QED
    BY <2>1, <2>2 DEF SettledStep
<1>2. QED
  BY <1>1, Invariance, PTL DEF Spec, SettledIsFinal

\* What is held for a resource is the sum of what the unsettled actions declared: no
\* takeover, late commit or catch gives a reservation back twice or keeps it.
THEOREM ExactReservations == Spec => []BudgetExact
<1> USE OperationsAssumption DEF OperationsAssumption
<1>1. Init => BudgetInv
  <2> SUFFICES ASSUME Init PROVE BudgetInv
    OBVIOUS
  <2>1. Unsettled = {} /\ OwnedUnsettled
    BY DEF Init, Unsettled, OwnedUnsettled
  <2>2. IsFiniteSet(Unsettled)
    BY <2>1, FS_EmptySet
  <2>3. ASSUME NEW r \in Resource
        PROVE  reserved[r] = MapThenSumSet(LAMBDA k : Reserve[k][r], Unsettled)
    <3>1. reserved[r] = 0
      BY DEF Init, NoUsage
    <3>2. MapThenSumSet(LAMBDA k : Reserve[k][r], Unsettled) = SumOf(Needs(r), {})
      BY <2>1, <2>2, NeedsSum
    <3>3. QED
      BY <3>1, <3>2, SumEmpty
  <2>4. QED
    BY <2>1, <2>2, <2>3 DEF BudgetInv, BudgetExact, Unsettled
<1>2. Inv /\ BudgetInv /\ [Next]_vars => BudgetInv'
  BY BudgetStep DEF Inv
<1>3. BudgetInv => BudgetExact
  BY DEF BudgetInv
<1>4. QED
  BY <1>1, <1>2, <1>3, Invariance, PTL DEF Spec
=============================================================================
