------------------------ MODULE OperationsEventsProofs ------------------------
(* Safety of OperationsEvents for any number of events, servers and recipes. *)
EXTENDS OperationsEvents, TLAPS

Begun == {"dispatch", "check", "start", "mark", "verdict", "complete"}

\* What a server remembers is still true of the tables: rows only move forward.
Memory ==
  \A s \in Server :
    /\ at[s] \in Begun => chosen[s] \in Event /\ event[chosen[s]] # "ABSENT"
    /\ at[s] \in Begun \ {"dispatch"} => event[chosen[s]] # "QUEUED"
    /\ at[s] \in {"mark", "verdict", "complete"} => run[chosen[s]] # "NONE"
    /\ \A o \in todo[s] : duty[o] # "ABSENT" /\ term[o] = 0

Inv == TypeOK /\ RunBound /\ Memory

\* The initial states are consistent.
LEMMA InitInv == Init => Inv
BY ServiceAssumption
   DEF Init, Inv, TypeOK, RunBound, Memory, Mode, Begun

\* Work begins and ends without touching the tables.
LEMMA TickEdges ==
  ASSUME Inv, NEW s \in Server, Begin(s) \/ Select(s) \/ Check(s)
  PROVE  Inv'
<1> USE ServiceAssumption DEF Inv, Mode, Goto, Rest, events, duties, runs
<1>1. CASE Begin(s)
  BY <1>1 DEF Begin, TypeOK, RunBound, Memory, Begun, Unannounced
<1>2. CASE Select(s)
  <2>1. CASE Eligible(s) = {} /\ Rest(s)
    BY <1>2, <2>1 DEF Select, TypeOK, RunBound, Memory, Begun
  <2>2. ASSUME NEW e \in Eligible(s),
               chosen' = [chosen EXCEPT ![s] = e],
               Goto(s, IF event[e] = "DISPATCHED" THEN "verdict" ELSE "dispatch"),
               UNCHANGED todo
        PROVE  Inv'
    <3>1. e \in Event /\ event[e] # "ABSENT"
      BY DEF Eligible, Incomplete, Due
    <3>2. UNCHANGED <<mode, active, events, duties, runs, seen, disruptions>>
      BY <1>2 DEF Select
    <3>3. TypeOK'
      BY <2>2, <3>1, <3>2 DEF TypeOK
    <3>4. RunBound'
      BY <3>2 DEF RunBound
    <3>5. Memory'
      BY <2>2, <3>1, <3>2 DEF TypeOK, RunBound, Memory, Begun
    <3> QED BY <3>3, <3>4, <3>5
  <2> QED BY <1>2, <2>1, <2>2 DEF Select
<1>3. CASE Check(s)
  BY <1>3 DEF Check, TypeOK, RunBound, Memory, Begun
<1> QED BY <1>1, <1>2, <1>3

\* An admitted event has its recipe before it has a run.
LEMMA DispatchSteps ==
  ASSUME Inv, NEW s \in Server, Bind(s) \/ Start(s) \/ Mark(s)
  PROVE  Inv'
<1> USE ServiceAssumption DEF Inv, Mode, Goto, Rest, events, duties, runs
<1>1. CASE Bind(s)
  <2> DEFINE e == chosen[s]
  <2>1. e \in Event /\ event[e] # "ABSENT"
    BY <1>1 DEF Bind, Memory, Begun
  <2>2. TypeOK'
    BY <1>1, <2>1 DEF Bind, TypeOK
  <2>3. RunBound'
    BY <1>1, <2>1 DEF Bind, TypeOK, RunBound
  <2>4. Memory'
    BY <1>1, <2>1 DEF Bind, TypeOK, RunBound, Memory, Begun
  <2> QED BY <2>2, <2>3, <2>4
<1>2. CASE Start(s)
  <2> DEFINE e == chosen[s]
  <2>1. e \in Event /\ event[e] \notin {"ABSENT", "QUEUED"}
    BY <1>2 DEF Start, Memory, Begun
  <2>2. TypeOK'
    BY <1>2, <2>1 DEF Start, Pinned, TypeOK
  <2>3. RunBound'
    BY <1>2, <2>1 DEF Start, Pinned, TypeOK, RunBound
  <2>4. Memory'
    BY <1>2, <2>1 DEF Start, Pinned, TypeOK, Memory, Begun
  <2> QED BY <2>2, <2>3, <2>4
<1>3. CASE Mark(s)
  <2> DEFINE e == chosen[s]
  <2>1. e \in Event /\ event[e] \notin {"ABSENT", "QUEUED"} /\ run[e] # "NONE"
    BY <1>3 DEF Mark, Memory, Begun
  <2>2. TypeOK'
    BY <1>3, <2>1 DEF Mark, Marking, TypeOK
  <2>3. RunBound'
    BY <1>3, <2>1 DEF Mark, Marking, TypeOK, RunBound
  <2>4. Memory'
    BY <1>3, <2>1 DEF Mark, Marking, TypeOK, Memory, Begun
  <2> QED BY <2>2, <2>3, <2>4
<1> QED BY <1>1, <1>2, <1>3

\* A run that exists keeps existing, and a completed event has one.
LEMMA EndSteps ==
  ASSUME Inv, NEW s \in Server, Conclude(s) \/ Complete(s)
  PROVE  Inv'
<1> USE ServiceAssumption DEF Inv, Mode, Goto, Rest, events, duties, runs
<1>1. CASE Conclude(s)
  <2> DEFINE e == chosen[s]
  <2>1. e \in Event /\ event[e] \notin {"ABSENT", "QUEUED"} /\ run[e] # "NONE"
    BY <1>1 DEF Conclude, Memory, Begun
  <2>2. PICK verdict \in IF run[e] = "RUNNING" THEN Verdicts ELSE {run[e]} :
          /\ run' = [run EXCEPT ![e] = verdict]
          /\ IF verdict = "PASS" /\ e \notin blocked
             THEN Goto(s, "complete") /\ UNCHANGED <<chosen, todo>>
             ELSE Rest(s)
    BY <1>1 DEF Conclude
  <2>3. verdict \in {"RUNNING", "PASS", "FAIL"}
    BY <2>1, <2>2 DEF TypeOK
  <2>4. UNCHANGED <<mode, active, events, duties, recipe, blocked, seen, disruptions>>
    BY <1>1 DEF Conclude
  <2>5. TypeOK'
    BY <2>1, <2>2, <2>3, <2>4 DEF TypeOK
  <2>6. RunBound'
    BY <2>1, <2>2, <2>3, <2>4 DEF TypeOK, RunBound
  <2>7. Memory'
    BY <2>1, <2>2, <2>3, <2>4 DEF TypeOK, Memory, Begun
  <2> QED BY <2>5, <2>6, <2>7
<1>2. CASE Complete(s)
  <2> DEFINE e == chosen[s]
  <2>1. e \in Event /\ event[e] \notin {"ABSENT", "QUEUED"} /\ run[e] # "NONE"
    BY <1>2 DEF Complete, Memory, Begun
  <2>2. TypeOK'
    BY <1>2, <2>1 DEF Complete, TypeOK
  <2>3. RunBound'
    BY <1>2, <2>1 DEF Complete, TypeOK, RunBound
  <2>4. Memory'
    BY <1>2, <2>1 DEF Complete, TypeOK, Memory, Begun
  <2> QED BY <2>2, <2>3, <2>4
<1> QED BY <1>1, <1>2

\* A new row is QUEUED and belongs to no server yet.
LEMMA NewRow ==
  ASSUME Inv, NEW e \in Event, NEW wait \in 0..MaxLead, event[e] = "ABSENT", Queued(e, wait),
         UNCHANGED <<mode, active, bound, duties, runs, at, seen, chosen, disruptions>>,
         todo' \in [Server -> SUBSET Obligation], \A s \in Server : todo'[s] \subseteq todo[s]
  PROVE  Inv'
<1> USE ServiceAssumption DEF Inv, Mode, Queued, duties, runs
<1>1. TypeOK'
  BY DEF TypeOK
<1>2. RunBound'
  BY DEF TypeOK, RunBound
<1>3. Memory'
  BY DEF TypeOK, Memory, Begun
<1> QED BY <1>1, <1>2, <1>3

\* What the host, the operator and the other servers do is survived.
LEMMA Others ==
  ASSUME Inv, Next, \A s \in Server : ~Step(s)
  PROVE  Inv'
<1> USE ServiceAssumption DEF Inv, Mode, events, duties, runs, server
<1>1. ASSUME NEW e \in Event, NEW wait \in 0..MaxLead, Enqueue(e, wait) PROVE Inv'
  BY <1>1, NewRow DEF Enqueue, TypeOK
<1>2. ASSUME NEW o \in Obligation, NEW wait \in 0..MaxLead, AddObligation(o, wait) PROVE Inv'
  BY <1>2 DEF AddObligation, TypeOK, RunBound, Memory, Begun
<1>3. ASSUME NEW o \in Obligation, ResolveObligation(o) PROVE Inv'
  BY <1>3 DEF ResolveObligation, TypeOK, RunBound, Memory, Begun
<1>4. ASSUME NEW m \in Mode, SetMode(m) PROVE Inv'
  BY <1>4 DEF SetMode, Disrupt, TypeOK, RunBound, Memory, Begun
<1>5. ASSUME NEW r \in Recipe, Promote(r) PROVE Inv'
  BY <1>5 DEF Promote, Disrupt, TypeOK, RunBound, Memory, Begun
<1>6. ASSUME NEW s \in Server, Crash(s) PROVE Inv'
  BY <1>6 DEF Crash, Disrupt, Rest, Goto, TypeOK, RunBound, Memory, Begun
<1>7. ASSUME NEW e \in Event, Block(e) \/ Unblock(e) PROVE Inv'
  BY <1>7 DEF Block, Unblock, Disrupt, TypeOK, RunBound, Memory, Begun
<1>8. ASSUME NEW e \in Event, Reopen(e) PROVE Inv'
  <2>1. TypeOK'
    BY <1>8 DEF Reopen, Disrupt, TypeOK
  <2>2. RunBound'
    BY <1>8 DEF Reopen, TypeOK, RunBound
  <2>3. Memory'
    BY <1>8 DEF Reopen, TypeOK, Memory, Begun
  <2> QED BY <2>1, <2>2, <2>3
<1>9. CASE Tick
  <2>1. TypeOK'
    BY <1>9 DEF Tick, TypeOK
  <2>2. RunBound'
    BY <1>9 DEF Tick, RunBound
  <2>3. Memory'
    BY <1>9 DEF Tick, TypeOK, Memory, Begun
  <2> QED BY <2>1, <2>2, <2>3
<1> QED BY <1>1, <1>2, <1>3, <1>4, <1>5, <1>6, <1>7, <1>8, <1>9 DEF Next

\* Every step keeps the invariant.
LEMMA NextInv == Inv /\ [Next]_vars => Inv'
<1> SUFFICES ASSUME Inv, [Next]_vars PROVE Inv'
  OBVIOUS
<1>1. ASSUME NEW s \in Server, Step(s) PROVE Inv'
  <2>1. ASSUME NEW o \in Obligation, Announce(s, o) PROVE Inv'
    <3>1. CASE Announceable(o)
      <4>1. Notice[o] \in Event /\ event[Notice[o]] = "ABSENT" /\ 0 \in 0..MaxLead
        BY <3>1, ServiceAssumption DEF Announceable
      <4>2. todo' \in [Server -> SUBSET Obligation] /\ \A z \in Server : todo'[z] \subseteq todo[z]
        BY <2>1 DEF Announce, Inv, TypeOK
      <4> QED BY <2>1, <3>1, <4>1, <4>2, NewRow DEF Announce
    <3>2. CASE ~Announceable(o)
      BY <2>1, <3>2 DEF Announce, Inv, TypeOK, RunBound, Memory, Begun, Mode, duties, runs
    <3> QED BY <3>1, <3>2
  <2> QED BY <1>1, <2>1, TickEdges, DispatchSteps, EndSteps DEF Step
<1>2. CASE UNCHANGED vars
  BY <1>2 DEF vars, events, duties, runs, server, Inv, TypeOK, RunBound, Memory, Mode, Begun
<1> QED BY <1>1, <1>2, Others

\* The invariant of the service.
THEOREM Invariance == Spec => []Inv
<1>1. Init => Inv
  BY InitInv
<1>2. Inv /\ [Next]_vars => Inv'
  BY NextInv
<1> QED BY <1>1, <1>2, PTL DEF Spec

\* The rows and what the servers remember keep their types.
THEOREM TypesKept == Spec => []TypeOK
<1>1. Inv => TypeOK
  BY DEF Inv
<1> QED BY <1>1, Invariance, PTL

\* A run belongs to an admitted event and has the recipe bound to it, whatever is
\* promoted, crashes or runs concurrently.
THEOREM RunsBound == Spec => []RunBound
<1>1. Inv => RunBound
  BY DEF Inv
<1> QED BY <1>1, Invariance, PTL

\* The steps that change the status of an event.
LEMMA EventChanges ==
  ASSUME Inv, Next
  PROVE  \/ UNCHANGED event
         \/ \E s \in Server : Bind(s) \/ Mark(s) \/ Complete(s)
         \/ \E e \in Event, wait \in 0..MaxLead : Enqueue(e, wait)
         \/ \E s \in Server, o \in Obligation : Announce(s, o) /\ Announceable(o)
BY DEF Next, AddObligation, ResolveObligation, SetMode, Promote, Crash, Block, Unblock, Reopen,
       Tick, Step, Begin, Announce, Select, Check, Start, Conclude, events

\* Only Bind admits an event, and only in a mode that allows it.
THEOREM AdmissionInMode == Spec => AdmissionFollowsMode
<1>1. Inv /\ [Next]_vars => [AdmissionStep]_vars
  <2> SUFFICES ASSUME Inv, Next, NEW e \in Event, event[e] = "QUEUED", event'[e] = "PREPARED"
               PROVE  mode = "ACTIVE" \/ (mode = "DRAINING" /\ e \in Resolving)
    BY DEF AdmissionStep
  <2>1. \E s \in Server : Bind(s)
    BY EventChanges DEF Mark, Marking, Complete, Enqueue, Announce, Queued, Inv, TypeOK
  <2> QED BY <2>1 DEF Bind, Admits, Inv, TypeOK
<1> QED BY <1>1, Invariance, PTL DEF Spec, AdmissionFollowsMode

\* No deadline is announced once its obligation is resolved, however late the server
\* that has selected it comes.
THEOREM NoticesJustified == Spec => NoticeJustified
<1>1. Inv /\ [Next]_vars => [NoticeStep]_vars
  <2> SUFFICES ASSUME Inv, Next, NEW o \in Obligation,
                      event[Notice[o]] = "ABSENT", event'[Notice[o]] # "ABSENT"
               PROVE  duty[o] = "OPEN" /\ term[o] = 0
    BY DEF NoticeStep
  <2>1. Notice[o] \in Event
    BY ServiceAssumption
  <2>2. \A f \in Event, wait \in 0..MaxLead : ~Enqueue(f, wait)
    BY <2>1, ServiceAssumption DEF Enqueue, External, Queued, Inv, TypeOK
  <2>3. \A s \in Server : ~(Bind(s) \/ Mark(s) \/ Complete(s))
    BY <2>1 DEF Bind, Mark, Marking, Complete, Inv, TypeOK, Memory, Begun
  <2>4. PICK s \in Server, d \in Obligation : Announce(s, d) /\ Announceable(d)
    BY <2>2, <2>3, EventChanges
  <2>5. d = o
    BY <2>1, <2>4, ServiceAssumption DEF Announce, Queued, Inv, TypeOK
  <2> QED BY <2>4, <2>5 DEF Announce, Announceable, Inv, Memory
<1> QED BY <1>1, Invariance, PTL DEF Spec, NoticeJustified

\* An event never moves back, and completes only on an accepted run with open gates.
THEOREM CompletionsJustified == Spec => CompletionJustified
<1>1. Inv /\ [Next]_vars => [CompletionStep]_vars
  <2> SUFFICES ASSUME Inv, Next, NEW e \in Event
               PROVE  /\ Rank(event'[e]) >= Rank(event[e])
                      /\ event[e] # "COMPLETE" /\ event'[e] = "COMPLETE" =>
                           run[e] = "PASS" /\ e \notin blocked
    BY DEF CompletionStep
  <2>1. event[e] \in {"ABSENT", "QUEUED", "PREPARED", "DISPATCHED", "COMPLETE"}
    BY DEF Inv, TypeOK
  <2>2. \/ event'[e] = event[e]
        \/ event[e] = "ABSENT" /\ event'[e] = "QUEUED"
        \/ event[e] = "QUEUED" /\ event'[e] = "PREPARED"
        \/ event[e] = "PREPARED" /\ event'[e] = "DISPATCHED"
        \/ event[e] = "DISPATCHED" /\ event'[e] = "COMPLETE" /\ Completable(e)
    <3>1. CASE \E s \in Server : Bind(s)
      BY <3>1 DEF Bind, Inv, TypeOK
    <3>2. CASE \E s \in Server : Mark(s)
      BY <3>2 DEF Mark, Marking, Inv, TypeOK
    <3>3. CASE \E s \in Server : Complete(s)
      BY <3>3 DEF Complete, Completable, Inv, TypeOK
    <3>4. CASE \E f \in Event, wait \in 0..MaxLead : event[f] = "ABSENT" /\ Queued(f, wait)
      BY <3>4 DEF Queued, Inv, TypeOK
    <3> QED BY <3>1, <3>2, <3>3, <3>4, EventChanges, ServiceAssumption
            DEF Enqueue, Announce, Announceable
  <2> QED BY <2>1, <2>2 DEF Rank, Completable
<1> QED BY <1>1, Invariance, PTL DEF Spec, CompletionJustified
=============================================================================
