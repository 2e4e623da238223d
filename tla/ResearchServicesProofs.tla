------------------------ MODULE ResearchServicesProofs ------------------------
(* Claims rest on each other without a circle and on what still stands; jobs share    *)
(* their slots and what is recorded of them is final; a recipe comes into force by a  *)
(* complete evaluation: for any goals, jobs, recipes and sequences of operations.     *)
EXTENDS HostServices, FiniteSetTheorems, SequenceTheorems, TLAPS

-----------------------------------------------------------------------------
(* Claims.                                                                 *)

ClaimInv == Claims!TypeOK /\ Claims!Acyclic /\ Claims!Grounded

Cites(c, d) == \E e \in deps[c] : e.id = d

\* The claims cited, one by one.
LEMMA CitedBy ==
  ASSUME NEW S, NEW d
  PROVE  d \in Claims!Cited(S) <=> \E c \in S : Cites(c, d)
BY DEF Claims!Cited, Cites

\* What claims rest on contains them, and what it rests on itself.
LEMMA FoundationClosed ==
  ASSUME Claims!TypeOK, NEW D \in SUBSET ClaimId
  PROVE  /\ Claims!Foundation(D) \subseteq ClaimId /\ D \subseteq Claims!Foundation(D)
         /\ \A c \in Claims!Foundation(D) : \A d : Cites(c, d) => d \in Claims!Foundation(D)
<1>1. Claims!Foundation(D) \subseteq ClaimId /\ D \subseteq Claims!Foundation(D)
  BY DEF Claims!Foundation
<1>2. ASSUME NEW c \in Claims!Foundation(D), NEW d, Cites(c, d)
      PROVE  d \in Claims!Foundation(D)
  <2>1. c \in ClaimId /\ d \in ClaimId
    BY <1>1, <1>2 DEF Claims!TypeOK, Cites, Claims!Citation
  <2>2. ASSUME NEW S \in SUBSET ClaimId, D \subseteq S, Claims!Cited(S) \subseteq S
        PROVE  d \in S
    <3>1. c \in S
      BY <2>2 DEF Claims!Foundation
    <3>2. d \in Claims!Cited(S)
      BY <1>2, <3>1, CitedBy
    <3> QED BY <2>2, <3>2
  <2> QED BY <2>1, <2>2 DEF Claims!Foundation
<1> QED BY <1>1, <1>2

\* A usable claim that cites the claim or an affected one is affected.
LEMMA AffectedClosed ==
  ASSUME NEW c \in ClaimId, NEW d \in ClaimId, Claims!Usable(d),
         NEW x \in Claims!Affected(c) \cup {c}, Cites(d, x)
  PROVE  d \in Claims!Affected(c)
<1>1. ASSUME NEW S \in SUBSET ClaimId, Claims!Dependents(S \cup {c}) \subseteq S
      PROVE  d \in S
  <2>1. x \in S \cup {c}
    BY <1>1 DEF Claims!Affected
  <2>2. d \in Claims!Dependents(S \cup {c})
    BY <2>1 DEF Claims!Dependents, Cites
  <2> QED BY <1>1, <2>2
<1> QED BY <1>1 DEF Claims!Affected

\* An affected claim is usable, and cites the claim or an affected one.
LEMMA AffectedReason ==
  ASSUME NEW c \in ClaimId, NEW d \in Claims!Affected(c)
  PROVE  Claims!Usable(d) /\ \E x \in Claims!Affected(c) \cup {c} : Cites(d, x)
<1> DEFINE A == Claims!Dependents(Claims!Affected(c) \cup {c})
<1>1. A \in SUBSET ClaimId
  BY DEF Claims!Dependents
<1>2. A \subseteq Claims!Affected(c)
  BY AffectedClosed DEF Claims!Dependents, Cites
<1>3. Claims!Dependents(A \cup {c}) \subseteq A
  BY <1>2 DEF Claims!Dependents
<1>4. d \in A
  BY <1>1, <1>3 DEF Claims!Affected
<1> QED BY <1>4 DEF Claims!Dependents, Cites

\* A claim rests on nothing that its change affects, as long as it does not rest on itself.
LEMMA FoundationUnaffected ==
  ASSUME Claims!TypeOK, NEW c \in ClaimId, NEW D \in SUBSET ClaimId, Claims!NoCycle(c, D)
  PROVE  D \cap (Claims!Affected(c) \cup {c}) = {}
<1> DEFINE S == ClaimId \ Claims!Foundation(D)
<1>1. ASSUME NEW d \in Claims!Dependents(S \cup {c}) PROVE d \in S
  <2>1. PICK x \in S \cup {c} : d \in ClaimId /\ Cites(d, x)
    BY DEF Claims!Dependents, Cites
  <2>2. x \in S
    BY <2>1 DEF Claims!NoCycle
  <2> QED BY <2>1, <2>2, FoundationClosed
<1>2. ASSUME NEW d \in Claims!Affected(c) PROVE d \notin Claims!Foundation(D)
  <2>1. S \in SUBSET ClaimId /\ Claims!Dependents(S \cup {c}) \subseteq S
    BY <1>1
  <2>2. d \in S
    BY <2>1 DEF Claims!Affected
  <2> QED BY <2>2
<1> QED BY <1>2, FoundationClosed DEF Claims!NoCycle

\* Nor does a claim cite what its change affects.
LEMMA CitationsUnaffected ==
  ASSUME Claims!TypeOK, Claims!Acyclic, NEW c \in ClaimId, NEW d, Cites(c, d)
  PROVE  d \notin Claims!Affected(c) \cup {c}
<1> DEFINE T == Claims!Affected(c) \cup {c}
<1> SUFFICES ASSUME d \in T PROVE FALSE
  OBVIOUS
<1>1. T \in SUBSET ClaimId /\ T # {}
  <2>1. Claims!Affected(c) \subseteq ClaimId
    BY DEF Claims!Affected
  <2> QED BY <2>1
<1>2. ASSUME NEW x \in T PROVE \E y \in T : Cites(x, y)
  BY AffectedReason
<1>3. PICK x \in T : Claims!Cited({x}) \cap T = {}
  BY <1>1 DEF Claims!Acyclic
<1>4. PICK y \in T : Cites(x, y)
  BY <1>2
<1>5. y \in Claims!Cited({x})
  BY <1>4, CitedBy
<1> QED BY <1>3, <1>5

\* The types of a claim's new version and of what becomes stale.
LEMMA ClaimPublished ==
  ASSUME Claims!TypeOK, NEW c \in ClaimId, NEW newStatus \in Claims!Status \ {"NONE"},
         NEW newDeps \in SUBSET Claims!Citation, Claims!Publish(c, newStatus, newDeps)
  PROVE  /\ Claims!TypeOK'
         /\ \A d \in ClaimId : d # c => deps'[d] = deps[d]
         /\ deps'[c] = newDeps /\ status'[c] = newStatus
         /\ \A d \in Claims!Affected(c) : d # c => status'[d] = "STALE"
         /\ \A d \in ClaimId : d \notin Claims!Affected(c) \cup {c} =>
              status'[d] = status[d] /\ version'[d] = version[d]
<1> DEFINE U == Claims!Affected(c) \cup {c}
<1>1. /\ version \in [ClaimId -> Nat] /\ status \in [ClaimId -> Claims!Status]
      /\ deps \in [ClaimId -> SUBSET Claims!Citation]
      /\ \A d \in ClaimId : version[d] > 0 <=> status[d] # "NONE"
  BY DEF Claims!TypeOK, Claims!Known
<1>2. /\ version' = [d \in ClaimId |-> IF d \in U THEN version[d] + 1 ELSE version[d]]
      /\ status' = [d \in ClaimId |-> IF d = c THEN newStatus
                                    ELSE IF d \in Claims!Affected(c) THEN "STALE" ELSE status[d]]
      /\ deps' = [deps EXCEPT ![c] = newDeps]
  BY DEF Claims!Publish
<1>3. Claims!Affected(c) \subseteq ClaimId
  BY DEF Claims!Affected
<1> HIDE DEF U
<1>4. version' \in [ClaimId -> Nat] /\ deps' \in [ClaimId -> SUBSET Claims!Citation]
  BY <1>1, <1>2
<1>5. status' \in [ClaimId -> Claims!Status]
  <2>1. "STALE" \in Claims!Status
    BY DEF Claims!Status
  <2> QED BY <1>1, <1>2, <2>1
<1>6. ASSUME NEW d \in ClaimId PROVE version'[d] > 0 <=> status'[d] # "NONE"
  <2>1. version[d] \in Nat
    BY <1>1
  <2> QED BY <1>1, <1>2, <2>1 DEF U
<1>7. Claims!TypeOK'
  BY <1>4, <1>5, <1>6 DEF Claims!TypeOK, Claims!Known
<1> QED BY <1>1, <1>2, <1>3, <1>7 DEF U

\* New versions rest on what still stands when the one of c does.
LEMMA StillGrounded ==
  ASSUME Claims!TypeOK, Claims!Grounded, NEW c \in ClaimId,
         NEW newStatus \in Claims!Status \ {"NONE"},
         NEW newDeps \in SUBSET Claims!Citation, Claims!Publish(c, newStatus, newDeps),
         newStatus \in {"PROPOSED", "SUPPORTED"} =>
           \A e \in newDeps :
             /\ e.id \notin Claims!Affected(c) \cup {c}
             /\ version[e.id] = e.version /\ Claims!Usable(e.id)
             /\ newStatus = "SUPPORTED" => status[e.id] = "SUPPORTED"
  PROVE  Claims!Grounded'
<1> SUFFICES ASSUME NEW d \in ClaimId, Claims!Usable(d)', NEW e \in deps'[d]
             PROVE  /\ version'[e.id] = e.version /\ Claims!Usable(e.id)'
                    /\ status'[d] = "SUPPORTED" => status'[e.id] = "SUPPORTED"
  BY DEF Claims!Grounded
<1>1. e.id \in ClaimId
  BY ClaimPublished DEF Claims!TypeOK, Claims!Citation
<1>2. CASE d = c
  BY <1>1, <1>2, ClaimPublished DEF Claims!Usable
<1>3. CASE d # c
  <2>1. d \notin Claims!Affected(c)
    BY <1>3, ClaimPublished DEF Claims!Usable
  <2>2. status'[d] = status[d] /\ e \in deps[d] /\ Claims!Usable(d)
    BY <1>3, <2>1, ClaimPublished DEF Claims!Usable
  <2>3. e.id \notin Claims!Affected(c) \cup {c}
    BY <2>1, <2>2, AffectedClosed DEF Cites
  <2> QED BY <1>1, <2>2, <2>3, ClaimPublished DEF Claims!Grounded, Claims!Usable
<1> QED BY <1>2, <1>3

\* A proposal keeps the invariant.
LEMMA ProposeStep ==
  ASSUME ClaimInv, NEW c \in ClaimId, NEW D \in SUBSET ClaimId, Claims!ProposeClaim(c, D)
  PROVE  ClaimInv'
<1> DEFINE newStatus == IF status[c] \in {"SUPPORTED", "STALE"} THEN "STALE" ELSE "PROPOSED"
           newDeps == {[id |-> d, version |-> version[d]] : d \in D}
<1>1. /\ Claims!Publish(c, newStatus, newDeps) /\ Claims!NoCycle(c, D)
      /\ newStatus \in Claims!Status \ {"NONE"} /\ newStatus # "SUPPORTED"
      /\ \A d \in D : Claims!Usable(d)
  BY DEF Claims!ProposeClaim, Claims!Status
<1>2. newDeps \in SUBSET Claims!Citation
  BY DEF ClaimInv, Claims!TypeOK, Claims!Citation
<1>3. \A e \in newDeps : e.id \in D /\ version[e.id] = e.version
  OBVIOUS
<1> HIDE DEF newStatus, newDeps
<1>4. D \cap (Claims!Affected(c) \cup {c}) = {}
  BY <1>1, FoundationUnaffected DEF ClaimInv
<1>5. Claims!Grounded'
  BY <1>1, <1>2, <1>3, <1>4, StillGrounded DEF ClaimInv
<1>6. Claims!TypeOK' /\ deps'[c] = newDeps /\ \A d \in ClaimId : d # c => deps'[d] = deps[d]
  BY <1>1, <1>2, ClaimPublished DEF ClaimInv
<1>7. Claims!Acyclic'
  <2> SUFFICES ASSUME NEW S \in SUBSET ClaimId, S # {},
                      \A x \in S : Claims!Cited({x})' \cap S # {}
               PROVE  FALSE
    BY DEF Claims!Acyclic
  <2>0. ASSUME NEW x \in S PROVE \E y \in S : Cites(x, y)'
    <3>1. PICK y \in S : y \in Claims!Cited({x})'
      OBVIOUS
    <3>2. PICK e \in deps'[x] : e.id = y
      BY <3>1 DEF Claims!Cited
    <3> QED BY <3>2 DEF Cites
  <2> DEFINE T == IF c \in S THEN S \cap Claims!Foundation(D) ELSE S
  <2>1. c \in S => \E y \in S : y \in D
    BY <1>3, <1>6, <2>0 DEF Cites
  <2>2. D \subseteq Claims!Foundation(D) /\ c \notin Claims!Foundation(D)
    BY <1>1, FoundationClosed DEF ClaimInv, Claims!NoCycle
  <2>3. T \subseteq ClaimId /\ c \notin T /\ T # {}
    <3>1. CASE c \in S
      <4>1. PICK y \in S : y \in D
        BY <2>1, <3>1
      <4>2. y \in T /\ T = S \cap Claims!Foundation(D)
        BY <2>2, <3>1, <4>1
      <4> QED BY <2>2, <4>2
    <3>2. CASE c \notin S
      BY <3>2
    <3> QED BY <3>1, <3>2
  <2>4. ASSUME NEW x \in T PROVE \E y \in T : Cites(x, y)
    <3>1. PICK y \in S : Cites(x, y)'
      BY <2>0
    <3>2. Cites(x, y)
      BY <1>6, <2>3, <3>1 DEF Cites
    <3> QED BY <3>1, <3>2, FoundationClosed DEF ClaimInv
  <2>5. PICK x \in T : Claims!Cited({x}) \cap T = {}
    BY <2>3 DEF ClaimInv, Claims!Acyclic
  <2>6. PICK y \in T : Cites(x, y)
    BY <2>4
  <2> QED BY <2>5, <2>6, CitedBy
<1> QED BY <1>5, <1>6, <1>7 DEF ClaimInv

\* A retraction or a verdict leaves the citations as they are.
LEMMA VerdictStep ==
  ASSUME ClaimInv, NEW c \in ClaimId,
         \/ Claims!RetractClaim(c)
         \/ \E verdict \in {"SUPPORTED", "REFUTED"} : Claims!AdjudicateClaim(c, verdict)
  PROVE  ClaimInv'
<1>1. PICK newStatus \in {"RETRACTED", "SUPPORTED", "REFUTED"} :
        /\ Claims!Publish(c, newStatus, deps[c])
        /\ newStatus = "SUPPORTED" => Claims!Revalidated(c)
  BY DEF Claims!RetractClaim, Claims!AdjudicateClaim
<1>2. newStatus \in Claims!Status \ {"NONE"} /\ deps[c] \in SUBSET Claims!Citation
  BY DEF Claims!Status, ClaimInv, Claims!TypeOK
<1>3. Claims!TypeOK' /\ deps' = deps
  <2>1. Claims!TypeOK'
    BY <1>1, <1>2, ClaimPublished DEF ClaimInv
  <2>2. deps' = [deps EXCEPT ![c] = deps[c]] /\ deps \in [ClaimId -> SUBSET Claims!Citation]
    BY <1>1 DEF Claims!Publish, ClaimInv, Claims!TypeOK
  <2> QED BY <2>1, <2>2
<1>4. Claims!Acyclic'
  BY <1>3 DEF ClaimInv, Claims!Acyclic, Claims!Cited
<1>5. \A e \in deps[c] : e.id \notin Claims!Affected(c) \cup {c}
  BY CitationsUnaffected DEF ClaimInv, Cites
<1>6. Claims!Grounded'
  BY <1>1, <1>2, <1>5, StillGrounded DEF ClaimInv, Claims!Revalidated, Claims!Usable
<1> QED BY <1>3, <1>4, <1>6 DEF ClaimInv

LEMMA InitClaims == Claims!Init => ClaimInv
<1> SUFFICES ASSUME Claims!Init PROVE ClaimInv
  OBVIOUS
<1>1. \A c \in ClaimId : version[c] = 0 /\ status[c] = "NONE" /\ deps[c] = {}
  BY DEF Claims!Init
<1>2. Claims!TypeOK
  BY <1>1 DEF Claims!Init, Claims!TypeOK, Claims!Known, Claims!Status
<1>3. \A c \in ClaimId : Claims!Cited({c}) = {}
  BY <1>1 DEF Claims!Cited
<1>4. Claims!Acyclic
  BY <1>3 DEF Claims!Acyclic
<1> QED BY <1>1, <1>2, <1>4 DEF ClaimInv, Claims!Grounded, Claims!Usable

LEMMA ClaimsStep == ASSUME ClaimInv, [Claims!Next]_Claims!vars PROVE ClaimInv'
<1>1. CASE UNCHANGED Claims!vars
  BY <1>1 DEF Claims!vars, ClaimInv, Claims!TypeOK, Claims!Acyclic, Claims!Grounded,
              Claims!Known, Claims!Usable, Claims!Cited
<1>2. CASE Claims!Next
  BY <1>2, ProposeStep, VerdictStep DEF Claims!Next
<1> QED BY <1>1, <1>2

\* Whatever goals propose, retract and have adjudicated, no claim rests on itself
\* (claims.ts, assertNoCycle), and none that may be used rests on a version that was
\* replaced, retracted or refuted (invalidateDependents).
THEOREM ClaimsSound == Claims!Spec => [](Claims!TypeOK /\ Claims!Acyclic /\ Claims!Grounded)
<1>1. Claims!Init => ClaimInv
  BY InitClaims
<1>2. ClaimInv /\ [Claims!Next]_Claims!vars => ClaimInv'
  BY ClaimsStep
<1> QED BY <1>1, <1>2, PTL DEF Claims!Spec, ClaimInv

-----------------------------------------------------------------------------
(* Jobs.                                                                   *)

\* Whoever calls the remote side has a row.
Intended == \A t \in Task : phase[t] = "CALLING" => row[uses[t]] # NoRow

\* A task sleeps for a slot.
Crowded(t) == phase[t] = "READY" /\ wait[t].kind = "capacity" /\ wait[t].left > 0

JobInv == Jobs!TypeOK /\ Intended /\ Jobs!CapacityShared

\* What a step of one task does to the tasks: it alone moves.
Moves(t, p) ==
  /\ p \in Jobs!Phase /\ phase' = [phase EXCEPT ![t] = p]
  /\ wait' \in [Task -> Jobs!Delay]
  /\ \A u \in Task : u # t => wait'[u] = wait[u]

\* The cardinality that ResearchJobs uses is that of finite sets.
LEMMA JobsCounted ==
  \A S : Jobs!Cardinality(S) = Cardinality(S) /\ (Jobs!IsFiniteSet(S) <=> IsFiniteSet(S))
BY DEF Jobs!Cardinality, Cardinality, Jobs!IsFiniteSet, IsFiniteSet

\* The first states are consistent.
LEMMA InitJobs == ASSUME Jobs!JobsAssumption PROVE Jobs!Init => JobInv
<1> SUFFICES ASSUME Jobs!Init PROVE JobInv
  OBVIOUS
<1>1. maxJobs \in Nat
  BY FS_CardinalityType DEF Jobs!JobsAssumption, Jobs!Init
<1>2. Jobs!RowsOK /\ losses \in 0..MaxLosses /\ uses \in [Task -> Job]
  BY DEF Jobs!JobsAssumption, Jobs!Init, Jobs!RowsOK
<1>3. Jobs!TasksOK
  BY DEF Jobs!Init, Jobs!TasksOK, Jobs!Phase, Jobs!Delay, Jobs!Rested
<1>4. Jobs!Live = {}
  BY DEF Jobs!Init, Jobs!Live, Jobs!Unresolved
<1>5. Cardinality(Jobs!Live) = 0
  BY <1>4, FS_EmptySet
<1>6. \A t \in Task : phase[t] = "READY" /\ wait[t].left = 0
  BY DEF Jobs!Init, Jobs!Rested
<1>7. Jobs!CapacityShared
  BY JobsCounted, <1>5, <1>6 DEF Jobs!CapacityShared, Jobs!JobsAssumption
<1>8. Intended
  BY <1>6 DEF Intended
<1> QED BY <1>1, <1>2, <1>3, <1>7, <1>8 DEF JobInv, Jobs!TypeOK

\* The jobs that hold a slot are counted.
LEMMA LiveCounted ==
  ASSUME Jobs!JobsAssumption PROVE IsFiniteSet(Jobs!Live) /\ Cardinality(Jobs!Live) \in Nat
<1>1. Jobs!Live \subseteq Job
  BY DEF Jobs!Live
<1> QED BY JobsCounted, <1>1, FS_Subset, FS_CardinalityType DEF Jobs!JobsAssumption

\* A job that has a receipt is not written to, nor another identity given to one.
LEMMA RowWritten ==
  ASSUME Jobs!JobsAssumption, Jobs!RowsOK, NEW j \in Job, NEW r \in Jobs!ResearchJob,
         row' = [row EXCEPT ![j] = r],
         row[j] # NoRow => row[j].result = NoResult /\ row[j].id \in {NoId, r.id}
  PROVE  /\ Jobs!RowsOK' /\ Jobs!ReceiptKept
         /\ \A k \in Job : row[k] # NoRow => row'[k] # NoRow
         /\ row[j] # NoRow => Jobs!Live' \subseteq Jobs!Live
         /\ row[j] # NoRow /\ r.result = NoResult => Jobs!Live' = Jobs!Live
<1>1. Jobs!RowsOK'
  BY DEF Jobs!RowsOK
<1>2. \A k \in Job : row'[k] = IF k = j THEN r ELSE row[k]
  BY DEF Jobs!RowsOK
<1>3. r # NoRow
  BY DEF Jobs!JobsAssumption
<1>4. Jobs!ReceiptKept
  BY <1>2, <1>3 DEF Jobs!ReceiptKept, Jobs!Submitted
<1>5. row[j] # NoRow => Jobs!Live' \subseteq Jobs!Live
  BY <1>2 DEF Jobs!Live, Jobs!Unresolved
<1>6. row[j] # NoRow /\ r.result = NoResult => Jobs!Live' = Jobs!Live
  BY <1>2, <1>3 DEF Jobs!Live, Jobs!Unresolved
<1> QED BY <1>1, <1>2, <1>3, <1>4, <1>5, <1>6

\* Nothing else happens to the table in the other steps.
LEMMA RowsUntouched ==
  ASSUME UNCHANGED row
  PROVE  Jobs!ReceiptKept /\ Jobs!Live' = Jobs!Live /\ (Jobs!RowsOK => Jobs!RowsOK')
BY DEF Jobs!ReceiptKept, Jobs!Live, Jobs!Unresolved, Jobs!Submitted, Jobs!RowsOK

\* A deferral, or the end of the attempt.
LEMMA WaitForMoves ==
  ASSUME Jobs!TasksOK, NEW t \in Task, NEW r \in Jobs!ResearchJob, Jobs!WaitFor(t, r)
  PROVE  \E p \in {"FATAL", "DEFERRING"} : Moves(t, p)
<1>1. CASE r.age >= ReconcileAfter
  <2>1. phase' = [phase EXCEPT ![t] = "FATAL"] /\ wait' = wait
    BY <1>1 DEF Jobs!WaitFor, Jobs!Enter
  <2> QED BY <2>1 DEF Moves, Jobs!TasksOK, Jobs!Phase, Jobs!Ended
<1>2. CASE ~(r.age >= ReconcileAfter)
  <2> DEFINE d == [kind |-> "job", left |-> Jobs!Later(1, r.poll)]
  <2>1. phase' = [phase EXCEPT ![t] = "DEFERRING"] /\ wait' = [wait EXCEPT ![t] = d]
    BY <1>2 DEF Jobs!WaitFor, Jobs!Enter
  <2>2. d \in Jobs!Delay
    BY DEF Jobs!Delay, Jobs!Later, Jobs!ResearchJob
  <2> HIDE DEF d
  <2>3. wait' \in [Task -> Jobs!Delay] /\ \A u \in Task : u # t => wait'[u] = wait[u]
    BY <2>1, <2>2 DEF Jobs!TasksOK
  <2> QED BY <2>1, <2>3 DEF Moves, Jobs!Phase
<1> QED BY <1>1, <1>2

\* A task that moves leaves the slots and the sleepers as they were when it does not
\* go to sleep for a free slot itself.
LEMMA MoveKeeps ==
  ASSUME Jobs!JobsAssumption, JobInv, NEW t \in Task, NEW p, Moves(t, p),
         UNCHANGED Jobs!config, losses' \in 0..MaxLosses, Jobs!RowsOK',
         \A j \in Job : row[j] # NoRow => row'[j] # NoRow,
         Jobs!Live' = Jobs!Live,
         p = "CALLING" => row'[uses[t]] # NoRow,
         p = "READY" =>
           (wait'[t].kind = "capacity" /\ wait'[t].left > 0 =>
             Cardinality(Jobs!Live) = MaxConcurrent)
  PROVE  JobInv'
<1>1. \A u \in Task : phase'[u] = IF u = t THEN p ELSE phase[u]
  BY DEF Moves, JobInv, Jobs!TypeOK, Jobs!TasksOK
<1>2. Jobs!TasksOK'
  BY DEF Moves, JobInv, Jobs!TypeOK, Jobs!TasksOK
<1>3. Jobs!TypeOK'
  BY <1>2 DEF JobInv, Jobs!TypeOK, Jobs!config
<1>4. Intended'
  BY <1>1 DEF JobInv, Jobs!TypeOK, Intended, Jobs!config
<1>5. Jobs!CapacityShared'
  <2>1. ASSUME NEW u \in Task, Crowded(u)' PROVE Cardinality(Jobs!Live') = MaxConcurrent
    <3>1. CASE u = t
      BY <1>1, <2>1, <3>1 DEF Crowded
    <3>2. CASE u # t
      BY JobsCounted, <1>1, <2>1, <3>2 DEF Crowded, Moves, JobInv, Jobs!CapacityShared
    <3> QED BY <3>1, <3>2
  <2>2. Cardinality(Jobs!Live') <= MaxConcurrent
    BY JobsCounted DEF JobInv, Jobs!CapacityShared
  <2> QED BY JobsCounted, <2>1, <2>2 DEF Jobs!CapacityShared, Crowded
<1> QED BY <1>3, <1>4, <1>5 DEF JobInv

\* The receipt of a job gives its slot back and ends the sleep for one.
LEMMA ReleaseKeeps ==
  ASSUME Jobs!JobsAssumption, JobInv, UNCHANGED <<Jobs!config, losses>>, Jobs!RowsOK',
         Jobs!TasksOK', Intended',
         Jobs!Live' \subseteq Jobs!Live, \A u \in Task : ~Crowded(u)'
  PROVE  JobInv'
<1>1. Cardinality(Jobs!Live') <= Cardinality(Jobs!Live)
  BY LiveCounted, FS_Subset
<1>2. Cardinality(Jobs!Live') \in Nat
  BY LiveCounted, FS_Subset, FS_CardinalityType
<1>3. Cardinality(Jobs!Live') <= MaxConcurrent
  BY JobsCounted, <1>1, <1>2, LiveCounted DEF JobInv, Jobs!CapacityShared, Jobs!JobsAssumption
<1>4. Jobs!CapacityShared'
  BY JobsCounted, <1>3 DEF Jobs!CapacityShared, Crowded
<1> QED BY <1>4 DEF JobInv, Jobs!TypeOK, Jobs!config

\* Nobody who is READY sleeps for a slot that was given back.
LEMMA ReleasedAwake ==
  ASSUME Jobs!TasksOK
  PROVE  /\ Jobs!Released \in [Task -> Jobs!Delay]
         /\ \A u \in Task : phase[u] = "READY" =>
              ~(Jobs!Released[u].kind = "capacity" /\ Jobs!Released[u].left > 0)
BY DEF Jobs!TasksOK, Jobs!Released, Jobs!Delay

\* Where such a step leads: to a row when it calls, and not to sleep for a free slot.
Lands(t, p) ==
  /\ Moves(t, p) /\ (p = "CALLING" => row[uses[t]] # NoRow)
  /\ p = "READY" =>
       (wait'[t].kind = "capacity" /\ wait'[t].left > 0 => Cardinality(Jobs!Live) = MaxConcurrent)

\* A step of one task that leaves the table alone.
LEMMA QuietMoves ==
  ASSUME Jobs!JobsAssumption, JobInv, NEW t \in Task,
         \/ Jobs!Replay(t) \/ Jobs!Exhaust(t) \/ Jobs!Refuse(t) \/ Jobs!Persist(t) \/ Jobs!Lose(t)
         \/ \E delay \in Delays : Jobs!Crowd(t, delay)
         \/ \E reply \in Jobs!Reply : Jobs!Mistake(t, reply) \/ Jobs!Repeat(t, reply)
  PROVE  /\ UNCHANGED <<Jobs!config, row>> /\ losses' \in 0..MaxLosses
         /\ \E p : Lands(t, p)
<1>1. Jobs!TasksOK /\ losses \in 0..MaxLosses /\ MaxLosses \in Nat
  BY DEF JobInv, Jobs!TypeOK, Jobs!JobsAssumption
<1>2. UNCHANGED <<Jobs!config, row>>
  BY DEF Jobs!Replay, Jobs!Exhaust, Jobs!Refuse, Jobs!Persist, Jobs!Lose, Jobs!Crowd,
         Jobs!Mistake, Jobs!Repeat
<1>3. losses' \in 0..MaxLosses
  BY <1>1 DEF Jobs!Replay, Jobs!Exhaust, Jobs!Refuse, Jobs!Persist, Jobs!Lose, Jobs!Crowd,
              Jobs!Mistake, Jobs!Repeat
<1>4. ASSUME UNCHANGED wait, NEW p \in Jobs!Phase \ {"READY"}, Jobs!Enter(t, p),
             p = "CALLING" => row[uses[t]] # NoRow
      PROVE  Lands(t, p)
  BY <1>1, <1>4 DEF Lands, Jobs!Enter, Moves, Jobs!TasksOK
<1>5. ASSUME NEW d \in Jobs!Delay, wait' = [wait EXCEPT ![t] = d]
      PROVE  /\ wait' \in [Task -> Jobs!Delay] /\ wait'[t] = d
             /\ \A u \in Task : u # t => wait'[u] = wait[u]
  BY <1>1, <1>5 DEF Jobs!TasksOK
<1>6. ASSUME wait' = [wait EXCEPT ![t] = Jobs!Rested], Jobs!Enter(t, "READY")
      PROVE  Lands(t, "READY")
  <2>1. Jobs!Rested \in Jobs!Delay /\ Jobs!Rested.kind # "capacity"
    BY DEF Jobs!Rested, Jobs!Delay
  <2> QED BY <1>5, <1>6, <2>1 DEF Lands, Jobs!Enter, Moves, Jobs!Phase
<1>7. CASE Jobs!Replay(t)
  <2>1. row[uses[t]] # NoRow
    BY <1>7 DEF Jobs!Replay
  <2>2. CASE row[uses[t]].result # NoResult
    <3>1. Jobs!Enter(t, "DONE") /\ UNCHANGED wait
      BY <1>7, <2>2 DEF Jobs!Replay
    <3> QED BY <1>2, <1>3, <1>4, <3>1 DEF Jobs!Phase, Jobs!Ended
  <2>3. CASE row[uses[t]].result = NoResult /\ row[uses[t]].poll > 0
    <3>1. Jobs!WaitFor(t, row[uses[t]])
      BY <1>7, <2>3 DEF Jobs!Replay
    <3>2. row[uses[t]] \in Jobs!ResearchJob
      BY <2>1 DEF JobInv, Jobs!TypeOK, Jobs!RowsOK
    <3>3. PICK p \in {"FATAL", "DEFERRING"} : Moves(t, p)
      BY <1>1, <3>1, <3>2, WaitForMoves
    <3> QED BY <1>2, <1>3, <3>3 DEF Lands
  <2>4. CASE row[uses[t]].result = NoResult /\ ~(row[uses[t]].poll > 0)
    <3>1. Jobs!Enter(t, "CALLING") /\ UNCHANGED wait
      BY <1>7, <2>4 DEF Jobs!Replay
    <3> QED BY <1>2, <1>3, <1>4, <2>1, <3>1 DEF Jobs!Phase
  <2> QED BY <2>2, <2>3, <2>4
<1>8. CASE Jobs!Exhaust(t) \/ Jobs!Refuse(t) \/ \E reply \in Jobs!Reply : Jobs!Mistake(t, reply)
  <2>1. Jobs!Enter(t, "FATAL") /\ UNCHANGED wait
    BY <1>8 DEF Jobs!Exhaust, Jobs!Refuse, Jobs!Mistake
  <2> QED BY <1>2, <1>3, <1>4, <2>1 DEF Jobs!Phase, Jobs!Ended
<1>9. ASSUME NEW delay \in Delays, Jobs!Crowd(t, delay) PROVE Lands(t, "DEFERRING")
  <2> DEFINE d == [kind |-> "capacity", left |-> delay]
  <2>1. d \in Jobs!Delay
    BY DEF Jobs!Delay, Jobs!JobsAssumption
  <2>2. wait' = [wait EXCEPT ![t] = d] /\ Jobs!Enter(t, "DEFERRING")
    BY <1>9 DEF Jobs!Crowd
  <2> HIDE DEF d
  <2> QED BY <1>5, <2>1, <2>2 DEF Lands, Jobs!Enter, Moves, Jobs!Phase
<1>10. ASSUME NEW reply \in Jobs!Reply, Jobs!Repeat(t, reply) PROVE \E p : Lands(t, p)
  <2>1. CASE Jobs!Enter(t, "READY") /\ wait' = [wait EXCEPT ![t] = Jobs!Rested]
    BY <1>6, <2>1
  <2>2. CASE Jobs!Enter(t, "DONE") /\ UNCHANGED wait
    BY <1>4, <2>2 DEF Jobs!Phase, Jobs!Ended
  <2> QED BY <1>10, <2>1, <2>2 DEF Jobs!Repeat
<1>11. CASE Jobs!Persist(t)
  <2> DEFINE left == IF Jobs!Recovered(t) THEN 0 ELSE wait[t].left
             d == [wait[t] EXCEPT !.left = left]
  <2>1. wait[t] \in Jobs!Delay
    BY <1>1 DEF Jobs!TasksOK
  <2>2. d \in Jobs!Delay /\ d.kind = wait[t].kind /\ d.left = left
    BY <2>1 DEF Jobs!Delay
  <2>3. wait' = [wait EXCEPT ![t] = d] /\ Jobs!Enter(t, "READY")
    BY <1>11 DEF Jobs!Persist
  <2>4. d.kind = "capacity" /\ d.left > 0 => Cardinality(Jobs!Live) = MaxConcurrent
    <3>1. Jobs!Recovered(t) => ~(d.left > 0)
      BY <2>2
    <3>2. d.kind = "capacity" => (Jobs!Recovered(t) <=> Cardinality(Jobs!Live) < MaxConcurrent)
      BY JobsCounted, <2>2 DEF Jobs!Recovered
    <3> QED BY JobsCounted, <3>1, <3>2, LiveCounted DEF JobInv, Jobs!CapacityShared,
                                                        Jobs!JobsAssumption
  <2> HIDE DEF d
  <2>5. /\ wait' \in [Task -> Jobs!Delay] /\ wait'[t] = d
        /\ \A u \in Task : u # t => wait'[u] = wait[u]
    BY <1>5, <2>2, <2>3
  <2>6. Lands(t, "READY")
    BY <2>3, <2>4, <2>5 DEF Lands, Jobs!Enter, Moves, Jobs!Phase
  <2> QED BY <1>2, <1>3, <2>6
<1>12. CASE Jobs!Lose(t)
  BY <1>2, <1>3, <1>6, <1>12 DEF Jobs!Lose
<1> QED BY <1>2, <1>3, <1>7, <1>8, <1>9, <1>10, <1>11, <1>12

\* Such a step keeps the invariant.
LEMMA QuietStep ==
  ASSUME Jobs!JobsAssumption, JobInv, NEW t \in Task,
         \/ Jobs!Replay(t) \/ Jobs!Exhaust(t) \/ Jobs!Refuse(t) \/ Jobs!Persist(t) \/ Jobs!Lose(t)
         \/ \E delay \in Delays : Jobs!Crowd(t, delay)
         \/ \E reply \in Jobs!Reply : Jobs!Mistake(t, reply) \/ Jobs!Repeat(t, reply)
  PROVE  JobInv' /\ Jobs!ReceiptKept
<1>1. UNCHANGED <<Jobs!config, row>> /\ losses' \in 0..MaxLosses
  BY QuietMoves
<1>2. PICK p : Lands(t, p)
  BY QuietMoves
<1>3. Jobs!ReceiptKept /\ Jobs!Live' = Jobs!Live /\ Jobs!RowsOK'
  BY <1>1, RowsUntouched DEF JobInv, Jobs!TypeOK
<1> QED BY <1>1, <1>2, <1>3, MoveKeeps DEF Lands

\* A job is submitted to a slot that is free, for which nobody sleeps then.
LEMMA SubmitStep ==
  ASSUME Jobs!JobsAssumption, JobInv, NEW t \in Task, Jobs!Submit(t)
  PROVE  JobInv' /\ Jobs!ReceiptKept
<1> DEFINE j == uses[t]
           r == [owner |-> t, id |-> NoId, status |-> "UNKNOWN", result |-> NoResult,
                 age |-> 0, poll |-> 0, rank |-> 0, seen |-> {}]
<1>1. /\ j \in Job /\ row[j] = NoRow /\ Cardinality(Jobs!Live) < MaxConcurrent
      /\ row' = [row EXCEPT ![j] = r] /\ phase' = [phase EXCEPT ![t] = "CALLING"]
      /\ UNCHANGED <<Jobs!config, wait, losses>>
  BY JobsCounted DEF Jobs!Submit, Jobs!Enter, JobInv, Jobs!TypeOK
<1>2. r \in Jobs!ResearchJob /\ r.result = NoResult
  BY DEF Jobs!ResearchJob, Jobs!Status, Jobs!JobsAssumption
<1> HIDE DEF r
<1>3. Jobs!RowsOK' /\ Jobs!ReceiptKept /\ (\A k \in Job : row[k] # NoRow => row'[k] # NoRow)
  BY <1>1, <1>2, RowWritten DEF JobInv, Jobs!TypeOK
<1>4. r # NoRow /\ \A k \in Job : row'[k] = IF k = j THEN r ELSE row[k]
  BY <1>1, <1>2 DEF Jobs!JobsAssumption, JobInv, Jobs!TypeOK, Jobs!RowsOK
<1>5. Jobs!Live' = Jobs!Live \cup {j} /\ j \notin Jobs!Live
  BY <1>1, <1>2, <1>4 DEF Jobs!Live, Jobs!Unresolved
<1>6. Cardinality(Jobs!Live') = Cardinality(Jobs!Live) + 1
  BY <1>5, LiveCounted, FS_AddElement
<1>7. Cardinality(Jobs!Live') <= MaxConcurrent /\ Cardinality(Jobs!Live) # MaxConcurrent
  BY <1>1, <1>6, LiveCounted DEF Jobs!JobsAssumption
<1>8. \A u \in Task : phase'[u] = IF u = t THEN "CALLING" ELSE phase[u]
  BY <1>1 DEF JobInv, Jobs!TypeOK, Jobs!TasksOK
<1>9. Jobs!CapacityShared'
  <2>1. \A u \in Task : ~Crowded(u)
    BY JobsCounted, <1>7 DEF JobInv, Jobs!CapacityShared, Crowded
  <2>2. \A u \in Task : ~Crowded(u)'
    BY <1>1, <1>8, <2>1 DEF Crowded
  <2> QED BY JobsCounted, <1>7, <2>2 DEF Jobs!CapacityShared, Crowded
<1>10. Jobs!TasksOK'
  BY <1>1 DEF JobInv, Jobs!TypeOK, Jobs!TasksOK, Jobs!Phase
<1>11. Intended'
  BY <1>1, <1>3, <1>4, <1>8 DEF JobInv, Jobs!TypeOK, Intended, Jobs!config
<1> QED BY <1>1, <1>3, <1>9, <1>10, <1>11 DEF JobInv, Jobs!TypeOK, Jobs!config

\* A call without an answer leaves the slots as they were.
LEMMA LostStep ==
  ASSUME Jobs!JobsAssumption, JobInv, NEW t \in Task, NEW delay \in Delays, Jobs!Lost(t, delay)
  PROVE  JobInv' /\ Jobs!ReceiptKept
<1> DEFINE j == uses[t]
           r == [row[j] EXCEPT !.status = "UNKNOWN", !.poll = delay]
<1>1. /\ j \in Job /\ row[j] \in Jobs!ResearchJob /\ row[j] # NoRow /\ delay \in Nat
      /\ UNCHANGED <<Jobs!config, losses>> /\ losses' \in 0..MaxLosses
  BY DEF Jobs!Lost, JobInv, Jobs!TypeOK, Jobs!RowsOK, Intended, Jobs!JobsAssumption
<1>2. r \in Jobs!ResearchJob /\ r.result = row[j].result /\ r.id = row[j].id
  BY <1>1 DEF Jobs!ResearchJob, Jobs!Status
<1>3. CASE Jobs!Unsettled(j)
  <2>1. row' = [row EXCEPT ![j] = r] /\ Jobs!WaitFor(t, r) /\ row[j].result = NoResult
    BY <1>3 DEF Jobs!Lost, Jobs!Unsettled
  <2> HIDE DEF r
  <2>2. /\ Jobs!RowsOK' /\ Jobs!ReceiptKept /\ Jobs!Live' = Jobs!Live
        /\ \A k \in Job : row[k] # NoRow => row'[k] # NoRow
    BY <1>1, <1>2, <2>1, RowWritten DEF JobInv, Jobs!TypeOK
  <2>3. PICK p \in {"FATAL", "DEFERRING"} : Moves(t, p)
    BY <1>2, <2>1, WaitForMoves DEF JobInv, Jobs!TypeOK
  <2> QED BY <1>1, <2>2, <2>3, MoveKeeps
<1>4. CASE ~Jobs!Unsettled(j)
  <2>1. Jobs!Enter(t, "DONE") /\ UNCHANGED <<row, wait>>
    BY <1>4 DEF Jobs!Lost
  <2>2. Moves(t, "DONE")
    BY <2>1 DEF Jobs!Enter, Moves, Jobs!Phase, Jobs!Ended, JobInv, Jobs!TypeOK, Jobs!TasksOK
  <2>3. Jobs!ReceiptKept /\ Jobs!Live' = Jobs!Live /\ Jobs!RowsOK'
    BY <2>1, RowsUntouched DEF JobInv, Jobs!TypeOK
  <2> QED BY <1>1, <2>1, <2>2, <2>3, MoveKeeps
<1> QED BY <1>3, <1>4

\* What has been observed of a job.
LEMMA ObservedTyped ==
  ASSUME Jobs!JobsAssumption, NEW r \in Jobs!ResearchJob, NEW reply \in Jobs!Reply,
         NEW delay \in Delays
  PROVE  /\ Jobs!Observed(r, reply, delay) \in Jobs!ResearchJob
         /\ Jobs!Observed(r, reply, delay).id = reply.id
         /\ reply.status \notin Jobs!Terminal => Jobs!Observed(r, reply, delay).result = NoResult
<1>1. /\ reply.id \in JobId /\ reply.status \in Jobs!Status
      /\ reply.token \in Token \cup {NoToken}
      /\ delay \in Nat
  BY DEF Jobs!Reply, Jobs!JobsAssumption
<1>2. Jobs!Rank(reply.status) \in 0..3
  BY <1>1 DEF Jobs!Rank, Jobs!Status, Jobs!Terminal
<1>3. /\ r.owner \in Task /\ r.age \in 0..ReconcileAfter /\ 0 \in 0..ReconcileAfter
      /\ r.rank \in 0..3 /\ r.seen \in SUBSET Token
  BY DEF Jobs!ResearchJob, Jobs!JobsAssumption
<1> DEFINE age == IF Jobs!Milestone(r, reply) THEN 0 ELSE r.age
           result == IF reply.status \in Jobs!Terminal THEN reply ELSE NoResult
           rank == Jobs!Later(r.rank, Jobs!Rank(reply.status))
           tokens == r.seen \cup ({reply.token} \ {NoToken})
<1>4. /\ age \in 0..ReconcileAfter /\ result \in Jobs!Reply \cup {NoResult}
      /\ rank \in 0..3 /\ tokens \in SUBSET Token
  BY <1>1, <1>2, <1>3 DEF Jobs!Later
<1>5. Jobs!Observed(r, reply, delay) =
        [r EXCEPT !.id = reply.id, !.status = reply.status, !.age = age, !.poll = delay,
                  !.result = result, !.rank = rank, !.seen = tokens]
  BY DEF Jobs!Observed
<1>6. reply.status \notin Jobs!Terminal => result = NoResult
  OBVIOUS
<1> HIDE DEF age, result, rank, tokens
<1> QED BY <1>1, <1>4, <1>5, <1>6 DEF Jobs!ResearchJob

\* An answer: the job is under way, or ends and gives its slot back.
LEMMA ObserveJobStep ==
  ASSUME Jobs!JobsAssumption, JobInv, NEW t \in Task, NEW reply \in Jobs!Reply,
         NEW delay \in Delays,
         Jobs!Observe(t, reply, delay)
  PROVE  JobInv' /\ Jobs!ReceiptKept
<1> DEFINE j == uses[t]
           r == Jobs!Observed(row[j], reply, delay)
<1>1. /\ j \in Job /\ row[j] \in Jobs!ResearchJob /\ row[j] # NoRow
      /\ row[j].id \in {NoId, reply.id} /\ row[j].result = NoResult
      /\ row' = [row EXCEPT ![j] = r]
      /\ UNCHANGED <<Jobs!config, losses>> /\ losses' \in 0..MaxLosses
  BY DEF Jobs!Observe, JobInv, Jobs!TypeOK, Jobs!RowsOK, Intended
<1>2. /\ r \in Jobs!ResearchJob /\ r.id = reply.id
      /\ reply.status \notin Jobs!Terminal => r.result = NoResult
  BY <1>1, ObservedTyped
<1>3. reply.status \notin Jobs!Terminal => Jobs!WaitFor(t, r)
  BY DEF Jobs!Observe
<1> HIDE DEF r
<1>4. /\ Jobs!RowsOK' /\ Jobs!ReceiptKept /\ Jobs!Live' \subseteq Jobs!Live
      /\ \A k \in Job : row[k] # NoRow => row'[k] # NoRow
      /\ reply.status \notin Jobs!Terminal => Jobs!Live' = Jobs!Live
  BY <1>1, <1>2, RowWritten DEF JobInv, Jobs!TypeOK
<1>5. CASE reply.status \in Jobs!Terminal
  <2>1. phase' = [phase EXCEPT ![t] = "DONE"] /\ wait' = Jobs!Released
    BY <1>5 DEF Jobs!Observe, Jobs!Enter
  <2>2. \A u \in Task : phase'[u] = IF u = t THEN "DONE" ELSE phase[u]
    BY <2>1 DEF JobInv, Jobs!TypeOK, Jobs!TasksOK
  <2>3. Jobs!TasksOK'
    BY <2>1, ReleasedAwake DEF JobInv, Jobs!TypeOK, Jobs!TasksOK, Jobs!Phase, Jobs!Ended
  <2>4. \A u \in Task : ~Crowded(u)'
    BY <2>1, <2>2, ReleasedAwake DEF JobInv, Jobs!TypeOK, Crowded
  <2>5. Intended'
    BY <1>1, <1>4, <2>2 DEF JobInv, Jobs!TypeOK, Intended, Jobs!config
  <2> QED BY <1>1, <1>4, <2>3, <2>4, <2>5, ReleaseKeeps
<1>6. CASE reply.status \notin Jobs!Terminal
  <2>1. PICK p \in {"FATAL", "DEFERRING"} : Moves(t, p)
    BY <1>2, <1>3, <1>6, WaitForMoves DEF JobInv, Jobs!TypeOK
  <2> QED BY <1>1, <1>4, <1>6, <2>1, MoveKeeps
<1> QED BY <1>5, <1>6

\* The operator settles a job.
LEMMA ReconcileStep ==
  ASSUME Jobs!JobsAssumption, JobInv, NEW j \in Job, NEW reply \in Jobs!Reply,
         Jobs!Reconcile(j, reply)
  PROVE  JobInv' /\ Jobs!ReceiptKept
<1> DEFINE r == [row[j] EXCEPT !.id = reply.id, !.status = reply.status,
                               !.result = reply, !.poll = 0]
           owner == row[j].owner
           d == IF phase[owner] = "READY" THEN [Jobs!Released[owner] EXCEPT !.left = 0]
                ELSE Jobs!Released[owner]
<1>1. /\ row[j] # NoRow /\ row[j].result = NoResult /\ row[j].id \in {NoId, reply.id}
      /\ row' = [row EXCEPT ![j] = r] /\ wait' = [Jobs!Released EXCEPT ![owner] = d]
      /\ UNCHANGED <<Jobs!config, phase, losses>>
  BY DEF Jobs!Reconcile, Jobs!Unresolved
<1>2. row[j] \in Jobs!ResearchJob /\ owner \in Task
  BY <1>1 DEF JobInv, Jobs!TypeOK, Jobs!RowsOK, Jobs!ResearchJob
<1>3. r \in Jobs!ResearchJob /\ r.id = reply.id
  BY <1>2 DEF Jobs!ResearchJob, Jobs!Reply, Jobs!JobsAssumption
<1>4. /\ Jobs!Released \in [Task -> Jobs!Delay]
      /\ \A u \in Task : phase[u] = "READY" =>
           ~(Jobs!Released[u].kind = "capacity" /\ Jobs!Released[u].left > 0)
  BY ReleasedAwake DEF JobInv, Jobs!TypeOK
<1>5. d \in Jobs!Delay /\ (phase[owner] = "READY" => ~(d.left > 0))
  <2>1. Jobs!Released[owner] \in Jobs!Delay
    BY <1>2, <1>4
  <2> QED BY <2>1 DEF Jobs!Delay
<1> HIDE DEF r, d, owner
<1>6. /\ Jobs!RowsOK' /\ Jobs!ReceiptKept /\ Jobs!Live' \subseteq Jobs!Live
      /\ \A k \in Job : row[k] # NoRow => row'[k] # NoRow
  BY <1>1, <1>3, RowWritten DEF JobInv, Jobs!TypeOK
<1>7. /\ wait' \in [Task -> Jobs!Delay]
      /\ \A u \in Task : wait'[u] = IF u = owner THEN d ELSE Jobs!Released[u]
  BY <1>1, <1>2, <1>4, <1>5
<1>8. Jobs!TasksOK'
  BY <1>1, <1>7 DEF JobInv, Jobs!TypeOK, Jobs!TasksOK
<1>9. \A u \in Task : ~Crowded(u)'
  BY <1>1, <1>4, <1>5, <1>7 DEF Crowded
<1>10. Intended'
  BY <1>1, <1>6 DEF JobInv, Jobs!TypeOK, Intended, Jobs!config
<1> QED BY <1>1, <1>6, <1>8, <1>9, <1>10, ReleaseKeeps

\* Time passes: jobs grow older and sleepers' waits shorter.
LEMMA TickStep ==
  ASSUME Jobs!JobsAssumption, JobInv, Jobs!Tick
  PROVE  JobInv' /\ Jobs!ReceiptKept
<1>1. /\ row' = [j \in Job |-> IF Jobs!Unresolved(j) THEN Jobs!Aged(row[j]) ELSE row[j]]
      /\ wait' = [t \in Task |->
           IF Jobs!Waiting(t) THEN [wait[t] EXCEPT !.left = @ - 1] ELSE wait[t]]
      /\ UNCHANGED <<Jobs!config, phase, losses>>
  BY DEF Jobs!Tick
<1>2. ASSUME NEW r \in Jobs!ResearchJob
      PROVE  /\ Jobs!Aged(r) \in Jobs!ResearchJob /\ Jobs!Aged(r).result = r.result
             /\ Jobs!Aged(r).id = r.id
  <2> DEFINE age == IF r.age < ReconcileAfter THEN r.age + 1 ELSE r.age
             poll == Jobs!Later(0, r.poll - 1)
  <2>1. r.age \in 0..ReconcileAfter /\ r.poll \in Nat
    BY DEF Jobs!ResearchJob
  <2>2. age \in 0..ReconcileAfter /\ poll \in Nat
    BY <2>1 DEF Jobs!Later, Jobs!JobsAssumption
  <2>3. Jobs!Aged(r) = [r EXCEPT !.age = age, !.poll = poll]
    BY DEF Jobs!Aged
  <2> HIDE DEF age, poll
  <2> QED BY <2>2, <2>3 DEF Jobs!ResearchJob
<1>3. ASSUME NEW j \in Job
      PROVE  /\ row'[j] \in Jobs!ResearchJob \cup {NoRow}
             /\ row'[j] = NoRow <=> row[j] = NoRow
             /\ row[j] # NoRow =>
                  /\ row'[j].result = row[j].result /\ row'[j].id = row[j].id
                  /\ row[j].result # NoResult => row'[j] = row[j]
  <2>1. row'[j] = IF Jobs!Unresolved(j) THEN Jobs!Aged(row[j]) ELSE row[j]
    BY <1>1
  <2>2. row[j] \in Jobs!ResearchJob \cup {NoRow} /\ NoRow \notin Jobs!ResearchJob
    BY DEF JobInv, Jobs!TypeOK, Jobs!RowsOK, Jobs!JobsAssumption
  <2>3. CASE Jobs!Unresolved(j)
    <3>1. row[j] \in Jobs!ResearchJob /\ row[j].result = NoResult
      BY <2>2, <2>3 DEF Jobs!Unresolved
    <3> QED BY <1>2, <2>1, <2>2, <2>3, <3>1
  <2>4. CASE ~Jobs!Unresolved(j)
    BY <2>1, <2>2, <2>4
  <2> QED BY <2>3, <2>4
<1>4. Jobs!RowsOK'
  BY <1>1, <1>3 DEF Jobs!RowsOK
<1>5. Jobs!ReceiptKept /\ Jobs!Live' = Jobs!Live
  BY <1>3 DEF Jobs!ReceiptKept, Jobs!Submitted, Jobs!Live, Jobs!Unresolved
<1>6. ASSUME NEW t \in Task PROVE wait'[t] \in Jobs!Delay /\ (Crowded(t)' => Crowded(t))
  <2>1. /\ wait[t] \in Jobs!Delay
        /\ wait'[t] = IF Jobs!Waiting(t) THEN [wait[t] EXCEPT !.left = @ - 1] ELSE wait[t]
    BY <1>1 DEF JobInv, Jobs!TypeOK, Jobs!TasksOK
  <2>2. CASE Jobs!Waiting(t)
    <3>1. /\ wait'[t] = [wait[t] EXCEPT !.left = wait[t].left - 1]
          /\ wait[t].left > 0 /\ wait[t].left \in Nat
      BY <2>1, <2>2 DEF Jobs!Waiting, Jobs!Delay
    <3>2. wait'[t].kind = wait[t].kind /\ wait'[t] \in Jobs!Delay
      BY <2>1, <3>1 DEF Jobs!Delay
    <3> QED BY <1>1, <3>1, <3>2 DEF Crowded
  <2>3. CASE ~Jobs!Waiting(t)
    BY <1>1, <2>1, <2>3 DEF Crowded
  <2> QED BY <2>2, <2>3
<1>7. Jobs!TasksOK'
  BY <1>1, <1>6 DEF JobInv, Jobs!TypeOK, Jobs!TasksOK
<1>8. Jobs!CapacityShared'
  BY <1>5, <1>6 DEF JobInv, Jobs!CapacityShared, Crowded
<1>9. Intended'
  BY <1>1, <1>3 DEF JobInv, Jobs!TypeOK, Intended, Jobs!config
<1> QED BY <1>1, <1>4, <1>5, <1>7, <1>8, <1>9 DEF JobInv, Jobs!TypeOK, Jobs!config

\* Every step keeps the invariant, and the receipts.
LEMMA JobsStep ==
  ASSUME Jobs!JobsAssumption, JobInv, [Jobs!Next]_Jobs!vars PROVE JobInv' /\ Jobs!ReceiptKept
<1>1. CASE UNCHANGED Jobs!vars
  <2>1. Jobs!ReceiptKept /\ Jobs!Live' = Jobs!Live /\ Jobs!RowsOK'
    BY <1>1, RowsUntouched DEF Jobs!vars, JobInv, Jobs!TypeOK
  <2>2. Jobs!CapacityShared' /\ Intended'
    BY <1>1, <2>1 DEF Jobs!vars, Jobs!config, JobInv, Jobs!CapacityShared, Intended
  <2> QED BY <1>1, <2>1, <2>2 DEF Jobs!vars, Jobs!config, JobInv, Jobs!TypeOK, Jobs!TasksOK
<1>2. ASSUME NEW t \in Task, Jobs!Work(t) \/ Jobs!Lose(t) PROVE JobInv' /\ Jobs!ReceiptKept
  <2>1. CASE Jobs!Attempt(t)
    BY <2>1, QuietStep, SubmitStep DEF Jobs!Attempt
  <2>2. CASE Jobs!Return(t)
    BY <2>2, QuietStep, LostStep, ObserveJobStep DEF Jobs!Return
  <2>3. CASE Jobs!Persist(t) \/ Jobs!Lose(t)
    BY <2>3, QuietStep
  <2> QED BY <1>2, <2>1, <2>2, <2>3 DEF Jobs!Work
<1> QED BY <1>1, <1>2, ReconcileStep, TickStep DEF Jobs!Next

\* However many tasks share a template, its jobs never hold more than its slots, and no
\* task sleeps for a slot that is free (jobs.ts, execute; continuation.ts, "avoid losing
\* a release notification").
THEOREM SlotsShared == Jobs!Spec => [](Jobs!TypeOK /\ Jobs!CapacityShared)
<1>1. Jobs!Init => JobInv
  BY HostAssumption, InitJobs
<1>2. JobInv /\ [Jobs!Next]_Jobs!vars => JobInv'
  BY HostAssumption, JobsStep
<1>3. JobInv => Jobs!TypeOK /\ Jobs!CapacityShared
  BY DEF JobInv
<1> QED BY <1>1, <1>2, <1>3, PTL DEF Jobs!Spec

\* "A late transport error cannot undo that receipt" (jobs.ts): nor can a late answer, an
\* operator or the passage of time.
THEOREM ReceiptsFinal == Jobs!Spec => Jobs!ReceiptFinal
<1>1. Jobs!Init => JobInv
  BY HostAssumption, InitJobs
<1>2. JobInv /\ [Jobs!Next]_Jobs!vars => JobInv' /\ [Jobs!ReceiptKept]_Jobs!vars
  BY HostAssumption, JobsStep
<1> QED BY <1>1, <1>2, PTL DEF Jobs!Spec, Jobs!ReceiptFinal

-----------------------------------------------------------------------------
(* Recipes.                                                                *)

\* An evaluation about to be created is nobody else's, and there is no row of it yet.
NewEvaluation(v) ==
  memory[v] # None /\ memory[v].step = "create" =>
    /\ record[memory[v].id] = None
    /\ \A w \in Evaluator : w # v => memory[w] = None \/ memory[w].id # memory[v].id

\* Whoever works on an evaluation has a row and another pair to measure, and saves what
\* was measured.
UnderWay(v) ==
  memory[v] # None /\ memory[v].step # "create" =>
    /\ record[memory[v].id] # None /\ Len(memory[v].pairs) < Repetitions
    /\ memory[v].step = "save" =>
         outcome[memory[v].id][Len(memory[v].pairs) + 1] \in Recipes!Outcomes

\* What was promoted has its receipt consumed, which no evaluator undoes.
Consumed(e) == promotions[e] # 0 => record[e] # None /\ record[e].promoted

RecipeInv ==
  /\ Recipes!TypeOK
  /\ \A v \in Evaluator : NewEvaluation(v) /\ UnderWay(v)
  /\ \A e \in Evaluation : Consumed(e)

\* The first states are consistent.
LEMMA InitRecipes == ASSUME Recipes!EvolutionAssumption PROVE Recipes!Init => RecipeInv
<1> SUFFICES ASSUME Recipes!Init PROVE RecipeInv
  OBVIOUS
<1>1. Recipes!TypeOK
  BY DEF Recipes!Init, Recipes!EvolutionAssumption, Recipes!TypeOK, Recipes!RecipesOK,
         Recipes!RecordOK, Recipes!OutcomeOK, Recipes!MemoryOK
<1> QED BY <1>1 DEF Recipes!Init, RecipeInv, NewEvaluation, UnderWay, Consumed

\* Pairs are a short sequence of outcomes, and one more can be added before the last.
LEMMA PairsAppend ==
  ASSUME Repetitions \in Nat, NEW s \in Recipes!Pairs
  PROVE  /\ s \in Seq(Recipes!Outcomes) /\ Len(s) \in 0..Repetitions /\ DOMAIN s = 1..Len(s)
         /\ \A o \in Recipes!Outcomes : Len(s) < Repetitions => Append(s, o) \in Recipes!Pairs
<1>1. PICK n \in 0..Repetitions : s \in [1..n -> Recipes!Outcomes]
  BY DEF Recipes!Pairs
<1>2. s \in Seq(Recipes!Outcomes) /\ Len(s) = n /\ DOMAIN s = 1..Len(s)
  BY <1>1
<1>3. ASSUME NEW o \in Recipes!Outcomes, n < Repetitions PROVE Append(s, o) \in Recipes!Pairs
  <2>1. Append(s, o) \in [1..n + 1 -> Recipes!Outcomes]
    <3>1. Append(s, o) \in Seq(Recipes!Outcomes) /\ Len(Append(s, o)) = n + 1
      BY <1>2, AppendProperties
    <3> QED BY <3>1, LenProperties
  <2>2. n + 1 \in 0..Repetitions
    BY <1>3
  <2> QED BY <2>1, <2>2 DEF Recipes!Pairs
<1> QED BY <1>1, <1>2, <1>3

\* A longer sequence begins with what it was.
LEMMA AppendPrefix ==
  ASSUME NEW S, NEW s \in Seq(S)
  PROVE  Recipes!IsPrefix(s, s) /\ \A o \in S : Recipes!IsPrefix(s, Append(s, o))
BY DEF Recipes!IsPrefix

\* The cardinality that RecipeEvolution uses is that of finite sets.
LEMMA RecipesCounted == \A S : Recipes!Cardinality(S) = Cardinality(S)
BY DEF Recipes!Cardinality, Cardinality

\* What admits a candidate: all pairs, and none of them failed.
LEMMA AdmitComplete ==
  ASSUME Repetitions \in Nat, NEW s \in Recipes!Pairs, Recipes!Score(s) = "ADMIT"
  PROVE  Len(s) = Repetitions /\ \A i \in 1..Repetitions : s[i] # "failed"
<1>1. Len(s) = Repetitions /\ ~(Recipes!Count(s, "failed") > 0)
  BY DEF Recipes!Score
<1> DEFINE F == {i \in DOMAIN s : s[i] = "failed"}
<1>2. DOMAIN s = 1..Repetitions
  BY <1>1, PairsAppend
<1>3. F \subseteq 1..Repetitions /\ IsFiniteSet(1..Repetitions)
  BY <1>2, FS_Interval
<1>4. IsFiniteSet(F) /\ Cardinality(F) \in Nat
  BY <1>3, FS_Subset, FS_CardinalityType
<1>5. Cardinality(F) = 0
  BY <1>1, <1>4, RecipesCounted DEF Recipes!Count
<1>6. F = {}
  BY <1>4, <1>5, FS_EmptySet
<1> QED BY <1>1, <1>2, <1>6

\* A row that is there is one.
LEMMA RowsTyped ==
  ASSUME Recipes!EvolutionAssumption, RecipeInv, NEW e \in Evaluation, record[e] # None
  PROVE  /\ record[e] \in Recipes!Row /\ record[e].pairs \in Recipes!Pairs
         /\ Recipes!IsPrefix(record[e].pairs, record[e].pairs)
<1>1. record[e] \in Recipes!Row /\ record[e].pairs \in Recipes!Pairs
  BY DEF RecipeInv, Recipes!TypeOK, Recipes!RecordOK, Recipes!Row
<1> QED BY <1>1, PairsAppend, AppendPrefix DEF Recipes!EvolutionAssumption

\* A table that stays as it is keeps its evidence.
LEMMA PairsUntouched ==
  ASSUME Recipes!EvolutionAssumption, RecipeInv, UNCHANGED record PROVE Recipes!PairsKept
BY RowsTyped DEF Recipes!PairsKept

\* Where no event is written, kept evidence keeps its receipts.
LEMMA ReceiptsKept ==
  ASSUME RecipeInv, Recipes!PairsKept, UNCHANGED promotions
  PROVE  \A e \in Evaluation : Consumed(e)'
BY DEF RecipeInv, Recipes!PairsKept, Consumed

\* A step that puts nothing in force has nothing to earn.
LEMMA NothingEarned ==
  ASSUME UNCHANGED <<admitted, promotions>>, active' \in admitted \cup {active}
  PROVE  Recipes!Earned
BY DEF Recipes!Earned

\* A step on the recipes alone.
LEMMA RecipeStep ==
  ASSUME Recipes!EvolutionAssumption, RecipeInv, NEW r \in Recipe,
         Recipes!Propose(r) \/ Recipes!Rollback(r)
  PROVE  RecipeInv' /\ Recipes!PairsKept /\ Recipes!Earned
<1>1. /\ UNCHANGED <<admitted, record, promotions, outcome, memory>>
      /\ active' \in admitted \cup {active}
  BY DEF Recipes!Propose, Recipes!Rollback
<1>2. Recipes!RecipesOK'
  BY DEF Recipes!Propose, Recipes!Rollback, RecipeInv, Recipes!TypeOK, Recipes!RecipesOK
<1>3. Recipes!TypeOK'
  BY <1>1, <1>2 DEF RecipeInv, Recipes!TypeOK, Recipes!RecordOK, Recipes!OutcomeOK,
                    Recipes!MemoryOK
<1>4. Recipes!PairsKept /\ \A e \in Evaluation : Consumed(e)'
  BY <1>1, PairsUntouched, ReceiptsKept
<1>5. \A v \in Evaluator : NewEvaluation(v)' /\ UnderWay(v)'
  BY <1>1 DEF RecipeInv, NewEvaluation, UnderWay
<1> QED BY <1>1, <1>3, <1>4, <1>5, NothingEarned DEF RecipeInv

\* What a step of one evaluator does to the memory of the others.
LEMMA Alone ==
  ASSUME RecipeInv, NEW v \in Evaluator, NEW m \in Recipes!Copy \cup {None},
         memory' = [memory EXCEPT ![v] = m]
  PROVE  Recipes!MemoryOK' /\ \A w \in Evaluator : memory'[w] = IF w = v THEN m ELSE memory[w]
BY DEF RecipeInv, Recipes!TypeOK, Recipes!MemoryOK

\* An evaluator that forgets its copy breaks nothing.
LEMMA ForgetStep ==
  ASSUME Recipes!EvolutionAssumption, RecipeInv, NEW v \in Evaluator, Recipes!Forget(v),
         UNCHANGED <<active, parent, admitted, record, promotions, outcome>>
  PROVE  RecipeInv' /\ Recipes!PairsKept /\ Recipes!Earned
<1>1. Recipes!MemoryOK' /\ \A w \in Evaluator : memory'[w] = IF w = v THEN None ELSE memory[w]
  BY Alone DEF Recipes!Forget
<1>2. Recipes!TypeOK'
  BY <1>1 DEF RecipeInv, Recipes!TypeOK, Recipes!RecipesOK, Recipes!RecordOK, Recipes!OutcomeOK
<1>3. ASSUME NEW w \in Evaluator PROVE NewEvaluation(w)' /\ UnderWay(w)'
  BY <1>1 DEF RecipeInv, NewEvaluation, UnderWay
<1> QED BY <1>2, <1>3, PairsUntouched, ReceiptsKept, NothingEarned DEF RecipeInv

\* A new evaluation is chosen by one evaluator only.
LEMMA ChooseStep ==
  ASSUME Recipes!EvolutionAssumption, RecipeInv, NEW v \in Evaluator, NEW e \in Evaluation,
         NEW r \in Recipe, Recipes!Choose(v, e, r)
  PROVE  RecipeInv' /\ Recipes!PairsKept /\ Recipes!Earned
<1> DEFINE m == [id |-> e, step |-> "create", baseline |-> active, candidate |-> r,
                 pairs |-> <<>>]
<1>1. /\ record[e] = None
      /\ \A w \in Evaluator : memory[w] # None => memory[w].id # e
      /\ memory' = [memory EXCEPT ![v] = m]
      /\ UNCHANGED <<active, parent, admitted, record, promotions, outcome>>
  BY DEF Recipes!Choose
<1>2. <<>> \in Recipes!Pairs
  <2>1. 0 \in 0..Repetitions /\ <<>> \in [1..0 -> Recipes!Outcomes]
    BY DEF Recipes!EvolutionAssumption
  <2> QED BY <2>1 DEF Recipes!Pairs
<1>3. m \in Recipes!Copy /\ m.id = e /\ m.step = "create"
  BY <1>2 DEF Recipes!Copy, RecipeInv, Recipes!TypeOK, Recipes!RecipesOK
<1> HIDE DEF m
<1>4. Recipes!MemoryOK' /\ \A w \in Evaluator : memory'[w] = IF w = v THEN m ELSE memory[w]
  <2>1. m \in Recipes!Copy \cup {None} /\ memory' = [memory EXCEPT ![v] = m]
    BY <1>1, <1>3
  <2> QED BY <2>1, Alone
<1>5. Recipes!TypeOK'
  BY <1>1, <1>4 DEF RecipeInv, Recipes!TypeOK, Recipes!RecipesOK, Recipes!RecordOK,
                    Recipes!OutcomeOK
<1>6. ASSUME NEW w \in Evaluator PROVE NewEvaluation(w)' /\ UnderWay(w)'
  BY <1>1, <1>3, <1>4 DEF RecipeInv, NewEvaluation, UnderWay
<1> QED BY <1>1, <1>5, <1>6, PairsUntouched, ReceiptsKept, NothingEarned DEF RecipeInv

\* Its row is new.
LEMMA CreateStep ==
  ASSUME Recipes!EvolutionAssumption, RecipeInv, NEW v \in Evaluator, Recipes!Create(v)
  PROVE  RecipeInv' /\ Recipes!PairsKept /\ Recipes!Earned
<1> DEFINE e == memory[v].id
           r == [baseline |-> memory[v].baseline, candidate |-> memory[v].candidate,
                 pairs |-> <<>>, promoted |-> FALSE]
<1>1. /\ memory[v] \in Recipes!Copy /\ memory[v] # None /\ memory[v].step = "create"
      /\ record' = [record EXCEPT ![e] = r]
      /\ UNCHANGED <<active, parent, admitted, promotions, outcome>>
  BY DEF Recipes!Create, RecipeInv, Recipes!TypeOK, Recipes!MemoryOK
<1>2. <<>> \in Recipes!Pairs
  <2>1. 0 \in 0..Repetitions /\ <<>> \in [1..0 -> Recipes!Outcomes]
    BY DEF Recipes!EvolutionAssumption
  <2> QED BY <2>1 DEF Recipes!Pairs
<1>3. e \in Evaluation /\ r \in Recipes!Row
  BY <1>1, <1>2 DEF Recipes!Copy, Recipes!Row
<1>4. record[e] = None /\ \A w \in Evaluator : w # v => memory[w] = None \/ memory[w].id # e
  BY <1>1 DEF RecipeInv, NewEvaluation
<1> HIDE DEF e, r
<1>5. Recipes!RecordOK' /\ \A f \in Evaluation : record'[f] = IF f = e THEN r ELSE record[f]
  BY <1>1, <1>3 DEF RecipeInv, Recipes!TypeOK, Recipes!RecordOK
<1>6. Recipes!MemoryOK' /\ \A w \in Evaluator : memory'[w] = IF w = v THEN None ELSE memory[w]
  BY Alone DEF Recipes!Create, Recipes!Forget
<1>7. Recipes!TypeOK'
  BY <1>1, <1>5, <1>6 DEF RecipeInv, Recipes!TypeOK, Recipes!RecipesOK, Recipes!OutcomeOK
<1>8. ASSUME NEW w \in Evaluator, memory'[w] # None
      PROVE  /\ w # v /\ memory'[w] = memory[w] /\ memory[w] # None
             /\ memory[w].id \in Evaluation /\ record'[memory[w].id] = record[memory[w].id]
  <2>1. w # v /\ memory'[w] = memory[w] /\ memory[w] # None
    BY <1>6, <1>8
  <2>2. memory[w] \in Recipes!Copy
    BY <2>1 DEF RecipeInv, Recipes!TypeOK, Recipes!MemoryOK
  <2> QED BY <1>4, <1>5, <2>1, <2>2 DEF Recipes!Copy
<1>9. ASSUME NEW w \in Evaluator PROVE NewEvaluation(w)' /\ UnderWay(w)'
  BY <1>1, <1>6, <1>8 DEF RecipeInv, NewEvaluation, UnderWay
<1>10. Recipes!PairsKept
  BY <1>4, <1>5, RowsTyped DEF Recipes!PairsKept
<1> QED BY <1>1, <1>7, <1>9, <1>10, ReceiptsKept, NothingEarned
        DEF RecipeInv

\* An evaluator loads what is recorded.
LEMMA ResumeStep ==
  ASSUME Recipes!EvolutionAssumption, RecipeInv, NEW v \in Evaluator, NEW e \in Evaluation,
         Recipes!Resume(v, e)
  PROVE  RecipeInv' /\ Recipes!PairsKept /\ Recipes!Earned
<1> DEFINE m == [id |-> e, step |-> "measure", baseline |-> record[e].baseline,
                 candidate |-> record[e].candidate, pairs |-> record[e].pairs]
<1>1. /\ record[e] # None /\ Len(record[e].pairs) < Repetitions
      /\ memory' = [memory EXCEPT ![v] = m]
      /\ UNCHANGED <<active, parent, admitted, record, promotions, outcome>>
  BY DEF Recipes!Resume
<1>2. m \in Recipes!Copy /\ m.id = e /\ m.step = "measure" /\ m.pairs = record[e].pairs
  BY <1>1, RowsTyped DEF Recipes!Copy, Recipes!Row
<1> HIDE DEF m
<1>3. Recipes!MemoryOK' /\ \A w \in Evaluator : memory'[w] = IF w = v THEN m ELSE memory[w]
  BY <1>1, <1>2, Alone
<1>4. Recipes!TypeOK'
  BY <1>1, <1>3 DEF RecipeInv, Recipes!TypeOK, Recipes!RecipesOK, Recipes!RecordOK,
                    Recipes!OutcomeOK
<1>5. ASSUME NEW w \in Evaluator PROVE NewEvaluation(w)' /\ UnderWay(w)'
  BY <1>1, <1>2, <1>3 DEF RecipeInv, NewEvaluation, UnderWay
<1> QED BY <1>1, <1>4, <1>5, PairsUntouched, ReceiptsKept, NothingEarned DEF RecipeInv

\* A pair is measured once, and found measured after that.
LEMMA MeasureStep ==
  ASSUME Recipes!EvolutionAssumption, RecipeInv, NEW v \in Evaluator, NEW o \in Recipes!Outcomes,
         Recipes!Measure(v, o),
         active = memory[v].baseline
  PROVE  RecipeInv' /\ Recipes!PairsKept /\ Recipes!Earned
<1> DEFINE e == memory[v].id
           i == Len(memory[v].pairs) + 1
           m == [memory[v] EXCEPT !.step = "save"]
<1>1. /\ memory[v] \in Recipes!Copy /\ memory[v] # None /\ memory[v].step = "measure"
      /\ outcome' = [outcome EXCEPT ![e][i] = o] /\ memory' = [memory EXCEPT ![v] = m]
      /\ UNCHANGED <<active, parent, admitted, record, promotions>>
  BY DEF Recipes!Measure, RecipeInv, Recipes!TypeOK, Recipes!MemoryOK
<1>2. /\ m \in Recipes!Copy /\ m.id = e /\ m.step = "save" /\ m.pairs = memory[v].pairs
      /\ e \in Evaluation
  BY <1>1 DEF Recipes!Copy
<1>3. record[e] # None /\ Len(memory[v].pairs) < Repetitions /\ i \in 1..Repetitions
  <2>1. record[e] # None /\ Len(memory[v].pairs) < Repetitions
    BY <1>1 DEF RecipeInv, UnderWay
  <2>2. Len(memory[v].pairs) \in 0..Repetitions
    BY <1>1, PairsAppend DEF Recipes!Copy, Recipes!EvolutionAssumption
  <2> QED BY <2>1, <2>2 DEF Recipes!EvolutionAssumption
<1> HIDE DEF e, i, m
<1>4. /\ Recipes!OutcomeOK' /\ outcome'[e][i] = o
      /\ \A f \in Evaluation, k \in 1..Repetitions :
           outcome'[f][k] = IF f = e /\ k = i THEN o ELSE outcome[f][k]
  BY <1>1, <1>2, <1>3 DEF RecipeInv, Recipes!TypeOK, Recipes!OutcomeOK
<1>5. Recipes!MemoryOK' /\ \A w \in Evaluator : memory'[w] = IF w = v THEN m ELSE memory[w]
  BY <1>1, <1>2, Alone
<1>6. Recipes!TypeOK'
  BY <1>1, <1>4, <1>5 DEF RecipeInv, Recipes!TypeOK, Recipes!RecipesOK, Recipes!RecordOK
<1>7. ASSUME NEW w \in Evaluator, w # v PROVE UnderWay(w)'
  <2> SUFFICES ASSUME memory[w] # None, memory[w].step # "create"
               PROVE  /\ record[memory[w].id] # None /\ Len(memory[w].pairs) < Repetitions
                      /\ memory[w].step = "save" =>
                           outcome'[memory[w].id][Len(memory[w].pairs) + 1] \in Recipes!Outcomes
    BY <1>1, <1>5, <1>7 DEF UnderWay
  <2>1. memory[w] \in Recipes!Copy
    BY DEF RecipeInv, Recipes!TypeOK, Recipes!MemoryOK
  <2>2. /\ record[memory[w].id] # None /\ Len(memory[w].pairs) < Repetitions
        /\ memory[w].step = "save" =>
             outcome[memory[w].id][Len(memory[w].pairs) + 1] \in Recipes!Outcomes
    BY DEF RecipeInv, UnderWay
  <2>3. Len(memory[w].pairs) + 1 \in 1..Repetitions /\ memory[w].id \in Evaluation
    BY <2>1, <2>2, PairsAppend DEF Recipes!Copy, Recipes!EvolutionAssumption
  <2> QED BY <1>4, <2>2, <2>3
<1>8. UnderWay(v)'
  BY <1>1, <1>2, <1>3, <1>4, <1>5 DEF UnderWay, i, e
<1>9. ASSUME NEW w \in Evaluator PROVE NewEvaluation(w)'
  BY <1>1, <1>2, <1>5 DEF RecipeInv, NewEvaluation, e
<1>10. Recipes!PairsKept
  BY <1>1, PairsUntouched
<1> QED BY <1>1, <1>6, <1>7, <1>8, <1>9, <1>10, ReceiptsKept, NothingEarned
        DEF RecipeInv

\* The copy is written back over the row it was loaded from, one pair longer.
LEMMA SaveStep ==
  ASSUME Recipes!EvolutionAssumption, RecipeInv, NEW v \in Evaluator, Recipes!Save(v),
         Recipes!Unchanged(v)
  PROVE  RecipeInv' /\ Recipes!PairsKept /\ Recipes!Earned
<1> DEFINE e == memory[v].id
           i == Len(memory[v].pairs) + 1
           s == Append(memory[v].pairs, outcome[e][i])
           m == IF Len(s) < Repetitions THEN [memory[v] EXCEPT !.step = "measure", !.pairs = s]
                ELSE None
           r == [record[e] EXCEPT !.pairs = s]
<1>1. /\ memory[v] \in Recipes!Copy /\ memory[v] # None /\ memory[v].step = "save"
      /\ record' = [record EXCEPT ![e] = r] /\ memory' = [memory EXCEPT ![v] = m]
      /\ record[e].pairs = memory[v].pairs /\ ~record[e].promoted
      /\ UNCHANGED <<active, parent, admitted, promotions, outcome>>
  BY DEF Recipes!Save, Recipes!Unchanged, RecipeInv, Recipes!TypeOK, Recipes!MemoryOK
<1>2. /\ e \in Evaluation /\ record[e] # None /\ Len(memory[v].pairs) < Repetitions
      /\ outcome[e][i] \in Recipes!Outcomes
  BY <1>1 DEF RecipeInv, UnderWay, Recipes!Copy
<1>3. record[e] \in Recipes!Row /\ memory[v].pairs \in Recipes!Pairs
  BY <1>1, <1>2, RowsTyped DEF Recipes!Copy
<1>4. s \in Recipes!Pairs /\ Recipes!IsPrefix(memory[v].pairs, s)
  BY <1>2, <1>3, PairsAppend, AppendPrefix DEF Recipes!EvolutionAssumption
<1> HIDE DEF e, i, s
<1>5. r \in Recipes!Row /\ r.pairs = s /\ r # None
  BY <1>3, <1>4 DEF Recipes!Row, Recipes!EvolutionAssumption
<1>6. /\ m \in Recipes!Copy \cup {None}
      /\ m # None => m.id = e /\ m.step = "measure" /\ m.pairs = s /\ Len(s) < Repetitions
  BY <1>1, <1>4 DEF Recipes!Copy, e
<1> HIDE DEF m, r
<1>7. Recipes!RecordOK' /\ \A f \in Evaluation : record'[f] = IF f = e THEN r ELSE record[f]
  BY <1>1, <1>2, <1>5 DEF RecipeInv, Recipes!TypeOK, Recipes!RecordOK
<1>8. Recipes!MemoryOK' /\ \A w \in Evaluator : memory'[w] = IF w = v THEN m ELSE memory[w]
  BY <1>1, <1>6, Alone
<1>9. Recipes!TypeOK'
  BY <1>1, <1>7, <1>8 DEF RecipeInv, Recipes!TypeOK, Recipes!RecipesOK, Recipes!OutcomeOK
<1>10. \A w \in Evaluator : memory[w] # None => memory[w].id \in Evaluation
  BY DEF RecipeInv, Recipes!TypeOK, Recipes!MemoryOK, Recipes!Copy
<1>11. UnderWay(v)'
  BY <1>2, <1>5, <1>6, <1>7, <1>8 DEF UnderWay
<1>12. ASSUME NEW w \in Evaluator, w # v PROVE UnderWay(w)'
  BY <1>1, <1>5, <1>7, <1>8, <1>10, <1>12 DEF RecipeInv, UnderWay
<1>13. ASSUME NEW w \in Evaluator PROVE NewEvaluation(w)'
  <2>1. CASE w = v
    BY <1>6, <1>8, <2>1 DEF NewEvaluation
  <2>2. CASE w # v
    <3>1. memory'[w] = memory[w]
      BY <1>8, <2>2
    <3> SUFFICES ASSUME memory[w] # None, memory[w].step = "create"
                 PROVE  /\ record'[memory[w].id] = None
                        /\ \A u \in Evaluator : u # w =>
                             memory'[u] = None \/ memory'[u].id # memory[w].id
      BY <3>1 DEF NewEvaluation
    <3>2. /\ record[memory[w].id] = None
          /\ \A u \in Evaluator : u # w => memory[u] = None \/ memory[u].id # memory[w].id
      BY DEF RecipeInv, NewEvaluation
    <3>3. memory[w].id # e
      BY <1>2, <3>2
    <3> QED BY <1>6, <1>7, <1>8, <1>10, <3>2, <3>3
  <2> QED BY <2>1, <2>2
<1>14. Recipes!PairsKept
  BY <1>1, <1>4, <1>5, <1>7, RowsTyped DEF Recipes!PairsKept
<1> QED BY <1>1, <1>9, <1>11, <1>12, <1>13, <1>14, ReceiptsKept, NothingEarned
        DEF RecipeInv

\* A candidate comes into force.
LEMMA PromoteStep ==
  ASSUME Recipes!EvolutionAssumption, RecipeInv, NEW e \in Evaluation, Recipes!Promote(e)
  PROVE  RecipeInv' /\ Recipes!PairsKept /\ Recipes!Earned
<1> DEFINE r == [record[e] EXCEPT !.promoted = TRUE]
<1>1. /\ record[e] # None /\ Recipes!Score(record[e].pairs) = "ADMIT"
      /\ ~record[e].promoted /\ active = record[e].baseline
      /\ active' = record[e].candidate /\ admitted' = admitted \cup {record[e].candidate}
      /\ record' = [record EXCEPT ![e] = r] /\ promotions' = [promotions EXCEPT ![e] = @ + 1]
      /\ UNCHANGED <<parent, outcome, memory>>
  BY DEF Recipes!Promote, Recipes!Current
<1>2. record[e] \in Recipes!Row /\ record[e].pairs \in Recipes!Pairs
  BY <1>1, RowsTyped
<1>3. /\ r \in Recipes!Row /\ r.pairs = record[e].pairs /\ r.promoted /\ r # None
      /\ record[e].candidate \in Recipe
  BY <1>2 DEF Recipes!Row, Recipes!EvolutionAssumption
<1> HIDE DEF r
<1>4. Recipes!RecordOK' /\ \A f \in Evaluation : record'[f] = IF f = e THEN r ELSE record[f]
  <2>1. promotions \in [Evaluation -> Nat] /\ promotions' \in [Evaluation -> Nat]
    BY <1>1 DEF RecipeInv, Recipes!TypeOK, Recipes!RecordOK
  <2> QED BY <1>1, <1>3, <2>1 DEF RecipeInv, Recipes!TypeOK, Recipes!RecordOK
<1>5. Recipes!TypeOK'
  BY <1>1, <1>3, <1>4 DEF RecipeInv, Recipes!TypeOK, Recipes!RecipesOK, Recipes!OutcomeOK,
                          Recipes!MemoryOK
<1>6. \A v \in Evaluator : memory[v] # None => memory[v].id \in Evaluation
  BY DEF RecipeInv, Recipes!TypeOK, Recipes!MemoryOK, Recipes!Copy
<1>7. ASSUME NEW v \in Evaluator PROVE NewEvaluation(v)'
  BY <1>1, <1>4, <1>6 DEF RecipeInv, NewEvaluation
<1>8. ASSUME NEW v \in Evaluator PROVE UnderWay(v)'
  BY <1>1, <1>3, <1>4, <1>6 DEF RecipeInv, UnderWay
<1>9. Recipes!PairsKept
  BY <1>1, <1>3, <1>4, RowsTyped DEF Recipes!PairsKept
<1>10. Len(record[e].pairs) = Repetitions /\
         \A i \in 1..Repetitions : record[e].pairs[i] # "failed"
  BY <1>1, <1>2, AdmitComplete DEF Recipes!EvolutionAssumption
<1>11. /\ promotions \in [Evaluation -> Nat] /\ promotions[e] = 0 /\ promotions'[e] = 1
       /\ \A f \in Evaluation \ {e} : promotions'[f] = promotions[f]
  BY <1>1 DEF RecipeInv, Consumed, Recipes!TypeOK, Recipes!RecordOK
<1>12. ASSUME NEW f \in Evaluation PROVE Consumed(f)'
  BY <1>3, <1>4, <1>11 DEF RecipeInv, Consumed
<1>13. {f \in Evaluation : promotions'[f] # promotions[f]} = {e}
  BY <1>11
<1>14. Recipes!Earned
  BY <1>1, <1>10, <1>11, <1>13 DEF Recipes!Earned
<1> QED BY <1>5, <1>7, <1>8, <1>9, <1>12, <1>14 DEF RecipeInv

\* Every step keeps the invariant and the evidence, and earns what it puts in force.
LEMMA RecipesStep ==
  ASSUME Recipes!EvolutionAssumption, RecipeInv, [Recipes!Next]_Recipes!vars
  PROVE  RecipeInv' /\ Recipes!PairsKept /\ Recipes!Earned
<1>1. CASE UNCHANGED Recipes!vars
  <2>1. UNCHANGED <<active, parent, admitted, record, promotions, outcome, memory>>
    BY <1>1 DEF Recipes!vars
  <2>2. Recipes!TypeOK'
    BY <2>1 DEF RecipeInv, Recipes!TypeOK, Recipes!RecipesOK, Recipes!RecordOK,
                Recipes!OutcomeOK, Recipes!MemoryOK
  <2>3. \A v \in Evaluator : NewEvaluation(v)' /\ UnderWay(v)'
    BY <2>1 DEF RecipeInv, NewEvaluation, UnderWay
  <2> QED BY <2>1, <2>2, <2>3, PairsUntouched, ReceiptsKept, NothingEarned DEF RecipeInv
<1>2. ASSUME NEW v \in Evaluator, NEW o \in Recipes!Outcomes, Recipes!Measure(v, o)
      PROVE  RecipeInv' /\ Recipes!PairsKept /\ Recipes!Earned
  <2>1. CASE active = memory[v].baseline
    BY <1>2, <2>1, MeasureStep
  <2>2. CASE active # memory[v].baseline
    BY <1>2, <2>2, ForgetStep DEF Recipes!Measure
  <2> QED BY <2>1, <2>2
<1>3. ASSUME NEW v \in Evaluator, Recipes!Save(v)
      PROVE  RecipeInv' /\ Recipes!PairsKept /\ Recipes!Earned
  <2>1. CASE Recipes!Unchanged(v)
    BY <1>3, <2>1, SaveStep
  <2>2. CASE ~Recipes!Unchanged(v)
    BY <1>3, <2>2, ForgetStep DEF Recipes!Save
  <2> QED BY <2>1, <2>2
<1>4. ASSUME NEW v \in Evaluator, Recipes!Stop(v)
      PROVE  RecipeInv' /\ Recipes!PairsKept /\ Recipes!Earned
  BY <1>4, ForgetStep DEF Recipes!Stop
<1> QED BY <1>1, <1>2, <1>3, <1>4, RecipeStep, ChooseStep, CreateStep, ResumeStep, PromoteStep
        DEF Recipes!Next

\* Of all evaluators of an evaluation, none loses what another has recorded
\* (evolution.ts, save: "prevents a stale evaluator from overwriting a newer receipt").
THEOREM EvidenceIsKept == Recipes!Spec => []Recipes!TypeOK /\ Recipes!EvidenceKept
<1>1. Recipes!Init => RecipeInv
  BY HostAssumption, InitRecipes
<1>2. RecipeInv /\ [Recipes!Next]_Recipes!vars => RecipeInv' /\ [Recipes!PairsKept]_Recipes!vars
  BY HostAssumption, RecipesStep
<1>3. RecipeInv => Recipes!TypeOK
  BY DEF RecipeInv
<1> QED BY <1>1, <1>2, <1>3, PTL DEF Recipes!Spec, Recipes!EvidenceKept

\* A recipe comes into force only by a complete evaluation that admits it, once, as the
\* successor of the recipe it was measured against (evolution.ts, promote), or because it
\* was in force before (rollback).
THEOREM SuccessionEarned == Recipes!Spec => Recipes!EarnedSuccession
<1>1. Recipes!Init => RecipeInv
  BY HostAssumption, InitRecipes
<1>2. RecipeInv /\ [Recipes!Next]_Recipes!vars => RecipeInv' /\ [Recipes!Earned]_Recipes!vars
  BY HostAssumption, RecipesStep
<1> QED BY <1>1, <1>2, PTL DEF Recipes!Spec, Recipes!EarnedSuccession

-----------------------------------------------------------------------------
(* In the host, whose behaviours are those of one component each.          *)

LEMMA ResearchTurn ==
  ASSUME [Next]_vars
  PROVE  /\ focus' = focus
         /\ focus = "claims" => [Claims!Next]_Claims!vars
         /\ focus = "jobs" => [Jobs!Next]_Jobs!vars
         /\ focus = "recipes" => [Recipes!Next]_Recipes!vars
<1>1. CASE UNCHANGED vars
  BY <1>1 DEF vars, jobVars, claimVars, recipeVars, Claims!vars, Jobs!vars, Jobs!config,
              Recipes!vars
<1>2. CASE Next
  BY <1>2 DEF Next, InJobs, InClaims, InRecipes, InWakeups, InContext, InFleet, InTools,
              Only, Others, jobVars, claimVars, recipeVars, Claims!vars, Jobs!vars,
              Jobs!config, Recipes!vars
<1> QED BY <1>1, <1>2

LEMMA ClaimsWithin == Spec => [](focus = "claims" => ClaimInv)
<1>1. Init => (focus = "claims" => ClaimInv)
  BY InitClaims DEF Init
<1>2. (focus = "claims" => ClaimInv) /\ [Next]_vars => (focus = "claims" => ClaimInv)'
  BY ResearchTurn, ClaimsStep
<1> QED BY <1>1, <1>2, PTL DEF Spec

LEMMA JobsWithin == Spec => [](focus = "jobs" => JobInv)
<1>1. Init => (focus = "jobs" => JobInv)
  BY HostAssumption, InitJobs DEF Init
<1>2. (focus = "jobs" => JobInv) /\ [Next]_vars => (focus = "jobs" => JobInv)'
  BY HostAssumption, ResearchTurn, JobsStep
<1> QED BY <1>1, <1>2, PTL DEF Spec

LEMMA RecipesWithin == Spec => [](focus = "recipes" => RecipeInv)
<1>1. Init => (focus = "recipes" => RecipeInv)
  BY HostAssumption, InitRecipes DEF Init
<1>2. (focus = "recipes" => RecipeInv) /\ [Next]_vars => (focus = "recipes" => RecipeInv)'
  BY HostAssumption, ResearchTurn, RecipesStep
<1> QED BY <1>1, <1>2, PTL DEF Spec

\* No claim comes to rest on itself, whatever is cited by whom (assertNoCycle).
THEOREM NoCircularClaims == Spec => []Acyclic
<1>1. (focus = "claims" => ClaimInv) => Acyclic
  BY DEF ClaimInv, Acyclic
<1> QED BY <1>1, ClaimsWithin, PTL

\* No claim that may be used rests on one that was replaced, retracted or refuted
\* (invalidateDependents).
THEOREM ClaimsAreGrounded == Spec => []Grounded
<1>1. (focus = "claims" => ClaimInv) => Grounded
  BY DEF ClaimInv, Grounded
<1> QED BY <1>1, ClaimsWithin, PTL

\* Jobs hold no more than their slots, and who sleeps for a slot finds none free
\* (jobs.ts, execute and releaseCapacity).
THEOREM CapacityIsShared == Spec => []CapacityShared
<1>1. (focus = "jobs" => JobInv) => CapacityShared
  BY DEF JobInv, CapacityShared
<1> QED BY <1>1, JobsWithin, PTL

\* The receipt of a job is not taken back by a late error, answer or operator (jobs.ts).
THEOREM ReceiptsStand == Spec => ReceiptFinal
<1>1. (focus = "jobs" => JobInv) /\ [Next]_vars => [focus = "jobs" => Jobs!ReceiptKept]_vars
  BY HostAssumption, ResearchTurn, JobsStep
<1> QED BY <1>1, JobsWithin, PTL DEF Spec, ReceiptFinal

\* What is put in force has earned it against what it succeeds (evolution.ts, promote).
THEOREM RecipesEarnTheirPlace == Spec => EarnedSuccession
<1>1. (focus = "recipes" => RecipeInv) /\ [Next]_vars => [focus = "recipes" => Recipes!Earned]_vars
  BY HostAssumption, ResearchTurn, RecipesStep
<1> QED BY <1>1, RecipesWithin, PTL DEF Spec, EarnedSuccession
=============================================================================
