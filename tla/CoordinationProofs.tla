-------------------------- MODULE CoordinationProofs --------------------------
(***************************************************************************)
(* No commit escapes a coordinator that sleeps, and context is given to    *)
(* every task and shared by priority: for any stores, processes and tasks. *)
(***************************************************************************)
EXTENDS HostServices, SumTheorems, SequenceTheorems

-----------------------------------------------------------------------------
(* Wakeups.                                                                *)

Busy == {"claim", "renew", "renew and start", "start", "wait"}

\* A coordinator keeps the thread of its process from the observation to the wait.
ThreadHeld == \A c \in Conn : pc[c] \in Busy => thread[ProcOf[c]] = c

\* data_version only grows, from what a coordinator has observed.
NotAhead == \A c \in Conn : observed[c].dataVersion <= Wakeups!DataVersion(c)

\* The last look for work missed nothing, unless data_version tells of it.
Informed(c) == seen[c] = commits \/ observed[c].dataVersion # Wakeups!DataVersion(c)

\* What holds of a coordinator on the way to sleep, and asleep.
OnTheWay(c) ==
  /\ pc[c] \in {"renew", "renew and start", "start", "asleep"} => Informed(c)
  /\ pc[c] = "start" => observed[c].revision = revision[ProcOf[c]]
  /\ pc[c] = "wait" =>
       \/ attempts[c] = Parallelism
       \/ observed[c].revision # revision[ProcOf[c]]
       \/ Informed(c)

WakeupInv == Wakeups!TypeOK /\ ThreadHeld /\ NotAhead /\ \A c \in Conn : OnTheWay(c)

Places == {"loop", "claim", "renew", "renew and start", "start", "wait", "asleep", "full"}

\* The initial states are consistent.
LEMMA InitWakeups == ASSUME Wakeups!WakeupAssumption PROVE Wakeups!Init => WakeupInv
<1> SUFFICES ASSUME Wakeups!Init PROVE WakeupInv
  OBVIOUS
<1>1. Wakeups!TypeOK
  BY DEF Wakeups!WakeupAssumption, Wakeups!Init, Wakeups!TypeOK, Wakeups!CountersOK,
         Wakeups!LoopsOK, Wakeups!MemoryOK
<1>2. \A c \in Conn : Wakeups!DataVersion(c) = 0 /\ observed[c].dataVersion = 0
  BY DEF Wakeups!Init, Wakeups!DataVersion
<1>3. ThreadHeld
  BY DEF Wakeups!Init, ThreadHeld, Busy
<1>4. NotAhead
  BY <1>2 DEF NotAhead
<1> QED BY <1>1, <1>3, <1>4 DEF Wakeups!Init, WakeupInv, OnTheWay

\* A commit of one connection is a change of data_version to every other one.
LEMMA CommitCounted ==
  ASSUME Wakeups!WakeupAssumption, Wakeups!TypeOK, NEW c \in Conn, NEW place,
         Wakeups!Commit(c, place), NEW d \in Conn
  PROVE  /\ Wakeups!DataVersion(d) \in Nat /\ revision[ProcOf[d]] \in Nat
         /\ Wakeups!DataVersion(d)' =
              IF d = c THEN Wakeups!DataVersion(d) ELSE Wakeups!DataVersion(d) + 1
         /\ revision'[ProcOf[d]] = IF ProcOf[d] = ProcOf[c] THEN revision[ProcOf[d]] + 1
                                   ELSE revision[ProcOf[d]]
         /\ pc'[d] = IF d = c THEN place
                     ELSE IF ProcOf[d] = ProcOf[c] /\ pc[d] = "asleep" THEN "loop" ELSE pc[d]
<1>1. /\ commits \in Nat /\ own[c] \in Nat /\ own[d] \in Nat /\ own[d] <= commits
      /\ commits' = commits + 1
      /\ own'[d] = IF d = c THEN own[d] + 1 ELSE own[d]
  BY DEF Wakeups!TypeOK, Wakeups!CountersOK, Wakeups!Commit
<1>2. Wakeups!DataVersion(d) \in Nat /\
        Wakeups!DataVersion(d)' =
          IF d = c THEN Wakeups!DataVersion(d) ELSE Wakeups!DataVersion(d) + 1
  BY <1>1 DEF Wakeups!DataVersion
<1>3. /\ ProcOf[d] \in Proc /\ ProcOf[c] \in Proc
      /\ revision \in [Proc -> Nat] /\ revision' = [revision EXCEPT ![ProcOf[c]] = @ + 1]
  BY DEF Wakeups!WakeupAssumption, Wakeups!TypeOK, Wakeups!CountersOK, Wakeups!Commit
<1>4. pc'[d] = IF d = c THEN place
               ELSE IF ProcOf[d] = ProcOf[c] /\ pc[d] = "asleep" THEN "loop" ELSE pc[d]
  BY DEF Wakeups!Commit, Wakeups!Awakened
<1> QED BY <1>2, <1>3, <1>4

\* The types, one coordinator at a time.
LEMMA Typed ==
  ASSUME Wakeups!WakeupAssumption, Wakeups!TypeOK, NEW c \in Conn
  PROVE  /\ ProcOf[c] \in Proc /\ revision[ProcOf[c]] \in Nat
         /\ Wakeups!DataVersion(c) \in Nat
         /\ observed[c].revision \in Nat /\ observed[c].dataVersion \in Nat
         /\ pc[c] \in Places /\ attempts[c] \in 0..Parallelism
<1>1. ProcOf[c] \in Proc /\ revision[ProcOf[c]] \in Nat
  BY DEF Wakeups!WakeupAssumption, Wakeups!TypeOK, Wakeups!CountersOK
<1>2. commits \in Nat /\ own[c] \in Nat /\ own[c] <= commits
  BY DEF Wakeups!TypeOK, Wakeups!CountersOK
<1>3. Wakeups!DataVersion(c) \in Nat
  BY <1>2 DEF Wakeups!DataVersion
<1>4. observed[c].revision \in Nat /\ observed[c].dataVersion \in Nat
  BY DEF Wakeups!TypeOK, Wakeups!MemoryOK
<1>5. pc[c] \in Places /\ attempts[c] \in 0..Parallelism
  BY DEF Wakeups!TypeOK, Wakeups!LoopsOK, Places
<1> QED BY <1>1, <1>3, <1>4, <1>5

\* A commit keeps the types.
LEMMA CommitTyped ==
  ASSUME Wakeups!WakeupAssumption, Wakeups!TypeOK, NEW c \in Conn, NEW place \in Places,
         Wakeups!Commit(c, place)
  PROVE  Wakeups!CountersOK' /\ pc' \in [Conn -> Places]
<1>1. /\ commits \in Nat /\ commits' = commits + 1
      /\ own \in [Conn -> Nat] /\ own' = [own EXCEPT ![c] = @ + 1]
      /\ \A d \in Conn : own[d] <= commits
      /\ revision \in [Proc -> Nat] /\ revision' = [revision EXCEPT ![ProcOf[c]] = @ + 1]
      /\ ProcOf[c] \in Proc
  BY DEF Wakeups!WakeupAssumption, Wakeups!TypeOK, Wakeups!CountersOK, Wakeups!Commit
<1>2. /\ own' \in [Conn -> Nat] /\ revision' \in [Proc -> Nat] /\ commits' \in Nat
  BY <1>1
<1>3. ASSUME NEW d \in Conn PROVE own'[d] <= commits'
  BY <1>1
<1>4. pc' \in [Conn -> Places]
  <2>1. \A d \in Conn : pc[d] \in Places /\ "loop" \in Places
    BY DEF Wakeups!TypeOK, Wakeups!LoopsOK, Places
  <2> QED BY <2>1 DEF Wakeups!Commit
<1> QED BY <1>2, <1>3, <1>4 DEF Wakeups!CountersOK

\* Nobody goes on when a coordinator keeps the thread of the process.
LEMMA OneAtATime ==
  ASSUME Wakeups!WakeupAssumption, WakeupInv, NEW c \in Conn, NEW d \in Conn, d # c,
         pc[d] \in Busy,
         pc[c] \in Busy \/ thread[ProcOf[c]] = Nobody
  PROVE  ProcOf[d] # ProcOf[c]
BY DEF Wakeups!WakeupAssumption, WakeupInv, ThreadHeld

\* What a commit does to the coordinators of the other connections.
LEMMA Bystander ==
  ASSUME Wakeups!WakeupAssumption, WakeupInv, NEW c \in Conn, NEW place, Wakeups!Commit(c, place),
         UNCHANGED observed, pc[c] \in Busy \/ thread[ProcOf[c]] = Nobody,
         NEW d \in Conn, d # c
  PROVE  OnTheWay(d)'
<1>1. Wakeups!DataVersion(d)' = Wakeups!DataVersion(d) + 1 /\ Wakeups!DataVersion(d) \in Nat
  BY CommitCounted DEF WakeupInv
<1>2. observed[d].dataVersion \in Nat /\ observed[d].dataVersion <= Wakeups!DataVersion(d)
  BY Typed DEF WakeupInv, NotAhead
<1>3. observed'[d].dataVersion # Wakeups!DataVersion(d)'
  BY <1>1, <1>2
<1>4. ASSUME pc'[d] = "start" PROVE observed'[d].revision = revision'[ProcOf[d]]
  <2>1. pc[d] = "start" /\ pc[d] \in Busy
    BY <1>4, CommitCounted DEF WakeupInv, Busy
  <2>2. ProcOf[d] # ProcOf[c]
    BY <2>1, OneAtATime
  <2>3. revision'[ProcOf[d]] = revision[ProcOf[d]]
    BY <2>2, CommitCounted DEF WakeupInv
  <2> QED BY <2>1, <2>3 DEF WakeupInv, OnTheWay
<1> QED BY <1>3, <1>4 DEF OnTheWay, Informed

\* A commit breaks nothing of the others, and nothing of its own coordinator that the
\* step does not.
LEMMA Committed ==
  ASSUME Wakeups!WakeupAssumption, WakeupInv, NEW c \in Conn, NEW place \in Places,
         Wakeups!Commit(c, place),
         UNCHANGED <<thread, observed>>, Wakeups!LoopsOK', OnTheWay(c)',
         pc[c] \in Busy \/ thread[ProcOf[c]] = Nobody,
         place \in Busy => thread[ProcOf[c]] = c
  PROVE  WakeupInv'
<1>1. Wakeups!TypeOK'
  BY CommitTyped DEF WakeupInv, Wakeups!TypeOK, Wakeups!MemoryOK
<1>2. ThreadHeld'
  <2> SUFFICES ASSUME NEW d \in Conn, pc'[d] \in Busy PROVE thread[ProcOf[d]] = d
    BY DEF ThreadHeld
  <2>1. d # c => pc[d] \in Busy
    BY CommitCounted DEF WakeupInv, Busy
  <2>2. pc'[c] = place
    BY CommitCounted DEF WakeupInv
  <2> QED BY <2>1, <2>2 DEF WakeupInv, ThreadHeld
<1>3. ASSUME NEW d \in Conn PROVE observed'[d].dataVersion <= Wakeups!DataVersion(d)'
  <2>1. Wakeups!DataVersion(d) \in Nat /\
    Wakeups!DataVersion(d)' \in {Wakeups!DataVersion(d), Wakeups!DataVersion(d) + 1}
    BY CommitCounted DEF WakeupInv
  <2>2. observed[d].dataVersion \in Nat /\ observed[d].dataVersion <= Wakeups!DataVersion(d)
    BY Typed DEF WakeupInv, NotAhead
  <2> QED BY <2>1, <2>2
<1>4. ASSUME NEW d \in Conn PROVE OnTheWay(d)'
  BY Bystander
<1> QED BY <1>1, <1>2, <1>3, <1>4 DEF WakeupInv, NotAhead

\* A step without a commit breaks nothing of the others either.
LEMMA Unnoticed ==
  ASSUME Wakeups!WakeupAssumption, WakeupInv, NEW c \in Conn, NEW place \in Places,
         UNCHANGED <<commits, own, revision>>, pc' = [pc EXCEPT ![c] = place],
         Wakeups!LoopsOK', Wakeups!MemoryOK', OnTheWay(c)',
           observed'[c].dataVersion <= Wakeups!DataVersion(c),
         \A d \in Conn : d # c =>
           observed'[d] = observed[d] /\ seen'[d] = seen[d] /\ attempts'[d] = attempts[d],
         UNCHANGED thread
           \/ /\ pc[c] \in Busy \/ thread[ProcOf[c]] = Nobody
              /\ \E u : thread' = [thread EXCEPT ![ProcOf[c]] = u],
         place \in Busy => thread'[ProcOf[c]] = c
  PROVE  WakeupInv'
<1>1. \A d \in Conn : pc'[d] = IF d = c THEN place ELSE pc[d]
  BY DEF WakeupInv, Wakeups!TypeOK, Wakeups!LoopsOK
<1>2. \A d \in Conn : Wakeups!DataVersion(d)' = Wakeups!DataVersion(d)
  BY DEF Wakeups!DataVersion
<1>3. Wakeups!TypeOK'
  BY DEF WakeupInv, Wakeups!TypeOK, Wakeups!CountersOK
<1>4. ThreadHeld'
  <2> SUFFICES ASSUME NEW d \in Conn, d # c, pc[d] \in Busy PROVE thread'[ProcOf[d]] = d
    BY <1>1 DEF ThreadHeld
  <2>1. CASE UNCHANGED thread
    BY <2>1 DEF WakeupInv, ThreadHeld
  <2>2. CASE pc[c] \in Busy \/ thread[ProcOf[c]] = Nobody
    <3>1. ProcOf[d] # ProcOf[c]
      BY <2>2, OneAtATime
    <3>2. thread[ProcOf[d]] = d
      BY DEF WakeupInv, ThreadHeld
    <3>3. ProcOf[d] \in Proc /\ thread \in [Proc -> Conn \cup {Nobody}]
      BY Typed DEF WakeupInv, Wakeups!TypeOK, Wakeups!LoopsOK
    <3> QED BY <3>1, <3>2, <3>3
  <2> QED BY <2>1, <2>2
<1>5. NotAhead'
  BY <1>2 DEF WakeupInv, NotAhead
<1>6. ASSUME NEW d \in Conn, d # c PROVE OnTheWay(d)'
  <2>1. /\ pc'[d] = pc[d] /\ observed'[d] = observed[d] /\ seen'[d] = seen[d]
        /\ attempts'[d] = attempts[d]
    BY <1>1, <1>6
  <2>2. Informed(d) <=> Informed(d)'
    BY <1>2, <2>1 DEF Informed
  <2>3. OnTheWay(d)
    BY DEF WakeupInv
  <2> QED BY <2>1, <2>2, <2>3 DEF OnTheWay
<1> QED BY <1>3, <1>4, <1>5, <1>6 DEF WakeupInv

\* A coordinator looks for work and claims some.
LEMMA ClaimTasksStep ==
  ASSUME Wakeups!WakeupAssumption, WakeupInv, NEW c \in Conn, NEW n \in 0..Parallelism,
         Wakeups!Claim(c, n)
  PROVE  WakeupInv'
<1>1. /\ pc[c] = "claim" /\ pc[c] \in Busy /\ thread[ProcOf[c]] = c
      /\ "renew" \in Places /\ "renew and start" \in Places
      /\ UNCHANGED <<thread, observed>>
  BY DEF Wakeups!Claim, Busy, Places, WakeupInv, ThreadHeld
<1>2. /\ pc \in [Conn -> Places] /\ seen \in [Conn -> Nat] /\
           attempts \in [Conn -> 0..Parallelism]
      /\ thread \in [Proc -> Conn \cup {Nobody}] /\ commits \in Nat /\ Wakeups!MemoryOK
  BY DEF WakeupInv, Wakeups!TypeOK, Wakeups!LoopsOK, Wakeups!CountersOK, Places
<1>3. /\ seen' = [seen EXCEPT ![c] = commits']
      /\ attempts' = [attempts EXCEPT ![c] = @ + n] /\ attempts[c] + n <= Parallelism
  BY DEF Wakeups!Claim
<1>4. commits' \in Nat /\ pc' \in [Conn -> Places]
  <2>1. CASE n = 0
    BY <1>1, <1>2, <2>1 DEF Wakeups!Claim, Wakeups!Goto, Wakeups!Quiet
  <2>2. CASE n # 0
    <3>1. Wakeups!Commit(c, "renew and start")
      BY <2>2 DEF Wakeups!Claim
    <3> QED BY <1>1, <3>1, CommitTyped DEF WakeupInv, Wakeups!CountersOK
  <2> QED BY <2>1, <2>2
<1>5. attempts' \in [Conn -> 0..Parallelism]
  BY <1>2, <1>3 DEF Wakeups!WakeupAssumption
<1>6. Wakeups!LoopsOK'
  BY <1>1, <1>2, <1>3, <1>4, <1>5 DEF Wakeups!LoopsOK, Places
<1>7. seen'[c] = commits'
  BY <1>2, <1>3
<1>8. CASE n = 0
  <2>1. UNCHANGED <<commits, own, revision>> /\ pc' = [pc EXCEPT ![c] = "renew"]
    BY <1>8 DEF Wakeups!Claim, Wakeups!Quiet, Wakeups!Goto
  <2>2. OnTheWay(c)'
    BY <1>2, <1>7, <2>1 DEF OnTheWay, Informed
  <2>3. \A d \in Conn : d # c => seen'[d] = seen[d] /\ attempts'[d] = attempts[d]
    BY <1>2, <1>3
  <2>4. observed[c].dataVersion <= Wakeups!DataVersion(c)
    BY DEF WakeupInv, NotAhead
  <2>5. Wakeups!MemoryOK'
    BY <1>1, <1>2 DEF Wakeups!MemoryOK
  <2> QED BY <1>1, <1>6, <2>1, <2>2, <2>3, <2>4, <2>5, Unnoticed
<1>9. CASE n # 0
  <2>1. Wakeups!Commit(c, "renew and start")
    BY <1>9 DEF Wakeups!Claim
  <2>2. pc'[c] = "renew and start"
    BY <2>1, CommitCounted DEF WakeupInv
  <2>3. OnTheWay(c)'
    BY <1>7, <2>2 DEF OnTheWay, Informed
  <2> QED BY <1>1, <1>6, <2>1, <2>3, Committed
<1> QED BY <1>8, <1>9

\* A new attempt commits its stage.
LEMMA StartTasksStep ==
  ASSUME Wakeups!WakeupAssumption, WakeupInv, NEW c \in Conn, Wakeups!Start(c)
  PROVE  WakeupInv'
<1>1. /\ pc[c] = "start" /\ pc[c] \in Busy /\ thread[ProcOf[c]] = c /\ "wait" \in Places
      /\ Wakeups!Commit(c, "wait") /\ UNCHANGED <<thread, observed, seen, attempts>>
  BY DEF Wakeups!Start, Busy, Places, WakeupInv, ThreadHeld
<1>2. Wakeups!LoopsOK'
  BY <1>1, CommitTyped DEF WakeupInv, Wakeups!TypeOK, Wakeups!LoopsOK, Places
<1>3. pc'[c] = "wait" /\ revision[ProcOf[c]] \in Nat /\
        revision'[ProcOf[c]] = revision[ProcOf[c]] + 1
  BY <1>1, CommitCounted DEF WakeupInv
<1>4. observed'[c].revision = revision[ProcOf[c]]
  BY <1>1 DEF WakeupInv, OnTheWay
<1>5. OnTheWay(c)'
  BY <1>3, <1>4 DEF OnTheWay
<1> QED BY <1>1, <1>2, <1>5, Committed

\* An attempt under way, or another user of the connection, commits.
LEMMA WriteStoreStep ==
  ASSUME Wakeups!WakeupAssumption, WakeupInv, NEW c \in Conn, Wakeups!Write(c)
  PROVE  WakeupInv'
<1> DEFINE place == IF pc[c] = "asleep" THEN "loop" ELSE pc[c]
<1>1. /\ thread[ProcOf[c]] = Nobody /\ Wakeups!Commit(c, place)
      /\ UNCHANGED <<thread, observed, seen, attempts>>
  BY DEF Wakeups!Write
<1>2. place \in Places
  BY Typed DEF WakeupInv, Places
<1>3. pc[c] \notin Busy /\ place \notin Busy /\ place # "asleep"
  BY <1>1 DEF WakeupInv, ThreadHeld, Wakeups!WakeupAssumption, Busy
<1> HIDE DEF place
<1>4. Wakeups!LoopsOK'
  BY <1>1, <1>2, CommitTyped DEF WakeupInv, Wakeups!TypeOK, Wakeups!LoopsOK, Places
<1>5. pc'[c] = place
  BY <1>1, CommitCounted DEF WakeupInv
<1>6. OnTheWay(c)'
  BY <1>3, <1>5 DEF OnTheWay, Busy
<1> QED BY <1>1, <1>2, <1>3, <1>4, <1>6, Committed

\* A coordinator observes the changes and takes the thread.
LEMMA ObserveStep ==
  ASSUME Wakeups!WakeupAssumption, WakeupInv, NEW c \in Conn, Wakeups!Observe(c)
  PROVE  WakeupInv'
<1> DEFINE place == IF attempts[c] < Parallelism THEN "claim" ELSE "wait"
           now == [revision |-> revision[ProcOf[c]], dataVersion |-> Wakeups!DataVersion(c)]
<1>1. /\ thread[ProcOf[c]] = Nobody /\ thread' = [thread EXCEPT ![ProcOf[c]] = c]
      /\ observed' = [observed EXCEPT ![c] = now] /\ pc' = [pc EXCEPT ![c] = place]
      /\ UNCHANGED <<commits, own, revision, seen, attempts>>
  BY DEF Wakeups!Observe, Wakeups!Goto, Wakeups!Quiet
<1>2. /\ pc \in [Conn -> Places] /\ thread \in [Proc -> Conn \cup {Nobody}]
      /\ observed \in [Conn -> [revision : Nat, dataVersion : Nat]]
  BY DEF WakeupInv, Wakeups!TypeOK, Wakeups!LoopsOK, Wakeups!MemoryOK, Places
<1>3. /\ ProcOf[c] \in Proc /\ revision[ProcOf[c]] \in Nat /\ Wakeups!DataVersion(c) \in Nat
      /\ attempts[c] \in 0..Parallelism /\ Parallelism \in Nat
  BY Typed DEF WakeupInv, Wakeups!WakeupAssumption
<1>4. now \in [revision : Nat, dataVersion : Nat] /\ now.dataVersion = Wakeups!DataVersion(c)
  BY <1>3
<1>5. place \in Places /\ (place = "wait" =>
        attempts[c] = Parallelism) /\ place \in {"claim", "wait"}
  BY <1>3 DEF Places
<1> HIDE DEF place, now
<1>6. Wakeups!LoopsOK'
  <2>1. thread' \in [Proc -> Conn \cup {Nobody}] /\ pc' \in [Conn -> Places]
    BY <1>1, <1>2, <1>5
  <2> QED BY <1>1, <2>1 DEF WakeupInv, Wakeups!TypeOK, Wakeups!LoopsOK, Places
<1>7. Wakeups!MemoryOK' /\ observed'[c].dataVersion <= Wakeups!DataVersion(c)
  BY <1>1, <1>2, <1>3, <1>4 DEF Wakeups!MemoryOK
<1>8. pc'[c] = place /\ thread'[ProcOf[c]] = c
  BY <1>1, <1>2, <1>3
<1>9. OnTheWay(c)'
  BY <1>1, <1>5, <1>8 DEF OnTheWay
<1>10. \A d \in Conn : d # c => observed'[d] = observed[d]
  BY <1>1, <1>2
<1> QED BY <1>1, <1>5, <1>6, <1>7, <1>8, <1>9, <1>10, Unnoticed

\* After the claim it takes its own commit as known.
LEMMA RenewStep ==
  ASSUME Wakeups!WakeupAssumption, WakeupInv, NEW c \in Conn, Wakeups!Renew(c)
  PROVE  WakeupInv'
<1> DEFINE place == IF pc[c] = "renew" THEN "wait" ELSE "start"
<1>1. /\ pc[c] \in {"renew", "renew and start"} /\ pc[c] \in Busy /\ place \in Places
      /\ place \in {"wait", "start"}
      /\ observed' = [observed EXCEPT ![c] = [observed[c] EXCEPT !.revision = revision[ProcOf[c]]]]
      /\ pc' = [pc EXCEPT ![c] = place]
      /\ UNCHANGED <<commits, own, revision, thread, seen, attempts>>
  BY DEF Wakeups!Renew, Wakeups!Renewed, Wakeups!Goto, Wakeups!Quiet, Busy, Places
<1>2. /\ pc \in [Conn -> Places]
      /\ observed \in [Conn -> [revision : Nat, dataVersion : Nat]]
      /\ revision[ProcOf[c]] \in Nat
  BY Typed DEF WakeupInv, Wakeups!TypeOK, Wakeups!LoopsOK, Wakeups!MemoryOK, Places
<1>3. Informed(c) /\ thread[ProcOf[c]] = c /\ observed[c].dataVersion <= Wakeups!DataVersion(c)
  BY <1>1 DEF WakeupInv, OnTheWay, ThreadHeld, NotAhead
<1> HIDE DEF place
<1>4. Wakeups!LoopsOK'
  <2>1. pc' \in [Conn -> Places]
    BY <1>1, <1>2
  <2> QED BY <1>1, <2>1 DEF WakeupInv, Wakeups!TypeOK, Wakeups!LoopsOK, Places
<1>5. /\ Wakeups!MemoryOK' /\ observed'[c].dataVersion = observed[c].dataVersion
      /\ observed'[c].revision = revision[ProcOf[c]]
  BY <1>1, <1>2 DEF Wakeups!MemoryOK
<1>6. Informed(c)'
  BY <1>1, <1>3, <1>5 DEF Informed, Wakeups!DataVersion
<1>7. pc'[c] = place
  BY <1>1, <1>2
<1>8. OnTheWay(c)'
  BY <1>1, <1>5, <1>6, <1>7 DEF OnTheWay
<1>9. \A d \in Conn : d # c => observed'[d] = observed[d]
  BY <1>1, <1>2
<1> QED BY <1>1, <1>3, <1>4, <1>5, <1>8, <1>9, Unnoticed

\* It gives the thread away, and sleeps when nothing has changed.
LEMMA WaitStep ==
  ASSUME Wakeups!WakeupAssumption, WakeupInv, NEW c \in Conn, Wakeups!Wait(c)
  PROVE  WakeupInv'
<1> DEFINE place == IF attempts[c] = Parallelism THEN "full"
                    ELSE IF \/ observed[c].revision # revision[ProcOf[c]]
                            \/ observed[c].dataVersion # Wakeups!DataVersion(c)
                    THEN "loop" ELSE "asleep"
<1>1. /\ pc[c] = "wait" /\ pc[c] \in Busy /\ place \in {"full", "loop", "asleep"}
      /\ place \in Places /\ place \notin Busy
      /\ thread' = [thread EXCEPT ![ProcOf[c]] = Nobody] /\ pc' = [pc EXCEPT ![c] = place]
      /\ UNCHANGED <<commits, own, revision, observed, seen, attempts>>
  BY DEF Wakeups!Wait, Wakeups!Goto, Wakeups!Quiet, Busy, Places
<1>2. /\ pc \in [Conn -> Places] /\ thread \in [Proc -> Conn \cup {Nobody}] /\ Wakeups!MemoryOK
  BY DEF WakeupInv, Wakeups!TypeOK, Wakeups!LoopsOK, Places
<1>3. place = "asleep" => Informed(c)
  BY <1>1 DEF WakeupInv, OnTheWay
<1> HIDE DEF place
<1>4. Wakeups!LoopsOK'
  <2>1. thread' \in [Proc -> Conn \cup {Nobody}] /\ pc' \in [Conn -> Places]
    BY <1>1, <1>2
  <2> QED BY <1>1, <2>1 DEF WakeupInv, Wakeups!TypeOK, Wakeups!LoopsOK, Places
<1>5. Wakeups!MemoryOK' /\ observed'[c].dataVersion <= Wakeups!DataVersion(c)
  BY <1>1, <1>2 DEF Wakeups!MemoryOK, WakeupInv, NotAhead
<1>6. pc'[c] = place /\ (Informed(c) => Informed(c)')
  BY <1>1, <1>2 DEF Informed, Wakeups!DataVersion
<1>7. OnTheWay(c)'
  BY <1>1, <1>3, <1>6 DEF OnTheWay
<1> QED BY <1>1, <1>4, <1>5, <1>7, Unnoticed

\* The coordinator goes on, for an attempt that is over, the poll or the timeout.
LEMMA ResumeStep ==
  ASSUME Wakeups!WakeupAssumption, WakeupInv, NEW c \in Conn,
         Wakeups!Finish(c) \/ Wakeups!Poll(c) \/ Wakeups!Timeout(c)
  PROVE  WakeupInv'
<1>1. PICK place \in Places \ (Busy \cup {"asleep"}) : pc' = [pc EXCEPT ![c] = place]
  <2>1. CASE Wakeups!Finish(c)
    <3>1. pc[c] \notin Busy
      BY <2>1 DEF Wakeups!Finish, WakeupInv, ThreadHeld, Wakeups!WakeupAssumption
    <3> DEFINE place == IF pc[c] \in {"asleep", "full"} THEN "loop" ELSE pc[c]
    <3>2. pc' = [pc EXCEPT ![c] = place]
      BY <2>1 DEF Wakeups!Finish, Wakeups!Goto
    <3>3. place \in Places \ (Busy \cup {"asleep"})
      BY <3>1, Typed DEF WakeupInv, Busy, Places
    <3> QED BY <3>2, <3>3
  <2>2. CASE Wakeups!Poll(c) \/ Wakeups!Timeout(c)
    BY <2>2 DEF Wakeups!Poll, Wakeups!Timeout, Wakeups!Goto, Busy, Places
  <2> QED BY <2>1, <2>2
<1>2. UNCHANGED <<commits, own, revision, thread, observed, seen>>
  BY DEF Wakeups!Finish, Wakeups!Poll, Wakeups!Timeout, Wakeups!Quiet
<1>3. /\ pc \in [Conn -> Places] /\ attempts \in [Conn -> 0..Parallelism] /\ Wakeups!MemoryOK
  BY DEF WakeupInv, Wakeups!TypeOK, Wakeups!LoopsOK, Places
<1>4. attempts' \in [Conn -> 0..Parallelism] /\ \A d \in Conn : d # c =>
        attempts'[d] = attempts[d]
  <2>1. CASE Wakeups!Finish(c)
    <3>1. attempts' = [attempts EXCEPT ![c] = @ - 1] /\ attempts[c] > 0 /\ Parallelism \in Nat
      BY <2>1 DEF Wakeups!Finish, Wakeups!WakeupAssumption
    <3> QED BY <1>3, <3>1
  <2>2. CASE Wakeups!Poll(c) \/ Wakeups!Timeout(c)
    BY <1>3, <2>2 DEF Wakeups!Poll, Wakeups!Timeout
  <2> QED BY <2>1, <2>2
<1>5. Wakeups!LoopsOK'
  <2>1. pc' \in [Conn -> Places]
    BY <1>1, <1>3
  <2> QED BY <1>2, <1>4, <2>1 DEF WakeupInv, Wakeups!TypeOK, Wakeups!LoopsOK, Places
<1>6. Wakeups!MemoryOK' /\ observed'[c].dataVersion <= Wakeups!DataVersion(c)
  BY <1>2, <1>3 DEF Wakeups!MemoryOK, WakeupInv, NotAhead
<1>7. pc'[c] = place
  BY <1>1, <1>3
<1>8. OnTheWay(c)'
  BY <1>1, <1>7 DEF OnTheWay, Busy
<1> QED BY <1>1, <1>2, <1>4, <1>5, <1>6, <1>8, Unnoticed

\* Every step keeps the invariant.
LEMMA WakeupsStep ==
  ASSUME Wakeups!WakeupAssumption
  PROVE  WakeupInv /\ [Wakeups!Next]_Wakeups!vars => WakeupInv'
<1> SUFFICES ASSUME WakeupInv, [Wakeups!Next]_Wakeups!vars PROVE WakeupInv'
  OBVIOUS
<1> USE Wakeups!WakeupAssumption
<1>1. CASE UNCHANGED Wakeups!vars
  <2>1. Wakeups!TypeOK'
    BY <1>1 DEF Wakeups!vars, WakeupInv, Wakeups!TypeOK, Wakeups!CountersOK, Wakeups!LoopsOK,
                Wakeups!MemoryOK
  <2>2. ThreadHeld'
    BY <1>1 DEF Wakeups!vars, WakeupInv, ThreadHeld
  <2>3. NotAhead'
    BY <1>1 DEF Wakeups!vars, WakeupInv, NotAhead, Wakeups!DataVersion
  <2>4. ASSUME NEW d \in Conn PROVE OnTheWay(d)'
    BY <1>1 DEF Wakeups!vars, WakeupInv, OnTheWay, Informed, Wakeups!DataVersion
  <2> QED BY <2>1, <2>2, <2>3, <2>4 DEF WakeupInv
<1>2. ASSUME NEW c \in Conn, Wakeups!Loop(c) PROVE WakeupInv'
  BY <1>2, ObserveStep, ClaimTasksStep, RenewStep, StartTasksStep, WaitStep DEF Wakeups!Loop
<1>3. ASSUME NEW c \in Conn,
             Wakeups!Write(c) \/ Wakeups!Finish(c) \/ Wakeups!Poll(c) \/ Wakeups!Timeout(c)
      PROVE  WakeupInv'
  BY <1>3, WriteStoreStep, ResumeStep
<1> QED BY <1>1, <1>2, <1>3 DEF Wakeups!Next

\* The coordinators' memory and the counters keep their types, and a sleeping
\* coordinator has seen every commit or its poll is about to find one: "a commit
\* between inspection and registration cannot be lost" (runtime.ts:159).
THEOREM NoWakeupLost == Wakeups!Spec => [](Wakeups!TypeOK /\ Wakeups!NoLostHint)
<1>1. Wakeups!Init => WakeupInv
  BY HostAssumption, InitWakeups
<1>2. WakeupInv /\ [Wakeups!Next]_Wakeups!vars => WakeupInv'
  BY HostAssumption, WakeupsStep
<1>3. WakeupInv => Wakeups!TypeOK /\ Wakeups!NoLostHint
  BY DEF WakeupInv, Wakeups!NoLostHint, OnTheWay, Informed
<1> QED BY <1>1, <1>2, <1>3, PTL DEF Wakeups!Spec

\* In the host, a behaviour is one of one component.
LEMMA CoordinationTurn ==
  ASSUME [Next]_vars
  PROVE  /\ focus' = focus
         /\ focus = "wakeups" => [Wakeups!Next]_Wakeups!vars
         /\ focus = "context" => [Context!Next]_Context!vars
<1>1. CASE UNCHANGED vars
  BY <1>1 DEF vars, wakeupVars, contextVars, Wakeups!vars, Context!vars
<1>2. CASE Next
  BY <1>2 DEF Next, InJobs, InClaims, InRecipes, InWakeups, InContext, InFleet, InTools,
              Only, Others, wakeupVars, contextVars, Wakeups!vars, Context!vars
<1> QED BY <1>1, <1>2

\* No coordinator of the host sleeps on a commit it has not seen.
THEOREM HintsAreKept == Spec => []NoLostHint
<1>1. Init => (focus = "wakeups" => WakeupInv)
  BY HostAssumption, InitWakeups DEF Init
<1>2. (focus = "wakeups" => WakeupInv) /\ [Next]_vars => (focus = "wakeups" => WakeupInv)'
  BY HostAssumption, CoordinationTurn, WakeupsStep
<1>3. (focus = "wakeups" => WakeupInv) => NoLostHint
  BY DEF WakeupInv, NoLostHint, Wakeups!NoLostHint, OnTheWay, Informed
<1> QED BY <1>1, <1>2, <1>3, PTL DEF Spec

-----------------------------------------------------------------------------
(* Allocation of context.                                                  *)

\* The budgets are those of the whole graph, from what its tasks ask for.
ContextInv ==
  /\ graph \in SUBSET Member /\ IsFiniteSet(graph)
  /\ prio \in [Member -> Priorities] /\ given \in [Member -> OwnBudgets] /\ share \in Shares
  /\ budget = Context!Allocated(graph)

\* Cardinality and sums, as the instance names them.
LEMMA ContextCounted == \A S : Context!Cardinality(S) = Cardinality(S)
BY DEF Context!Cardinality, Cardinality, Context!IsFiniteSet, IsFiniteSet

\* The allocation of the first task.
LEMMA InitContext == ASSUME Context!AllocationAssumption PROVE Context!Init => ContextInv
<1> SUFFICES ASSUME Context!Init PROVE ContextInv
  OBVIOUS
<1>1. IsFiniteSet(graph)
  BY FS_Singleton DEF Context!Init
<1> QED BY <1>1 DEF Context!AllocationAssumption, Context!Init, ContextInv

\* A task more is an allocation of the whole graph anew.
LEMMA ContextStep ==
  ASSUME ContextInv, [Context!Next]_Context!vars
  PROVE  ContextInv'
<1>1. CASE UNCHANGED Context!vars
  BY <1>1 DEF Context!vars, ContextInv, Context!Allocated
<1>2. ASSUME NEW t \in Member, Context!Admit(t) PROVE ContextInv'
  <2>1. IsFiniteSet(graph \cup {t})
    BY FS_AddElement DEF ContextInv
  <2> QED BY <1>2, <2>1 DEF ContextInv, Context!Admit, Context!Allocated
<1> QED BY <1>1, <1>2 DEF Context!Next

\* Those who share, and of those, who comes before t.
Sharing  == Context!Open(graph, given)
Ahead(t) == {u \in Sharing : prio[u] > prio[t] \/ (prio[u] = prio[t] /\ u < t)}
Top      == Context!TopCount(Cardinality(Sharing), share)
Flat     == share = 0 \/ \A u, v \in Sharing : prio[u] = prio[v]
High     == Context!HighBudget(Base, share)
Low      == Context!LowBudget(Cardinality(Sharing), Base, share)
Privileged == {t \in Sharing : Cardinality(Ahead(t)) < Top}

\* Those who share are finitely many tasks of the graph, and the recipe is in range.
LEMMA SharersTyped ==
  ASSUME Context!AllocationAssumption, ContextInv
  PROVE  /\ Sharing \subseteq graph /\ Sharing \subseteq Member /\ IsFiniteSet(Sharing)
         /\ Cardinality(Sharing) \in Nat
         /\ \A t \in Sharing : prio[t] \in Int /\ t \in Nat
         /\ share \in 0..100 /\ Base \in Nat \ {0} /\ Ceiling \in Nat \ {0}
<1>1. Sharing \subseteq graph
  BY DEF Sharing, Context!Open
<1>2. IsFiniteSet(Sharing)
  BY <1>1, FS_Subset DEF ContextInv
<1> QED BY <1>1, <1>2, FS_CardinalityType
        DEF Context!AllocationAssumption, ContextInv, Context!Whole

\* The position of a task is below the number of those who share, and lower than that of
\* any task that comes later.
LEMMA Ranked ==
  ASSUME Context!AllocationAssumption, ContextInv, NEW t \in Sharing
  PROVE  /\ Context!Position(Sharing, prio, Context!Place, t) = Cardinality(Ahead(t))
         /\ Cardinality(Ahead(t)) \in Nat /\ Cardinality(Ahead(t)) < Cardinality(Sharing)
         /\ \A u \in Sharing : t \in Ahead(u) => Cardinality(Ahead(t)) < Cardinality(Ahead(u))
<1>1. \A u \in Sharing : Context!Place[u] = u
  BY SharersTyped DEF Context!Place
<1>2. {u \in Sharing : \/ prio[u] > prio[t]
                       \/ prio[u] = prio[t] /\ Context!Place[u] < Context!Place[t]} = Ahead(t)
  BY <1>1 DEF Ahead
<1>3. Context!Position(Sharing, prio, Context!Place, t) = Cardinality(Ahead(t))
  BY <1>2, ContextCounted DEF Context!Position
<1>4. \A u \in Sharing : /\ Ahead(u) \in SUBSET Sharing /\ IsFiniteSet(Ahead(u))
                         /\ Cardinality(Ahead(u)) \in Nat
  <2> TAKE u \in Sharing
  <2>1. Ahead(u) \in SUBSET Sharing
    BY DEF Ahead
  <2>2. IsFiniteSet(Ahead(u))
    BY <2>1, SharersTyped, FS_Subset
  <2> QED BY <2>1, <2>2, FS_CardinalityType
<1>5. t \notin Ahead(t)
  BY SharersTyped DEF Ahead
<1>6. Cardinality(Ahead(t)) < Cardinality(Sharing)
  <2>1. /\ Cardinality(Ahead(t)) <= Cardinality(Sharing)
        /\ Cardinality(Sharing) = Cardinality(Ahead(t)) => Sharing = Ahead(t)
    BY <1>4, SharersTyped, FS_Subset
  <2> QED BY <1>4, <1>5, <2>1, SharersTyped
<1>7. ASSUME NEW u \in Sharing, t \in Ahead(u) PROVE Cardinality(Ahead(t)) < Cardinality(Ahead(u))
  <2>1. Ahead(t) \in SUBSET Ahead(u)
    BY <1>7, SharersTyped DEF Ahead
  <2>2. /\ Cardinality(Ahead(t)) <= Cardinality(Ahead(u))
        /\ Cardinality(Ahead(u)) = Cardinality(Ahead(t)) => Ahead(u) = Ahead(t)
    BY <1>4, <2>1, FS_Subset
  <2> QED BY <1>4, <1>5, <1>7, <2>2
<1> QED BY <1>3, <1>4, <1>6, <1>7

\* No more tasks are privileged than shall be, as no two have the same position.
LEMMA FewPrivileged ==
  ASSUME Context!AllocationAssumption, ContextInv, NEW n \in Nat, n = Top
  PROVE  Cardinality(Privileged) \in Nat /\ Cardinality(Privileged) <= n
<1> DEFINE rank == [t \in Privileged |-> Cardinality(Ahead(t))]
<1>1. Privileged \in SUBSET Sharing
  BY DEF Privileged
<1>2. ASSUME NEW t \in Privileged PROVE rank[t] \in 0..n - 1
  <2>1. t \in Sharing /\ Cardinality(Ahead(t)) < n
    BY DEF Privileged
  <2> QED BY <2>1, Ranked
<1>3. ASSUME NEW t \in Privileged, NEW u \in Privileged, t # u PROVE rank[t] # rank[u]
  <2>1. t \in Ahead(u) \/ u \in Ahead(t)
    BY <1>1, <1>3, SharersTyped DEF Ahead
  <2>2. \/ Cardinality(Ahead(t)) < Cardinality(Ahead(u))
        \/ Cardinality(Ahead(u)) < Cardinality(Ahead(t))
    BY <1>1, <2>1, Ranked
  <2>3. Cardinality(Ahead(t)) \in Nat /\ Cardinality(Ahead(u)) \in Nat
    BY <1>1, Ranked
  <2> QED BY <2>2, <2>3
<1>4. rank \in [Privileged -> 0..n - 1]
  BY <1>2
<1> HIDE DEF rank
<1>5. rank \in Injection(Privileged, 0..n - 1)
  BY <1>3, <1>4 DEF Injection, IsInjective
<1>6. IsFiniteSet(0..n - 1) /\ Cardinality(0..n - 1) = n
  <2>1. PICK m \in Int : m = n - 1
    OBVIOUS
  <2>2. IsFiniteSet(0..m) /\ Cardinality(0..m) = IF 0 > m THEN 0 ELSE m - 0 + 1
    BY FS_Interval
  <2> QED BY <2>1, <2>2
<1>7. IsFiniteSet(Privileged) /\ Cardinality(Privileged) <= Cardinality(0..n - 1)
  BY <1>5, <1>6, FS_Injection
<1> QED BY <1>6, <1>7, FS_CardinalityType

\* The quotient of a division.
LEMMA Quotient ==
  ASSUME NEW a \in Int, NEW d \in Nat \ {0}
  PROVE  a \div d \in Int /\ d * (a \div d) <= a /\ a < d * (a \div d) + d
OBVIOUS

\* A quotient is above what a multiple of the divisor reaches.
LEMMA QuotientAtLeast ==
  ASSUME NEW a \in Int, NEW d \in Nat \ {0}, NEW m \in Int, d * m <= a
  PROVE  m <= a \div d
<1> DEFINE q == a \div d
<1>1. q \in Int /\ d * m < d * q + d
  BY Quotient
<1> HIDE DEF q
<1>2. d * q + d = d * (q + 1)
  BY <1>1
<1>3. m < q + 1
  <2> SUFFICES ASSUME q + 1 <= m PROVE FALSE
    BY <1>1
  <2>1. PICK e \in Nat : m = (q + 1) + e
    BY <1>1
  <2>2. d * m = d * (q + 1) + d * e /\ d * e \in Nat
    BY <1>1, <2>1
  <2> QED BY <1>1, <1>2, <2>2
<1>4. m <= q
  BY <1>1, <1>3
<1> QED BY <1>4 DEF q

\* A product grows with a factor.
LEMMA ProductMonotone ==
  ASSUME NEW a \in Nat, NEW b \in Int, NEW c \in Int, b <= c
  PROVE  a * b <= a * c
<1>1. PICK e \in Nat : c = b + e
  OBVIOUS
<1>2. a * c = a * b + a * e /\ a * e \in Nat
  BY <1>1
<1> QED BY <1>2

\* The privileged get between one and two times the default.
LEMMA HighBounds ==
  ASSUME Context!AllocationAssumption, ContextInv
  PROVE  /\ High \in Base..2 * Base
         /\ 100 * High <= 100 * Base + Base * share
<1>1. Base \in Nat \ {0} /\ share \in 0..100
  BY SharersTyped
<1> DEFINE p == Base * share
<1>2. p \in 0..100 * Base
  <2>1. Base * share <= Base * 100 /\ Base * 0 <= Base * share
    BY <1>1, ProductMonotone
  <2> QED BY <1>1, <2>1
<1>3. Base * (100 + share) = 100 * Base + p
  BY <1>1
<1> HIDE DEF p
<1>4. High = (100 * Base + p) \div 100
  BY <1>3 DEF High, Context!HighBudget, Context!Whole
<1>5. High \in Base..2 * Base /\ 100 * High <= 100 * Base + p
  BY <1>1, <1>2, <1>4
<1> QED BY <1>5 DEF p

\* With two tasks that share, some are privileged and some are not; what is left for each
\* of the latter is no more than the default, and makes up for what the former get.
LEMMA LowBounds ==
  ASSUME Context!AllocationAssumption, ContextInv, Cardinality(Sharing) > 1
  PROVE  /\ Top \in 1..Cardinality(Sharing) - 1
         /\ Context!Remainder(Cardinality(Sharing), Base, share) \in Int
         /\ Context!Remainder(Cardinality(Sharing), Base, share) <= Base
         /\ 100 * (Cardinality(Sharing) - Top)
                * Context!Remainder(Cardinality(Sharing), Base, share)
              <= Base * (100 * (Cardinality(Sharing) - Top) - share * Top)
<1>1. PICK n \in Nat : n = Cardinality(Sharing) /\ n > 1
  BY SharersTyped
<1>2. Base \in Nat \ {0} /\ share \in 0..100
  BY SharersTyped
<1> DEFINE s == (n * share) \div 100
<1>3. s \in Int
  <2>1. n * share \in Int
    BY <1>2
  <2> QED BY <2>1, Quotient
<1>4. Top = Context!Least(n - 1, Context!Most(1, s))
  BY <1>1 DEF Top, Context!TopCount, Context!Whole
<1> HIDE DEF s
<1>5. Top \in 1..n - 1
  BY <1>1, <1>3, <1>4 DEF Context!Least, Context!Most
<1> DEFINE d == 100 * (n - Top)
           a == Base * (d - share * Top)
<1>6. d \in Nat \ {0} /\ share * Top \in Nat
  BY <1>2, <1>5
<1>7. Context!Remainder(n, Base, share) = a \div d
  <2>1. Top = Context!TopCount(n, share)
    BY <1>1 DEF Top
  <2> QED BY <2>1 DEF Context!Remainder, Context!Whole
<1>8. a \in Int /\ a <= d * Base
  <2>1. PICK x \in Nat : x = share * Top
    BY <1>6
  <2> HIDE DEF d
  <2>2. Base * (d - x) <= Base * d /\ Base * d = d * Base /\ Base * (d - x) \in Int
    BY <1>2, <1>6, ProductMonotone
  <2> QED BY <2>1, <2>2
<1> DEFINE r == a \div d
<1>9. r \in Int /\ d * r <= a
  BY <1>6, <1>8, Quotient
<1>10. r <= Base
  <2> HIDE DEF r, a, d
  <2> SUFFICES ASSUME Base < r PROVE FALSE
    BY <1>2, <1>9
  <2>1. d * (Base + 1) <= d * r
    BY <1>2, <1>6, <1>9, ProductMonotone
  <2>2. d * (Base + 1) = d * Base + d
    BY <1>2, <1>6
  <2>3. d * Base \in Int /\ d * r \in Int
    BY <1>2, <1>6, <1>9
  <2> QED BY <1>6, <1>8, <1>9, <2>1, <2>2, <2>3
<1> QED BY <1>1, <1>5, <1>7, <1>9, <1>10

\* What a task that shares gets, before the ceiling.
Weight(t) == IF Flat THEN Base ELSE IF t \in Privileged THEN High ELSE Low

\* allocateContext, in the terms above.
LEMMA Budgets ==
  ASSUME Context!AllocationAssumption, ContextInv, NEW t \in graph
  PROVE  budget[t] = IF t \in Sharing THEN Context!Least(Weight(t), Ceiling)
                     ELSE Context!Least(given[t], Context!Least(2 * Base, Ceiling))
<1>1. t \in Sharing => (Context!Position(Sharing, prio, Context!Place, t) < Top <=> t \in Privileged)
  BY Ranked DEF Privileged
<1>2. Top = Context!TopCount(Context!Cardinality(Sharing), share)
  BY ContextCounted DEF Top
<1>3. Low = Context!LowBudget(Context!Cardinality(Sharing), Base, share)
  BY ContextCounted DEF Low
<1> DEFINE weighted == IF Context!Position(Sharing, prio, Context!Place, t) < Top
                       THEN High ELSE Low
<1>4. budget[t] = IF t \notin Sharing
                  THEN Context!Least(given[t], Context!Least(2 * Base, Ceiling))
                  ELSE Context!Least(IF Flat THEN Base ELSE weighted, Ceiling)
  BY <1>2, <1>3 DEF ContextInv, Context!Allocated, Context!Allocate, Sharing, Flat, High
<1>5. t \in Sharing => weighted = IF t \in Privileged THEN High ELSE Low
  BY <1>1
<1> HIDE DEF weighted
<1> QED BY <1>4, <1>5 DEF Weight

\* If priorities differ, two tasks share.
LEMMA TwoShare ==
  ASSUME Context!AllocationAssumption, ContextInv, ~Flat
  PROVE  Cardinality(Sharing) > 1
<1>1. PICK u \in Sharing, v \in Sharing : prio[u] # prio[v]
  BY DEF Flat
<1>2. u \in Ahead(v) \/ v \in Ahead(u)
  BY <1>1, SharersTyped DEF Ahead
<1>3. /\ Cardinality(Ahead(u)) \in Nat /\ Cardinality(Ahead(u)) < Cardinality(Sharing)
      /\ Cardinality(Ahead(v)) \in Nat /\ Cardinality(Ahead(v)) < Cardinality(Sharing)
      /\ \/ Cardinality(Ahead(u)) < Cardinality(Ahead(v))
         \/ Cardinality(Ahead(v)) < Cardinality(Ahead(u))
  BY <1>1, <1>2, Ranked
<1> QED BY <1>3, SharersTyped

\* Between one byte and twice the default, and not less for the privileged.
LEMMA WeightBounds ==
  ASSUME Context!AllocationAssumption, ContextInv
  PROVE  /\ ~Flat => Low \in 1..Base /\ High \in Base..2 * Base
         /\ \A t \in Sharing : Weight(t) \in 1..2 * Base
<1>1. Base \in Nat \ {0}
  BY SharersTyped
<1>2. ~Flat => High \in Base..2 * Base
  BY HighBounds
<1>3. ASSUME ~Flat PROVE Low \in 1..Base
  <2>1. Cardinality(Sharing) > 1
    BY <1>3, TwoShare
  <2> DEFINE r == Context!Remainder(Cardinality(Sharing), Base, share)
  <2>2. r \in Int /\ r <= Base /\ Low = IF 1 > r THEN 1 ELSE r
    BY <2>1, LowBounds DEF Low, Context!LowBudget, Context!Most
  <2> HIDE DEF r
  <2> QED BY <1>1, <2>2
<1>4. ~Flat => Low \in 1..Base /\ High \in Base..2 * Base
  BY <1>2, <1>3
<1>5. ASSUME NEW t \in Sharing PROVE Weight(t) \in 1..2 * Base
  <2>1. CASE Flat
    BY <1>1, <2>1 DEF Weight
  <2>2. CASE ~Flat
    BY <1>1, <1>4, <2>2 DEF Weight
  <2> QED BY <2>1, <2>2
<1> QED BY <1>4, <1>5

\* Everybody gets something, within the ceiling.
LEMMA BudgetsBounded ==
  ASSUME Context!AllocationAssumption, ContextInv, NEW t \in graph
  PROVE  budget[t] \in 1..Context!Least(Ceiling, 2 * Base)
<1>1. Base \in Nat \ {0} /\ Ceiling \in Nat \ {0}
  BY SharersTyped
<1>2. CASE t \in Sharing
  <2>1. Weight(t) \in 1..2 * Base /\ budget[t] = Context!Least(Weight(t), Ceiling)
    BY <1>2, WeightBounds, Budgets
  <2> QED BY <1>1, <2>1 DEF Context!Least
<1>3. CASE t \notin Sharing
  <2>1. given[t] \in Nat /\ given[t] # 0
    BY <1>3 DEF Context!AllocationAssumption, ContextInv, Sharing, Context!Open
  <2>2. budget[t] = Context!Least(given[t], Context!Least(2 * Base, Ceiling))
    BY <1>3, Budgets
  <2> QED BY <1>1, <2>1, <2>2 DEF Context!Least
<1> QED BY <1>2, <1>3

\* A higher priority does not get less.
LEMMA BudgetsByPriority ==
  ASSUME Context!AllocationAssumption, ContextInv, NEW t \in Sharing, NEW u \in Sharing,
         prio[t] > prio[u]
  PROVE  budget[t] >= budget[u]
<1>1. /\ budget[t] = Context!Least(Weight(t), Ceiling)
      /\ budget[u] = Context!Least(Weight(u), Ceiling)
  BY Budgets, SharersTyped
<1>2. /\ Ceiling \in Nat /\ Base \in Nat
      /\ Weight(t) \in 1..2 * Base /\ Weight(u) \in 1..2 * Base
  BY SharersTyped, WeightBounds
<1>3. Weight(u) <= Weight(t)
  <2>1. CASE Flat
    BY <1>2, <2>1 DEF Weight
  <2>2. CASE ~Flat
    <3>1. t \in Ahead(u)
      BY DEF Ahead
    <3>2. Cardinality(Ahead(t)) < Cardinality(Ahead(u))
      BY <3>1, Ranked
    <3>3. /\ Cardinality(Ahead(t)) \in Nat /\ Cardinality(Ahead(u)) \in Nat
          /\ Cardinality(Sharing) > 1 /\ Top \in 1..Cardinality(Sharing) - 1
          /\ Cardinality(Sharing) \in Nat
      BY <2>2, Ranked, TwoShare, LowBounds, SharersTyped
    <3>4. u \in Privileged => t \in Privileged
      BY <3>2, <3>3 DEF Privileged
    <3> QED BY <1>2, <2>2, <3>4, WeightBounds DEF Weight
  <2> QED BY <2>1, <2>2
<1> QED BY <1>1, <1>2, <1>3 DEF Context!Least

\* The sum of the budgets, as the instance names it.
LEMMA ContextTotal == Context!Total = SumOf(budget, Sharing)
BY DEF Context!Total, Context!Shared, Sharing, SumOf, Context!MapThenSumSet,
       Context!MapThenFoldSet, MapThenSumSet, MapThenFoldSet

\* What is left makes up for what the privileged get: n tasks, m of them privileged.
LEMMA Averages ==
  ASSUME NEW b \in Nat, NEW s \in Nat, NEW n \in Nat, NEW m \in Nat, m <= n,
         NEW h \in Int, NEW r \in Int,
         100 * h <= 100 * b + b * s,
         100 * (n - m) * r <= b * (100 * (n - m) - s * m)
  PROVE  n * r + m * (h - r) <= n * b
<1>1. PICK e \in Nat : e = n - m
  OBVIOUS
<1>2. PICK x \in Int, y \in Int, z \in Int, w \in Int, v \in Int :
        x = e * r /\ y = m * h /\ z = b * s /\ w = b * e /\ v = b * m
  BY <1>1
<1>3. n * r + m * (h - r) = x + y
  <2>1. n = e + m
    BY <1>1
  <2>2. (e + m) * r + m * (h - r) = e * r + m * h
    OBVIOUS
  <2> QED BY <1>2, <2>1, <2>2
<1>4. n * b = w + v
  <2>1. n = e + m /\ (e + m) * b = b * e + b * m
    BY <1>1
  <2> QED BY <1>2, <2>1
<1>5. 100 * x <= 100 * w - z * m
  <2>1. 100 * e * r = 100 * (e * r) /\ b * (100 * e - s * m) = 100 * (b * e) - (b * s) * m
    BY <1>1
  <2> QED BY <1>1, <1>2, <2>1
<1>6. 100 * y <= 100 * v + z * m
  <2>1. m * (100 * h) <= m * (100 * b + z)
    BY <1>2, ProductMonotone
  <2>2. m * (100 * h) = 100 * (m * h) /\ m * (100 * b + z) = 100 * (b * m) + z * m
    BY <1>2
  <2> QED BY <1>2, <2>1, <2>2
<1>7. z * m \in Int
  BY <1>2
<1> QED BY <1>3, <1>4, <1>5, <1>6, <1>7

\* The most that is given away: the default for each, or what the privileged take and a
\* byte for each of the others.
Granted == Context!Most(Cardinality(Sharing) * Base,
                        Top * High + (Cardinality(Sharing) - Top))

\* Nothing is given away that is not taken from somebody, but the last byte.
LEMMA BudgetsAverage ==
  ASSUME Context!AllocationAssumption, ContextInv
  PROVE  Context!Total <= Granted
<1> DEFINE weight == [t \in Sharing |-> Weight(t)]
<1>1. /\ IsFiniteSet(Sharing) /\ Base \in Nat \ {0} /\ Ceiling \in Nat \ {0}
      /\ \A t \in Sharing : Weight(t) \in 1..2 * Base
  BY SharersTyped, WeightBounds
<1>2. \A t \in Sharing : budget[t] \in Int /\ weight[t] \in Int /\ budget[t] <= weight[t]
  <2> TAKE t \in Sharing
  <2>1. budget[t] = Context!Least(Weight(t), Ceiling)
    BY Budgets, SharersTyped
  <2> QED BY <1>1, <2>1 DEF Context!Least
<1>3. \A t \in Sharing : weight[t] = Weight(t)
  OBVIOUS
<1> HIDE DEF weight
<1>4. SumOf(budget, Sharing) <= SumOf(weight, Sharing)
  BY <1>1, <1>2, SumPointwise
<1>5. PICK n \in Nat : n = Cardinality(Sharing)
  BY SharersTyped
<1>6. /\ SumOf(weight, Sharing) \in Int
      /\ \/ SumOf(weight, Sharing) <= n * Base
         \/ ~Flat /\ SumOf(weight, Sharing) <= Top * High + (n - Top)
  <2>1. CASE Flat
    <3>1. \A t \in Sharing : weight[t] = IF t \in {} THEN Base + 0 ELSE Base
      BY <1>3, <2>1 DEF Weight
    <3>2. SumOf(weight, Sharing) = Cardinality(Sharing) * Base + Cardinality({}) * 0
      BY <1>1, <3>1, SumTwoLevels, {} \in SUBSET Sharing, Base \in Int, 0 \in Int
    <3>3. Cardinality({}) * 0 = 0
      BY FS_EmptySet
    <3> QED BY <1>1, <1>5, <3>2, <3>3
  <2>2. CASE ~Flat
    <3>1. PICK r \in Int : r = Low /\ r >= 1 /\ r <= Base
      BY <1>1, <2>2, WeightBounds
    <3>2. PICK m \in Nat : m = Top /\ m <= n
      BY <1>5, <2>2, TwoShare, LowBounds
    <3>4. PICK h \in Int : h = High /\ h >= r /\ 100 * h <= 100 * Base + Base * share
      BY <1>1, <3>1, HighBounds
    <3>5. PICK k \in Nat : k = Cardinality(Privileged) /\ k <= m
      BY <3>2, FewPrivileged
    <3>6. PICK more \in Int : more = h - r
      OBVIOUS
    <3>7. SumOf(weight, Sharing) = n * r + k * (h - r)
      <4>1. Privileged \in SUBSET Sharing
        BY DEF Privileged
      <4>2. \A t \in Sharing : weight[t] = IF t \in Privileged THEN r + more ELSE r
        BY <1>3, <2>2, <3>1, <3>4, <3>6 DEF Weight
      <4>3. SumOf(weight, Sharing) = Cardinality(Sharing) * r + Cardinality(Privileged) * more
        BY <1>1, <4>1, <4>2, SumTwoLevels
      <4> QED BY <1>5, <3>5, <3>6, <4>3
    <3>8. k * (h - r) <= m * (h - r)
      <4>1. (h - r) * k <= (h - r) * m
        BY <3>4, <3>5, ProductMonotone, h - r \in Nat
      <4> QED BY <4>1
    <3>9. \/ n * r + m * (h - r) <= n * Base
          \/ n * r + m * (h - r) = Top * High + (n - Top)
      <4> DEFINE rest == Context!Remainder(Cardinality(Sharing), Base, share)
      <4>1. rest \in Int /\ 100 * (n - m) * rest <= Base * (100 * (n - m) - share * m)
        BY <1>5, <2>2, <3>2, TwoShare, LowBounds
      <4>2. r = IF 1 > rest THEN 1 ELSE rest
        BY <3>1 DEF Low, Context!LowBudget, Context!Most
      <4>3. Base \in Nat /\ share \in Nat
        BY SharersTyped
      <4> HIDE DEF rest
      <4>4. CASE r = rest
        BY <3>2, <3>4, <4>1, <4>3, <4>4, Averages
      <4>5. CASE r = 1
        <5>1. n * 1 + m * (h - 1) = m * h + (n - m)
          BY <3>4
        <5> QED BY <3>2, <3>4, <4>5, <5>1
      <4> QED BY <4>2, <4>4, <4>5
    <3>10. /\ n * r \in Int /\ k * (h - r) \in Int /\ m * (h - r) \in Int
           /\ n * Base \in Int
      BY <1>1
    <3>11. SumOf(weight, Sharing) \in Int /\ SumOf(weight, Sharing) <= n * r + m * (h - r)
      BY <3>7, <3>8, <3>10
    <3>12. CASE n * r + m * (h - r) <= n * Base
      <4> QED BY <3>10, <3>11, <3>12
    <3>13. CASE n * r + m * (h - r) = Top * High + (n - Top)
      <4> QED BY <2>2, <3>11, <3>13
    <3> QED BY <3>9, <3>12, <3>13
  <2> QED BY <2>1, <2>2
<1>7. SumOf(budget, Sharing) \in Int
  BY <1>1, <1>2, SumType, Sharing \in SUBSET Sharing
<1>8. n * Base \in Int /\ (~Flat => Top * High + (n - Top) \in Int)
  <2>1. ~Flat => Top \in Int /\ High \in Int
    BY <1>1, TwoShare, LowBounds, WeightBounds
  <2> QED BY <1>1, <2>1
<1>9. Context!Total <= n * Base \/ (~Flat /\ Context!Total <= Top * High + (n - Top))
  BY <1>4, <1>6, <1>7, <1>8, ContextTotal
<1>10. Context!Total \in Int
  BY <1>7, ContextTotal
<1>11. Top \in Int /\ High \in Int
  <2>1. Top \in Int
    <3>1. n * share \in Int
      BY SharersTyped
    <3>2. (n * share) \div 100 \in Int
      BY <3>1, Quotient
    <3> QED BY <1>5, <3>2
            DEF Top, Context!TopCount, Context!Least, Context!Most, Context!Whole
  <2> QED BY <2>1, HighBounds
<1>12. Top * High + (n - Top) \in Int
  BY <1>11
<1> QED BY <1>5, <1>8, <1>9, <1>10, <1>12 DEF Granted, Context!Most

\* Without a priorityContextShare, growth changes nobody's allocation, whatever the
\* priorities, budgets of their own and ceiling: what FoundrySchedulerProofs supposes of
\* the budgets as AllocationsFall is true of every such recipe.
LEMMA UnweightedAllocationsStand ==
  ASSUME NEW P, NEW Q, P \subseteq Q, NEW t \in P, NEW priority, NEW ownBudget, NEW place,
         NEW default, NEW limit
  PROVE  Context!Allocate(Q, priority, ownBudget, place, default, 0, limit)[t]
           = Context!Allocate(P, priority, ownBudget, place, default, 0, limit)[t]
<1>1. t \in Q /\ (t \in Context!Open(Q, ownBudget) <=> t \in Context!Open(P, ownBudget))
  BY DEF Context!Open
<1>2. ASSUME NEW G, t \in G
      PROVE  Context!Allocate(G, priority, ownBudget, place, default, 0, limit)[t]
               = IF t \notin Context!Open(G, ownBudget)
                 THEN Context!Least(ownBudget[t], Context!Least(2 * default, limit))
                 ELSE Context!Least(default, limit)
  BY <1>2 DEF Context!Allocate
<1> QED BY <1>1, <1>2

\* What allocateContext gives: every task something within the ceiling, no less to a higher
\* priority, and to all that share no more than the recipe's default for each, unless the
\* privileged take it all and the others keep their byte.
THEOREM ContextIsShared == Spec => []BudgetsShared
<1>1. Init => (focus = "context" => ContextInv)
  BY HostAssumption, InitContext DEF Init
<1>2. (focus = "context" => ContextInv) /\ [Next]_vars => (focus = "context" => ContextInv)'
  BY CoordinationTurn, ContextStep
<1>3. (focus = "context" => ContextInv) => BudgetsShared
  <2> SUFFICES ASSUME focus = "context", ContextInv PROVE Context!BudgetsShared
    BY DEF BudgetsShared
  <2>1. Context!AllocationAssumption
    BY HostAssumption
  <2>2. Context!Shared = Sharing /\ Context!Cardinality(Sharing) = Cardinality(Sharing)
    BY ContextCounted DEF Context!Shared, Sharing
  <2>3. \A t \in graph : budget[t] \in 1..Context!Least(Ceiling, 2 * Base)
    BY <2>1, BudgetsBounded
  <2>4. \A t, u \in Sharing : prio[t] > prio[u] => budget[t] >= budget[u]
    BY <2>1, BudgetsByPriority
  <2>5. Context!Total <= Context!Most(Cardinality(Sharing) * Base,
          Context!TopCount(Cardinality(Sharing), share) * Context!HighBudget(Base, share)
            + (Cardinality(Sharing) - Context!TopCount(Cardinality(Sharing), share)))
    BY <2>1, BudgetsAverage DEF Granted, Top, High
  <2> QED BY <2>2, <2>3, <2>4, <2>5 DEF Context!BudgetsShared
<1> QED BY <1>1, <1>2, <1>3, PTL DEF Spec
=============================================================================
