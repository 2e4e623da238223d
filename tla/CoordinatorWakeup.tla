--------------------------- MODULE CoordinatorWakeup ---------------------------
(***************************************************************************)
(* How a coordinator that has nothing to claim learns that it has again:   *)
(* the loop of runTasks (runtime.ts), the changes that a store observes    *)
(* (store.ts) and the listeners of a process (wakeup.ts).                  *)
(*                                                                         *)
(* A coordinator has a connection of its own.  The connections of one      *)
(* process share a thread, which nobody else of that process can use from  *)
(* the moment a coordinator observes the changes until it waits, and a     *)
(* revision that each of their commits raises.  The commits of other       *)
(* processes fall anywhere; only SQLite's data_version tells of them, and  *)
(* it does not count the connection's own commits.                         *)
(***************************************************************************)
EXTENDS Naturals, FiniteSets

CONSTANTS
  Conn,         \* the connections, each with its coordinator
  Proc,
  ProcOf,       \* the process of a connection
  Parallelism,  \* recipe.parallelism
  MaxCommits,   \* bound: commits of all connections
  Nobody

VARIABLES
  commits,   \* commits so far
  own,       \* those a connection has made itself
  revision,  \* Wakeup.revision of a process
  thread,    \* the connection whose coordinator runs in a process
  pc,        \* where a coordinator stands in its loop
  observed,  \* the changes it has observed in this round
  seen,      \* the commits it knew of when it last looked for work
  active     \* attempts it has under way

vars == <<commits, own, revision, thread, pc, observed, seen, active>>

\* PRAGMA data_version: the commits of the other connections.
DataVersion(c) == commits - own[c]

Init ==
  /\ commits = 0
  /\ own = [c \in Conn |-> 0]
  /\ revision = [p \in Proc |-> 0]
  /\ thread = [p \in Proc |-> Nobody]
  /\ pc = [c \in Conn |-> "loop"]
  /\ observed = [c \in Conn |-> [revision |-> 0, dataVersion |-> 0]]
  /\ seen = [c \in Conn |-> 0]
  /\ active = [c \in Conn |-> 0]

-----------------------------------------------------------------------------
Goto(c, place) == pc' = [pc EXCEPT ![c] = place]

\* Wakeup.notify: every listener of the process is called.
Awakened(c) == {d \in Conn : ProcOf[d] = ProcOf[c] /\ pc[d] = "asleep"}

\* Store.transaction: the process is told after the commit.  The coordinator of the
\* connection goes on at `place'.
Commit(c, place) ==
  /\ commits < MaxCommits
  /\ pc' = [d \in Conn |-> IF d = c THEN place
                          ELSE IF d \in Awakened(c) THEN "loop" ELSE pc[d]]
  /\ commits' = commits + 1
  /\ own' = [own EXCEPT ![c] = @ + 1]
  /\ revision' = [revision EXCEPT ![ProcOf[c]] = @ + 1]

Quiet == UNCHANGED <<commits, own, revision>>

-----------------------------------------------------------------------------
(* The loop.                                                               *)

\* store.observeChanges, before anything is inspected.
Observe(c) ==
  /\ pc[c] = "loop" /\ thread[ProcOf[c]] = Nobody
  /\ thread' = [thread EXCEPT ![ProcOf[c]] = c]
  /\ observed' = [observed EXCEPT ![c] = [revision |-> revision[ProcOf[c]],
                                          dataVersion |-> DataVersion(c)]]
  /\ Goto(c, IF active[c] < Parallelism THEN "claim" ELSE "wait")
  /\ Quiet /\ UNCHANGED <<seen, active>>

\* scheduler.claimMany: one transaction, which looks at everything committed before it
\* and claims n tasks, perhaps none.
Claim(c, n) ==
  /\ pc[c] = "claim" /\ active[c] + n <= Parallelism
  /\ IF n = 0 THEN Quiet /\ Goto(c, "renew") ELSE Commit(c, "renew and start")
  /\ seen' = [seen EXCEPT ![c] = commits']
  /\ active' = [active EXCEPT ![c] = @ + n]
  /\ UNCHANGED <<thread, observed>>

\* Mutant of Renewed: all changes are observed anew after the claim.
RenewedFully(c) == [revision |-> revision[ProcOf[c]], dataVersion |-> DataVersion(c)]

\* The process's own claim is no news; data_version stays the one from before.
Renewed(c) == [observed[c] EXCEPT !.revision = revision[ProcOf[c]]]

Renew(c) ==
  /\ pc[c] \in {"renew", "renew and start"}
  /\ observed' = [observed EXCEPT ![c] = Renewed(c)]
  /\ Goto(c, IF pc[c] = "renew" THEN "wait" ELSE "start")
  /\ Quiet /\ UNCHANGED <<thread, seen, active>>

\* An attempt that starts commits its stage before it first gives the thread away.
Start(c) ==
  /\ pc[c] = "start"
  /\ Commit(c, "wait")
  /\ UNCHANGED <<thread, observed, seen, active>>

\* Wakeup.wait returns at once when something has changed since; a coordinator without
\* a free slot waits for its attempts only.
Wait(c) ==
  /\ pc[c] = "wait"
  /\ thread' = [thread EXCEPT ![ProcOf[c]] = Nobody]
  /\ Goto(c, IF active[c] = Parallelism THEN "full"
             ELSE IF \/ observed[c].revision # revision[ProcOf[c]]
                     \/ observed[c].dataVersion # DataVersion(c)
             THEN "loop" ELSE "asleep")
  /\ Quiet /\ UNCHANGED <<observed, seen, active>>

-----------------------------------------------------------------------------
(* Meanwhile.                                                              *)

\* An attempt or another user of the connection commits, which wakes the process.
Write(c) ==
  /\ thread[ProcOf[c]] = Nobody
  /\ Commit(c, IF pc[c] = "asleep" THEN "loop" ELSE pc[c])
  /\ UNCHANGED <<thread, observed, seen, active>>

\* An attempt is over, its result committed by a Write: its coordinator goes on.
Finish(c) ==
  /\ active[c] > 0 /\ thread[ProcOf[c]] = Nobody
  /\ active' = [active EXCEPT ![c] = @ - 1]
  /\ Goto(c, IF pc[c] \in {"asleep", "full"} THEN "loop" ELSE pc[c])
  /\ Quiet /\ UNCHANGED <<thread, observed, seen>>

\* The interval finds another data_version.
Poll(c) ==
  /\ pc[c] = "asleep" /\ observed[c].dataVersion # DataVersion(c)
  /\ Goto(c, "loop")
  /\ Quiet /\ UNCHANGED <<thread, observed, seen, active>>

\* The wait is over, at most 250 ms after it began.
Timeout(c) ==
  /\ pc[c] = "asleep"
  /\ Goto(c, "loop")
  /\ Quiet /\ UNCHANGED <<thread, observed, seen, active>>

-----------------------------------------------------------------------------
Loop(c) ==
  Observe(c) \/ (\E n \in 0..Parallelism : Claim(c, n)) \/ Renew(c) \/ Start(c) \/ Wait(c)

Next == \E c \in Conn : Loop(c) \/ Write(c) \/ Finish(c) \/ Poll(c) \/ Timeout(c)

Spec == Init /\ [][Next]_vars

-----------------------------------------------------------------------------
(* Properties.                                                             *)

\* Every connection is opened in some process, and nobody is none of them.
WakeupAssumption ==
  /\ ProcOf \in [Conn -> Proc] /\ Nobody \notin Conn
  /\ Parallelism \in Nat \ {0}

CountersOK ==
  /\ commits \in Nat
  /\ own \in [Conn -> Nat] /\ \A c \in Conn : own[c] <= commits
  /\ revision \in [Proc -> Nat]

LoopsOK ==
  /\ thread \in [Proc -> Conn \cup {Nobody}]
  /\ pc \in [Conn -> {"loop", "claim", "renew", "renew and start", "start", "wait",
                      "asleep", "full"}]
  /\ seen \in [Conn -> Nat]
  /\ active \in [Conn -> 0..Parallelism]

MemoryOK == observed \in [Conn -> [revision : Nat, dataVersion : Nat]]

TypeOK == CountersOK /\ LoopsOK /\ MemoryOK

\* "Observe before inspecting/claiming state so a commit between inspection and
\* registration cannot be lost" (runtime.ts): a coordinator that sleeps has looked for
\* work after every commit, or its poll is about to find the one that it has not seen.
NoLostHint ==
  \A c \in Conn : pc[c] = "asleep" =>
    seen[c] = commits \/ observed[c].dataVersion # DataVersion(c)
=============================================================================
