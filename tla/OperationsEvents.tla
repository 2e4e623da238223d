-------------------------- MODULE OperationsEvents ---------------------------
(***************************************************************************)
(* The event service (src/src/harness/foundry/operations): the durable     *)
(* events and obligations of events.ts, and the steps in which a server    *)
(* process turns an event into a run and completes it (service.ts).        *)
(*                                                                         *)
(* Every action is one transaction, or one read outside any transaction    *)
(* whose result the server keeps; between two of them other servers, the   *)
(* operator and the host do as they please.  The id of an event's run is a *)
(* digest of the event's key, so a run is named by its event here.  What   *)
(* the scheduler makes of a run is its verdict, and `blocked' is what the  *)
(* evidence gates of actions.ts and claims.ts say of it.                   *)
(***************************************************************************)
EXTENDS Integers, FiniteSets

CONSTANTS
  Event,          \* identities of events
  Obligation,     \* identities of obligations
  Notice,         \* Notice[o]: the event that announces that o is due
  Resolving,      \* events whose type is listed in resolutionEvents
  Server,         \* processes that run operationsTick
  Recipe,         \* recipes that may become active
  NoRecipe, NoEvent,
  Verdicts,       \* how a run may end
  MaxLead,        \* bound: how far ahead an event or obligation is scheduled
  MaxDisruptions  \* bound: crashes, mode changes, promotions, gates that close, reopenings

VARIABLES
  mode,           \* operations_services.mode
  active,         \* the active recipe of the store
  event,          \* operations_events.status; "ABSENT" without a row
  lead,           \* operations_events.available_at - now, never below 0
  bound,          \* operations_events.recipe_hash
  duty,           \* operations_obligations.status; "ABSENT" without a row
  term,           \* operations_obligations.due_at - now, never below 0
  run,            \* runs.status of the run of an event; "NONE" without a row
  recipe,         \* runs.recipe
  blocked,        \* events whose run has unresolved actions, claims or conflicts
  at, seen, todo, chosen,  \* per server: its step, and the mode, the due obligations and
                           \* the event it has read
  disruptions     \* bound: disruptions left

events == <<event, lead, bound>>
duties == <<duty, term>>
runs == <<run, recipe, blocked>>
server == <<at, seen, todo, chosen>>
vars == <<mode, active, events, duties, runs, server, disruptions>>

Mode == {"ACTIVE", "DRAINING", "PAUSED"}

ASSUME ServiceAssumption ==
  /\ Notice \in [Obligation -> Event]
  /\ \A o1, o2 \in Obligation : Notice[o1] = Notice[o2] => o1 = o2
  /\ Resolving \subseteq Event
  /\ NoRecipe \notin Recipe /\ NoEvent \notin Event /\ Recipe # {}
  /\ Verdicts \subseteq {"PASS", "FAIL"}
  /\ MaxLead \in Nat /\ MaxDisruptions \in Nat

External == Event \ {Notice[o] : o \in Obligation}

Init ==
  /\ mode = "ACTIVE" /\ active \in Recipe
  /\ event = [e \in Event |-> "ABSENT"] /\ lead = [e \in Event |-> 0]
  /\ bound = [e \in Event |-> NoRecipe]
  /\ duty = [o \in Obligation |-> "ABSENT"] /\ term = [o \in Obligation |-> 0]
  /\ run = [e \in Event |-> "NONE"] /\ recipe = [e \in Event |-> NoRecipe]
  /\ blocked = {}
  /\ at = [s \in Server |-> "idle"] /\ seen = [s \in Server |-> "ACTIVE"]
  /\ todo = [s \in Server |-> {}] /\ chosen = [s \in Server |-> NoEvent]
  /\ disruptions = MaxDisruptions

-----------------------------------------------------------------------------
(* What the trusted host does.                                             *)

Queued(e, wait) ==
  /\ event' = [event EXCEPT ![e] = "QUEUED"]
  /\ lead' = [lead EXCEPT ![e] = wait]

\* enqueue; a known event is returned as it is.
Enqueue(e, wait) ==
  /\ e \in External /\ event[e] = "ABSENT"
  /\ Queued(e, wait)
  /\ UNCHANGED <<mode, active, bound, duties, runs, server, disruptions>>

AddObligation(o, wait) ==
  /\ duty[o] = "ABSENT"
  /\ duty' = [duty EXCEPT ![o] = "OPEN"]
  /\ term' = [term EXCEPT ![o] = wait]
  /\ UNCHANGED <<mode, active, events, runs, server, disruptions>>

ResolveObligation(o) ==
  /\ duty[o] = "OPEN"
  /\ duty' = [duty EXCEPT ![o] = "RESOLVED"]
  /\ UNCHANGED <<mode, active, events, term, runs, server, disruptions>>

-----------------------------------------------------------------------------
(* operationsTick.                                                         *)

Goto(s, step) == at' = [at EXCEPT ![s] = step]

\* The tick is over: idle, processed, in need of attention, or failed.
Rest(s) ==
  /\ Goto(s, "idle")
  /\ chosen' = [chosen EXCEPT ![s] = NoEvent]
  /\ todo' = [todo EXCEPT ![s] = {}]

Unannounced(o) == duty[o] = "OPEN" /\ term[o] = 0 /\ event[Notice[o]] = "ABSENT"

\* Read the mode, and select the obligations to announce.
Begin(s) ==
  /\ at[s] = "idle" /\ mode # "PAUSED"
  /\ Goto(s, "announce")
  /\ seen' = [seen EXCEPT ![s] = mode]
  /\ todo' = [todo EXCEPT ![s] = {o \in Obligation : Unannounced(o)}]
  /\ UNCHANGED <<mode, active, events, duties, runs, chosen, disruptions>>

\* Mutant of Announceable: the selection is not checked again.
AnnounceableSelected(o) == event[Notice[o]] = "ABSENT"

Announceable(o) == duty[o] = "OPEN" /\ event[Notice[o]] = "ABSENT"

\* enqueueRecord for one selected obligation, which may have been resolved meanwhile.
Announce(s, o) ==
  /\ at[s] = "announce" /\ o \in todo[s]
  /\ todo' = [todo EXCEPT ![s] = @ \ {o}]
  /\ IF Announceable(o) THEN Queued(Notice[o], 0) ELSE UNCHANGED <<event, lead>>
  /\ UNCHANGED <<mode, active, bound, duties, runs, at, seen, chosen, disruptions>>

Incomplete == {e \in Event : event[e] \in {"PREPARED", "DISPATCHED"}}
Due        == {e \in Event : event[e] = "QUEUED" /\ lead[e] = 0}

\* Mutant of Eligible: only new events are looked for.
EligibleDue(s) == IF seen[s] = "ACTIVE" THEN Due ELSE Due \cap Resolving

\* Episodes in progress come first.  Which one of several is oldest is left open.
Eligible(s) ==
  IF Incomplete # {} THEN Incomplete
  ELSE IF seen[s] = "ACTIVE" THEN Due ELSE Due \cap Resolving

Select(s) ==
  /\ at[s] = "announce" /\ todo[s] = {}
  /\ \/ /\ Eligible(s) = {}
        /\ Rest(s)
     \/ \E e \in Eligible(s) :
          /\ chosen' = [chosen EXCEPT ![s] = e]
          /\ Goto(s, IF event[e] = "DISPATCHED" THEN "verdict" ELSE "dispatch")
          /\ UNCHANGED todo
  /\ UNCHANGED <<mode, active, events, duties, runs, seen, disruptions>>

\* Mutant of Admits: the mode the tick began with.
AdmitsSeen(s, e) == seen[s] = "ACTIVE" \/ (seen[s] = "DRAINING" /\ e \in Resolving)

Admits(s, e) == mode = "ACTIVE" \/ (mode = "DRAINING" /\ e \in Resolving)

\* dispatch, first transaction: admit the event, or adopt what another server did.
Bind(s) ==
  LET e == chosen[s]
  IN  /\ at[s] = "dispatch"
      /\ \/ /\ event[e] = "QUEUED" /\ Admits(s, e)
            /\ event' = [event EXCEPT ![e] = "PREPARED"]
            /\ bound' = [bound EXCEPT ![e] = active]
            /\ Goto(s, "check") /\ UNCHANGED <<chosen, todo>>
         \/ /\ event[e] = "QUEUED" /\ ~Admits(s, e)
            /\ Rest(s) /\ UNCHANGED <<event, bound>>
         \/ /\ event[e] = "PREPARED"
            /\ Goto(s, "check") /\ UNCHANGED <<event, bound, chosen, todo>>
         \/ /\ event[e] \in {"DISPATCHED", "COMPLETE"}
            /\ Goto(s, "verdict") /\ UNCHANGED <<event, bound, chosen, todo>>
      /\ UNCHANGED <<mode, active, lead, duties, runs, seen, disruptions>>

\* dispatch, between its transactions: does the run exist, and is the service paused?
Check(s) ==
  /\ at[s] = "check"
  /\ IF run[chosen[s]] # "NONE" \/ mode # "PAUSED"
     THEN Goto(s, "start") /\ UNCHANGED <<chosen, todo>>
     ELSE Rest(s)
  /\ UNCHANGED <<mode, active, events, duties, runs, seen, disruptions>>

\* Mutant of Pinned: the run is started with whatever recipe is active.
PinnedActive(e) == active

Pinned(e) == bound[e]

\* Scheduler.start with the plan and recipe bound at admission: create the run or
\* adopt the one that exists.
Start(s) ==
  LET e == chosen[s]
  IN  /\ at[s] = "start"
      /\ IF run[e] = "NONE"
         THEN /\ run' = [run EXCEPT ![e] = "RUNNING"]
              /\ recipe' = [recipe EXCEPT ![e] = Pinned(e)]
              /\ Goto(s, "mark") /\ UNCHANGED <<chosen, todo>>
         ELSE /\ IF recipe[e] = Pinned(e) THEN Goto(s, "mark") /\ UNCHANGED <<chosen, todo>>
                 ELSE Rest(s)
              /\ UNCHANGED <<run, recipe>>
      /\ UNCHANGED <<mode, active, events, duties, blocked, seen, disruptions>>

Marking(e) == IF event[e] = "PREPARED" THEN "DISPATCHED" ELSE event[e]

\* dispatch, last transaction.
Mark(s) ==
  /\ at[s] = "mark"
  /\ event' = [event EXCEPT ![chosen[s]] = Marking(chosen[s])]
  /\ Goto(s, "verdict")
  /\ UNCHANGED <<mode, active, lead, bound, duties, runs, seen, todo, chosen, disruptions>>

\* The verdict of the run, the episode if it has none yet, and the evidence gate.
Conclude(s) ==
  LET e == chosen[s]
  IN  /\ at[s] = "verdict"
      /\ \E verdict \in IF run[e] = "RUNNING" THEN Verdicts ELSE {run[e]} :
           /\ run' = [run EXCEPT ![e] = verdict]
           /\ IF verdict = "PASS" /\ e \notin blocked
              THEN Goto(s, "complete") /\ UNCHANGED <<chosen, todo>>
              ELSE Rest(s)
      /\ UNCHANGED <<mode, active, events, duties, recipe, blocked, seen, disruptions>>

\* Mutant of Completable: what was read before the transaction is believed.
CompletableRead(e) == event[e] \in {"DISPATCHED", "COMPLETE"} /\ recipe[e] = bound[e]

Completable(e) ==
  /\ event[e] \in {"DISPATCHED", "COMPLETE"}
  /\ run[e] = "PASS" /\ e \notin blocked /\ recipe[e] = bound[e]

Complete(s) ==
  LET e == chosen[s]
  IN  /\ at[s] = "complete"
      /\ event' = IF Completable(e) THEN [event EXCEPT ![e] = "COMPLETE"] ELSE event
      /\ Rest(s)
      /\ UNCHANGED <<mode, active, lead, bound, duties, runs, seen, disruptions>>

Step(s) ==
  \/ Begin(s) \/ (\E o \in Obligation : Announce(s, o)) \/ Select(s)
  \/ Bind(s) \/ Check(s) \/ Start(s) \/ Mark(s) \/ Conclude(s) \/ Complete(s)

-----------------------------------------------------------------------------
(* Disruptions, and time.                                                  *)

Disrupt == disruptions > 0 /\ disruptions' = disruptions - 1

SetMode(m) ==
  /\ Disrupt /\ m # mode
  /\ mode' = m
  /\ UNCHANGED <<active, events, duties, runs, server>>

\* A recipe is promoted or rolled back.
Promote(r) ==
  /\ Disrupt /\ r # active
  /\ active' = r
  /\ UNCHANGED <<mode, events, duties, runs, server>>

\* A server dies, or its signal is aborted, between two steps.
Crash(s) ==
  /\ Disrupt /\ at[s] # "idle"
  /\ Rest(s)
  /\ UNCHANGED <<mode, active, events, duties, runs, seen>>

\* A claim of the run becomes stale or disputed, or an action is left unresolved.
Block(e) ==
  /\ Disrupt /\ run[e] # "NONE" /\ e \notin blocked
  /\ blocked' = blocked \cup {e}
  /\ UNCHANGED <<mode, active, events, duties, run, recipe, server>>

Unblock(e) ==
  /\ e \in blocked
  /\ blocked' = blocked \ {e}
  /\ UNCHANGED <<mode, active, events, duties, run, recipe, server, disruptions>>

\* The host admits a discriminator to a run that has ended.
Reopen(e) ==
  /\ Disrupt /\ run[e] \in {"PASS", "FAIL"}
  /\ run' = [run EXCEPT ![e] = "RUNNING"]
  /\ UNCHANGED <<mode, active, events, duties, recipe, blocked, server>>

Tick ==
  /\ (\E e \in Event : lead[e] > 0) \/ (\E o \in Obligation : term[o] > 0)
  /\ lead' = [e \in Event |-> IF lead[e] > 0 THEN lead[e] - 1 ELSE 0]
  /\ term' = [o \in Obligation |-> IF term[o] > 0 THEN term[o] - 1 ELSE 0]
  /\ UNCHANGED <<mode, active, event, bound, duty, runs, server, disruptions>>

Next ==
  \/ \E e \in Event, wait \in 0..MaxLead : Enqueue(e, wait)
  \/ \E o \in Obligation, wait \in 0..MaxLead : AddObligation(o, wait)
  \/ \E o \in Obligation : ResolveObligation(o)
  \/ \E s \in Server : Step(s)
  \/ \E m \in Mode : SetMode(m)
  \/ \E r \in Recipe : Promote(r)
  \/ \E s \in Server : Crash(s)
  \/ \E e \in Event : Block(e) \/ Unblock(e) \/ Reopen(e)
  \/ Tick

Spec == Init /\ [][Next]_vars

\* serveOperations polls at least once a minute, a step of a tick returns, and time
\* passes.
FairSpec == Spec /\ WF_vars(Tick) /\ \A s \in Server : WF_vars(Step(s))

-----------------------------------------------------------------------------
(* Properties.                                                             *)

TypeOK ==
  /\ mode \in Mode /\ active \in Recipe
  /\ event \in [Event -> {"ABSENT", "QUEUED", "PREPARED", "DISPATCHED", "COMPLETE"}]
  /\ lead \in [Event -> 0..MaxLead]
  /\ bound \in [Event -> Recipe \cup {NoRecipe}]
  /\ duty \in [Obligation -> {"ABSENT", "OPEN", "RESOLVED"}]
  /\ term \in [Obligation -> 0..MaxLead]
  /\ run \in [Event -> {"NONE", "RUNNING", "PASS", "FAIL"}]
  /\ recipe \in [Event -> Recipe \cup {NoRecipe}]
  /\ blocked \subseteq Event
  /\ at \in [Server -> {"idle", "announce", "dispatch", "check", "start", "mark", "verdict",
                        "complete"}]
  /\ seen \in [Server -> Mode]
  /\ todo \in [Server -> SUBSET Obligation]
  /\ chosen \in [Server -> Event \cup {NoEvent}]
  /\ disruptions \in 0..MaxDisruptions

\* A run belongs to an admitted event and is driven by the recipe that was bound to
\* the event when it was admitted, although promotions, crashes and other servers
\* come between the two; an event that is past dispatch has its run.
RunBound ==
  \A e \in Event :
    /\ run[e] # "NONE" => event[e] \notin {"ABSENT", "QUEUED"} /\ recipe[e] = bound[e]
    /\ event[e] \in {"DISPATCHED", "COMPLETE"} => run[e] # "NONE"

\* An event is admitted only in a mode that admits it at that moment, not in the one
\* the tick has read.
AdmissionStep ==
  \A e \in Event : event[e] = "QUEUED" /\ event'[e] = "PREPARED" =>
    mode = "ACTIVE" \/ (mode = "DRAINING" /\ e \in Resolving)

AdmissionFollowsMode == [][AdmissionStep]_vars

\* A deadline is announced only while the obligation is open and due, although the
\* selection was made before; a resolution that came in between prevents it.
NoticeStep ==
  \A o \in Obligation :
    event[Notice[o]] = "ABSENT" /\ event'[Notice[o]] # "ABSENT" =>
      duty[o] = "OPEN" /\ term[o] = 0

NoticeJustified == [][NoticeStep]_vars

\* An event only moves forward, and is completed only when its run stands accepted
\* and every gate is open at that moment, not when the server looked.
Rank(status) ==
  CASE status = "ABSENT" -> 0 [] status = "QUEUED" -> 1 [] status = "PREPARED" -> 2
    [] status = "DISPATCHED" -> 3 [] status = "COMPLETE" -> 4

CompletionStep ==
  \A e \in Event :
    /\ Rank(event'[e]) >= Rank(event[e])
    /\ event[e] # "COMPLETE" /\ event'[e] = "COMPLETE" => run[e] = "PASS" /\ e \notin blocked

CompletionJustified == [][CompletionStep]_vars

\* "PAUSED: Admit no new service episodes" (docs/agent-platform/PROJECT_OPERATIONS.md):
\* no run is started while the service is paused.
PausedStep == mode = "PAUSED" => \A e \in Event : run[e] = "NONE" => run'[e] = "NONE"

PausedStartsNothing == [][PausedStep]_vars

\* Every queued event is processed, through crashes and with several servers, unless
\* the operator leaves ACTIVE, a gate stays closed or an episode fails.
EventsServed ==
  \A e \in Event : event[e] = "QUEUED" ~>
    \/ event[e] = "COMPLETE" \/ mode # "ACTIVE" \/ blocked # {}
    \/ \E d \in Event : run[d] = "FAIL"

\* "the service remains available for the next event after that episode finishes"
\* (docs/agent-platform/PROJECT_OPERATIONS.md): a queued event is admitted in the end.
NextEventAdmitted ==
  \A e \in Event : event[e] = "QUEUED" ~> event[e] # "QUEUED"
=============================================================================
