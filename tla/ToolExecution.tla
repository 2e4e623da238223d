---------------------------- MODULE ToolExecution ----------------------------
(***************************************************************************)
(* The tool calls of one model response while it streams in and after it   *)
(* (services/tools/StreamingToolExecutor.ts), with the loop of query.ts    *)
(* that hands calls over and collects what they answer.                    *)
(*                                                                         *)
(* Everything runs on one thread.  What an await separates are steps here: *)
(* processQueue waits after each call it starts (`scans'), a result that   *)
(* is yielded may be taken late (`cursor'), a tool goes on when what it    *)
(* waits for has happened (Go).  Go needs the event loop, which the        *)
(* collector leaves no turn as long as it only awaits settled promises     *)
(* (`Turning').                                                            *)
(***************************************************************************)
EXTENDS Integers, Sequences, FiniteSets

CONSTANTS
  Calls,        \* how many tool calls the response holds
  Kind,         \* the tools they may name
  Safe,         \* those whose isConcurrencySafe answers true
  Shell,        \* Bash, whose errors cancel its siblings
  Cancellable,  \* those whose interruptBehavior is 'cancel'
  Unknown,      \* a name that is no tool
  MaxProgress   \* bound: progress messages of all calls

VARIABLES
  kind,     \* kind[i]: the tool that call i names
  status,   \* TrackedTool.status, "absent" before addTool
  answers,  \* TrackedTool.results: the tool_result blocks among them
  progress, \* pendingProgress, a count
  shown,    \* progress messages so far, all calls together
  failed,   \* calls whose own error is among their answers (thisToolErrored)
  cascade,  \* hasErrored
  signal,   \* the reason of the query's abort, "none" before
  scans,    \* where suspended loops of processQueue go on
  at,       \* what the collector does
  cursor,   \* where its getCompletedResults, or its own processQueue, goes on
  awaited,  \* the calls it waits for
  emitted   \* the calls whose results were yielded, in that order

tools == <<kind, status, answers, progress, shown, failed, cascade>>
collector == <<at, cursor, awaited, emitted>>
vars  == <<tools, signal, scans, collector>>

Call == 1..Calls

\* A name that is no tool counts as safe, is not Bash and is not cancelled.
ExecutorAssumption ==
  /\ Calls \in Nat \ {0} /\ MaxProgress \in Nat
  /\ Safe \subseteq Kind /\ Shell \subseteq Kind /\ Cancellable \subseteq Kind
  /\ Unknown \in Safe \ (Shell \cup Cancellable)

Init ==
  /\ kind \in [Call -> Kind]
  /\ status = [i \in Call |-> "absent"]
  /\ answers = [i \in Call |-> <<>>]
  /\ progress = [i \in Call |-> 0] /\ shown = 0
  /\ failed = {} /\ cascade = FALSE
  /\ signal = "none"
  /\ scans = {}
  /\ at = "stream" /\ cursor = 1 /\ awaited = {} /\ emitted = <<>>

-----------------------------------------------------------------------------
(* Concurrency control.                                                    *)

IsSafe(i) == kind[i] \in Safe
Executing(st) == {i \in Call : st[i] = "executing"}

\* Mutant of CanExecute: a safe call may join whatever is executing.
CanExecuteSafe(st, i) == Executing(st) = {} \/ IsSafe(i)

\* canExecuteTool: alone, or safe among safe ones.
CanExecute(st, i) == Executing(st) = {} \/ (IsSafe(i) /\ \A j \in Executing(st) : IsSafe(j))

\* getAbortReason.  A new message spares the calls that cannot be cancelled.
Aborted(i) ==
  \/ at = "discarded" \/ cascade \/ signal = "abort"
  \/ signal = "interrupt" /\ kind[i] \in Cancellable

\* A loop of processQueue comes to the first queued call.  One that may not start ends
\* it: if it is safe, an exclusive call is executing, for which all the others wait too.
Queued(st, p) == {i \in p..Calls : st[i] = "queued"}
First(S)      == CHOOSE i \in S : \A j \in S : i <= j
Starts(st, p) == Queued(st, p) # {} /\ CanExecute(st, First(Queued(st, p)))

\* executeTool up to its first await: the answer of an aborted call is made up at once.
\* A completed call has processQueue run again; `rest' are the other loops.
Start(st, i, rest) ==
  IF Aborted(i)
  THEN /\ status' = [st EXCEPT ![i] = "completed"]
       /\ answers' = [answers EXCEPT ![i] = Append(@, "cancelled")]
       /\ scans' = rest \cup {1}
  ELSE /\ status' = [st EXCEPT ![i] = "executing"]
       /\ scans' = rest
       /\ UNCHANGED answers

\* A suspended loop of processQueue goes on.
Scan(p) ==
  /\ p \in scans
  /\ IF Starts(status, p)
     THEN LET i == First(Queued(status, p)) IN Start(status, i, (scans \ {p}) \cup {i + 1})
     ELSE scans' = scans \ {p} /\ UNCHANGED <<status, answers>>
  /\ UNCHANGED <<kind, progress, shown, failed, cascade, signal, collector>>

-----------------------------------------------------------------------------
(* A call that executes: collectResults over the updates of runToolUse,    *)
(* which answers once and may report progress before.                      *)

\* The collector or a loop of processQueue awaits what is settled: nothing else has a
\* turn, neither the I/O of a tool nor the stream or the user.
Turning == at = "drain" \/ (at = "rest" /\ cursor = 1) \/ scans # {}

Goes(i) == status[i] = "executing" /\ ~Turning

Complete(i) ==
  /\ status' = [status EXCEPT ![i] = "completed"]
  /\ scans' = scans \cup {1}

\* An update arrives after the turn was aborted by something else than this call.
Cancel(i) ==
  /\ Goes(i) /\ Aborted(i) /\ i \notin failed
  /\ answers' = [answers EXCEPT ![i] = Append(@, "cancelled")]
  /\ Complete(i)
  /\ UNCHANGED <<kind, progress, shown, failed, cascade, signal, collector>>

Report(i) ==
  /\ Goes(i) /\ ~Aborted(i) /\ answers[i] = <<>> /\ shown < MaxProgress
  /\ shown' = shown + 1
  /\ progress' = [progress EXCEPT ![i] = @ + 1]
  /\ UNCHANGED <<kind, status, answers, failed, cascade, signal, scans, collector>>

\* Only the error of a Bash call cancels its siblings.
Answer(i) ==
  /\ Goes(i) /\ ~Aborted(i) /\ answers[i] = <<>>
  /\ \/ answers' = [answers EXCEPT ![i] = <<"result">>] /\ UNCHANGED <<failed, cascade>>
     \/ /\ answers' = [answers EXCEPT ![i] = <<"error">>]
        /\ failed' = failed \cup {i}
        /\ cascade' = (cascade \/ kind[i] \in Shell)
  /\ UNCHANGED <<kind, status, progress, shown, signal, scans, collector>>

End(i) ==
  /\ Goes(i) /\ answers[i] # <<>>
  /\ Complete(i)
  /\ UNCHANGED <<kind, answers, progress, shown, failed, cascade, signal, collector>>

Go(i) == Cancel(i) \/ Report(i) \/ Answer(i) \/ End(i)

-----------------------------------------------------------------------------
(* The query: it streams, collects what is there, and drains the rest.     *)

\* addTool, for the next call of the response.
Receive(i) ==
  /\ at = "stream" /\ signal = "none" /\ ~Turning
  /\ status[i] = "absent" /\ \A j \in 1..i-1 : status[j] # "absent"
  /\ IF kind[i] = Unknown
     THEN /\ status' = [status EXCEPT ![i] = "completed"]
          /\ answers' = [answers EXCEPT ![i] = <<"error">>]
          /\ UNCHANGED scans
     ELSE LET st == [status EXCEPT ![i] = "queued"]
              h  == First(Queued(st, 1))
          IN  IF Starts(st, 1) THEN Start(st, h, scans \cup {h + 1})
              ELSE status' = st /\ UNCHANGED <<answers, scans>>
  /\ at' = "emit" /\ cursor' = 1
  /\ UNCHANGED <<kind, progress, shown, failed, cascade, signal, awaited, emitted>>

\* getCompletedResults passes calls that are queued or yielded and safe ones that
\* execute.  It stops for progress and for results, and ends at an exclusive call.
Stops(c) == {i \in c..Calls :
  progress[i] > 0 \/ status[i] = "completed" \/ (status[i] = "executing" /\ ~IsSafe(i))}

\* Mutant of Yielding: any call that executes ends the iteration.
StopsAny(c) == {i \in c..Calls : progress[i] > 0 \/ status[i] \in {"completed", "executing"}}
YieldingAny ==
  StopsAny(cursor) # {} /\ LET i == First(StopsAny(cursor)) IN progress[i] > 0 \/ status[i] = "completed"

Yielding ==
  Stops(cursor) # {} /\ LET i == First(Stops(cursor)) IN progress[i] > 0 \/ status[i] = "completed"

\* Other messages of the stream have it look for results as well.
Collect ==
  /\ at = "stream" /\ signal = "none" /\ Stops(1) # {}
  /\ at' = "emit" /\ cursor' = 1
  /\ UNCHANGED <<tools, signal, scans, awaited, emitted>>

Yield ==
  /\ at \in {"emit", "rest"} /\ Yielding
  /\ LET i == First(Stops(cursor)) IN
     IF progress[i] > 0
     THEN /\ progress' = [progress EXCEPT ![i] = @ - 1]
          /\ cursor' = i
          /\ UNCHANGED <<status, emitted>>
     ELSE /\ status' = [status EXCEPT ![i] = "yielded"]
          /\ emitted' = Append(emitted, i)
          /\ cursor' = i + 1
          /\ UNCHANGED progress
  /\ UNCHANGED <<kind, answers, shown, failed, cascade, signal, scans, at, awaited>>

\* The iteration ends.  getRemainingResults waits for a call or for progress if calls
\* execute and nothing is ready; otherwise it turns once more.
Pause ==
  /\ at \in {"emit", "rest"} /\ ~Yielding
  /\ LET idle == /\ Executing(status) # {}
                 /\ \A i \in Call : status[i] # "completed" /\ progress[i] = 0
     IN  /\ at' = IF at = "emit" THEN "stream" ELSE IF idle THEN "wait" ELSE "drain"
         /\ awaited' = IF at = "rest" /\ idle THEN Executing(status) ELSE {}
  /\ cursor' = 1
  /\ UNCHANGED <<tools, signal, scans, emitted>>

EndOfStream ==
  /\ at = "stream" /\ (signal # "none" \/ status[Calls] # "absent")
  /\ at' = "drain" /\ cursor' = 1
  /\ UNCHANGED <<tools, signal, scans, awaited, emitted>>

\* One turn of getRemainingResults: its processQueue, then what is completed.
Drain ==
  /\ at = "drain"
  /\ IF \A i \in Call : status[i] \in {"absent", "yielded"}
     THEN at' = "done" /\ UNCHANGED <<status, answers, scans, cursor>>
     ELSE IF Starts(status, cursor)
     THEN LET i == First(Queued(status, cursor)) IN
          Start(status, i, scans) /\ cursor' = i + 1 /\ UNCHANGED at
     ELSE at' = "rest" /\ cursor' = 1 /\ UNCHANGED <<status, answers, scans>>
  /\ UNCHANGED <<kind, progress, shown, failed, cascade, signal, awaited, emitted>>

Wake ==
  /\ at = "wait"
  /\ (\E i \in awaited : status[i] # "executing") \/ (\E i \in Call : progress[i] > 0)
  /\ at' = "drain" /\ cursor' = 1 /\ awaited' = {}
  /\ UNCHANGED <<tools, signal, scans, emitted>>

\* The user stops the turn, or types on while all that executes can be cancelled.
Interrupt(reason) ==
  /\ signal = "none" /\ at \notin {"done", "discarded"} /\ ~Turning
  /\ reason = "interrupt" =>
       Executing(status) # {} /\ \A i \in Executing(status) : kind[i] \in Cancellable
  /\ signal' = reason
  /\ UNCHANGED <<tools, scans, collector>>

\* The stream fails and the query turns to another response and another executor.
Discard ==
  /\ at = "stream"
  /\ at' = "discarded"
  /\ UNCHANGED <<tools, signal, scans, cursor, awaited, emitted>>

Collector == Yield \/ Pause \/ EndOfStream \/ Drain \/ Wake

Next ==
  \/ \E p \in 1..Calls + 1 : Scan(p)
  \/ \E i \in Call : Go(i) \/ Receive(i)
  \/ Collect \/ Collector \/ Discard
  \/ \E reason \in {"abort", "interrupt"} : Interrupt(reason)

\* Microtasks run, and what the event loop has ready gets its turn; as the steps of the
\* calls are finitely many, it does not matter which call is served first.
Fairness ==
  /\ WF_vars(Collector)
  /\ WF_vars(\E p \in 1..Calls + 1 : Scan(p))
  /\ WF_vars(\E i \in Call : Go(i))

Spec == Init /\ [][Next]_vars
FairSpec == Spec /\ Fairness

-----------------------------------------------------------------------------
\* An exclusive call executes alone, and a call of a known name does not start while an
\* earlier one is queued: what it finds done is what the response had before it.  In a
\* response of known names no call reports before an exclusive one that precedes it; the
\* answers of safe calls may be overtaken.
ExclusiveInOrder ==
  /\ \A i, j \in Executing(status) : i # j => IsSafe(i)
  /\ \A j \in Call : kind[j] # Unknown /\ status[j] \notin {"absent", "queued"} =>
       \A i \in 1..j-1 : status[i] # "queued"
  /\ Unknown \notin {kind[i] : i \in Call} =>
       \A a, b \in DOMAIN emitted : a < b /\ emitted[a] > emitted[b] => IsSafe(emitted[b])

\* Once the response has ended the collector comes to an end, with every call answered,
\* unless a name that is no tool follows an exclusive call: its answer stands ready
\* behind the call that executes, and getRemainingResults turns without ever waiting.
Draining == at = "drain" /\ \A i, j \in Call : i < j /\ kind[j] = Unknown => IsSafe(i)
Drained  == at = "done" /\ \A i \in Call : status[i] = "absent" \/ answers[i] # <<>>

DrainEnds == Draining ~> Drained
=============================================================================
