---------------------------- MODULE RecipeEvolution ----------------------------
(***************************************************************************)
(* How a recipe succeeds another (evolution.ts, and the recipes of         *)
(* store.ts): a candidate is proposed as a child of the active recipe, an  *)
(* evaluation measures both in pairs of runs, and an operator promotes the *)
(* candidate that it admits, or rolls back.                                *)
(*                                                                         *)
(* Any number of evaluators work on one evaluation, each from a copy it    *)
(* has loaded, and may stop anywhere: no transaction spans the work.  The  *)
(* runs of a pair are bound to the evaluation beforehand, so whoever       *)
(* measures them finds what was measured before; a pair is kept here as    *)
(* the outcome of its two runs.                                            *)
(***************************************************************************)
EXTENDS Naturals, Sequences, FiniteSets, SequencesExt

CONSTANTS
  Recipe, Root,  \* Root is the recipe the store was initialised with
  Evaluation,
  Evaluator,
  Repetitions,   \* protocol.repetitions
  Unknown, None

VARIABLES
  active,    \* the recipe in force
  parent,    \* recipes.parent; Unknown for a recipe that was never proposed
  admitted,  \* recipes that may be rolled back to
  record,    \* evaluations
  promotions,\* per evaluation, the events "candidate.promoted" that name it
  outcome,   \* what the runs of a pair have measured
  memory     \* the evaluation that an evaluator has loaded, or is about to create

vars == <<active, parent, admitted, record, promotions, outcome, memory>>

Outcomes == {"better", "worse", "failed"}
Pairs    == UNION {[1..n -> Outcomes] : n \in 0..Repetitions}
Row      == [baseline : Recipe, candidate : Recipe, pairs : Pairs, promoted : BOOLEAN]
Copy     == [id : Evaluation, step : {"create", "measure", "save"},
             baseline : Recipe, candidate : Recipe, pairs : Pairs]

Init ==
  /\ active = Root
  /\ parent = [r \in Recipe |-> IF r = Root THEN None ELSE Unknown]
  /\ admitted = {Root}
  /\ record = [e \in Evaluation |-> None]
  /\ promotions = [e \in Evaluation |-> 0]
  /\ outcome = [e \in Evaluation |-> [i \in 1..Repetitions |-> None]]
  /\ memory = [v \in Evaluator |-> None]

-----------------------------------------------------------------------------
Count(pairs, what) == Cardinality({i \in DOMAIN pairs : pairs[i] = what})

\* score: both arms of every pair pass, and the candidate gains overall.
Score(pairs) ==
  IF Len(pairs) # Repetitions THEN "UNKNOWN"
  ELSE IF Count(pairs, "failed") > 0 THEN "REJECT"
  ELSE IF Count(pairs, "better") > Count(pairs, "worse") THEN "ADMIT" ELSE "REJECT"

Forget(v) == memory' = [memory EXCEPT ![v] = None]

-----------------------------------------------------------------------------
\* Store.propose: a recipe keeps the parent it was first proposed under.
Propose(r) ==
  /\ r # active
  /\ parent[r] \in {Unknown, active}
  /\ parent' = [parent EXCEPT ![r] = active]
  /\ UNCHANGED <<active, admitted, record, promotions, outcome, memory>>

\* evaluate: the baseline is read before the evaluation is recorded.
Choose(v, e, r) ==
  /\ memory[v] = None /\ record[e] = None
  /\ ~ \E w \in Evaluator : memory[w] # None /\ memory[w].id = e
  /\ parent[r] = active
  /\ memory' = [memory EXCEPT ![v] = [id |-> e, step |-> "create", baseline |-> active,
                                      candidate |-> r, pairs |-> <<>>]]
  /\ UNCHANGED <<active, parent, admitted, record, promotions, outcome>>

Create(v) ==
  /\ memory[v] # None /\ memory[v].step = "create"
  /\ record' = [record EXCEPT ![memory[v].id] =
       [baseline |-> memory[v].baseline, candidate |-> memory[v].candidate,
        pairs |-> <<>>, promoted |-> FALSE]]
  /\ Forget(v)
  /\ UNCHANGED <<active, parent, admitted, promotions, outcome>>

\* resumeEvaluation: an incomplete evaluation is loaded while its baseline is active.
Resume(v, e) ==
  /\ memory[v] = None /\ record[e] # None
  /\ record[e].baseline = active /\ Len(record[e].pairs) < Repetitions
  /\ memory' = [memory EXCEPT ![v] =
       [id |-> e, step |-> "measure", baseline |-> record[e].baseline,
        candidate |-> record[e].candidate, pairs |-> record[e].pairs]]
  /\ UNCHANGED <<active, parent, admitted, record, promotions, outcome>>

\* The next pair is measured, or found measured, if the baseline is still active.
Measure(v, o) ==
  /\ memory[v] # None /\ memory[v].step = "measure"
  /\ LET e == memory[v].id
         i == Len(memory[v].pairs) + 1
     IN  IF active # memory[v].baseline
         THEN Forget(v) /\ UNCHANGED outcome
         ELSE /\ outcome[e][i] \in {None, o}
              /\ outcome' = [outcome EXCEPT ![e][i] = o]
              /\ memory' = [memory EXCEPT ![v].step = "save"]
  /\ UNCHANGED <<active, parent, admitted, record, promotions>>

\* The row is the one that was loaded, and its receipt has not been consumed.
Unchanged(v) ==
  LET row == record[memory[v].id]
  IN  row.pairs = memory[v].pairs /\ ~row.promoted

\* save: compare and swap; whoever comes second is told to reload.
Save(v) ==
  /\ memory[v] # None /\ memory[v].step = "save"
  /\ LET e     == memory[v].id
         pairs == Append(memory[v].pairs, outcome[e][Len(memory[v].pairs) + 1])
     IN  IF Unchanged(v)
         THEN /\ record' = [record EXCEPT ![e].pairs = pairs]
              /\ memory' = [memory EXCEPT ![v] =
                   IF Len(pairs) < Repetitions
                   THEN [@ EXCEPT !.step = "measure", !.pairs = pairs] ELSE None]
         ELSE Forget(v) /\ UNCHANGED record
  /\ UNCHANGED <<active, parent, admitted, promotions, outcome>>

\* The evaluator is paused, or dies.
Stop(v) ==
  /\ memory[v] # None
  /\ Forget(v)
  /\ UNCHANGED <<active, parent, admitted, record, promotions, outcome>>

-----------------------------------------------------------------------------
\* Mutant of Current: a receipt may be used again.
CurrentReusable(e) == active = record[e].baseline

\* The candidate succeeds the recipe it was measured against, once.
Current(e) == ~record[e].promoted /\ active = record[e].baseline

\* promote; a repeated call finds the candidate active and changes nothing.
Promote(e) ==
  /\ record[e] # None
  /\ Score(record[e].pairs) = "ADMIT"
  /\ Current(e)
  /\ active' = record[e].candidate
  /\ admitted' = admitted \cup {record[e].candidate}
  /\ record' = [record EXCEPT ![e].promoted = TRUE]
  /\ promotions' = [promotions EXCEPT ![e] = @ + 1]
  /\ UNCHANGED <<parent, outcome, memory>>

\* rollback, to any recipe that was ever in force.
Rollback(r) ==
  /\ r \in admitted
  /\ active' = r
  /\ UNCHANGED <<parent, admitted, record, promotions, outcome, memory>>

-----------------------------------------------------------------------------
Next ==
  \/ \E r \in Recipe : Propose(r) \/ Rollback(r)
  \/ \E v \in Evaluator, e \in Evaluation : Resume(v, e) \/ \E r \in Recipe : Choose(v, e, r)
  \/ \E v \in Evaluator : Create(v) \/ Save(v) \/ Stop(v) \/ \E o \in Outcomes : Measure(v, o)
  \/ \E e \in Evaluation : Promote(e)

Spec == Init /\ [][Next]_vars

-----------------------------------------------------------------------------
(* Properties.                                                             *)

\* The first recipe is one, and nothing recorded is mistaken for nothing.
EvolutionAssumption ==
  /\ Root \in Recipe /\ Repetitions \in Nat
  /\ None \notin Row /\ None \notin Copy /\ None \notin Outcomes

RecipesOK ==
  active \in Recipe /\ parent \in [Recipe -> Recipe \cup {Unknown, None}] /\ admitted \subseteq Recipe
RecordOK  ==
  record \in [Evaluation -> Row \cup {None}] /\ promotions \in [Evaluation -> Nat]
OutcomeOK == outcome \in [Evaluation -> [1..Repetitions -> Outcomes \cup {None}]]
MemoryOK  == memory \in [Evaluator -> Copy \cup {None}]

TypeOK == RecipesOK /\ RecordOK /\ OutcomeOK /\ MemoryOK

\* "compare-and-swap prevents a stale evaluator from overwriting a newer receipt"
\* (evolution.ts): the pairs of an evaluation are only ever added to, and a receipt that
\* was consumed stays as it is.
PairsKept ==
  \A e \in Evaluation : record[e] # None =>
    /\ record'[e] # None
    /\ IsPrefix(record[e].pairs, record'[e].pairs)
    /\ record[e].promoted => record'[e] = record[e]

EvidenceKept == [][PairsKept]_vars

\* Whatever comes into force is either a recipe that was in force before, to which an
\* operator rolls back, or the candidate of an evaluation: complete, without a failed
\* pair, measured against the very recipe it succeeds, and never promoted before, not
\* even when that recipe is in force again after a rollback.
Earned ==
  LET earned == {e \in Evaluation : promotions'[e] # promotions[e]}
  IN  /\ \A e \in earned :
           /\ promotions[e] = 0 /\ record[e] # None
           /\ record[e].baseline = active /\ record[e].candidate = active'
           /\ admitted' = admitted \cup {active'}
           /\ Len(record[e].pairs) = Repetitions
           /\ \A i \in 1..Repetitions : record[e].pairs[i] # "failed"
      /\ earned = {} => admitted' = admitted /\ active' \in admitted \cup {active}

EarnedSuccession == [][Earned]_vars
=============================================================================
