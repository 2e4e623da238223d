------------------------- MODULE MCFoundryScheduler -------------------------
(* Small instances of FoundryScheduler for TLC.                            *)
EXTENDS FoundryScheduler, TLC

CONSTANTS a, b, c, k1, k2, x, j, i, pa, pb

\* a and its children write pa; b reads it; c needs a and writes pb.  k1 and k2 are
\* children a may ask for, k2 after k1; x claims more than a may delegate.  j and i
\* are read-only discriminators, j one with a large context and i one that looks at
\* the outcome of c.
MCDep == [t \in Task |-> CASE t = c -> {a} [] t = k2 -> {k1} [] t = i -> {c} [] OTHER -> {}]
MCWrite == [t \in Task |-> CASE t \in {a, k1, k2} -> {pa} [] t \in {c, x} -> {pb}
                             [] OTHER -> {}]
MCRead == [t \in Task |-> IF t \in {b, j} THEN {pa} ELSE {}]
MCCovers == {<<pa, pa>>, <<pb, pb>>}
MCBudget == [P \in SUBSET Task |-> [t \in Task |-> IF t = j THEN 2 ELSE 1]]
MCBatch == [t \in Task |-> IF t = a THEN {{k1}, {k1, k2}, {k2}, {x}} \cap SUBSET Task
                           ELSE {}]

\* Coordinators are told apart by nothing but their leases.
Symmetry == Permutations(Coordinator)
=============================================================================
