-------------------------- MODULE MCProviderRecovery --------------------------
(* Small instances of ProviderRecovery for TLC.                            *)
EXTENDS ProviderRecovery, TLC

CONSTANTS t1, t2

\* The second failed round in a row doubles the pause.
MCBackoff == [f \in 1..MaxFailures |-> IF f = 1 THEN 1 ELSE 2]

\* Tasks are told apart by nothing but their requests.
Symmetry == Permutations(Task)
=============================================================================
