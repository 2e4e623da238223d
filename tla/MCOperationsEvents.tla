-------------------------- MODULE MCOperationsEvents --------------------------
(* Small instances of OperationsEvents for TLC.                            *)
EXTENDS OperationsEvents, TLC

CONSTANTS e1, e2, n, o, s1, s2, p1, p2

\* n announces that the obligation o is due.
MCNotice == [d \in Obligation |-> n]
=============================================================================
