------------------------- MODULE MCOperationsActions -------------------------
(* Small instances of OperationsActions for TLC.                           *)
EXTENDS OperationsActions, TLC

CONSTANTS k1, k2, c1, c2, r1, r2, gold

\* Two workers of two runs; the two actions cannot both be reserved at their bound.
MCRunOf == (c1 :> r1) @@ (c2 :> r2)
MCLimit == gold :> 2
MCReserve == (k1 :> (gold :> 1)) @@ (k2 :> (gold :> 2))
=============================================================================
