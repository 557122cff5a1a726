------------------------- MODULE MCOrderSettlement -------------------------
(* OrderSettlement for TLC: who takes part, and small amounts. *)
EXTENDS OrderSettlement, TLC

CONSTANTS a, b, j

OneCaller == {a}
TwoCallers == {a, b}
OneSweep == {j}
LightOrHeavy == {10, 30}
OneSurcharge == {20}
Symmetric == Permutations(Callers)
=============================================================================
