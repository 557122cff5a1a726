--------------------------- MODULE MCWalletLedger ---------------------------
(* Small instances of WalletLedger: amounts in units, not centavos. *)
EXTENDS WalletLedger

CONSTANTS b1, o1, a1

MCBranches == {b1}
MCOrders == {o1}
MCAdjustments == {a1}
MCBranchOf == [j \in Intents \union {o1, a1} |-> b1]
MCFeeOf == [o \in {o1} |-> 4]
MCDeltaOf == [a \in {a1} |-> -2]
=============================================================================
