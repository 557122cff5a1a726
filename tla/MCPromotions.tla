---------------------------- MODULE MCPromotions ----------------------------
(* Promotions for TLC: one customer, one branch, whose orders they all are. *)
EXTENDS Promotions, TLC

CONSTANTS c, b

OneCustomer == {c}
OneBranch == {b}
ItsCustomer == [o \in Orders |-> c]
ItsBranch == [o \in Orders |-> b]
Symmetric ==
  Permutations(Handlers) \cup Permutations(Redemptions) \cup Permutations(Orders)
=============================================================================
