--------------------------- MODULE PrepaidAccount ---------------------------
(* What the wallet component promises its callers, with no sessions, no
   webhooks and no retries: a prepaid balance per branch that a top-up
   credits at most once, that an order's fee debits once and credits back
   at most once, and that an administrator can correct but never overdraw.
   WalletLedger is shown to implement it. *)
EXTENDS Integers

CONSTANTS Branches, Intents, Orders, Adjustments,
          BranchOf,       \* the branch each intent, order and adjustment is about
          Amounts,        \* what a top-up may be for
          FeeOf,          \* the platform fee of each order
          DeltaOf,        \* the signed amount of each adjustment
          ActivationMin   \* ACTIVATION_MIN_CENTAVOS

VARIABLES balance, activated, credited, orderFee, adjusted

vars == <<balance, activated, credited, orderFee, adjusted>>

Init ==
  /\ balance = [b \in Branches |-> 0]
  /\ activated = {}
  /\ credited = {}
  /\ orderFee = [o \in Orders |-> "owed"]
  /\ adjusted = {}

Move(b, delta) == balance' = [balance EXCEPT ![b] = @ + delta]

\* A top-up is credited once, and the first to reach the onboarding minimum
\* activates the account for good.
TopUp(i) ==
  /\ i \notin credited
  /\ credited' = credited \union {i}
  /\ \E a \in Amounts :
       /\ Move(BranchOf[i], a)
       /\ activated' = IF balance[BranchOf[i]] + a >= ActivationMin
                       THEN activated \union {BranchOf[i]} ELSE activated
  /\ UNCHANGED <<orderFee, adjusted>>

\* A fee may push the balance below zero: the pickup it is charged for is done.
ChargeFee(o) ==
  /\ orderFee[o] = "owed"
  /\ orderFee' = [orderFee EXCEPT ![o] = "consumed"]
  /\ Move(BranchOf[o], -FeeOf[o])
  /\ UNCHANGED <<activated, credited, adjusted>>

ReturnFee(o) ==
  /\ orderFee[o] = "consumed"
  /\ orderFee' = [orderFee EXCEPT ![o] = "reversed"]
  /\ Move(BranchOf[o], FeeOf[o])
  /\ UNCHANGED <<activated, credited, adjusted>>

Adjust(a) ==
  /\ a \notin adjusted
  /\ balance[BranchOf[a]] + DeltaOf[a] >= 0
  /\ adjusted' = adjusted \union {a}
  /\ Move(BranchOf[a], DeltaOf[a])
  /\ UNCHANGED <<activated, credited, orderFee>>

Next ==
  \/ \E i \in Intents : TopUp(i)
  \/ \E o \in Orders : ChargeFee(o) \/ ReturnFee(o)
  \/ \E a \in Adjustments : Adjust(a)

Spec == Init /\ [][Next]_vars
=============================================================================
