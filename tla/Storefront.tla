---------- MODULE Storefront ----------
(* What is offered, to whom, when and at what price: the platform's fee rules
   and booking policy, the days and places of a washer, prices from template to
   quote and order, the opening of branches, and which providers are shown and bookable.  Each component
   reads the others' only through values that its own module lets change freely,
   so the product has no behaviour that a component alone lacks: `focus` names
   the one that moves, and the others stand. *)
EXTENDS PlatformFees, BookingPolicies, BookingDays, PriceList,
  Marketplace, BranchOpenings

VARIABLE focus   \* the component whose steps are taken

composedVars == <<focus, feeVars, policyVars, slotVars, priceVars, mkVars, brVars>>

(* A component that stands is in one of its initial states. *)
Standing ==
  /\ focus # "prices" =>
       /\ template = CHOOSE t \in FirstTemplates : TRUE
       /\ legFees = CHOOSE l \in FirstLegs : TRUE
       /\ legCeiling = CHOOSE c \in FirstCeilings : TRUE
       /\ commissionRate = CHOOSE c \in FirstCommissions : TRUE
  /\ focus # "market" =>
       /\ mkKind = "washer"
       /\ mkDistance = CHOOSE d \in MkDistances : TRUE
  /\ focus # "branches" => brRow = <<>>

Init ==
  /\ focus \in {"fee", "policy", "days", "prices", "market", "branches"}
  /\ FeeInit
  /\ PolicyInit
  /\ SlotInit
  /\ PriceInit
  /\ MkInit
  /\ BrInit
  /\ Standing

FeeMoves ==
  /\ focus = "fee"
  /\ UNCHANGED <<focus, policyVars, slotVars, priceVars, mkVars, brVars>>
  /\ FeeNext

PolicyMoves ==
  /\ focus = "policy"
  /\ UNCHANGED <<focus, feeVars, slotVars, priceVars, mkVars, brVars>>
  /\ PolicyNext

SlotMoves ==
  /\ focus = "days"
  /\ UNCHANGED <<focus, feeVars, policyVars, priceVars, mkVars, brVars>>
  /\ SlotNext

PriceMoves ==
  /\ focus = "prices"
  /\ UNCHANGED <<focus, feeVars, policyVars, slotVars, mkVars, brVars>>
  /\ PriceNext

MkMoves ==
  /\ focus = "market"
  /\ UNCHANGED <<focus, feeVars, policyVars, slotVars, priceVars, brVars>>
  /\ MkNext

BrMoves ==
  /\ focus = "branches"
  /\ UNCHANGED <<focus, feeVars, policyVars, slotVars, priceVars, mkVars>>
  /\ BrNext

Next ==
  \/ FeeMoves
  \/ PolicyMoves
  \/ SlotMoves
  \/ PriceMoves
  \/ MkMoves
  \/ BrMoves

Spec == Init /\ [][Next]_composedVars
========================================
