---------- MODULE MCStorefront ----------
(* A small storefront: two requests at a time, one rule key, two milestones, two
   orders on two days, four templates with four offers. *)
EXTENDS Storefront, TLC

CONSTANTS r1, r2, o1, o2, k1, m1, m2

Folded == ("Main" :> "main") @@ ("MAIN" :> "main") @@ ("Annex" :> "annex")
OpenedBefore == {<<>>, "b1" :> "Main"}

Interchangeable == Permutations({r1, r2}) \cup Permutations({o1, o2})

Ranks == (m1 :> 1) @@ (m2 :> 2)
MilestoneCaps == (m1 :> 1) @@ (m2 :> 3)
OrdersFor == (m1 :> 0) @@ (m2 :> 1)
Seed == [base |-> 1, safety |-> 2]

TemplateOf(control, model, size) ==
  [active |-> TRUE, control |-> control, model |-> model, price |-> 3, size |-> size, excess |-> 1,
   minKg |-> IF control = "shop" THEN 0 ELSE 1, min |-> 2, max |-> 5, allowed |-> {"kg", "load", "base", "item"}]
TemplatesAtFirst ==
  {TemplateOf("washer", "base", 2), TemplateOf("fixed", "load", 2),
   TemplateOf("washer", "item", 0), TemplateOf("shop", "base", 2)}

OfferOf(model, price, size) ==
  [model |-> model, price |-> price, size |-> size, excess |-> 1, minKg |-> 0, least |-> 1, most |-> 2]
OffersMade == {OfferOf("kg", 3, 0), OfferOf("load", 5, 2), OfferOf("base", 2, 1), OfferOf("kg", 1, 0)}

Basket(weight, count, pickup, return, express) ==
  [weight |-> weight, count |-> count, pickup |-> pickup, return |-> return, express |-> express]
Baskets ==
  {Basket(0, 0, "free", "customer", FALSE), Basket(5, 1, "paid", "free", FALSE),
   Basket(5, 0, "free", "paid", TRUE)}

Patches ==
  {[field |-> "min", value |-> 4], [field |-> "max", value |-> 3],
   [field |-> "control", value |-> "fixed"], [field |-> "size", value |-> 0],
   [field |-> "size", value |-> Null], [field |-> "min", value |-> Null]}
LegsAtFirst ==
  {[pickup |-> NoFee, delivery |-> [base |-> 2, premium |-> NoFee], expressOn |-> TRUE, express |-> NoFee]}
FeesEntered == {[base |-> 9, premium |-> 1]}
========================================
