------------------------------ MODULE PriceList -----------------------------
(* What a service costs: the platform's template and a home washer's own
   offering within its guardrails, or a laundry shop's own service; the
   fees of the two legs, the express fee and the commission; the quote a
   customer sees and the order she then places.

   Nothing here is read or written in a transaction.  A quote and an order
   each read five documents one after the other, in the same order, and
   compute the price each in their own code.

   Amounts are centavos; a weight is a number of half kilos, and weights
   of a price list are kilos. *)
EXTENDS Integers, FiniteSets

CONSTANTS
  FirstTemplates, Offers, NoOffer, PriceBaskets, NoBasket,
  TemplatePatches,     \* updates: the field that changes and its value, or null
  Null,                \* a field the client sends as null
  FirstLegs, LegFees, NoFee,  \* fees of the legs; a field a provider left alone
  Ceilings, FirstCeilings, Commissions, FirstCommissions,
  DefaultPremiumFee, DefaultExpressFee,
  PriceEditors,        \* requests that change prices
  MostItems, MostPrice,  \* above any count and any price: no limit is set
  MaxPriceChanges      \* bound

PricingModels == {"kg", "load", "item", "base"}

(* How a field of a template that holds null is read: no limit, no capacity,
   no charging method, platformPricingOf's base and excess; and a template
   without a pricing control is not PLATFORM_FIXED. *)
AsNull == [price |-> 0, size |-> 0, excess |-> 0, minKg |-> 0, min |-> 0, max |-> MostPrice,
           control |-> "washer", model |-> "base", allowed |-> {}]
LegAmounts == [base : Int, premium : Int \cup {NoFee}]

(* What the inputs of the API allow: weights, counts, amounts and percentages
   are not negative, limits of a quantity start at one, the weight of a shop's
   service has no minimum, and a template is coherent when it is created. *)
ASSUME PriceNumbersFit ==
  /\ FirstTemplates \subseteq
       [active : BOOLEAN, control : {"washer", "fixed", "shop"}, model : PricingModels, price : Nat,
        size : Nat, excess : Nat, minKg : Nat, min : 0..MostPrice, max : Nat, allowed : SUBSET PricingModels]
  /\ \A t \in FirstTemplates :
       /\ t.control = "shop" => t.minKg = 0
       /\ t.min <= t.max /\ (t.control = "fixed" /\ t.model = "load" => t.size > 0)
  /\ Offers \subseteq [model : PricingModels, price : 0..MostPrice, size : Nat, excess : Nat, minKg : Nat,
                      least : Nat \ {0}, most : Nat]
  /\ PriceBaskets \subseteq [weight : Nat, count : Nat, pickup : {"customer", "free", "paid"},
                            return : {"customer", "free", "paid"}, express : BOOLEAN]
  /\ \A p \in TemplatePatches :
       \/ p.field \in {"price", "size", "excess", "minKg", "max"} /\ p.value \in Nat
       \/ p.field = "min" /\ p.value \in 0..MostPrice
       \/ p.field = "control" /\ p.value \in {"washer", "fixed"}
       \/ p.field = "model" /\ p.value \in PricingModels
       \/ p.field = "allowed" /\ p.value \subseteq PricingModels
       \/ p.field \in DOMAIN AsNull /\ p.value = Null
  /\ Null \notin Nat
  /\ NoBasket \notin PriceBaskets
  /\ LegFees \subseteq LegAmounts /\ NoFee \notin LegAmounts /\ NoFee \notin Int
  /\ FirstLegs \subseteq [pickup : LegAmounts \cup {NoFee}, delivery : LegAmounts \cup {NoFee},
                         expressOn : BOOLEAN, express : Int \cup {NoFee}]
  /\ FirstCeilings \subseteq Ceilings /\ Ceilings \subseteq Nat
  /\ FirstCommissions \subseteq Commissions /\ Commissions \subseteq Nat
  /\ DefaultPremiumFee \in Int /\ DefaultExpressFee \in Int /\ MostItems \in Nat /\ MostPrice \in Nat
  /\ "offer" \notin PriceEditors

VARIABLES
  template, offer,     \* the service, and her own price for it
  legFees, legCeiling, commissionRate,
  prPc, prBasket, prTemplate, prOffer, prRate, prLegs,  \* the quote and the order, in progress
  quoted, placed,      \* what came of them: the basket and its price, part by part
  edPc, edPatch, edOffer,   \* an editor's request in progress
  priceChanges,
  pricesMoved,         \* history: a price changed since the quote began
  templatesCrossed,    \* history: two updates of the template crossed
  capacityNulled,      \* history: the capacity of a load was last written as null
  outrun               \* history: offers, made or being made, checked before the template changed

priceDocs == <<template, offer, legFees, legCeiling, commissionRate>>
priceReads == <<prPc, prBasket, prTemplate, prOffer, prRate, prLegs>>
priceEdits == <<edPc, edPatch, edOffer>>
priceHistory == <<priceChanges, pricesMoved, templatesCrossed, capacityNulled, outrun>>
priceVars == <<priceDocs, priceReads, quoted, placed, priceEdits, priceHistory>>

Pricers == {"quote", "order"}
NoPrice == [basket |-> NoBasket, model |-> "none", price |-> 0, line |-> 0, fee |-> 0, pickup |-> 0, return |-> 0, express |-> 0, ceiling |-> 0]

-----------------------------------------------------------------------------
Over(a, b) == IF a > b THEN a ELSE b
Under(a, b) == IF a < b THEN a ELSE b
PartsOf(n, size) == (n + size - 1) \div size    \* rounded up

(* billableKg, in half kilos. *)
BillableHalves(w, minKg) == Over(w, 2 * minKg)

(* loadsFor: a part load is a load, and so is no weight, or no capacity. *)
LoadsFor(w, capacityKg) == IF capacityKg = 0 THEN 1 ELSE Over(1, PartsOf(w, 2 * capacityKg))

(* roundCentavos, of a number of halves and of a percentage. *)
HalfRounded(n) == (n + 1) \div 2
calculatePlatformFee(subtotal, percent) == (2 * subtotal * percent + 100) \div 200

(* calculateServiceLineTotal. *)
LineTotal(p, w, n) ==
  CASE p.model = "kg" -> HalfRounded(BillableHalves(w, p.minKg) * p.price)
    [] p.model = "load" -> LoadsFor(w, p.size) * p.price
    [] p.model = "item" -> n * p.price
    [] p.model = "base" -> p.price + HalfRounded(Over(0, BillableHalves(w, p.minKg) - 2 * p.size) * p.excess)

(* resolveWasherPricing: a template fixed by the platform outranks an offer
   that is still there.  A shop's service is kept in the same shape, with
   control "shop": buildServiceLineSnapshot takes its own price. *)
PlatformPricing(t) == [model |-> t.model, price |-> t.price, size |-> t.size, excess |-> t.excess,
                       minKg |-> t.minKg, least |-> 1, most |-> MostItems]
Resolved(t, f) == IF t.control # "washer" \/ f = NoOffer THEN PlatformPricing(t) ELSE f

(* assertQuantityWithinOfferingLimits, asked of home washers only. *)
QuantityWithin(t, f, n) ==
  t.control # "shop" /\ Resolved(t, f).model = "item" => n >= Resolved(t, f).least /\ n <= Resolved(t, f).most

(* assertOfferingAllowed, and what setOffering keeps of the offer. *)
OfferAllowed(t, f) ==
  /\ t.control = "washer" /\ f.model \in t.allowed
  /\ f.price > 0 /\ f.price >= t.min /\ f.price <= t.max
  /\ f.model = "load" => f.size > 0
  /\ f.model = "item" => f.least <= f.most

KeptOf(f) == [f EXCEPT !.size = IF f.model \in {"load", "base"} THEN @ ELSE 0,
                       !.excess = IF f.model = "base" THEN @ ELSE 0,
                       !.minKg = IF f.model \in {"load", "item"} THEN 0 ELSE @]

(* assertGuardrailsCoherent and assertPlatformPricingComplete. *)
TemplateCoherent(t) ==
  t.min <= t.max /\ (t.control = "fixed" /\ t.model = "load" => t.size > 0)

(* findByIdAndUpdate stores what was sent, null too; what update checks is
   'input.x ?? current.x', for which a null is a field that was not sent. *)
Patched(t, patch) ==
  [t EXCEPT ![patch.field] = IF patch.value = Null THEN AsNull[patch.field] ELSE patch.value]
Merged(t, patch) == IF patch.value = Null THEN t ELSE Patched(t, patch)

-----------------------------------------------------------------------------

clampLegFee(fee, ceiling) == IF fee <= 0 THEN 0 ELSE Under(fee, ceiling)

(* legAmount: an unset premium is the base fee, an unset leg the default. *)
LegAmount(leg, tier) ==
  IF leg = NoFee THEN (IF tier = "paid" THEN DefaultPremiumFee ELSE 0)
  ELSE IF tier = "paid" /\ leg.premium # NoFee THEN leg.premium ELSE leg.base

(* pickupFeeCentavosFor and returnFeeCentavosFor: the customer who comes
   herself pays nothing. *)
LegFee(leg, tier, ceiling) ==
  IF tier = "customer" THEN 0 ELSE clampLegFee(LegAmount(leg, tier), ceiling)

(* resolveTurnaround. *)
ExpressFee(legs, ceiling) ==
  clampLegFee(IF legs.express = NoFee THEN DefaultExpressFee ELSE legs.express, ceiling)

Price(h, ceiling) ==
  LET b == prBasket[h]
      terms == Resolved(prTemplate[h], prOffer[h])
      line == LineTotal(terms, b.weight, b.count) IN
  [basket |-> b, model |-> terms.model, price |-> terms.price, line |-> line, fee |-> calculatePlatformFee(line, prRate[h]),
   pickup |-> LegFee(prLegs[h].pickup, b.pickup, ceiling),
   return |-> LegFee(prLegs[h].delivery, b.return, ceiling),
   express |-> IF b.express THEN ExpressFee(prLegs[h], ceiling) ELSE 0,
   ceiling |-> ceiling]
TotalOf(p) == p.line + p.fee + p.pickup + p.return + p.express

PriceInit ==
  /\ template \in FirstTemplates /\ offer = NoOffer
  /\ legFees \in FirstLegs /\ legCeiling \in FirstCeilings /\ commissionRate \in FirstCommissions
  /\ prPc = [h \in Pricers |-> "idle"] /\ prBasket = [h \in Pricers |-> NoBasket]
  /\ prTemplate = [h \in Pricers |-> NoOffer] /\ prOffer = [h \in Pricers |-> NoOffer]
  /\ prRate = [h \in Pricers |-> 0] /\ prLegs = [h \in Pricers |-> NoFee]
  /\ quoted = NoPrice /\ placed = NoPrice
  /\ edPc = [e \in PriceEditors |-> "idle"]
  /\ edPatch = [e \in PriceEditors |-> NoFee] /\ edOffer = [e \in PriceEditors |-> NoOffer]
  /\ priceChanges = 0 /\ pricesMoved = FALSE /\ templatesCrossed = FALSE /\ capacityNulled = FALSE
  /\ outrun = {}

-----------------------------------------------------------------------------
PriceGoto(h, at) == prPc' = [prPc EXCEPT ![h] = at]

(* Both quoteOrder and createOrder begin here; the order after the quote. *)
AskPrice(h, b) ==
  /\ prPc[h] = "idle"
  /\ h = "order" => prPc["quote"] = "end" /\ quoted.basket \in {NoBasket, b}
  /\ PriceGoto(h, "template") /\ prBasket' = [prBasket EXCEPT ![h] = b]
  /\ UNCHANGED <<priceDocs, prTemplate, prOffer, prRate, prLegs, quoted, placed, priceEdits, priceHistory>>

(* buildServiceLineSnapshot: the template, then the offering. *)
ReadTemplate(h) ==
  /\ prPc[h] = "template"
  /\ IF template.active
     THEN PriceGoto(h, "offer") /\ prTemplate' = [prTemplate EXCEPT ![h] = template]
     ELSE PriceGoto(h, "end") /\ UNCHANGED prTemplate
  /\ UNCHANGED <<priceDocs, prBasket, prOffer, prRate, prLegs, quoted, placed, priceEdits, priceHistory>>

ReadOffer(h) ==
  /\ prPc[h] = "offer"
  /\ IF QuantityWithin(prTemplate[h], offer, prBasket[h].count)
     THEN PriceGoto(h, "rate") /\ prOffer' = [prOffer EXCEPT ![h] = offer]
     ELSE PriceGoto(h, "end") /\ UNCHANGED prOffer
  /\ UNCHANGED <<priceDocs, prBasket, prTemplate, prRate, prLegs, quoted, placed, priceEdits, priceHistory>>

ReadRate(h) ==
  /\ prPc[h] = "rate" /\ PriceGoto(h, "legs")
  /\ prRate' = [prRate EXCEPT ![h] = commissionRate]
  /\ UNCHANGED <<priceDocs, prBasket, prTemplate, prOffer, prLegs, quoted, placed, priceEdits, priceHistory>>

(* fulfillmentPricingFor: her fees, then the platform's ceiling. *)
ReadLegs(h) ==
  /\ prPc[h] = "legs" /\ PriceGoto(h, "ceiling")
  /\ prLegs' = [prLegs EXCEPT ![h] = legFees]
  /\ UNCHANGED <<priceDocs, prBasket, prTemplate, prOffer, prRate, quoted, placed, priceEdits, priceHistory>>

PriceForget(h) ==
  /\ PriceGoto(h, "end")
  /\ prBasket' = [prBasket EXCEPT ![h] = NoBasket] /\ prTemplate' = [prTemplate EXCEPT ![h] = NoOffer]
  /\ prOffer' = [prOffer EXCEPT ![h] = NoOffer] /\ prRate' = [prRate EXCEPT ![h] = 0]
  /\ prLegs' = [prLegs EXCEPT ![h] = NoFee]

(* quoteOrder: express from a provider who has not enabled it is refused. *)
QuoteOrder ==
  /\ prPc["quote"] = "ceiling" /\ PriceForget("quote")
  /\ quoted' = IF prBasket["quote"].express /\ ~prLegs["quote"].expressOn THEN NoPrice
               ELSE Price("quote", legCeiling)
  /\ UNCHANGED <<priceDocs, placed, priceEdits, priceHistory>>

(* createOrder: and from any home washer. *)
PlaceOrder ==
  /\ prPc["order"] = "ceiling" /\ PriceForget("order")
  /\ placed' = IF prBasket["order"].express /\ (prTemplate["order"].control # "shop" \/ ~prLegs["order"].expressOn) THEN NoPrice
               ELSE Price("order", legCeiling)
  /\ UNCHANGED <<priceDocs, quoted, priceEdits, priceHistory>>

-----------------------------------------------------------------------------
PricesMove == pricesMoved' = (pricesMoved \/ prPc["quote"] # "idle")

EditBegin(e, at) ==
  /\ edPc[e] = "idle" /\ priceChanges < MaxPriceChanges /\ priceChanges' = priceChanges + 1
  /\ edPc' = [edPc EXCEPT ![e] = at]
EditDone(e) ==
  /\ edPc' = [edPc EXCEPT ![e] = "idle"]
  /\ edPatch' = [edPatch EXCEPT ![e] = NoFee] /\ edOffer' = [edOffer EXCEPT ![e] = NoOffer]

(* setOffering: checked against a template that was read before. *)
BeginOffer(e, f) ==
  /\ template.active /\ OfferAllowed(template, f)
  /\ EditBegin(e, "offer") /\ edOffer' = [edOffer EXCEPT ![e] = KeptOf(f)]
  /\ UNCHANGED <<priceDocs, priceReads, quoted, placed, edPatch, pricesMoved, templatesCrossed, capacityNulled, outrun>>

SaveOffer(e) ==
  /\ edPc[e] = "offer" /\ EditDone(e) /\ PricesMove
  /\ offer' = edOffer[e]
  /\ outrun' = (outrun \ {e, "offer"}) \cup (IF e \in outrun THEN {"offer"} ELSE {})
  /\ UNCHANGED <<template, legFees, legCeiling, commissionRate, priceReads, quoted, placed,
                 priceChanges, templatesCrossed, capacityNulled>>

RemoveOffer ==
  /\ offer # NoOffer /\ offer' = NoOffer
  /\ priceChanges < MaxPriceChanges /\ priceChanges' = priceChanges + 1
  /\ PricesMove /\ outrun' = outrun \ {"offer"}
  /\ UNCHANGED <<template, legFees, legCeiling, commissionRate, priceReads, quoted, placed,
                 priceEdits, templatesCrossed, capacityNulled>>

(* Mutant: the patch is checked against the stored template alone. *)
BeginUnmerged(e, patch) ==
  /\ template.control # "shop" /\ TemplateCoherent(template)
  /\ EditBegin(e, "patch") /\ edPatch' = [edPatch EXCEPT ![e] = patch]
  /\ UNCHANGED <<priceDocs, priceReads, quoted, placed, edOffer, pricesMoved, templatesCrossed, capacityNulled, outrun>>

(* update of a template: the merged template is checked, the patch is written;
   the fields that do not change are sent as they are, or not at all. *)
BeginPatch(e, patch) ==
  /\ template.control # "shop" /\ TemplateCoherent(Merged(template, patch))
  /\ EditBegin(e, "patch") /\ edPatch' = [edPatch EXCEPT ![e] = patch]
  /\ UNCHANGED <<priceDocs, priceReads, quoted, placed, edOffer, pricesMoved, templatesCrossed, capacityNulled, outrun>>

WritePatch(e) ==
  /\ edPc[e] = "patch" /\ EditDone(e) /\ PricesMove
  /\ template' = Patched(template, edPatch[e])
  /\ templatesCrossed' = (templatesCrossed \/ \E g \in PriceEditors \ {e} : edPc[g] = "patch")
  /\ capacityNulled' = IF edPatch[e].field = "size" THEN edPatch[e].value = Null ELSE capacityNulled
  /\ outrun' = {g \in PriceEditors : edPc[g] = "offer"} \cup (IF offer = NoOffer THEN {} ELSE {"offer"})
  /\ UNCHANGED <<offer, legFees, legCeiling, commissionRate, priceReads, quoted, placed, priceChanges>>

(* setActive, updateFulfillmentPricing, and what the platform publishes. *)
ChangePrices ==
  /\ priceChanges < MaxPriceChanges /\ priceChanges' = priceChanges + 1 /\ PricesMove
  /\ UNCHANGED <<offer, priceReads, quoted, placed, priceEdits, templatesCrossed, capacityNulled, outrun>>

SetTemplateActive ==
  /\ template' = [template EXCEPT !.active = ~@]
  /\ UNCHANGED <<legFees, legCeiling, commissionRate>> /\ ChangePrices

UpdateFulfillmentPricing(leg, fee) ==
  /\ legFees' = [legFees EXCEPT ![leg] = fee]
  /\ UNCHANGED <<template, legCeiling, commissionRate>> /\ ChangePrices

PlatformPublishes ==
  /\ \/ legCeiling' \in Ceilings /\ UNCHANGED commissionRate
     \/ commissionRate' \in Commissions /\ UNCHANGED legCeiling
  /\ UNCHANGED <<template, legFees>> /\ ChangePrices

PriceNext ==
  \/ \E h \in Pricers :
       \/ \E b \in PriceBaskets : AskPrice(h, b)
       \/ ReadTemplate(h) \/ ReadOffer(h) \/ ReadRate(h) \/ ReadLegs(h)
  \/ QuoteOrder \/ PlaceOrder
  \/ \E e \in PriceEditors :
       \/ \E f \in Offers : BeginOffer(e, f) \/ \E patch \in TemplatePatches : BeginPatch(e, patch)
       \/ SaveOffer(e) \/ WritePatch(e)
  \/ RemoveOffer \/ SetTemplateActive \/ PlatformPublishes
  \/ \E leg \in {"pickup", "delivery"}, fee \in LegFees : UpdateFulfillmentPricing(leg, fee)

PriceSpec == PriceInit /\ [][PriceNext]_priceVars

-----------------------------------------------------------------------------
PriceTypeOK ==
  /\ legCeiling \in Ceilings /\ commissionRate \in Commissions
  /\ offer \in {NoOffer} \cup {KeptOf(f) : f \in Offers}
  /\ \A p \in {quoted, placed} : p.basket \in PriceBaskets \cup {NoBasket} /\ TotalOf(p) \in Nat

(* The order costs what the quote said, as long as no price changed since the
   quote was asked for: the two are computed by two pieces of code, each from
   five reads of its own. *)
QuotedIsPlaced ==
  placed # NoPrice /\ quoted # NoPrice /\ ~pricesMoved => TotalOf(placed) = TotalOf(quoted)

(* A home washer's line is free of charge for nobody who has it counted or done
   by the load: only a template priced at nothing, or a basket nobody weighed
   and no minimum bills, comes to nothing. *)
NothingIsFree ==
  placed # NoPrice /\ template.control # "shop" /\ placed.line = 0 =>
    placed.price = 0 \/ (placed.model = "kg" /\ placed.basket.weight = 0)

(* No leg and no turnaround is charged above the platform's ceiling, whatever
   a provider has entered, and the customer who travels pays nothing for it. *)
FeesWithinCeiling ==
  \A p \in {quoted, placed} :
    p # NoPrice =>
      /\ p.pickup <= p.ceiling /\ p.return <= p.ceiling /\ p.express <= p.ceiling
      /\ p.basket.pickup = "customer" => p.pickup = 0
      /\ p.basket.return = "customer" => p.return = 0

(* A heavier basket never costs less, under whatever pricing now applies. *)
HeavierNeverCheaper ==
  \A b, c \in PriceBaskets :
    b.weight <= c.weight /\ b.count = c.count =>
      LineTotal(Resolved(template, offer), b.weight, b.count) <= LineTotal(Resolved(template, offer), c.weight, c.count)

(* Her price stays within the guardrails it was checked against, until the
   template changes. *)
OfferWithinGuardrails ==
  offer # NoOffer /\ "offer" \notin outrun =>
    /\ template.control = "washer" /\ offer.model \in template.allowed
    /\ template.min <= offer.price /\ offer.price <= template.max

(* The guardrails are never inverted, and a load the platform prices has a
   capacity, unless two updates of the template crossed; but a capacity that
   is sent as null is checked as the one before and stored as null, and every
   basket is then a single load.  update. *)
TemplateStaysCoherent ==
  ~templatesCrossed =>
    /\ template.min <= template.max
    /\ template.control = "fixed" /\ template.model = "load" => template.size > 0 \/ capacityNulled

(* The price a customer is quoted is the one she places, by two computations;
   nothing is free, nothing heavier is cheaper, fees and offers stay within
   their limits, and the template they hang on stays coherent. *)
PricesAreSound ==
  /\ PriceTypeOK
  /\ QuotedIsPlaced
  /\ NothingIsFree
  /\ FeesWithinCeiling
  /\ HeavierNeverCheaper
  /\ OfferWithinGuardrails
  /\ TemplateStaysCoherent

=============================================================================
