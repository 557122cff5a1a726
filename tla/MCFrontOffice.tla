---------- MODULE MCFrontOffice ----------
(* A small front office: two requests at a time, one shop of two branches, one
   order with two couriers, two accounts with three phones, one ticket. *)
EXTENDS FrontOffice, TLC

CONSTANTS r1, r2, x1, x2, k1, staff1, owner, customer, agent, p1, b1, b2, a1, a2, f1, f2, f3, t1

Interchangeable == Permutations({r1, r2}) \cup Permutations({x1, x2})

GrantedOnBranch == (staff1 :> (b1 :> {p1} @@ b2 :> {}))
RolesHeld == (a1 :> "customer" @@ a2 :> "washer")
Importance == ("loud" :> 2) @@ ("quiet" :> 1)
Campaign(often, action, until) ==
  [on |-> TRUE, aimed |-> TRUE, from |-> 0, until |-> until, often |-> often, action |-> action,
   promo |-> action = "PROMO", link |-> FALSE]
CampaignsAtFirst ==
  {("loud" :> Campaign("ONCE_EVER", "PROMO", {})) @@ ("quiet" :> Campaign("EVERY_APP_OPEN", "NONE", {})),
   ("loud" :> Campaign("DAILY", "PROMO", {2})) @@ ("quiet" :> Campaign("EVERY_LOGIN", "NONE", {})),
   ("loud" :> Campaign("WEEKLY", "NONE", {})) @@ ("quiet" :> Campaign("ONCE_EVER", "NONE", {}))}
CampaignEdits ==
  {"promo" :> FALSE, "action" :> "PROMO", ("action" :> "DEEP_LINK") @@ ("link" :> TRUE), "on" :> FALSE}

AudiencesPicked == {{"customer"}, {"customer", "washer"}, {"rider"}}
========================================
