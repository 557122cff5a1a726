------------------------ MODULE OrderLifecycleProofs ------------------------
(* What OrderLifecycle does for every number of requests, sweeps and
   couriers and without its bounds' values mattering.

   The argument: every mutation reaches the document through Load, or
   through LoadOnly when it runs no transaction, so the 35 of them are
   reduced once to what they may load (RequestLoads).  The inductive
   invariant then speaks of copies: until a write has gone over a newer
   document, a fresh copy whose version is still the stored one was loaded
   from the stored status and its answer to a hold is still the first one;
   until a late ping, the legs of a copy nobody has overtaken are the
   document's; and late ping or none, a courier is still on the leg such a
   copy sets out on. *)
EXTENDS OrderLifecycle, TLAPS

(* The statuses whose transitions give a leg to somebody or take it away,
   and those in which its courier is on the way. *)
Gives(leg) ==
  IF leg = "pickup" THEN {"pickup_assigned"} ELSE {"return_assigned", "redelivery_scheduled"}
Travels(leg) ==
  IF leg = "pickup" THEN {"pickup_en_route", "pickup_arrived", "pickup_weighed"}
  ELSE {"return_en_route", "return_arrived", "delivered_to_customer"}

(* What a call may bring to its first transaction. *)
GoodEdit(e) ==
  /\ WellTyped(e)
  /\ "hold" \in DOMAIN e /\ e.hold \in Resolved => doc.hold = "pending"
  /\ "surcharges" \in DOMAIN e
       => /\ "hold" \in DOMAIN e /\ e.hold = "approved"
          /\ e.surcharges = doc.surcharges + 1

GoodPlan(t) == t \in Seq(Seq(Status) \ {<<>>}) /\ t # <<>>

(* A call keeps the legs it does not give away, and sets out on a leg only
   in its first transaction and only for the courier who holds it. *)
KeepsLegs(edits) == \A leg \in Legs : leg \in DOMAIN edits => edits[leg] = doc[leg]

MindsLegs(name, edits, txns) ==
  /\ \A leg \in Legs :
       leg \in DOMAIN edits => edits[leg] = doc[leg] \/ Last(txns[1]) \in Gives(leg)
  /\ name # "overrideStatus" =>
       \A leg \in Legs :
         /\ \A i \in 2..Len(txns) : Last(txns[i]) \notin Travels(leg)
         /\ Last(txns[1]) \in Travels(leg) => doc[leg] \in Couriers

Aside == {"rejectAssignment", "updateCourierLocation"}

LoadsWell(h) ==
  \E name, edits, txns :
    /\ Load(h, name, edits, txns) /\ name \notin Aside
    /\ GoodEdit(edits) /\ GoodPlan(txns) /\ MindsLegs(name, edits, txns)

(* What a call without a transaction may bring: legs, with their couriers. *)
LoadsAside(h) ==
  \E name, edits :
    /\ name \in Aside /\ LoadOnly(h, name, edits) /\ GoodEdit(edits) /\ KeepsLegs(edits)
    /\ DOMAIN edits \subseteq Legs /\ \A leg \in DOMAIN edits : edits[leg] \in Couriers

-----------------------------------------------------------------------------
LEMMA NoEditGood == GoodEdit(NoEdit)
  BY DEF GoodEdit, NoEdit, WellTyped

LEMMA MarkedGood ==
  ASSUME TypeOK, NEW e, GoodEdit(e)
  PROVE  GoodEdit(Marked(e))
 <1>1. DOMAIN Marked(e) = Legs \cup DOMAIN e BY DEF Marked
 <1>2. \A f \in DOMAIN Marked(e) : Marked(e)[f] = IF f \in DOMAIN e THEN e[f] ELSE doc[f]
   BY DEF Marked
 <1>3. \A f \in {"inbound", "returnMode", "hold", "surcharges"} :
         f \in DOMAIN Marked(e) => f \in DOMAIN e /\ Marked(e)[f] = e[f]
   BY <1>1, <1>2 DEF Legs
 <1>4. \A leg \in Legs \cap DOMAIN Marked(e) : Marked(e)[leg] \in Assignee
   BY <1>1, <1>2 DEF GoodEdit, WellTyped, TypeOK, Field
 <1>5. DOMAIN Marked(e) \subseteq Field BY <1>1 DEF GoodEdit, WellTyped, Field
 <1>6. WellTyped(Marked(e)) BY <1>3, <1>4, <1>5 DEF GoodEdit, WellTyped
 <1>7. "hold" \in DOMAIN Marked(e) => "hold" \in DOMAIN e /\ Marked(e).hold = e.hold BY <1>3
 <1>8. "surcharges" \in DOMAIN Marked(e)
         => "surcharges" \in DOMAIN e /\ Marked(e).surcharges = e.surcharges
   BY <1>3
 <1>9. "hold" \in DOMAIN e => "hold" \in DOMAIN Marked(e) BY <1>1
 <1> QED BY <1>6, <1>7, <1>8, <1>9 DEF GoodEdit

LEMMA LegsKept ==
  /\ KeepsLegs(NoEdit) /\ KeepsLegs([pickup |-> doc.pickup]) /\ KeepsLegs([return |-> doc.return])
  /\ \A e : DOMAIN e \cap Legs = {} => KeepsLegs(Marked(e))
 <1>1. KeepsLegs(NoEdit) BY DEF KeepsLegs, NoEdit
 <1>2. KeepsLegs([pickup |-> doc.pickup]) BY DEF KeepsLegs, Legs
 <1>3. KeepsLegs([return |-> doc.return]) BY DEF KeepsLegs, Legs
 <1>4. ASSUME NEW e, DOMAIN e \cap Legs = {} PROVE KeepsLegs(Marked(e))
   BY <1>4 DEF KeepsLegs, Marked
 <1> QED BY <1>1, <1>2, <1>3, <1>4

(* Support may set out on any leg; anybody else only for its courier. *)
MaySetOut(name, s) ==
  name = "overrideStatus" \/ \A leg \in Legs : s \in Travels(leg) => doc[leg] \in Couriers

(* A move gives away the legs it changes. *)
MayGive(e, s) ==
  \A leg \in Legs : leg \in DOMAIN e => e[leg] = doc[leg] \/ s \in Gives(leg)

(* A call runs one transaction of one or two moves, or two of one move. *)
LEMMA OneMove ==
  ASSUME NEW s \in Status, NEW name, NEW e, MaySetOut(name, s),
         KeepsLegs(e) \/ MayGive(e, s)
  PROVE  GoodPlan(<<<<s>>>>) /\ MindsLegs(name, e, <<<<s>>>>)
 <1>1. <<s>> \in Seq(Status) \ {<<>>} OBVIOUS
 <1>2. <<<<s>>>>[1] = <<s>> /\ Len(<<<<s>>>>) = 1 OBVIOUS
 <1>3. Last(<<s>>) = s BY DEF Last
 <1>4. MindsLegs(name, e, <<<<s>>>>) BY <1>2, <1>3 DEF MindsLegs, KeepsLegs, MaySetOut, MayGive
 <1> QED BY <1>1, <1>4 DEF GoodPlan

LEMMA TwoMoves ==
  ASSUME NEW s \in Status, NEW u \in Status, NEW name, NEW e, MaySetOut(name, u), KeepsLegs(e)
  PROVE  GoodPlan(<<<<s, u>>>>) /\ MindsLegs(name, e, <<<<s, u>>>>)
 <1>1. <<s, u>> \in Seq(Status) \ {<<>>} OBVIOUS
 <1>2. <<<<s, u>>>>[1] = <<s, u>> /\ Len(<<<<s, u>>>>) = 1 OBVIOUS
 <1>3. Last(<<s, u>>) = u BY DEF Last
 <1>4. MindsLegs(name, e, <<<<s, u>>>>) BY <1>2, <1>3 DEF MindsLegs, KeepsLegs, MaySetOut, MayGive
 <1> QED BY <1>1, <1>4 DEF GoodPlan

LEMMA TwoTransactions ==
  ASSUME NEW s \in Status, NEW u \in Status, NEW name, NEW e, MaySetOut(name, s),
         \A leg \in Legs : u \notin Travels(leg),
         KeepsLegs(e) \/ MayGive(e, s)
  PROVE  GoodPlan(<<<<s>>, <<u>>>>) /\ MindsLegs(name, e, <<<<s>>, <<u>>>>)
 <1>1. <<s>> \in Seq(Status) \ {<<>>} /\ <<u>> \in Seq(Status) \ {<<>>} OBVIOUS
 <1>2. <<<<s>>, <<u>>>>[1] = <<s>> /\ <<<<s>>, <<u>>>>[2] = <<u>> /\ Len(<<<<s>>, <<u>>>>) = 2 OBVIOUS
 <1>3. Last(<<s>>) = s /\ Last(<<u>>) = u BY DEF Last
 <1>4. \A i \in 2..Len(<<<<s>>, <<u>>>>) : Last(<<<<s>>, <<u>>>>[i]) = u BY <1>2, <1>3
 <1>5. MindsLegs(name, e, <<<<s>>, <<u>>>>)
   BY <1>2, <1>3, <1>4 DEF MindsLegs, KeepsLegs, MaySetOut, MayGive
 <1> QED BY <1>1, <1>5 DEF GoodPlan

LEMMA AcceptedIsPlan ==
  ASSUME NEW name
  PROVE  GoodPlan(<<Accepted>>) /\ MindsLegs(name, NoEdit, <<Accepted>>)
 <1>1. CASE doc.inbound = "provider_pickup"
  <2>1. MaySetOut(name, "awaiting_pickup_assignment") BY DEF MaySetOut, Travels
  <2>2. Accepted = <<"accepted_by_provider", "awaiting_pickup_assignment">> BY <1>1 DEF Accepted
  <2> QED BY <2>1, <2>2, TwoMoves, LegsKept, ZenonT(60) DEF Status
 <1>2. CASE doc.inbound # "provider_pickup"
  <2>1. MaySetOut(name, "accepted_by_provider") BY DEF MaySetOut, Travels
  <2>2. Accepted = <<"accepted_by_provider">> BY <1>2 DEF Accepted
  <2> QED BY <2>1, <2>2, OneMove, LegsKept DEF Status
 <1> QED BY <1>1, <1>2

(* Every mutation and every sweep comes to the database through Load. *)
LEMMA RequestLoads ==
  ASSUME TypeOK, NEW h \in Handlers, Request(h) \/ Job(h)
  PROVE  NoteQualityIssue(h) \/ LoadsAside(h) \/ LoadsWell(h)
 <1> USE DEF LoadsWell, Aside
 <1>1. CASE AcceptOrder(h) BY <1>1, NoEditGood, AcceptedIsPlan DEF AcceptOrder
 <1>2. CASE RejectOrder(h)
  <2>0. MaySetOut("rejectOrder", "rejected_by_provider") BY DEF MaySetOut, Travels
  <2>1. GoodPlan(<<<<"rejected_by_provider">>>>)
        /\ MindsLegs("rejectOrder", NoEdit, <<<<"rejected_by_provider">>>>)
    BY <2>0, LegsKept, OneMove DEF Status
  <2> QED BY <1>2, <2>1, NoEditGood DEF RejectOrder
 <1>3. CASE ProposeOrderChange(h)
  <2>0. MaySetOut("proposeOrderChange", "provider_change_proposed") BY DEF MaySetOut, Travels
  <2>1. GoodPlan(<<<<"provider_change_proposed">>>>)
        /\ MindsLegs("proposeOrderChange", NoEdit, <<<<"provider_change_proposed">>>>)
    BY <2>0, LegsKept, OneMove DEF Status
  <2> QED BY <1>3, <2>1, NoEditGood DEF ProposeOrderChange
 <1>4. CASE RespondToProviderChange(h)
  <2>0. MaySetOut("respondToProviderChange", "cancelled") BY DEF MaySetOut, Travels
  <2>1. GoodPlan(<<<<"cancelled">>>>)
        /\ MindsLegs("respondToProviderChange", NoEdit, <<<<"cancelled">>>>)
    BY <2>0, LegsKept, OneMove DEF Status
  <2> QED BY <1>4, <2>1, AcceptedIsPlan, NoEditGood DEF RespondToProviderChange
 <1>5. CASE CancelOrder(h)
  <2>0. MaySetOut("cancelOrder", "cancelled") BY DEF MaySetOut, Travels
  <2>1. GoodPlan(<<<<"cancelled">>>>)
        /\ MindsLegs("cancelOrder", NoEdit, <<<<"cancelled">>>>)
    BY <2>0, LegsKept, OneMove DEF Status
  <2> QED BY <1>5, <2>1, NoEditGood DEF CancelOrder
 <1>6. CASE AssignPickupStaff(h)
  <2>1. PICK c \in Couriers :
          Load(h, "assignPickupStaff", [pickup |-> c], <<<<"pickup_assigned">>>>)
    BY <1>6 DEF AssignPickupStaff
  <2>2. GoodEdit([pickup |-> c]) BY DEF GoodEdit, WellTyped, Field, Legs, Assignee
  <2>3. MayGive([pickup |-> c], "pickup_assigned") BY DEF MayGive, Gives, Legs
  <2>4. MaySetOut("assignPickupStaff", "pickup_assigned") BY DEF MaySetOut, Travels
  <2>5. /\ GoodPlan(<<<<"pickup_assigned">>>>)
        /\ MindsLegs("assignPickupStaff", [pickup |-> c], <<<<"pickup_assigned">>>>)
    BY <2>3, <2>4, OneMove DEF Status
  <2> QED BY <2>1, <2>2, <2>5
 <1> DEFINE Same == Marked(NoEdit)
 <1>same. GoodEdit(Same) /\ KeepsLegs(Same)
  <2>1. DOMAIN NoEdit \cap Legs = {} BY DEF NoEdit
  <2> QED BY <2>1, NoEditGood, MarkedGood, LegsKept
 <1> HIDE DEF Same
 <1>7. CASE StartPickupRoute(h)
  <2>0. MaySetOut("startPickupRoute", "pickup_en_route")
    BY <1>7 DEF StartPickupRoute, CourierCall, MaySetOut, Travels, Legs
  <2>1. GoodPlan(<<<<"pickup_en_route">>>>)
        /\ MindsLegs("startPickupRoute", Same, <<<<"pickup_en_route">>>>)
    BY <2>0, <1>same, OneMove DEF Status
  <2> QED BY <1>7, <2>1, <1>same DEF StartPickupRoute, CourierCall, Same
 <1>8. CASE ArriveAtPickup(h)
  <2>0. MaySetOut("arriveAtPickup", "pickup_arrived")
    BY <1>8 DEF ArriveAtPickup, CourierCall, MaySetOut, Travels, Legs
  <2>1. GoodPlan(<<<<"pickup_arrived">>>>)
        /\ MindsLegs("arriveAtPickup", Same, <<<<"pickup_arrived">>>>)
    BY <2>0, <1>same, OneMove DEF Status
  <2> QED BY <1>8, <2>1, <1>same DEF ArriveAtPickup, CourierCall, Same
 <1>9. CASE RecordPickupWeight(h)
  <2>0. MaySetOut("recordPickupWeight", "pickup_weighed")
    BY <1>9 DEF RecordPickupWeight, CourierCall, MaySetOut, Travels, Legs
  <2>1. GoodPlan(<<<<"pickup_weighed">>>>)
        /\ MindsLegs("recordPickupWeight", NoEdit, <<<<"pickup_weighed">>>>)
    BY <2>0, LegsKept, OneMove DEF Status
  <2> QED BY <1>9, <2>1, NoEditGood DEF RecordPickupWeight, CourierCall
 <1>10. CASE RecordPickupPayment(h)
  <2>0. MaySetOut("recordPickupPayment", "laundry_in_progress")
    BY <1>10 DEF RecordPickupPayment, CourierCall, MaySetOut, Travels, Legs
  <2>1. GoodPlan(<<<<"picked_up_from_customer", "laundry_in_progress">>>>)
        /\ MindsLegs("recordPickupPayment", [pickup |-> doc.pickup], <<<<"picked_up_from_customer", "laundry_in_progress">>>>)
    BY <2>0, LegsKept, TwoMoves DEF Status
  <2>2. doc.pickup \in Couriers => GoodEdit([pickup |-> doc.pickup])
    BY DEF GoodEdit, WellTyped, Field, Legs, Assignee
  <2> QED BY <1>10, <2>1, <2>2 DEF RecordPickupPayment, CourierCall
 <1>11. CASE RecordFailedPickupAttempt(h)
  <2>0. MaySetOut("recordFailedPickupAttempt", "pickup_attempt_failed")
    BY <1>11 DEF RecordFailedPickupAttempt, CourierCall, MaySetOut, Travels, Legs
  <2>1. GoodPlan(<<<<"pickup_attempt_failed">>>>)
        /\ MindsLegs("recordFailedPickupAttempt", Same, <<<<"pickup_attempt_failed">>>>)
    BY <2>0, <1>same, OneMove DEF Status
  <2> QED BY <1>11, <2>1, <1>same DEF RecordFailedPickupAttempt, CourierCall, Same
 <1>12. CASE RetryPickupSameDay(h)
  <2>0. MaySetOut("retryPickupSameDay", "pickup_assigned") BY DEF MaySetOut, Travels
  <2>1. GoodPlan(<<<<"pickup_assigned">>>>)
        /\ MindsLegs("retryPickupSameDay", Same, <<<<"pickup_assigned">>>>)
    BY <2>0, <1>same, OneMove DEF Status
  <2> QED BY <1>12, <2>1, <1>same DEF RetryPickupSameDay, Same
 <1>13. CASE EscalateToReschedule(h)
  <2>0. MaySetOut("escalateToReschedule", "awaiting_pickup_reschedule") BY DEF MaySetOut, Travels
  <2>1. GoodPlan(<<<<"awaiting_pickup_reschedule">>>>)
        /\ MindsLegs("escalateToReschedule", Same, <<<<"awaiting_pickup_reschedule">>>>)
    BY <2>0, <1>same, OneMove DEF Status
  <2> QED BY <1>13, <2>1, <1>same DEF EscalateToReschedule, Same
 <1>14. CASE ReschedulePickup(h)
  <2>1. GoodEdit([pickup |-> NoOne]) BY DEF GoodEdit, WellTyped, Field, Legs, Assignee
  <2>2. MayGive(Marked([pickup |-> NoOne]), "pickup_assigned") BY DEF MayGive, Marked, Gives, Legs
  <2>3. MaySetOut("reschedulePickup", "pickup_assigned") BY DEF MaySetOut, Travels
  <2>4. GoodEdit(Marked([pickup |-> NoOne])) BY <2>1, MarkedGood
  <2>5. /\ GoodPlan(<<<<"pickup_assigned">>>>)
        /\ MindsLegs("reschedulePickup", Marked([pickup |-> NoOne]), <<<<"pickup_assigned">>>>)
    BY <2>2, <2>3, OneMove DEF Status
  <2> QED BY <1>14, <2>4, <2>5 DEF ReschedulePickup
 <1>15. CASE CancelAfterFailedPickup(h)
  <2>0. MaySetOut("cancelAfterFailedPickup", "cancelled") BY DEF MaySetOut, Travels
  <2>1. GoodPlan(<<<<"cancelled">>>>)
        /\ MindsLegs("cancelAfterFailedPickup", Same, <<<<"cancelled">>>>)
    BY <2>0, <1>same, OneMove DEF Status
  <2> QED BY <1>15, <2>1, <1>same DEF CancelAfterFailedPickup, Same
 <1>16. CASE ReceiveAtCounter(h)
  <2>0. MaySetOut("receiveAtCounter", "laundry_in_progress") BY DEF MaySetOut, Travels
  <2>1. GoodPlan(<<<<"received_by_provider", "laundry_in_progress">>>>)
        /\ MindsLegs("receiveAtCounter", NoEdit, <<<<"received_by_provider", "laundry_in_progress">>>>)
    BY <2>0, LegsKept, TwoMoves DEF Status
  <2> QED BY <1>16, <2>1, NoEditGood DEF ReceiveAtCounter
 <1>17. CASE MarkLaundryReady(h)
  <2>0. MaySetOut("markLaundryReady", "laundry_ready") BY DEF MaySetOut, Travels
  <2>00. ReturnLeg \in Status /\ \A leg \in Legs : ReturnLeg \notin Travels(leg)
    BY DEF ReturnLeg, Status, Travels
  <2>1. GoodPlan(<<<<"laundry_ready">>, <<ReturnLeg>>>>)
        /\ MindsLegs("markLaundryReady", Same, <<<<"laundry_ready">>, <<ReturnLeg>>>>)
    BY <2>0, <2>00, <1>same, TwoTransactions DEF Status
  <2> QED BY <1>17, <2>1, <1>same DEF MarkLaundryReady, Same
 <1>18. CASE RaiseQualityHold(h)
  <2>1. GoodEdit([hold |-> "pending"]) BY DEF GoodEdit, WellTyped, Field, Legs, Hold, Resolved
  <2>2. GoodEdit(Marked([hold |-> "pending"])) BY <2>1, MarkedGood
  <2>3. KeepsLegs(Marked([hold |-> "pending"])) BY LegsKept DEF Legs
  <2>4. MaySetOut("raiseQualityHold", "laundry_quality_hold") BY DEF MaySetOut, Travels
  <2>5. /\ GoodPlan(<<<<"laundry_quality_hold">>>>)
        /\ MindsLegs("raiseQualityHold", Marked([hold |-> "pending"]),
                     <<<<"laundry_quality_hold">>>>)
    BY <2>3, <2>4, OneMove DEF Status
  <2> QED BY <1>18, <2>2, <2>5 DEF RaiseQualityHold
 <1>19. CASE RespondToQualityHold(h)
  <2>1. MaySetOut("respondToQualityHold", "laundry_in_progress") BY DEF MaySetOut, Travels
  <2>2. doc.hold = "pending" BY <1>19 DEF RespondToQualityHold
  <2>3. doc.surcharges + 1 \in Nat BY DEF TypeOK, WellTyped, Field
  <2>4. GoodEdit(Answer(TRUE)) /\ DOMAIN Answer(TRUE) \cap Legs = {}
    BY <2>2, <2>3 DEF Answer, GoodEdit, WellTyped, Field, Legs, Hold, Resolved
  <2>5. GoodEdit(Answer(FALSE)) /\ DOMAIN Answer(FALSE) \cap Legs = {}
    BY <2>2 DEF Answer, GoodEdit, WellTyped, Field, Legs, Hold, Resolved
  <2>6. PICK approve \in BOOLEAN :
          Load(h, "respondToQualityHold", Marked(Answer(approve)),
               <<<<"laundry_in_progress">>>>)
    BY <1>19 DEF RespondToQualityHold
  <2>7. GoodEdit(Answer(approve)) /\ DOMAIN Answer(approve) \cap Legs = {} BY <2>4, <2>5
  <2>8. GoodEdit(Marked(Answer(approve))) BY <2>7, MarkedGood
  <2>9. KeepsLegs(Marked(Answer(approve))) BY <2>7, LegsKept
  <2>10. /\ GoodPlan(<<<<"laundry_in_progress">>>>)
         /\ MindsLegs("respondToQualityHold", Marked(Answer(approve)),
                      <<<<"laundry_in_progress">>>>)
    BY <2>1, <2>9, OneMove DEF Status
  <2> QED BY <2>6, <2>8, <2>10
 <1>20. CASE AutoResolveExpiredQualityHold(h)
  <2>1. MaySetOut("autoResolveExpiredQualityHold", "laundry_in_progress") BY DEF MaySetOut, Travels
  <2>2. doc.hold = "pending" BY <1>20 DEF AutoResolveExpiredQualityHold
  <2>3. GoodEdit([hold |-> "declined"]) BY <2>2 DEF GoodEdit, WellTyped, Field, Legs, Hold, Resolved
  <2>4. KeepsLegs([hold |-> "declined"]) BY DEF KeepsLegs, Legs
  <2>5. /\ GoodPlan(<<<<"laundry_in_progress">>>>)
        /\ MindsLegs("autoResolveExpiredQualityHold", [hold |-> "declined"],
                     <<<<"laundry_in_progress">>>>)
    BY <2>1, <2>4, OneMove DEF Status
  <2> QED BY <1>20, <2>3, <2>5 DEF AutoResolveExpiredQualityHold
 <1>21. CASE ChooseReturnOption(h)
  <2> DEFINE Next1(mode) == IF mode = "self_pickup" THEN "awaiting_customer_pickup"
                            ELSE "awaiting_return_assignment"
  <2>1. PICK mode \in ReturnModes :
          Load(h, "chooseReturnOption", Marked(NoEdit), <<<<Next1(mode)>>>>)
    BY <1>21 DEF ChooseReturnOption
  <2>2. Next1(mode) \in Status /\ MaySetOut("chooseReturnOption", Next1(mode))
    BY DEF Status, MaySetOut, Travels
  <2> HIDE DEF Next1
  <2>3. /\ GoodPlan(<<<<Next1(mode)>>>>)
        /\ MindsLegs("chooseReturnOption", Same, <<<<Next1(mode)>>>>)
    BY <2>2, <1>same, OneMove
  <2> QED BY <2>1, <2>3, <1>same DEF Same
 <1>22. CASE AssignReturnStaff(h)
  <2>1. PICK c \in Couriers :
          Load(h, "assignReturnStaff", Marked([return |-> c]), <<<<"return_assigned">>>>)
    BY <1>22 DEF AssignReturnStaff
  <2>2. GoodEdit([return |-> c]) BY DEF GoodEdit, WellTyped, Field, Legs, Assignee
  <2>3. GoodEdit(Marked([return |-> c])) BY <2>2, MarkedGood
  <2>4. MayGive(Marked([return |-> c]), "return_assigned") BY DEF MayGive, Marked, Gives, Legs
  <2>5. MaySetOut("assignReturnStaff", "return_assigned") BY DEF MaySetOut, Travels
  <2>6. /\ GoodPlan(<<<<"return_assigned">>>>)
        /\ MindsLegs("assignReturnStaff", Marked([return |-> c]), <<<<"return_assigned">>>>)
    BY <2>4, <2>5, OneMove DEF Status
  <2> QED BY <2>1, <2>3, <2>6
 <1>23. CASE StartReturnRoute(h)
  <2>0. MaySetOut("startReturnRoute", "return_en_route")
    BY <1>23 DEF StartReturnRoute, CourierCall, MaySetOut, Travels, Legs
  <2>1. GoodPlan(<<<<"return_en_route">>>>)
        /\ MindsLegs("startReturnRoute", Same, <<<<"return_en_route">>>>)
    BY <2>0, <1>same, OneMove DEF Status
  <2> QED BY <1>23, <2>1, <1>same DEF StartReturnRoute, CourierCall, Same
 <1>24. CASE ArriveAtReturn(h)
  <2>0. MaySetOut("arriveAtReturn", "return_arrived")
    BY <1>24 DEF ArriveAtReturn, CourierCall, MaySetOut, Travels, Legs
  <2>1. GoodPlan(<<<<"return_arrived">>>>)
        /\ MindsLegs("arriveAtReturn", Same, <<<<"return_arrived">>>>)
    BY <2>0, <1>same, OneMove DEF Status
  <2> QED BY <1>24, <2>1, <1>same DEF ArriveAtReturn, CourierCall, Same
 <1>25. CASE RecordDelivery(h)
  <2>0. MaySetOut("recordDelivery", "completed")
    BY <1>25 DEF RecordDelivery, CourierCall, MaySetOut, Travels, Legs
  <2>1. GoodPlan(<<<<"delivered_to_customer", "completed">>>>)
        /\ MindsLegs("recordDelivery", [return |-> doc.return], <<<<"delivered_to_customer", "completed">>>>)
    BY <2>0, LegsKept, TwoMoves DEF Status
  <2>2. doc.return \in Couriers => GoodEdit([return |-> doc.return])
    BY DEF GoodEdit, WellTyped, Field, Legs, Assignee
  <2> QED BY <1>25, <2>1, <2>2 DEF RecordDelivery, CourierCall
 <1>26. CASE RecordFailedDeliveryAttempt(h)
  <2>0. MaySetOut("recordFailedDeliveryAttempt", "delivery_attempted")
    BY <1>26 DEF RecordFailedDeliveryAttempt, CourierCall, MaySetOut, Travels, Legs
  <2>1. GoodPlan(<<<<"delivery_attempted">>>>)
        /\ MindsLegs("recordFailedDeliveryAttempt", Same, <<<<"delivery_attempted">>>>)
    BY <2>0, <1>same, OneMove DEF Status
  <2> QED BY <1>26, <2>1, <1>same DEF RecordFailedDeliveryAttempt, CourierCall, Same
 <1>27. CASE ConfirmReturnedToProvider(h)
  <2>0. MaySetOut("confirmReturnedToProvider", "returned_to_provider") BY DEF MaySetOut, Travels
  <2>00. \A leg \in Legs : "awaiting_redelivery_selection" \notin Travels(leg) BY DEF Travels
  <2>1. GoodPlan(<<<<"returned_to_provider">>, <<"awaiting_redelivery_selection">>>>)
        /\ MindsLegs("confirmReturnedToProvider", Same, <<<<"returned_to_provider">>, <<"awaiting_redelivery_selection">>>>)
    BY <2>0, <2>00, <1>same, TwoTransactions DEF Status
  <2> QED BY <1>27, <2>1, <1>same DEF ConfirmReturnedToProvider, Same
 <1>28. CASE ScheduleRedelivery(h)
  <2>1. GoodEdit([return |-> NoOne]) BY DEF GoodEdit, WellTyped, Field, Legs, Assignee
  <2>2. GoodEdit(Marked([return |-> NoOne])) BY <2>1, MarkedGood
  <2>3. MayGive(Marked([return |-> NoOne]), "redelivery_scheduled")
    BY DEF MayGive, Marked, Gives, Legs
  <2>4. /\ MaySetOut("scheduleRedelivery", "redelivery_scheduled")
        /\ \A leg \in Legs : "return_assigned" \notin Travels(leg)
    BY DEF MaySetOut, Travels
  <2>5. /\ GoodPlan(<<<<"redelivery_scheduled">>, <<"return_assigned">>>>)
        /\ MindsLegs("scheduleRedelivery", Marked([return |-> NoOne]),
                     <<<<"redelivery_scheduled">>, <<"return_assigned">>>>)
    BY <2>3, <2>4, TwoTransactions DEF Status
  <2> QED BY <1>28, <2>2, <2>5 DEF ScheduleRedelivery
 <1>29. CASE VerifySelfPickup(h)
  <2>0. MaySetOut("verifySelfPickup", "completed") BY DEF MaySetOut, Travels
  <2>1. GoodPlan(<<<<"customer_pickup_verified", "completed">>>>)
        /\ MindsLegs("verifySelfPickup", NoEdit, <<<<"customer_pickup_verified", "completed">>>>)
    BY <2>0, LegsKept, TwoMoves DEF Status
  <2> QED BY <1>29, <2>1, NoEditGood DEF VerifySelfPickup
 <1>30. CASE AbandonUnsettledOrder(h)
  <2>0. MaySetOut("abandonUnsettledOrder", "abandoned_unsettled") BY DEF MaySetOut, Travels
  <2>1. GoodPlan(<<<<"abandoned_unsettled">>>>)
        /\ MindsLegs("abandonUnsettledOrder", NoEdit, <<<<"abandoned_unsettled">>>>)
    BY <2>0, LegsKept, OneMove DEF Status
  <2> QED BY <1>30, <2>1, NoEditGood DEF AbandonUnsettledOrder
 <1>31. CASE ReinstateAbandonedOrder(h)
  <2> DEFINE Back == IF doc.returnMode = "self_pickup"
                     THEN "awaiting_customer_pickup" ELSE "awaiting_redelivery_selection"
  <2>0. Back \in Status /\ MaySetOut("reinstateAbandonedOrder", Back)
    BY DEF MaySetOut, Travels, Status
  <2>1. Load(h, "reinstateAbandonedOrder", Same, <<<<Back>>>>)
    BY <1>31 DEF ReinstateAbandonedOrder, Same
  <2> HIDE DEF Back
  <2>2. GoodPlan(<<<<Back>>>>) /\ MindsLegs("reinstateAbandonedOrder", Same, <<<<Back>>>>)
    BY <2>0, <1>same, OneMove
  <2> QED BY <2>1, <2>2, <1>same
 <1>32. CASE OverrideStatus(h)
  <2>1. PICK to \in Status : Load(h, "overrideStatus", Marked(NoEdit), <<<<to>>>>)
    BY <1>32 DEF OverrideStatus
  <2>2. MaySetOut("overrideStatus", to) BY DEF MaySetOut
  <2>3. GoodPlan(<<<<to>>>>) /\ MindsLegs("overrideStatus", Same, <<<<to>>>>)
    BY <2>2, <1>same, OneMove
  <2> QED BY <2>1, <2>3, <1>same DEF Same
 <1>33. CASE RejectAssignment(h)
  <2>1. DOMAIN NoEdit = {} BY DEF NoEdit
  <2> QED BY <1>33, <2>1, NoEditGood, LegsKept DEF RejectAssignment, LoadsAside, Aside
 <1>34. CASE UpdateCourierLocation(h)
  <2>1. PICK leg \in Legs :
          doc[leg] \in Couriers
          /\ LoadOnly(h, "updateCourierLocation", [l \in {leg} |-> doc[l]])
    BY <1>34 DEF UpdateCourierLocation
  <2> DEFINE Ping == [l \in {leg} |-> doc[l]]
  <2>2. DOMAIN Ping = {leg} /\ Ping[leg] = doc[leg] OBVIOUS
  <2>3. LoadOnly(h, "updateCourierLocation", Ping) BY <2>1
  <2> HIDE DEF Ping
  <2>4. GoodEdit(Ping) /\ KeepsLegs(Ping)
    BY <2>1, <2>2 DEF GoodEdit, KeepsLegs, WellTyped, Field, Legs, Assignee
  <2> QED BY <2>1, <2>2, <2>3, <2>4 DEF LoadsAside, Aside
 <1> QED BY <1>1, <1>2, <1>3, <1>4, <1>5, <1>6, <1>7, <1>8, <1>9, <1>10, <1>11,
    <1>12, <1>13, <1>14, <1>15, <1>16, <1>17, <1>18, <1>19, <1>20, <1>21,
    <1>22, <1>23, <1>24, <1>25, <1>26, <1>27, <1>28, <1>29, <1>30, <1>31,
    <1>32, <1>33, <1>34 DEF Request, Job

-----------------------------------------------------------------------------
(* Type correctness. *)
LEMMA TypeInit == Init => TypeOK
 <1> SUFFICES ASSUME Init PROVE TypeOK OBVIOUS
 <1>1. DOMAIN doc = Field /\ WellTyped(doc)
   BY PickupModesKnown DEF Init, Field, Legs, WellTyped, Assignee, Hold
 <1>2. \A h \in Handlers : WellTyped(edit[h]) BY DEF Init, WellTyped, NoEdit
 <1>3. \A h \in Handlers : ~InTransaction(h) BY DEF Init, InTransaction
 <1>4. todo \in [Handlers -> Seq(Seq(Status) \ {<<>>})] BY DEF Init
 <1> QED BY <1>1, <1>2, <1>3, <1>4, PromotedIsKnown DEF Init, TypeOK, Status, Known

(* What a transaction moves to, and by how much the version rises. *)
LEMMA AdvancedTyped ==
  ASSUME TypeOK, NEW h \in Handlers, InTransaction(h)
  PROVE  /\ Advanced(h) \in Known
         /\ Len(Targets(h)) \in Nat \ {0}
         /\ Advanced(h).version = known[h].version + Len(Targets(h))
         /\ known[h].version \in Nat /\ known[h].status \in Status
 <1>1. todo[h] \in Seq(Seq(Status) \ {<<>>}) /\ todo[h] # <<>> BY DEF TypeOK
 <1>2. Targets(h) \in Seq(Status) /\ Targets(h) # <<>> BY <1>1 DEF Targets
 <1>3. Len(Targets(h)) \in Nat \ {0} /\ Last(Targets(h)) \in Status BY <1>2 DEF Last
 <1>4. known[h].version \in Nat /\ known[h].status \in Status BY DEF TypeOK, Known
 <1> QED BY <1>3, <1>4 DEF Advanced, Known

LEMMA FinishTyped ==
  ASSUME TypeOK, NEW h \in Handlers, Finish(h)
  PROVE  /\ pc' \in [Handlers -> {"idle", "ready"}]
         /\ DOMAIN call' = Handlers
         /\ known' \in [Handlers -> Known] /\ seen' \in [Handlers -> Nat]
         /\ moved' \in [Handlers -> BOOLEAN]
         /\ DOMAIN edit' = Handlers
         /\ \A g \in Handlers : WellTyped(edit[g])'
         /\ todo' \in [Handlers -> Seq(Seq(Status) \ {<<>>})]
         /\ \A g \in Handlers : InTransaction(g)' => todo'[g] # <<>>
 <1>1. \A g \in Handlers : WellTyped(edit[g])' BY DEF Finish, TypeOK, WellTyped, NoEdit
 <1>2. \A g \in Handlers : InTransaction(g)' => g # h /\ InTransaction(g) /\ todo'[g] = todo[g]
   BY DEF Finish, TypeOK, InTransaction
 <1> QED BY <1>1, <1>2 DEF Finish, TypeOK, Known, Status

LEMMA TailOfLonger ==
  ASSUME NEW S, NEW s \in Seq(S), s # <<>>, Len(s) # 1
  PROVE  Tail(s) \in Seq(S) /\ Tail(s) # <<>>
 <1>1. Len(s) \in Nat /\ Len(s) # 0 OBVIOUS
 <1>2. Tail(s) \in Seq(S) OBVIOUS
 <1>3. Len(Tail(s)) = Len(s) - 1 OBVIOUS
 <1>4. Len(Tail(s)) # 0 BY <1>1, <1>3
 <1>5. ASSUME NEW u \in Seq(S), Len(u) # 0 PROVE u # <<>> BY <1>5
 <1> QED BY <1>2, <1>4, <1>5

LEMMA GoOnTyped ==
  ASSUME TypeOK, NEW h \in Handlers, InTransaction(h), Len(todo[h]) # 1, GoOn(h)
  PROVE  /\ pc' \in [Handlers -> {"idle", "ready"}]
         /\ DOMAIN call' = Handlers
         /\ known' \in [Handlers -> Known] /\ seen' \in [Handlers -> Nat]
         /\ moved' \in [Handlers -> BOOLEAN]
         /\ DOMAIN edit' = Handlers
         /\ \A g \in Handlers : WellTyped(edit[g])'
         /\ todo' \in [Handlers -> Seq(Seq(Status) \ {<<>>})]
         /\ \A g \in Handlers : InTransaction(g)' => todo'[g] # <<>>
 <1>1. ASSUME NEW g \in Handlers PROVE WellTyped(edit[g])'
  <2>1. CASE g # h BY <2>1 DEF GoOn, TypeOK, WellTyped
  <2>2. CASE g = h
   <3>1. edit'[h] = [f \in DOMAIN edit[h] \cap Legs |-> edit[h][f]] BY DEF GoOn, TypeOK
   <3>2. DOMAIN edit'[h] \subseteq Legs BY <3>1
   <3>3. \A leg \in Legs \cap DOMAIN edit'[h] : edit'[h][leg] \in Assignee
     BY <3>1 DEF TypeOK, WellTyped
   <3> QED BY <2>2, <3>2, <3>3 DEF WellTyped, Field, Legs
  <2> QED BY <2>1, <2>2
 <1>2. todo[h] \in Seq(Seq(Status) \ {<<>>}) /\ todo[h] # <<>> BY DEF TypeOK
 <1>3. Tail(todo[h]) \in Seq(Seq(Status) \ {<<>>}) /\ Tail(todo[h]) # <<>> BY <1>2, TailOfLonger
 <1>4. todo' = [todo EXCEPT ![h] = Tail(todo[h])] BY DEF GoOn
 <1>5. todo' \in [Handlers -> Seq(Seq(Status) \ {<<>>})] BY <1>3, <1>4 DEF TypeOK
 <1>6. \A g \in Handlers : InTransaction(g)' => todo'[g] # <<>>
   BY <1>3, <1>4 DEF GoOn, TypeOK, InTransaction
 <1>7. known' \in [Handlers -> Known] /\ seen' \in [Handlers -> Nat]
  <2>1. Advanced(h) \in Known /\ Advanced(h).version \in Nat BY AdvancedTyped DEF Known
  <2> QED BY <2>1 DEF GoOn, TypeOK
 <1> QED BY <1>1, <1>5, <1>6, <1>7 DEF GoOn, TypeOK

LEMMA LoadTyped ==
  ASSUME TypeOK, NEW h \in Handlers, NEW name, NEW edits, NEW txns,
         Load(h, name, edits, txns), GoodEdit(edits), GoodPlan(txns)
  PROVE  TypeOK'
 <1>1. ASSUME NEW g \in Handlers PROVE WellTyped(edit[g])' BY DEF Load, TypeOK, GoodEdit, WellTyped
 <1>2. todo' \in [Handlers -> Seq(Seq(Status) \ {<<>>})] BY DEF Load, GoodPlan, TypeOK
 <1>3. \A g \in Handlers : InTransaction(g)' => todo'[g] # <<>>
   BY DEF Load, GoodPlan, TypeOK, InTransaction
 <1>4. known' \in [Handlers -> Known] BY DEF Load, TypeOK, Known
 <1>5. DOMAIN doc' = Field /\ WellTyped(doc)' BY DEF Load, document, TypeOK, WellTyped
 <1>6. raised' \in Nat BY DEF Load, TypeOK
 <1> QED BY <1>1, <1>2, <1>3, <1>4, <1>5, <1>6 DEF Load, document, history, TypeOK

LEMMA LoadOnlyTyped ==
  ASSUME TypeOK, NEW h \in Handlers, NEW name \in Aside, NEW edits,
         LoadOnly(h, name, edits), GoodEdit(edits)
  PROVE  TypeOK'
 <1>1. ASSUME NEW g \in Handlers PROVE WellTyped(edit[g])'
   BY DEF LoadOnly, TypeOK, GoodEdit, WellTyped
 <1>2. \A g \in Handlers : InTransaction(g)' => InTransaction(g)
   BY DEF LoadOnly, TypeOK, InTransaction, Lone, Aside
 <1>3. known' \in [Handlers -> Known] BY DEF LoadOnly, TypeOK, Known
 <1>4. DOMAIN doc' = Field /\ WellTyped(doc)' BY DEF LoadOnly, document, TypeOK, WellTyped
 <1>5. extras' \in Nat BY DEF LoadOnly, TypeOK
 <1> QED BY <1>1, <1>2, <1>3, <1>4, <1>5 DEF LoadOnly, document, history, TypeOK

(* What saving a copy's edits makes of the document. *)
LEMMA SavedTyped ==
  ASSUME TypeOK, NEW h \in Handlers, doc' = Saved(h)
  PROVE  DOMAIN doc' = Field /\ WellTyped(doc)'
 <1>1. doc' = [f \in Field |-> IF f \in DOMAIN edit[h] THEN edit[h][f] ELSE doc[f]] BY DEF Saved
 <1>2. WellTyped(edit[h]) /\ WellTyped(doc) /\ DOMAIN doc = Field BY DEF TypeOK
 <1>3. DOMAIN doc' = Field BY <1>1
 <1>4. \A leg \in Legs : doc'[leg] \in Assignee BY <1>1, <1>2 DEF WellTyped, Field
 <1>5. doc'.inbound \in {"provider_pickup", "customer_dropoff"} BY <1>1, <1>2 DEF WellTyped, Field
 <1>6. doc'.returnMode \in ReturnModes BY <1>1, <1>2 DEF WellTyped, Field
 <1>7. doc'.hold \in Hold BY <1>1, <1>2 DEF WellTyped, Field
 <1>8. doc'.surcharges \in Nat BY <1>1, <1>2 DEF WellTyped, Field
 <1> QED BY <1>3, <1>4, <1>5, <1>6, <1>7, <1>8 DEF WellTyped

LEMMA TypeNext == TypeOK /\ [Next]_vars => TypeOK'
 <1> SUFFICES ASSUME TypeOK, [Next]_vars PROVE TypeOK' OBVIOUS
 <1>1. ASSUME NEW h \in Handlers, LoadsWell(h) PROVE TypeOK' BY <1>1, LoadTyped DEF LoadsWell
 <1>2. ASSUME NEW h \in Handlers, NoteQualityIssue(h) PROVE TypeOK'
  <2>1. \A g \in Handlers : WellTyped(edit[g])' BY <1>2 DEF NoteQualityIssue, TypeOK, WellTyped
  <2>2. \A g \in Handlers : InTransaction(g)' => InTransaction(g)
    BY <1>2 DEF NoteQualityIssue, TypeOK, InTransaction, Lone
  <2>3. WellTyped(doc)' BY <1>2 DEF NoteQualityIssue, TypeOK, WellTyped, document
  <2> QED BY <1>2, <2>1, <2>2, <2>3 DEF NoteQualityIssue, TypeOK, document, history
 <1>3. ASSUME NEW h \in Handlers, Commit(h) PROVE TypeOK'
  <2>1. DOMAIN doc' = Field /\ WellTyped(doc)' BY <1>3, SavedTyped DEF Commit
  <2>2. InTransaction(h) BY <1>3 DEF Commit
  <2>3. Advanced(h) \in Known /\ known[h].status \in Status BY <2>2, AdvancedTyped
  <2>4. Finish(h) \/ (Len(todo[h]) # 1 /\ GoOn(h)) BY <1>3 DEF Commit
  <2>5. /\ status' \in Status /\ version' \in Nat
        /\ lastEvent' \in [from : Status, to : Status] /\ audit' \in Status \cup {"none"}
    BY <1>3, <2>3 DEF Commit, Events, Known
  <2>6. /\ windowOver' \in BOOLEAN /\ overridden' \in BOOLEAN
        /\ rewound' \in BOOLEAN /\ unrecorded' \in BOOLEAN
        /\ overtaken' \in BOOLEAN /\ restored' \in BOOLEAN /\ stamping' \in BOOLEAN
        /\ raised' \in Nat /\ extras' \in Nat
    BY <1>3 DEF Commit, TypeOK
  <2>7. CASE Finish(h) BY <2>1, <2>5, <2>6, <2>7, FinishTyped DEF TypeOK
  <2>8. CASE Len(todo[h]) # 1 /\ GoOn(h) BY <2>1, <2>2, <2>5, <2>6, <2>8, GoOnTyped DEF TypeOK
  <2> QED BY <2>4, <2>7, <2>8
 <1>4. ASSUME NEW h \in Handlers, Refuse(h) PROVE TypeOK'
  <2>1. WellTyped(doc)' BY <1>4 DEF Refuse, TypeOK, WellTyped, document
  <2> QED BY <1>4, <2>1, FinishTyped DEF Refuse, TypeOK, document, history
 <1>5. ASSUME NEW h \in Handlers, Crash(h) PROVE TypeOK'
  <2>1. WellTyped(doc)' BY <1>5 DEF Crash, TypeOK, WellTyped, document
  <2> QED BY <1>5, <2>1, FinishTyped DEF Crash, TypeOK, document, history
 <1>6. ASSUME NEW h \in Handlers, SaveOrderOnly(h) PROVE TypeOK'
  <2>1. WellTyped(doc)'
   <3>1. \A f \in Field \ {"hold"} : doc'[f] = doc[f] BY <1>6 DEF SaveOrderOnly, TypeOK
   <3>2. doc'.hold = "noted" /\ DOMAIN doc' = Field BY <1>6 DEF SaveOrderOnly, TypeOK, Field
   <3> QED BY <3>1, <3>2 DEF TypeOK, WellTyped, Field, Legs, Hold
  <2>2. \A g \in Handlers : WellTyped(edit[g])' BY <1>6 DEF SaveOrderOnly, TypeOK, WellTyped
  <2>3. \A g \in Handlers : InTransaction(g)' => InTransaction(g)
    BY <1>6 DEF SaveOrderOnly, TypeOK, InTransaction
  <2>4. DOMAIN doc' = Field BY <1>6 DEF SaveOrderOnly, TypeOK
  <2> QED BY <1>6, <2>1, <2>2, <2>3, <2>4 DEF SaveOrderOnly, TypeOK, history
 <1>7. ASSUME NEW h \in Handlers, AbortAndRetry(h) PROVE TypeOK'
  <2>1. \A g \in Handlers : WellTyped(edit[g])' BY <1>7 DEF AbortAndRetry, TypeOK, WellTyped, NoEdit
  <2>2. \A g \in Handlers : InTransaction(g)' => InTransaction(g)
    BY <1>7 DEF AbortAndRetry, TypeOK, InTransaction
  <2>3. known' \in [Handlers -> Known] /\ moved' \in [Handlers -> BOOLEAN]
   <3>1. Advanced(h) \in Known BY <1>7, AdvancedTyped DEF AbortAndRetry
   <3> QED BY <1>7, <3>1, ZenonT(60) DEF AbortAndRetry, TypeOK
  <2>4. WellTyped(doc)' BY <1>7 DEF AbortAndRetry, TypeOK, WellTyped, document
  <2>5. /\ doc' = doc /\ status' = status /\ version' = version /\ lastEvent' = lastEvent
        /\ audit' = audit /\ stamping' = stamping /\ unrecorded' = unrecorded
        /\ overtaken' = overtaken /\ restored' = restored
        /\ windowOver' = windowOver /\ pc' = pc /\ call' = call /\ todo' = todo
        /\ seen' = seen
        /\ raised' = raised /\ overridden' = overridden /\ rewound' = rewound
    BY <1>7 DEF AbortAndRetry, document, history
  <2>6. extras' \in Nat /\ DOMAIN edit' = Handlers BY <1>7 DEF AbortAndRetry, TypeOK
  <2> QED BY <2>1, <2>2, <2>3, <2>4, <2>5, <2>6 DEF TypeOK
 <1>8. CASE ResponseWindowPasses
  <2>1. WellTyped(doc)' BY <1>8 DEF ResponseWindowPasses, TypeOK, WellTyped, document
  <2>2. \A g \in Handlers : WellTyped(edit[g])'
    BY <1>8 DEF ResponseWindowPasses, TypeOK, WellTyped, handlers
  <2>3. \A g \in Handlers : InTransaction(g)' <=> InTransaction(g)
    BY <1>8 DEF ResponseWindowPasses, InTransaction, handlers
  <2> QED BY <1>8, <2>1, <2>2, <2>3 DEF ResponseWindowPasses, TypeOK, document, history, handlers
 <1>9. CASE UNCHANGED vars
  <2>1. WellTyped(doc)' BY <1>9 DEF vars, TypeOK, WellTyped, document
  <2>2. \A g \in Handlers : WellTyped(edit[g])' BY <1>9 DEF vars, TypeOK, WellTyped, handlers
  <2>3. \A g \in Handlers : InTransaction(g)' <=> InTransaction(g)
    BY <1>9 DEF vars, InTransaction, handlers
  <2> QED BY <1>9, <2>1, <2>2, <2>3 DEF vars, TypeOK, document, history, handlers
 <1>10. ASSUME NEW h \in Handlers, LoadsAside(h) PROVE TypeOK'
   BY <1>10, LoadOnlyTyped DEF LoadsAside
 <1>11. ASSUME NEW h \in Handlers, AppendAuditEvent(h) PROVE TypeOK'
  <2>1. WellTyped(doc)' BY <1>11 DEF AppendAuditEvent, TypeOK, WellTyped
  <2>2. audit' \in Status \cup {"none"} /\ overtaken' \in BOOLEAN
   <3>1. known[h] \in Known BY DEF TypeOK
   <3>2. known[h].status \in Status BY <3>1 DEF Known
   <3>3. audit \in Status \cup {"none"} /\ overtaken \in BOOLEAN BY DEF TypeOK
   <3>4. \/ audit' = known[h].status /\ overtaken' = (version # seen[h])
         \/ audit' = audit /\ overtaken' = overtaken
     BY <1>11 DEF AppendAuditEvent
   <3> QED BY <3>2, <3>3, <3>4
  <2>3. Finish(h) BY <1>11 DEF AppendAuditEvent
  <2> QED BY <1>11, <2>1, <2>2, <2>3, FinishTyped DEF AppendAuditEvent, TypeOK
 <1>12. ASSUME NEW h \in Handlers, SaveLocation(h) PROVE TypeOK'
  <2>1. DOMAIN doc' = Field /\ WellTyped(doc)' BY <1>12, SavedTyped DEF SaveLocation
  <2>2. restored' \in BOOLEAN BY <1>12 DEF SaveLocation, TypeOK
  <2>3. Finish(h) BY <1>12 DEF SaveLocation
  <2> QED BY <1>12, <2>1, <2>2, <2>3, FinishTyped DEF SaveLocation, TypeOK
 <1>13. CASE StampCreated
  <2>1. DOMAIN doc' = Field /\ doc'.surcharges = 0
        /\ \A f \in Field \ {"surcharges"} : doc'[f] = doc[f]
    BY <1>13 DEF StampCreated, TypeOK, Field
  <2>2. WellTyped(doc)' BY <2>1 DEF TypeOK, WellTyped, Field, Legs
  <2>3. \A g \in Handlers : WellTyped(edit[g])'
    BY <1>13 DEF StampCreated, TypeOK, WellTyped, handlers
  <2>4. \A g \in Handlers : InTransaction(g)' <=> InTransaction(g)
    BY <1>13 DEF StampCreated, InTransaction, handlers
  <2>5. status' \in Status /\ version' \in Nat BY <1>13 DEF StampCreated, Status
  <2>6. /\ rewound' \in BOOLEAN /\ unrecorded' \in BOOLEAN
        /\ stamping' \in BOOLEAN /\ extras' \in Nat
   <3>1. rewound \in BOOLEAN /\ unrecorded \in BOOLEAN /\ extras \in Nat BY DEF TypeOK
   <3>2. stamping' = FALSE /\ extras' = extras + 1 BY <1>13 DEF StampCreated
   <3>3. IF AsCreated THEN rewound' = rewound /\ unrecorded' = unrecorded
         ELSE rewound' = TRUE /\ unrecorded' = TRUE
     BY <1>13 DEF StampCreated
   <3>4. rewound' \in BOOLEAN /\ unrecorded' \in BOOLEAN BY <3>1, <3>3
   <3>5. stamping' \in BOOLEAN BY <3>2
   <3>6. extras' \in Nat BY <3>1, <3>2
   <3> QED BY <3>4, <3>5, <3>6
  <2>7. /\ lastEvent' = lastEvent /\ audit' = audit /\ windowOver' = windowOver
        /\ raised' = raised /\ overridden' = overridden /\ overtaken' = overtaken
        /\ restored' = restored /\ pc' = pc /\ call' = call /\ known' = known
        /\ edit' = edit /\ moved' = moved /\ todo' = todo /\ seen' = seen
    BY <1>13 DEF StampCreated, handlers
  <2> QED BY <2>1, <2>2, <2>3, <2>4, <2>5, <2>6, <2>7 DEF TypeOK
 <1>14. ASSUME NEW h \in Handlers, Request(h) \/ Job(h) PROVE TypeOK'
   BY <1>1, <1>2, <1>10, <1>14, RequestLoads
 <1> QED
   BY <1>3, <1>4, <1>5, <1>6, <1>7, <1>8, <1>9, <1>11, <1>12, <1>13, <1>14
      DEF Next, Run, Handlers

(* The variables keep their types: every copy's edits stay values of the
   fields they name, and no handler runs a transaction it does not have. *)
THEOREM TypeCorrect == Spec => []TypeOK
  BY TypeInit, TypeNext, PTL DEF Spec

-----------------------------------------------------------------------------
(* The inductive invariant.  A copy is fresh until an attempt of its own
   has moved it; only a fresh copy still carries an answer to a hold.  As
   long as nobody has written since the copy was made (Current), and no
   late ping ever has, its legs are the document's, but for the one its
   transaction gives away; and a courier who sets out still holds his.  A
   copy of a call without a transaction (Reads, but not InTransaction) is
   honest in the same way. *)
Reads(h) == pc[h] = "ready" /\ call[h] # "noteQualityIssue"
Fresh(h) == InTransaction(h) /\ ~moved[h]

(* The document a copy was made of is not ahead of the stored one until a
   write has gone over a newer document. *)
SeenFits(h) ==
  InTransaction(h) =>
    /\ seen[h] <= known[h].version
    /\ ~moved[h] => seen[h] = known[h].version
    /\ ~rewound => seen[h] <= version

(* The copy's answer would be the first one, and charge once. *)
AnswersOnce(h) ==
  /\ "hold" \in DOMAIN edit[h] /\ edit[h].hold \in Resolved
       => doc.hold \notin Resolved
  /\ "surcharges" \in DOMAIN edit[h] => edit[h].surcharges = doc.surcharges + 1

FreshFits(h) ==
  ~rewound /\ Fresh(h) /\ known[h].version = version
    => known[h].status = status /\ AnswersOnce(h)

AnswerFits(h) ==
  InTransaction(h) =>
    /\ moved[h] => DOMAIN edit[h] \cap {"hold", "surcharges"} = {}
    /\ "surcharges" \in DOMAIN edit[h]
         => "hold" \in DOMAIN edit[h] /\ edit[h].hold = "approved"

Current(h) == InTransaction(h) /\ ~rewound /\ seen[h] = version

LegsFit(h) ==
  Current(h) /\ ~restored =>
    \A leg \in Legs :
      leg \in DOMAIN edit[h]
        => edit[h][leg] = doc[leg] \/ Last(Targets(h)) \in Gives(leg)

(* Only the first transaction of a call sets out on a leg. *)
TravelFits(h) ==
  InTransaction(h) /\ call[h] # "overrideStatus" =>
    \A leg \in Legs :
      /\ \A i \in 2..Len(todo[h]) : Last(todo[h][i]) \notin Travels(leg)
      /\ Last(Targets(h)) \in Travels(leg) /\ Current(h)
           => /\ doc[leg] \in Couriers
              /\ leg \in DOMAIN edit[h] => edit[h][leg] \in Couriers

(* An audit row and a ping: the status and the legs the copy was made of. *)
AsideFits(h) ==
  Reads(h) /\ call[h] \in Aside =>
    /\ ~rewound => seen[h] <= version
    /\ ~rewound /\ seen[h] = version
         => /\ known[h].status = status
            /\ ~restored => \A leg \in Legs :
                              leg \in DOMAIN edit[h] => edit[h][leg] = doc[leg]
    /\ DOMAIN edit[h] \subseteq Legs
    /\ \A leg \in DOMAIN edit[h] : edit[h][leg] \in Couriers

CopyIsHonest(h) ==
  /\ SeenFits(h) /\ FreshFits(h) /\ AnswerFits(h) /\ LegsFit(h) /\ TravelFits(h)
  /\ AsideFits(h)

(* Without a row in the log only the stamp moves a document. *)
LogFits == StatusIsRecorded /\ AuditIsTruthful /\ (unrecorded => rewound)

IInv ==
  /\ TypeOK
  /\ LogFits
  /\ TravellingLegHasCourier
  /\ \A h \in Handlers : CopyIsHonest(h)

LEMMA IdleIsHonest ==
  ASSUME NEW h, ~Reads(h)
  PROVE  CopyIsHonest(h)
 <1>1. ~InTransaction(h) BY DEF InTransaction, Reads, Lone
 <1> QED BY <1>1 DEF CopyIsHonest, SeenFits, FreshFits, AnswerFits, LegsFit, TravelFits,
                     AsideFits, Fresh, Current

LEMMA IInit == Init => IInv
 <1> SUFFICES ASSUME Init PROVE IInv OBVIOUS
 <1>1. \A h \in Handlers : ~Reads(h) BY DEF Init, Reads
 <1>2. LogFits BY DEF Init, LogFits, StatusIsRecorded, AuditIsTruthful
 <1>3. TravellingLegHasCourier BY DEF Init, TravellingLegHasCourier
 <1> QED BY <1>1, <1>2, <1>3, TypeInit, IdleIsHonest DEF IInv

(* A copy a step neither reads nor writes stays honest while the document
   keeps its status, version and surcharges and resolves no hold, and its
   legs change hands only by a late ping. *)
LEMMA UntouchedStaysHonest ==
  ASSUME NEW g, CopyIsHonest(g),
         Reads(g)' => Reads(g) /\ call'[g] = call[g],
         known'[g] = known[g], edit'[g] = edit[g], moved'[g] = moved[g],
         seen'[g] = seen[g], todo'[g] = todo[g],
         status' = status, version' = version,
         doc'.surcharges = doc.surcharges,
         restored => restored',
         \A leg \in Legs : doc'[leg] = doc[leg] \/ doc'[leg] \in Couriers,
         ~rewound /\ ~restored' => \A leg \in Legs : doc'[leg] = doc[leg],
         doc'.hold \in Resolved => doc.hold \in Resolved,
         rewound' = rewound
  PROVE  CopyIsHonest(g)'
 <1>0. InTransaction(g)' => InTransaction(g) /\ call'[g] = call[g] BY DEF Reads, InTransaction, Lone
 <1>1. /\ Fresh(g)' => Fresh(g)
       /\ Current(g)' => Current(g)
       /\ Targets(g)' = Targets(g)
   BY <1>0 DEF Fresh, Current, Targets
 <1>2. AnswersOnce(g) => AnswersOnce(g)' BY DEF AnswersOnce
 <1>3. SeenFits(g)' BY <1>0 DEF CopyIsHonest, SeenFits
 <1>4. FreshFits(g)' BY <1>1, <1>2 DEF CopyIsHonest, FreshFits
 <1>5. AnswerFits(g)' BY <1>0 DEF CopyIsHonest, AnswerFits
 <1>6. LegsFit(g)' BY <1>1 DEF CopyIsHonest, LegsFit, Current
 <1>7. TravelFits(g)' BY <1>0, <1>1 DEF CopyIsHonest, TravelFits
 <1>8. AsideFits(g)' BY DEF CopyIsHonest, AsideFits
 <1> QED BY <1>3, <1>4, <1>5, <1>6, <1>7, <1>8 DEF CopyIsHonest

(* A transition that gives a leg away does not set out on it. *)
LEMMA GivenIsNotTravelled == \A leg \in Legs : Gives(leg) \cap Travels(leg) = {}
  BY DEF Gives, Travels, Legs

LEMMA LoadedIsHonest ==
  ASSUME TypeOK, NEW h \in Handlers, NEW name, NEW edits, NEW txns,
         Load(h, name, edits, txns), name \notin Aside,
         GoodEdit(edits), MindsLegs(name, edits, txns)
  PROVE  CopyIsHonest(h)'
 <1>1. /\ moved'[h] = FALSE /\ edit'[h] = edits /\ todo'[h] = txns /\ call'[h] = name
       /\ known'[h] = [status |-> status, version |-> version] /\ seen'[h] = version
       /\ status' = status /\ version' = version /\ doc' = doc
   BY DEF Load, TypeOK, document
 <1>2. known'[h].version = version /\ known'[h].status = status /\ version \in Nat
   BY <1>1 DEF TypeOK
 <1>3. SeenFits(h)' BY <1>1, <1>2 DEF SeenFits
 <1>4. AnswersOnce(h)' BY <1>1 DEF GoodEdit, AnswersOnce, Resolved
 <1>5. FreshFits(h)' BY <1>1, <1>2, <1>4 DEF FreshFits
 <1>6. AnswerFits(h)' BY <1>1 DEF AnswerFits, GoodEdit
 <1>7. Targets(h)' = txns[1] BY <1>1 DEF Targets
 <1>8. LegsFit(h)' BY <1>1, <1>7 DEF LegsFit, MindsLegs
 <1>9. TravelFits(h)'
  <2>1. ASSUME NEW leg \in Legs, leg \in DOMAIN edits, Last(txns[1]) \in Travels(leg)
        PROVE  edits[leg] = doc[leg]
    BY <2>1, GivenIsNotTravelled DEF MindsLegs
  <2> QED BY <1>1, <1>7, <2>1 DEF TravelFits, MindsLegs
 <1>10. AsideFits(h)' BY <1>1 DEF AsideFits
 <1> QED BY <1>3, <1>5, <1>6, <1>8, <1>9, <1>10 DEF CopyIsHonest

LEMMA LoadedAsideIsHonest ==
  ASSUME TypeOK, NEW h \in Handlers, LoadsAside(h)
  PROVE  CopyIsHonest(h)'
 <1>1. PICK name, edits :
         /\ name \in Aside /\ LoadOnly(h, name, edits) /\ KeepsLegs(edits)
         /\ DOMAIN edits \subseteq Legs /\ \A leg \in DOMAIN edits : edits[leg] \in Couriers
   BY DEF LoadsAside
 <1>2. /\ edit'[h] = edits /\ call'[h] = name
       /\ known'[h] = [status |-> status, version |-> version] /\ seen'[h] = version
       /\ status' = status /\ version' = version /\ doc' = doc
   BY <1>1 DEF LoadOnly, TypeOK, document
 <1>3. ~InTransaction(h)' BY <1>1, <1>2 DEF InTransaction, Lone, Aside
 <1>4. known'[h].status = status /\ version \in Nat BY <1>2 DEF TypeOK
 <1>5. \A leg \in Legs : leg \in DOMAIN edits => edits[leg] = doc[leg] BY <1>1 DEF KeepsLegs
 <1>6. AsideFits(h)' BY <1>1, <1>2, <1>4, <1>5 DEF AsideFits
 <1> QED BY <1>3, <1>6 DEF CopyIsHonest, SeenFits, FreshFits, AnswerFits, LegsFit, TravelFits,
                           Fresh, Current

(* A commit that goes over no newer document raises the version. *)
LEMMA CommitRaisesVersion ==
  ASSUME TypeOK, NEW h \in Handlers, SeenFits(h), Commit(h), ~rewound'
  PROVE  /\ version = seen[h] /\ version' > version /\ ~rewound
         /\ Current(h)
         /\ ~moved[h] => version = known[h].version
 <1>1. InTransaction(h) /\ version = seen[h] /\ ~rewound BY DEF Commit, TypeOK
 <1>2. version' = known[h].version + Len(Targets(h)) /\ Len(Targets(h)) \in Nat \ {0}
   BY <1>1, AdvancedTyped DEF Commit
 <1>3. seen[h] <= known[h].version /\ (~moved[h] => seen[h] = known[h].version) BY <1>1 DEF SeenFits
 <1>4. known[h].version \in Nat /\ version \in Nat BY DEF TypeOK, Known
 <1> QED BY <1>1, <1>2, <1>3, <1>4 DEF Current

(* What the commit writes to the legs. *)
LEMMA CommitWritesLegs ==
  ASSUME TypeOK, NEW h \in Handlers, Commit(h), NEW leg \in Legs
  PROVE  doc'[leg] = IF leg \in DOMAIN edit[h] THEN edit[h][leg] ELSE doc[leg]
  BY DEF Commit, Saved, Field

LEMMA BehindStaysHonest ==
  ASSUME TypeOK, NEW h \in Handlers, NEW g \in Handlers, g # h, Commit(h),
         CopyIsHonest(h), CopyIsHonest(g)
  PROVE  CopyIsHonest(g)'
 <1>1. /\ (Reads(g)' <=> Reads(g)) /\ (InTransaction(g)' <=> InTransaction(g))
       /\ known'[g] = known[g] /\ edit'[g] = edit[g] /\ moved'[g] = moved[g]
       /\ seen'[g] = seen[g] /\ todo'[g] = todo[g] /\ call'[g] = call[g]
   BY DEF Commit, Finish, GoOn, InTransaction, Reads, TypeOK
 <1>2. version \in Nat /\ seen[g] \in Nat BY DEF TypeOK
 <1>3. version' \in Nat BY AdvancedTyped DEF Commit, Known
 <1>4. ~rewound' /\ InTransaction(g) => seen[g] < version'
  <2> SUFFICES ASSUME ~rewound', InTransaction(g) PROVE seen[g] < version' OBVIOUS
  <2>1. version' > version /\ ~rewound BY CommitRaisesVersion DEF CopyIsHonest
  <2>2. seen[g] <= version BY <2>1 DEF CopyIsHonest, SeenFits
  <2> QED BY <1>2, <1>3, <2>1, <2>2
 <1>5. SeenFits(g)' BY <1>1, <1>2, <1>3, <1>4 DEF CopyIsHonest, SeenFits
 <1>6. ~Current(g)' BY <1>1, <1>2, <1>3, <1>4 DEF Current
 <1>7. FreshFits(g)'
  <2> SUFFICES ASSUME ~rewound', Fresh(g)', known'[g].version = version' PROVE FALSE
    BY DEF FreshFits
  <2>1. InTransaction(g) /\ ~moved[g] BY <1>1 DEF Fresh
  <2>2. seen[g] = known[g].version BY <2>1 DEF CopyIsHonest, SeenFits
  <2> QED BY <1>1, <1>2, <1>3, <1>4, <2>1, <2>2
 <1>8. AnswerFits(g)' BY <1>1 DEF CopyIsHonest, AnswerFits
 <1>9. LegsFit(g)' BY <1>6 DEF LegsFit
 <1>10. TravelFits(g)' BY <1>1, <1>6 DEF CopyIsHonest, TravelFits
 <1>11. AsideFits(g)'
  <2>1. ASSUME ~rewound', Reads(g), call[g] \in Aside PROVE seen[g] < version'
   <3>1. version' > version /\ ~rewound BY <2>1, CommitRaisesVersion DEF CopyIsHonest
   <3>2. seen[g] <= version BY <2>1, <3>1 DEF CopyIsHonest, AsideFits
   <3> QED BY <1>2, <1>3, <3>1, <3>2
  <2>2. ASSUME Reads(g), call[g] \in Aside, ~rewound'
        PROVE  seen[g] <= version' /\ seen[g] # version'
    BY <1>2, <1>3, <2>1, <2>2
  <2>3. ASSUME Reads(g), call[g] \in Aside
        PROVE  /\ DOMAIN edit[g] \subseteq Legs
               /\ \A leg \in DOMAIN edit[g] : edit[g][leg] \in Couriers
    BY <2>3 DEF CopyIsHonest, AsideFits
  <2> QED BY <1>1, <2>2, <2>3 DEF AsideFits
 <1> QED BY <1>5, <1>7, <1>8, <1>9, <1>10, <1>11 DEF CopyIsHonest

LEMMA RestOfPlan ==
  ASSUME NEW S, NEW s \in Seq(S), s # <<>>, Len(s) # 1
  PROVE  /\ Tail(s)[1] = s[2] /\ 2 \in 2..Len(s)
         /\ \A i \in 2..Len(Tail(s)) : Tail(s)[i] = s[i + 1] /\ i + 1 \in 2..Len(s)
 <1>1. Len(s) \in Nat /\ Len(s) # 0 OBVIOUS
 <1>2. Len(s) \in Nat \ {0, 1} BY <1>1
 <1>3. Len(Tail(s)) = Len(s) - 1 OBVIOUS
 <1>4. ASSUME NEW i \in 1..Len(Tail(s)) PROVE Tail(s)[i] = s[i + 1] BY <1>3
 <1>5. 1 \in 1..Len(Tail(s)) BY <1>2, <1>3
 <1>6. Tail(s)[1] = s[1 + 1] BY <1>4, <1>5
 <1> QED BY <1>2, <1>3, <1>4, <1>6

LEMMA GoneOnIsHonest ==
  ASSUME TypeOK, NEW h \in Handlers, Commit(h), GoOn(h), Len(todo[h]) # 1, CopyIsHonest(h)
  PROVE  CopyIsHonest(h)'
 <1>0. InTransaction(h) BY DEF Commit
 <1>1. /\ moved'[h] = TRUE
       /\ edit'[h] = [f \in DOMAIN edit[h] \cap Legs |-> edit[h][f]]
       /\ known'[h] = Advanced(h) /\ seen'[h] = Advanced(h).version
       /\ version' = Advanced(h).version /\ todo'[h] = Tail(todo[h]) /\ call'[h] = call[h]
   BY DEF GoOn, Commit, TypeOK
 <1>2. Advanced(h).version \in Nat BY <1>0, AdvancedTyped DEF Known
 <1>3. SeenFits(h)' BY <1>1, <1>2 DEF SeenFits
 <1>4. FreshFits(h)' BY <1>1 DEF FreshFits, Fresh
 <1>5. AnswerFits(h)'
  <2>1. DOMAIN edit'[h] \cap {"hold", "surcharges"} = {} BY <1>1 DEF Legs
  <2> QED BY <2>1 DEF AnswerFits
 <1>6. LegsFit(h)'
  <2>1. ASSUME NEW leg \in Legs, leg \in DOMAIN edit'[h] PROVE edit'[h][leg] = doc'[leg]
   <3>1. leg \in DOMAIN edit[h] /\ edit'[h][leg] = edit[h][leg] BY <1>1, <2>1
   <3> QED BY <3>1, CommitWritesLegs
  <2> QED BY <2>1 DEF LegsFit
 <1>7. TravelFits(h)'
  <2> SUFFICES ASSUME call[h] # "overrideStatus", NEW leg \in Legs
               PROVE  /\ \A i \in 2..Len(Tail(todo[h])) : Last(Tail(todo[h])[i]) \notin Travels(leg)
                      /\ Last(Tail(todo[h])[1]) \notin Travels(leg)
    BY <1>1 DEF TravelFits, Targets
  <2>1. todo[h] \in Seq(Seq(Status) \ {<<>>}) /\ todo[h] # <<>> BY <1>0 DEF TypeOK
  <2>2. \A i \in 2..Len(todo[h]) : Last(todo[h][i]) \notin Travels(leg)
    BY <1>0 DEF CopyIsHonest, TravelFits
  <2>3. /\ Tail(todo[h])[1] = todo[h][2] /\ 2 \in 2..Len(todo[h])
        /\ \A i \in 2..Len(Tail(todo[h])) :
             Tail(todo[h])[i] = todo[h][i + 1] /\ i + 1 \in 2..Len(todo[h])
    BY <2>1, RestOfPlan
  <2> QED BY <2>2, <2>3
 <1>8. AsideFits(h)' BY <1>0, <1>1 DEF AsideFits, InTransaction, Lone, Aside
 <1> QED BY <1>3, <1>4, <1>5, <1>6, <1>7, <1>8 DEF CopyIsHonest

LEMMA CommitKeepsHonesty ==
  ASSUME TypeOK, NEW h \in Handlers, Commit(h), NEW g \in Handlers,
         CopyIsHonest(h), CopyIsHonest(g)
  PROVE  CopyIsHonest(g)'
 <1>1. CASE g # h BY <1>1, BehindStaysHonest
 <1>2. CASE g = h /\ Finish(h)
  <2>1. pc'[h] = "idle" BY <1>2 DEF Finish, TypeOK
  <2>2. ~InTransaction(h)' /\ ~Reads(h)' BY <2>1 DEF InTransaction, Reads
  <2> QED BY <1>2, <2>2 DEF CopyIsHonest, SeenFits, FreshFits, AnswerFits, LegsFit,
                            TravelFits, AsideFits, Fresh, Current
 <1>3. CASE g = h /\ GoOn(h) /\ Len(todo[h]) # 1 BY <1>3, GoneOnIsHonest
 <1> QED BY <1>1, <1>2, <1>3 DEF Commit

(* An attempt that is run again has saved its edits; it keeps the copy or
   moves it on. *)
LEMMA RetryIsHonest ==
  ASSUME TypeOK, NEW h \in Handlers, AbortAndRetry(h), CopyIsHonest(h)
  PROVE  CopyIsHonest(h)'
 <1>1. /\ InTransaction(h) /\ status' = status /\ version' = version /\ doc' = doc
       /\ rewound' = rewound /\ pc' = pc /\ call' = call /\ todo' = todo /\ seen' = seen
   BY DEF AbortAndRetry, document, history
 <1>2. edit'[h] = NoEdit BY DEF AbortAndRetry, TypeOK
 <1>3. DOMAIN edit'[h] = {} BY <1>2 DEF NoEdit
 <1>4. \/ moved'[h] = TRUE /\ known'[h] = Advanced(h)
       \/ moved'[h] = moved[h] /\ known'[h] = known[h]
   BY DEF AbortAndRetry, TypeOK
 <1>5. InTransaction(h)' /\ Targets(h)' = Targets(h) /\ (Current(h)' => Current(h))
   BY <1>1 DEF InTransaction, Targets, Current
 <1>6. SeenFits(h)'
  <2>1. /\ Advanced(h).version = known[h].version + Len(Targets(h))
        /\ Len(Targets(h)) \in Nat /\ known[h].version \in Nat /\ seen[h] \in Nat
    BY <1>1, AdvancedTyped DEF TypeOK
  <2>2. /\ seen[h] <= known[h].version /\ (~moved[h] => seen[h] = known[h].version)
        /\ (~rewound => seen[h] <= version)
    BY <1>1 DEF CopyIsHonest, SeenFits
  <2>3. seen[h] <= Advanced(h).version BY <2>1, <2>2
  <2> QED BY <1>1, <1>4, <2>2, <2>3 DEF SeenFits
 <1>7. FreshFits(h)'
  <2>1. AnswersOnce(h)' BY <1>3 DEF AnswersOnce
  <2> QED BY <1>1, <1>4, <1>5, <2>1 DEF CopyIsHonest, FreshFits, Fresh
 <1>8. AnswerFits(h)' BY <1>3 DEF AnswerFits
 <1>9. LegsFit(h)' BY <1>3 DEF LegsFit
 <1>10. TravelFits(h)' BY <1>1, <1>3, <1>5 DEF CopyIsHonest, TravelFits
 <1>11. AsideFits(h)' BY <1>1 DEF AsideFits, InTransaction, Lone, Aside
 <1> QED BY <1>6, <1>7, <1>8, <1>9, <1>10, <1>11 DEF CopyIsHonest

-----------------------------------------------------------------------------
(* The couriers' legs, one step at a time. *)
StepMindsLegs == TravellingLegHasCourier' /\ AssignmentMovesWithStatus

LEMMA CommitMindsLegs ==
  ASSUME TypeOK, NEW h \in Handlers, Commit(h), CopyIsHonest(h)
  PROVE  StepMindsLegs
 <1>1. status' = Last(Targets(h)) BY DEF Commit, Advanced
 <1>2. ASSUME ~rewound', ~restored', NEW leg \in Legs, doc'[leg] # doc[leg]
       PROVE  version' > version /\ status' \in Gives(leg)
  <2>1. Current(h) /\ version' > version /\ ~restored
    BY <1>2, CommitRaisesVersion DEF CopyIsHonest, Commit
  <2>2. leg \in DOMAIN edit[h] /\ edit[h][leg] # doc[leg] BY <1>2, CommitWritesLegs
  <2> QED BY <1>1, <2>1, <2>2 DEF CopyIsHonest, LegsFit
 <1>3. ASSUME ~rewound', ~overridden', NEW leg \in Legs, status' \in Travels(leg)
       PROVE  doc'[leg] \in Couriers
  <2>1. Current(h) /\ InTransaction(h) /\ call[h] # "overrideStatus"
    BY <1>3, CommitRaisesVersion DEF CopyIsHonest, Commit
  <2>2. /\ doc[leg] \in Couriers
        /\ leg \in DOMAIN edit[h] => edit[h][leg] \in Couriers
    BY <1>1, <1>3, <2>1 DEF CopyIsHonest, TravelFits
  <2> QED BY <2>2, CommitWritesLegs
 <1>4. /\ AssignmentMovesWithStatus
          <=> (~rewound' /\ ~restored' =>
                 \A leg \in Legs : doc'[leg] # doc[leg]
                                    => version' > version /\ status' \in Gives(leg))
       /\ TravellingLegHasCourier'
          <=> (overridden' \/ rewound'
               \/ \A leg \in Legs : status' \in Travels(leg) => doc'[leg] \in Couriers)
   BY DEF TravellingLegHasCourier, AssignmentMovesWithStatus, Travels, Gives, Legs
 <1>5. rewound' \in BOOLEAN /\ overridden' \in BOOLEAN BY DEF Commit, TypeOK
 <1> QED BY <1>2, <1>3, <1>4, <1>5 DEF StepMindsLegs

(* What a ping leaves: couriers on their legs, and the legs as they were if
   nobody has overtaken it. *)
LEMMA PingedLegs ==
  ASSUME TypeOK, NEW h \in Handlers, SaveLocation(h), CopyIsHonest(h)
  PROVE  /\ \A leg \in Legs : doc'[leg] = doc[leg] \/ doc'[leg] \in Couriers
         /\ ~rewound /\ ~restored' => \A leg \in Legs : doc'[leg] = doc[leg]
         /\ doc'.hold = doc.hold /\ doc'.surcharges = doc.surcharges
         /\ restored => restored'
 <1>1. Reads(h) /\ call[h] \in Aside BY DEF SaveLocation, Reads, Aside
 <1>2. /\ DOMAIN edit[h] \subseteq Legs
       /\ \A leg \in DOMAIN edit[h] : edit[h][leg] \in Couriers
   BY <1>1 DEF CopyIsHonest, AsideFits
 <1>3. \A f \in Field : doc'[f] = IF f \in DOMAIN edit[h] THEN edit[h][f] ELSE doc[f]
   BY DEF SaveLocation, Saved
 <1>4. restored' = (restored \/ version # seen[h]) BY DEF SaveLocation
 <1>5. ASSUME ~rewound, ~restored' PROVE \A leg \in Legs : doc'[leg] = doc[leg]
  <2>1. ~restored /\ seen[h] = version BY <1>4, <1>5
  <2> QED BY <1>1, <1>3, <1>5, <2>1 DEF CopyIsHonest, AsideFits, Field
 <1>6. doc'.hold = doc.hold /\ doc'.surcharges = doc.surcharges BY <1>2, <1>3 DEF Field, Legs
 <1>7. \A leg \in Legs : doc'[leg] = doc[leg] \/ doc'[leg] \in Couriers BY <1>2, <1>3 DEF Field
 <1> QED BY <1>4, <1>5, <1>6, <1>7

(* What the stamp leaves: the document as it was, unless it went over a
   newer version. *)
LEMMA StampLeaves ==
  ASSUME TypeOK, StampCreated
  PROVE  /\ doc'.pickup = doc.pickup /\ doc'.return = doc.return /\ doc'.hold = doc.hold
         /\ \/ /\ status' = status /\ version' = version /\ doc'.surcharges = doc.surcharges
               /\ rewound' = rewound /\ unrecorded' = unrecorded
            \/ rewound' = TRUE /\ unrecorded' = TRUE
         /\ lastEvent' = lastEvent /\ audit' = audit /\ overtaken' = overtaken
         /\ restored' = restored /\ overridden' = overridden
         /\ pc' = pc /\ call' = call /\ known' = known /\ edit' = edit /\ moved' = moved
         /\ todo' = todo /\ seen' = seen
 <1>1. /\ doc'.surcharges = 0 /\ doc'.pickup = doc.pickup /\ doc'.return = doc.return
       /\ doc'.hold = doc.hold
   BY DEF StampCreated, TypeOK, Field, Legs
 <1>2. status' = "pending_provider_acceptance" /\ version' = 2 BY DEF StampCreated
 <1>3. IF AsCreated THEN rewound' = rewound /\ unrecorded' = unrecorded
       ELSE rewound' = TRUE /\ unrecorded' = TRUE
   BY DEF StampCreated
 <1>4. /\ lastEvent' = lastEvent /\ audit' = audit /\ overtaken' = overtaken
       /\ restored' = restored /\ overridden' = overridden
       /\ pc' = pc /\ call' = call /\ known' = known /\ edit' = edit /\ moved' = moved
       /\ todo' = todo /\ seen' = seen
   BY DEF StampCreated, handlers
 <1>5. CASE AsCreated BY <1>1, <1>2, <1>3, <1>4, <1>5 DEF AsCreated
 <1>6. CASE ~AsCreated BY <1>1, <1>3, <1>4, <1>6
 <1> QED BY <1>5, <1>6

LEMMA CouriersTravel ==
  ASSUME IInv, [Next]_vars
  PROVE  StepMindsLegs
 <1>0. TypeOK /\ TravellingLegHasCourier /\ \A h \in Handlers : CopyIsHonest(h) BY DEF IInv
 <1>1. ASSUME /\ status' = status /\ overridden' = overridden /\ rewound' = rewound
              /\ doc'.pickup = doc.pickup /\ doc'.return = doc.return
       PROVE  StepMindsLegs
   BY <1>0, <1>1 DEF StepMindsLegs, TravellingLegHasCourier, AssignmentMovesWithStatus
 <1>2. ASSUME NEW h \in Handlers, Commit(h) PROVE StepMindsLegs BY <1>0, <1>2, CommitMindsLegs
 <1>3. ASSUME NEW h \in Handlers, Request(h) \/ Job(h) PROVE StepMindsLegs
   BY <1>0, <1>1, <1>3, RequestLoads
      DEF LoadsWell, LoadsAside, LoadOnly, Load, NoteQualityIssue, document, history
 <1>4. ASSUME NEW h \in Handlers, SaveOrderOnly(h) PROVE StepMindsLegs
  <2>1. doc'.pickup = doc.pickup /\ doc'.return = doc.return
    BY <1>0, <1>4 DEF SaveOrderOnly, TypeOK, Field, Legs
  <2> QED BY <1>1, <1>4, <2>1 DEF SaveOrderOnly, history
 <1>5. ASSUME NEW h \in Handlers, Refuse(h) \/ AbortAndRetry(h) \/ Crash(h)
       PROVE  StepMindsLegs
   BY <1>1, <1>5 DEF Refuse, AbortAndRetry, Crash, document, history
 <1>6. ASSUME NEW h \in Handlers, AppendAuditEvent(h) PROVE StepMindsLegs
   BY <1>1, <1>6 DEF AppendAuditEvent
 <1>7. ASSUME NEW h \in Handlers, SaveLocation(h) PROVE StepMindsLegs
  <2>1. /\ \A leg \in Legs : doc'[leg] = doc[leg] \/ doc'[leg] \in Couriers
        /\ ~rewound /\ ~restored' => \A leg \in Legs : doc'[leg] = doc[leg]
    BY <1>0, <1>7, PingedLegs
  <2>2. status' = status /\ overridden' = overridden /\ rewound' = rewound BY <1>7 DEF SaveLocation
  <2>3. TravellingLegHasCourier' BY <1>0, <2>1, <2>2 DEF TravellingLegHasCourier, Legs
  <2>4. AssignmentMovesWithStatus BY <2>1, <2>2 DEF AssignmentMovesWithStatus, Legs
  <2> QED BY <2>3, <2>4 DEF StepMindsLegs
 <1>8. CASE StampCreated
  <2>1. CASE status' = status /\ rewound' = rewound BY <1>0, <1>1, <1>8, <2>1, StampLeaves
  <2>2. CASE rewound' = TRUE
    BY <2>2 DEF StepMindsLegs, TravellingLegHasCourier, AssignmentMovesWithStatus
  <2> QED BY <1>0, <1>8, <2>1, <2>2, StampLeaves
 <1>9. ResponseWindowPasses \/ UNCHANGED vars => StepMindsLegs
   BY <1>1 DEF ResponseWindowPasses, vars, document, history
 <1> QED BY <1>2, <1>3, <1>4, <1>5, <1>6, <1>7, <1>8, <1>9 DEF Next, Run, Handlers

LEMMA FinishedIsHonest ==
  ASSUME NEW h, pc'[h] = "idle"
  PROVE  CopyIsHonest(h)'
 <1>1. ~InTransaction(h)' /\ ~Reads(h)' BY DEF InTransaction, Reads
 <1> QED BY <1>1 DEF CopyIsHonest, SeenFits, FreshFits, AnswerFits, LegsFit, TravelFits,
                     AsideFits, Fresh, Current

LEMMA IInvNext == IInv /\ [Next]_vars => IInv'
 <1> SUFFICES ASSUME IInv, [Next]_vars PROVE IInv' OBVIOUS
 <1>type. TypeOK /\ TypeOK' BY TypeNext DEF IInv
 <1>old. /\ LogFits /\ TravellingLegHasCourier
         /\ \A h \in Handlers : CopyIsHonest(h)
   BY DEF IInv
 <1>couriers. TravellingLegHasCourier' BY CouriersTravel DEF StepMindsLegs
 <1> DEFINE SameLog == /\ status' = status /\ lastEvent' = lastEvent /\ audit' = audit
                       /\ rewound' = rewound /\ unrecorded' = unrecorded
                       /\ overtaken' = overtaken
 <1>same. SameLog => LogFits' BY <1>old DEF LogFits, StatusIsRecorded, AuditIsTruthful
 <1> SUFFICES LogFits' /\ \A h \in Handlers : CopyIsHonest(h)' BY <1>type, <1>couriers DEF IInv
 <1>1. ASSUME NEW h \in Handlers, LoadsWell(h)
       PROVE  LogFits' /\ \A g \in Handlers : CopyIsHonest(g)'
  <2>1. PICK name, edits, txns :
          /\ Load(h, name, edits, txns) /\ name \notin Aside
          /\ GoodEdit(edits) /\ MindsLegs(name, edits, txns)
    BY <1>1 DEF LoadsWell
  <2>2. LogFits' BY <1>same, <2>1 DEF Load, document, history
  <2>3. CopyIsHonest(h)' BY <1>type, <2>1, LoadedIsHonest
  <2>4. ASSUME NEW g \in Handlers, g # h PROVE CopyIsHonest(g)'
   <3>1. /\ Reads(g)' => Reads(g) /\ call'[g] = call[g]
         /\ known'[g] = known[g] /\ edit'[g] = edit[g] /\ moved'[g] = moved[g]
         /\ seen'[g] = seen[g] /\ todo'[g] = todo[g]
         /\ status' = status /\ version' = version /\ doc' = doc /\ rewound' = rewound
         /\ restored' = restored
     BY <1>type, <2>1, <2>4 DEF Load, TypeOK, Reads, document, history
   <3>2. CopyIsHonest(g) BY <1>old
   <3> QED BY <3>1, <3>2, UntouchedStaysHonest
  <2> QED BY <2>2, <2>3, <2>4
 <1>2. ASSUME NEW h \in Handlers, NoteQualityIssue(h)
       PROVE  LogFits' /\ \A g \in Handlers : CopyIsHonest(g)'
  <2>1. LogFits' BY <1>same, <1>2 DEF NoteQualityIssue, document, history
  <2>2. ASSUME NEW g \in Handlers PROVE CopyIsHonest(g)'
   <3>1. /\ Reads(g)' => Reads(g) /\ call'[g] = call[g]
         /\ known'[g] = known[g] /\ edit'[g] = edit[g] /\ moved'[g] = moved[g]
         /\ seen'[g] = seen[g] /\ todo'[g] = todo[g]
         /\ status' = status /\ version' = version /\ doc' = doc /\ rewound' = rewound
         /\ restored' = restored
     BY <1>type, <1>2 DEF NoteQualityIssue, TypeOK, Reads, document, history
   <3>2. CopyIsHonest(g) BY <1>old
   <3> QED BY <3>1, <3>2, UntouchedStaysHonest
  <2> QED BY <2>1, <2>2
 <1>3. ASSUME NEW h \in Handlers, Commit(h)
       PROVE  LogFits' /\ \A g \in Handlers : CopyIsHonest(g)'
  <2>1. LogFits' BY <1>3 DEF Commit, Events, LogFits, StatusIsRecorded, AuditIsTruthful
  <2> QED BY <1>type, <1>old, <1>3, <2>1, CommitKeepsHonesty
 <1>4. ASSUME NEW h \in Handlers, Refuse(h) \/ Crash(h)
       PROVE  LogFits' /\ \A g \in Handlers : CopyIsHonest(g)'
  <2>1. /\ Finish(h) /\ status' = status /\ version' = version /\ doc' = doc
        /\ SameLog /\ restored' = restored
    BY <1>4 DEF Refuse, Crash, document, history
  <2>2. LogFits' BY <1>same, <2>1
  <2>3. pc'[h] = "idle" BY <1>type, <2>1 DEF Finish, TypeOK
  <2>4. CopyIsHonest(h)' BY <2>3, FinishedIsHonest
  <2>5. ASSUME NEW g \in Handlers, g # h PROVE CopyIsHonest(g)'
   <3>1. /\ Reads(g)' => Reads(g) /\ call'[g] = call[g]
         /\ known'[g] = known[g] /\ edit'[g] = edit[g] /\ moved'[g] = moved[g]
         /\ seen'[g] = seen[g] /\ todo'[g] = todo[g]
     BY <1>type, <2>1, <2>5 DEF Finish, TypeOK, Reads
   <3>2. CopyIsHonest(g) BY <1>old
   <3> QED BY <2>1, <3>1, <3>2, UntouchedStaysHonest
  <2> QED BY <2>2, <2>4, <2>5
 <1>5. ASSUME NEW h \in Handlers, SaveOrderOnly(h)
       PROVE  LogFits' /\ \A g \in Handlers : CopyIsHonest(g)'
  <2>1. LogFits' BY <1>same, <1>5 DEF SaveOrderOnly, history
  <2>2. /\ doc'.surcharges = doc.surcharges /\ doc'.hold = "noted"
        /\ \A leg \in Legs : doc'[leg] = doc[leg]
    BY <1>type, <1>5 DEF SaveOrderOnly, TypeOK, Field, Legs
  <2>3. ASSUME NEW g \in Handlers PROVE CopyIsHonest(g)'
   <3>1. /\ Reads(g)' => Reads(g) /\ call'[g] = call[g]
         /\ known'[g] = known[g] /\ edit'[g] = edit[g] /\ moved'[g] = moved[g]
         /\ seen'[g] = seen[g] /\ todo'[g] = todo[g]
         /\ status' = status /\ version' = version /\ rewound' = rewound
         /\ restored' = restored
     BY <1>type, <1>5 DEF SaveOrderOnly, TypeOK, Reads, history
   <3>2. CopyIsHonest(g) BY <1>old
   <3>3. doc'.hold \in Resolved => doc.hold \in Resolved BY <2>2 DEF Resolved
   <3> QED BY <2>2, <3>1, <3>2, <3>3, UntouchedStaysHonest
  <2> QED BY <2>1, <2>3
 <1>6. ASSUME NEW h \in Handlers, AbortAndRetry(h)
       PROVE  LogFits' /\ \A g \in Handlers : CopyIsHonest(g)'
  <2>1. /\ status' = status /\ version' = version /\ doc' = doc
        /\ SameLog /\ restored' = restored
    BY <1>6 DEF AbortAndRetry, document, history
  <2>2. LogFits' BY <1>same, <2>1
  <2>3. edit'[h] = NoEdit BY <1>type, <1>6 DEF AbortAndRetry, TypeOK
  <2>4. DOMAIN edit'[h] = {} BY <2>3 DEF NoEdit
  <2>5. CopyIsHonest(h)' BY <1>type, <1>old, <1>6, RetryIsHonest
  <2>6. ASSUME NEW g \in Handlers, g # h PROVE CopyIsHonest(g)'
   <3>1. /\ Reads(g)' => Reads(g) /\ call'[g] = call[g]
         /\ known'[g] = known[g] /\ edit'[g] = edit[g] /\ moved'[g] = moved[g]
         /\ seen'[g] = seen[g] /\ todo'[g] = todo[g]
     BY <1>type, <1>6, <2>6 DEF AbortAndRetry, TypeOK, Reads
   <3>2. CopyIsHonest(g) BY <1>old
   <3> QED BY <2>1, <3>1, <3>2, UntouchedStaysHonest
  <2> QED BY <2>2, <2>5, <2>6
 <1>7. ASSUME ResponseWindowPasses \/ UNCHANGED vars
       PROVE  LogFits' /\ \A g \in Handlers : CopyIsHonest(g)'
  <2>1. /\ status' = status /\ version' = version /\ doc' = doc
        /\ SameLog /\ restored' = restored
        /\ pc' = pc /\ call' = call /\ known' = known /\ edit' = edit /\ moved' = moved
        /\ todo' = todo /\ seen' = seen
    BY <1>7 DEF ResponseWindowPasses, vars, document, history, handlers
  <2>2. LogFits' BY <1>same, <2>1
  <2>3. ASSUME NEW g \in Handlers PROVE CopyIsHonest(g)'
   <3>1. Reads(g)' => Reads(g) BY <2>1 DEF Reads
   <3>2. CopyIsHonest(g) BY <1>old
   <3> QED BY <2>1, <3>1, <3>2, UntouchedStaysHonest
  <2> QED BY <2>2, <2>3
 <1>8. ASSUME NEW h \in Handlers, LoadsAside(h)
       PROVE  LogFits' /\ \A g \in Handlers : CopyIsHonest(g)'
  <2>1. PICK name, edits : LoadOnly(h, name, edits) BY <1>8 DEF LoadsAside
  <2>2. LogFits' BY <1>same, <2>1 DEF LoadOnly, document, history
  <2>3. CopyIsHonest(h)' BY <1>type, <1>8, LoadedAsideIsHonest
  <2>4. ASSUME NEW g \in Handlers, g # h PROVE CopyIsHonest(g)'
   <3>1. /\ Reads(g)' => Reads(g) /\ call'[g] = call[g]
         /\ known'[g] = known[g] /\ edit'[g] = edit[g] /\ moved'[g] = moved[g]
         /\ seen'[g] = seen[g] /\ todo'[g] = todo[g]
         /\ status' = status /\ version' = version /\ doc' = doc /\ rewound' = rewound
         /\ restored' = restored
     BY <1>type, <2>1, <2>4 DEF LoadOnly, TypeOK, Reads, document, history
   <3>2. CopyIsHonest(g) BY <1>old
   <3> QED BY <3>1, <3>2, UntouchedStaysHonest
  <2> QED BY <2>2, <2>3, <2>4
 <1>9. ASSUME NEW h \in Handlers, AppendAuditEvent(h)
       PROVE  LogFits' /\ \A g \in Handlers : CopyIsHonest(g)'
  <2>1. /\ Finish(h) /\ status' = status /\ version' = version /\ doc' = doc
        /\ lastEvent' = lastEvent /\ rewound' = rewound /\ unrecorded' = unrecorded
        /\ restored' = restored
    BY <1>9 DEF AppendAuditEvent
  <2>2. AuditIsTruthful'
   <3>1. \/ audit' = known[h].status /\ overtaken' = (version # seen[h])
         \/ audit' = audit /\ overtaken' = overtaken
     BY <1>9 DEF AppendAuditEvent
   <3>2. ASSUME ~rewound, seen[h] = version PROVE known[h].status = lastEvent.to
    <4>1. Reads(h) /\ call[h] \in Aside BY <1>9 DEF AppendAuditEvent, Reads, Aside
    <4>2. known[h].status = status BY <1>old, <3>2, <4>1 DEF CopyIsHonest, AsideFits
    <4> QED BY <1>old, <3>2, <4>2 DEF LogFits, StatusIsRecorded
   <3> QED BY <1>old, <2>1, <3>1, <3>2 DEF LogFits, AuditIsTruthful
  <2>3. LogFits' BY <1>old, <2>1, <2>2 DEF LogFits, StatusIsRecorded
  <2>4. CopyIsHonest(h)'
   <3>1. pc'[h] = "idle" BY <1>type, <2>1 DEF Finish, TypeOK
   <3> QED BY <3>1, FinishedIsHonest
  <2>5. ASSUME NEW g \in Handlers, g # h PROVE CopyIsHonest(g)'
   <3>1. /\ Reads(g)' => Reads(g) /\ call'[g] = call[g]
         /\ known'[g] = known[g] /\ edit'[g] = edit[g] /\ moved'[g] = moved[g]
         /\ seen'[g] = seen[g] /\ todo'[g] = todo[g]
     BY <1>type, <2>1, <2>5 DEF Finish, TypeOK, Reads
   <3>2. CopyIsHonest(g) BY <1>old
   <3> QED BY <2>1, <3>1, <3>2, UntouchedStaysHonest
  <2> QED BY <2>3, <2>4, <2>5
 <1>10. ASSUME NEW h \in Handlers, SaveLocation(h)
        PROVE  LogFits' /\ \A g \in Handlers : CopyIsHonest(g)'
  <2>1. Finish(h) /\ SameLog /\ version' = version BY <1>10 DEF SaveLocation
  <2>2. LogFits' BY <1>same, <2>1
  <2>3. /\ \A leg \in Legs : doc'[leg] = doc[leg] \/ doc'[leg] \in Couriers
        /\ ~rewound /\ ~restored' => \A leg \in Legs : doc'[leg] = doc[leg]
        /\ doc'.hold = doc.hold /\ doc'.surcharges = doc.surcharges
        /\ restored => restored'
    BY <1>type, <1>old, <1>10, PingedLegs
  <2>4. CopyIsHonest(h)'
   <3>1. pc'[h] = "idle" BY <1>type, <2>1 DEF Finish, TypeOK
   <3> QED BY <3>1, FinishedIsHonest
  <2>5. ASSUME NEW g \in Handlers, g # h PROVE CopyIsHonest(g)'
   <3>1. /\ Reads(g)' => Reads(g) /\ call'[g] = call[g]
         /\ known'[g] = known[g] /\ edit'[g] = edit[g] /\ moved'[g] = moved[g]
         /\ seen'[g] = seen[g] /\ todo'[g] = todo[g]
     BY <1>type, <2>1, <2>5 DEF Finish, TypeOK, Reads
   <3>2. CopyIsHonest(g) BY <1>old
   <3> QED BY <2>1, <2>3, <3>1, <3>2, UntouchedStaysHonest
  <2> QED BY <2>2, <2>4, <2>5
 <1>11. ASSUME StampCreated
        PROVE  LogFits' /\ \A g \in Handlers : CopyIsHonest(g)'
  <2> DEFINE Late == rewound' = TRUE /\ unrecorded' = TRUE
  <2>0. /\ doc'.pickup = doc.pickup /\ doc'.return = doc.return /\ doc'.hold = doc.hold
        /\ lastEvent' = lastEvent /\ audit' = audit /\ overtaken' = overtaken
        /\ restored' = restored
        /\ pc' = pc /\ call' = call /\ known' = known /\ edit' = edit /\ moved' = moved
        /\ todo' = todo /\ seen' = seen
    BY <1>type, <1>11, StampLeaves
  <2>1. CASE Late
   <3>1. LogFits' BY <2>1 DEF LogFits, StatusIsRecorded, AuditIsTruthful
   <3>2. ASSUME NEW g \in Handlers PROVE CopyIsHonest(g)'
    <4>1. CopyIsHonest(g) BY <1>old
    <4>2. /\ (InTransaction(g)' <=> InTransaction(g)) /\ (Reads(g)' <=> Reads(g))
          /\ rewound' = TRUE
      BY <2>0, <2>1 DEF InTransaction, Reads
    <4>3. SeenFits(g)' BY <2>0, <4>1, <4>2 DEF CopyIsHonest, SeenFits
    <4>4. FreshFits(g)' BY <4>2 DEF FreshFits
    <4>5. AnswerFits(g)' BY <2>0, <4>1, <4>2 DEF CopyIsHonest, AnswerFits
    <4>6. ~Current(g)' BY <4>2 DEF Current
    <4>7. LegsFit(g)' BY <4>6 DEF LegsFit
    <4>8. TravelFits(g)' BY <2>0, <4>1, <4>2, <4>6 DEF CopyIsHonest, TravelFits
    <4>9. AsideFits(g)' BY <2>0, <4>1, <4>2 DEF CopyIsHonest, AsideFits
    <4> QED BY <4>3, <4>4, <4>5, <4>7, <4>8, <4>9 DEF CopyIsHonest
   <3> QED BY <3>1, <3>2
  <2>2. CASE ~Late
   <3>1. /\ status' = status /\ version' = version /\ doc'.surcharges = doc.surcharges
         /\ rewound' = rewound /\ unrecorded' = unrecorded
     BY <1>type, <1>11, <2>2, StampLeaves
   <3>2. LogFits' BY <1>same, <2>0, <3>1
   <3>3. ASSUME NEW g \in Handlers PROVE CopyIsHonest(g)'
    <4>1. CopyIsHonest(g) BY <1>old
    <4>2. Reads(g)' => Reads(g) BY <2>0 DEF Reads
    <4>3. \A leg \in Legs : doc'[leg] = doc[leg] BY <2>0 DEF Legs
    <4> QED BY <2>0, <3>1, <4>1, <4>2, <4>3, UntouchedStaysHonest
   <3> QED BY <3>2, <3>3
  <2> QED BY <2>1, <2>2
 <1>12. ASSUME NEW h \in Handlers, Request(h) \/ Job(h)
        PROVE  LogFits' /\ \A g \in Handlers : CopyIsHonest(g)'
   BY <1>type, <1>1, <1>2, <1>8, <1>12, RequestLoads
 <1> QED BY <1>3, <1>4, <1>5, <1>6, <1>7, <1>9, <1>10, <1>11, <1>12 DEF Next, Run, Handlers

LEMMA Inductive == Spec => []IInv
  BY IInit, IInvNext, PTL DEF Spec

(* The status of the document is the one its newest transition row moved to,
   unless the promo's stamp has taken it back, and an audit row says it too,
   unless its call was overtaken: applyTransition, appendAuditEvent. *)
THEOREM Recorded == Spec => [](StatusIsRecorded /\ AuditIsTruthful)
 <1>1. IInv => StatusIsRecorded /\ AuditIsTruthful BY DEF IInv, LogFits
 <1> QED BY <1>1, Inductive, PTL

(* An order keeps its shape and its history, whoever calls what when. *)
THEOREM HistoryKept == Spec => []HistoryIsKept
 <1>1. TypeOK /\ StatusIsRecorded /\ AuditIsTruthful => HistoryIsKept BY DEF HistoryIsKept
 <1> QED BY <1>1, TypeCorrect, Recorded, PTL

-----------------------------------------------------------------------------
(* The action properties, one step at a time. *)
LEMMA FreshCommitSerialises ==
  ASSUME IInv, NEW h \in Handlers, Commit(h), ~moved[h], ~rewound
  PROVE  /\ known[h].status = lastEvent.to
         /\ version' = known[h].version + Len(Targets(h))
         /\ version' > version
 <1>1. TypeOK /\ InTransaction(h) /\ version = known[h].version
   BY DEF IInv, Commit, Passes, VersionMatches
 <1>2. known[h].status = status BY <1>1 DEF IInv, CopyIsHonest, FreshFits, Fresh
 <1>3. version' = known[h].version + Len(Targets(h)) /\ Len(Targets(h)) \in Nat \ {0}
   BY <1>1, AdvancedTyped DEF Commit
 <1>4. status = lastEvent.to BY DEF IInv, LogFits, StatusIsRecorded
 <1>5. version \in Nat BY <1>1 DEF TypeOK
 <1> QED BY <1>1, <1>2, <1>3, <1>4, <1>5

(* A transaction whose copy no earlier attempt has moved continues the
   recorded history, whatever other requests and sweeps do meanwhile. *)
THEOREM FreshSerialise == Spec => FreshCommitsSerialise
 <1>1. IInv /\ [Next]_vars
         => [\A h \in Handlers :
               Commit(h) /\ ~moved[h] /\ ~rewound
                 => /\ known[h].status = lastEvent.to
                    /\ version' = known[h].version + Len(Targets(h))
                    /\ version' > version]_vars
   BY FreshCommitSerialises
 <1> QED BY <1>1, Inductive, PTL DEF Spec, FreshCommitsSerialise

LEMMA CommitResolvesOnce ==
  ASSUME IInv, NEW h \in Handlers, Commit(h), ~rewound'
  PROVE  /\ doc'.hold \in Resolved /\ doc'.hold # doc.hold
              => doc.hold \notin Resolved
         /\ doc'.surcharges # doc.surcharges
              => /\ doc'.surcharges = doc.surcharges + 1
                 /\ doc'.hold = "approved" /\ doc.hold \notin Resolved
 <1>1. TypeOK /\ InTransaction(h) /\ CopyIsHonest(h) BY DEF IInv, Commit
 <1>2. ~rewound /\ (~moved[h] => version = known[h].version)
   BY <1>1, CommitRaisesVersion DEF CopyIsHonest
 <1>3. /\ doc'.hold = IF "hold" \in DOMAIN edit[h] THEN edit[h].hold ELSE doc.hold
       /\ doc'.surcharges = IF "surcharges" \in DOMAIN edit[h]
                            THEN edit[h].surcharges ELSE doc.surcharges
   BY DEF Commit, Saved, Field
 <1>4. CASE moved[h]
  <2>1. DOMAIN edit[h] \cap {"hold", "surcharges"} = {} BY <1>1, <1>4 DEF CopyIsHonest, AnswerFits
  <2> QED BY <1>3, <2>1
 <1>5. CASE ~moved[h]
  <2>1. AnswersOnce(h) BY <1>1, <1>2, <1>5 DEF CopyIsHonest, FreshFits, Fresh
  <2>2. "surcharges" \in DOMAIN edit[h]
          => "hold" \in DOMAIN edit[h] /\ edit[h].hold = "approved"
    BY <1>1 DEF CopyIsHonest, AnswerFits
  <2> QED BY <1>3, <2>1, <2>2 DEF AnswersOnce, Resolved
 <1>6. moved[h] \in BOOLEAN BY <1>1 DEF TypeOK
 <1> QED BY <1>4, <1>5, <1>6

LEMMA OthersResolveNothing ==
  ASSUME IInv, [Next]_vars, \A h \in Handlers : ~Commit(h), ~rewound'
  PROVE  doc'.surcharges = doc.surcharges
         /\ (doc'.hold = doc.hold \/ doc'.hold \notin Resolved)
 <1>0. TypeOK /\ \A h \in Handlers : CopyIsHonest(h) BY DEF IInv
 <1>1. ASSUME NEW h \in Handlers, Request(h) \/ Job(h) PROVE doc' = doc
   BY <1>0, <1>1, RequestLoads
      DEF LoadsWell, LoadsAside, LoadOnly, Load, NoteQualityIssue, document
 <1>2. ASSUME NEW h \in Handlers, SaveOrderOnly(h)
       PROVE  doc'.surcharges = doc.surcharges /\ doc'.hold \notin Resolved
   BY <1>0, <1>2 DEF SaveOrderOnly, TypeOK, Field, Resolved
 <1>3. ASSUME NEW h \in Handlers,
              Refuse(h) \/ AbortAndRetry(h) \/ Crash(h) \/ AppendAuditEvent(h)
       PROVE  doc' = doc
   BY <1>3 DEF Refuse, AbortAndRetry, Crash, AppendAuditEvent, document
 <1>4. ResponseWindowPasses \/ UNCHANGED vars => doc' = doc
   BY DEF ResponseWindowPasses, vars, document
 <1>5. ASSUME NEW h \in Handlers, SaveLocation(h)
       PROVE  doc'.surcharges = doc.surcharges /\ doc'.hold = doc.hold
   BY <1>0, <1>5, PingedLegs
 <1>6. CASE StampCreated BY <1>0, <1>6, StampLeaves
 <1> QED BY <1>1, <1>2, <1>3, <1>4, <1>5, <1>6 DEF Next, Run, Handlers

(* A hold resolves once and charges once, however many customers' answers,
   sweeps, retries and crashes there are: respondToQualityHold and
   autoResolveExpiredQualityHold. *)
THEOREM ResolvedOnce == Spec => HoldResolvedOnce
 <1>1. IInv /\ [Next]_vars
         => [~rewound' =>
               /\ doc'.hold \in Resolved /\ doc'.hold # doc.hold
                    => doc.hold \notin Resolved
               /\ doc'.surcharges # doc.surcharges
                    => /\ doc'.surcharges = doc.surcharges + 1
                       /\ doc'.hold = "approved" /\ doc.hold \notin Resolved]_vars
   BY CommitResolvesOnce, OthersResolveNothing
 <1> QED BY <1>1, Inductive, PTL DEF Spec, HoldResolvedOnce

(* Nobody loses a leg but by the transition that says so, until a ping comes
   late, and nobody travels without one, however the calls of support, shops and couriers overlap and
   are run again: saveAndTransition and updateCourierLocation write back
   assignments from copies of their own, and assertAssignedCourier looks at
   one. *)
THEOREM CouriersKept == Spec => CouriersStay
 <1>1. IInv /\ [Next]_vars
         => [TravellingLegHasCourier' /\ AssignmentMovesWithStatus]_vars
   BY CouriersTravel DEF StepMindsLegs
 <1> QED BY <1>1, Inductive, PTL DEF Spec, CouriersStay
====
