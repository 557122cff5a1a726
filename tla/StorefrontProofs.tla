------------------------- MODULE StorefrontProofs -------------------------
(* What TLAPS proves of the storefront, for any number of requests, orders,
   days, versions and prices: the places of a washer's days (BookingDays),
   the branches of a merchant (BranchOpenings), the platform's fee rules
   (PlatformFees) and booking policies (BookingPolicies), what is shown
   and bookable (Marketplace), prices from template to order (PriceList),
   and that the composition (Storefront) runs each of its components as
   that component's own specification allows. *)
EXTENDS Storefront, FiniteSetTheorems, WellFoundedInduction, TLAPS

(* A set of naturals that is not empty has a least element, and a bounded one
   a greatest. *)
LEMMA LeastOfNaturals ==
  ASSUME NEW H \in SUBSET Nat, H # {}
  PROVE  \E t \in H : \A u \in H : t <= u
 <1>1. \E x \in H : \A y \in H : ~(<<y, x>> \in OpToRel(<, Nat)) BY WFMin, NatLessThanWellFounded
 <1>2. PICK x \in H : \A y \in H : ~(<<y, x>> \in OpToRel(<, Nat)) BY <1>1
 <1>3. \A y \in H : ~(y < x) BY <1>2 DEF OpToRel
 <1>4. \A y \in H : y \in Nat /\ x \in Nat OBVIOUS
 <1> QED BY <1>3, <1>4

LEMMA EndsOfADay ==
  ASSUME NEW H \in SUBSET (0..(DayTicks - 1)), H # {}
  PROVE  Opening(H) \in Int /\ Closing(H) \in Int
 <1>1. DayTicks \in Nat /\ DayTicks > 0 BY SlotNumbersFit
 <1>2. H \in SUBSET Nat BY <1>1
 <1>3. \E t \in H : \A u \in H : t <= u BY <1>2, LeastOfNaturals
 <1>4. Opening(H) \in H BY <1>3 DEF Opening
 <1> DEFINE G == {DayTicks - t : t \in H}
 <1>5. G \in SUBSET Nat /\ G # {}
  <2>1. \A t \in H : DayTicks - t \in Nat BY <1>1
  <2> QED BY <2>1
 <1>6. \E t \in G : \A u \in G : t <= u
  <2> HIDE DEF G
  <2> QED BY <1>5, LeastOfNaturals
 <1>7. PICK g \in G : \A u \in G : g <= u BY <1>6
 <1>8. PICK t \in H : g = DayTicks - t BY <1>7
 <1>9. \A u \in H : t >= u
  <2> TAKE u \in H
  <2>1. DayTicks - t <= DayTicks - u BY <1>7, <1>8
  <2> QED BY <2>1, <1>1, <1>2
 <1> DEFINE last == CHOOSE s \in H : \A u \in H : s >= u
 <1>10. last \in H BY <1>9
 <1>11. Closing(H) = 1 + last BY DEF Closing
 <1> HIDE DEF last
 <1>12. last \in Nat /\ Opening(H) \in Nat BY <1>2, <1>4, <1>10
 <1> QED BY <1>11, <1>12

(* Counting orders. *)
LEMMA OrdersCount ==
  ASSUME NEW T \in SUBSET SlotOrders, NEW S \in SUBSET T
  PROVE  Cardinality(S) \in Nat /\ Cardinality(T) \in Nat /\ Cardinality(S) <= Cardinality(T)
 <1>1. IsFiniteSet(T) BY SlotOrdersAreFinite, FS_Subset
 <1> QED BY <1>1, FS_Subset, FS_CardinalityType

-----------------------------------------------------------------------------
(* Places of a washer's days. *)
SlotSteps == {"idle", "rules", "date", "count", "place", "reserve", "accept"}
SlotState == {"none", "pending", "accepted", "ended"}
Booking == {"rules", "date", "count", "place"}
Limit == {NoLimit} \cup Int
BothGates == {"provider", "date"}
SlotRecord ==
  [day : SlotDays, state : SlotState, limit : Limit, place : Int, slack : Int,
   gates : SUBSET BothGates]

SlotTyped ==
  /\ slotNow \in Nat /\ slotNow <= MaxSlotTick /\ washerState \in {"ready", "away", "barred"}
  /\ slotOf \in [SlotOrders -> SlotRecord]
  /\ bkPc \in [SlotRequests -> SlotSteps] /\ bkOrder \in [SlotRequests -> SUBSET SlotOrders]
  /\ bkDay \in [SlotRequests -> SlotDays] /\ bkStale \in [SlotRequests -> BOOLEAN]
  /\ bkLimit \in [SlotRequests -> Limit] /\ bkSlack \in [SlotRequests -> Int]
  /\ wasOpen \in [SlotRequests -> SUBSET BothGates]
  /\ entitledTo \in Int /\ ownLimit \in Limit /\ orderCap \in Limit
  /\ dayLock \in [SlotDays -> SUBSET SlotRequests] /\ capLock \in [SlotDays -> SUBSET SlotRequests]

(* A counter is held by the one request that raised it and has yet to commit. *)
LocksFit ==
  /\ \A d \in SlotDays, h \in SlotRequests :
       /\ h \in dayLock[d] <=> bkPc[h] = "place" /\ bkDay[h] = d
       /\ h \in capLock[d] <=> bkPc[h] = "accept" /\ bkDay[h] = d /\ bkLimit[h] # NoLimit
  /\ \A d \in SlotDays : \A g, h \in SlotRequests :
       /\ g \in dayLock[d] /\ h \in dayLock[d] => g = h
       /\ g \in capLock[d] /\ h \in capLock[d] => g = h

(* What a booking in progress knows: its place is still free, unless it will
   find its counter raised; it has seen the gates open and the notice fit. *)
BookingFits(h) ==
  /\ bkPc[h] \in {"date", "count", "place"} => bkLimit[h] \in Int
  /\ bkPc[h] \in {"count", "place"} => bkSlack[h] >= LeadTicks /\ "date" \in wasOpen[h]
  /\ bkPc[h] \in Booking => "provider" \in wasOpen[h]
  /\ \A d \in SlotDays : bkDay[h] = d =>
       /\ bkPc[h] = "place" \/ (bkPc[h] = "count" /\ ~bkStale[h]) =>
            d \in slipped \/ Cardinality(Places(d)) < bkLimit[h]
       /\ bkPc[h] \in Booking => Gates(d) \subseteq wasOpen[h]

(* And an acceptance: its order was placed on its date, and counts within. *)
AcceptFits(h) ==
  /\ bkPc[h] \in {"reserve", "accept"} =>
       \A o \in bkOrder[h] :
         bkOrder[h] = {o} /\ slotOf[o].state # "none" /\ slotOf[o].day = bkDay[h]
  /\ \A d \in SlotDays :
       bkDay[h] = d /\ bkPc[h] = "accept" /\ bkLimit[h] # NoLimit =>
         \/ d \in slipped
         \/ \E n \in Int : n = bkLimit[h] /\ Cardinality(AcceptedOn(d) \ bkOrder[h]) < n

EndedHoldNoPlace == \A o \in SlotOrders : slotOf[o].state = "ended" => slotOf[o].place = 0

SlotInv ==
  /\ SlotTyped /\ LocksFit /\ EndedHoldNoPlace
  /\ \A h \in SlotRequests : BookingFits(h) /\ AcceptFits(h)
  /\ NoOverbooking /\ AcceptedWithinCap /\ BookedThroughOpenGates /\ NoticeFits

LEMMA SlotInvInit == SlotInit => SlotInv
 <1> SUFFICES ASSUME SlotInit PROVE SlotInv OBVIOUS
 <1>0. 0 \in SlotDays /\ 0 \in Nat /\ MaxSlotTick \in Nat BY SlotNumbersFit
 <1>1. NoSlot \in SlotRecord BY <1>0 DEF NoSlot, SlotRecord, SlotState, Limit
 <1>2. entitledTo \in Int /\ ownLimit \in Limit /\ orderCap \in Limit
   BY SlotNumbersFit DEF SlotInit, Limit
 <1>3. SlotTyped BY <1>0, <1>1, <1>2 DEF SlotInit, SlotTyped, SlotSteps, Limit
 <1>4. LocksFit BY DEF SlotInit, LocksFit
 <1>5. \A h \in SlotRequests : BookingFits(h) /\ AcceptFits(h)
   BY DEF SlotInit, BookingFits, AcceptFits, Booking
 <1>6. /\ EndedHoldNoPlace
       /\ NoOverbooking /\ AcceptedWithinCap /\ BookedThroughOpenGates /\ NoticeFits
   BY DEF SlotInit, NoSlot, EndedHoldNoPlace,
          NoOverbooking, AcceptedWithinCap, BookedThroughOpenGates, NoticeFits
 <1> QED BY <1>3, <1>4, <1>5, <1>6 DEF SlotInv

(* A date is bookable with the notice the washer is owed. *)
LEMMA BookableHasNotice ==
  ASSUME SlotTyped, NEW d \in SlotDays, NEW n, NEW l, DayBookable(d, n, l)
  PROVE  UntilClosing(d) \in Int /\ UntilClosing(d) >= LeadTicks
 <1>0. DayTicks \in Nat /\ DayTicks > 0 /\ LeadTicks \in Int /\ d \in Int /\ slotNow \in Nat
   BY SlotNumbersFit DEF SlotTyped
 <1>1. HoursOf(d) \in SUBSET (0..(DayTicks - 1)) /\ HoursOf(d) # {}
   BY SlotNumbersFit DEF HoursOf, WeekHours, IntersectWindows
 <1>2. Opening(HoursOf(d)) \in Int /\ Closing(HoursOf(d)) \in Int BY <1>1, EndsOfADay
 <1>3. Today \in Int /\ TimeOfDay \in Int BY <1>0 DEF Today, TimeOfDay
 <1>4. (d - Today) * DayTicks \in Int BY <1>0, <1>3
 <1>5. PICK p \in Int : p = (d - Today) * DayTicks BY <1>4
 <1>6. UntilClosing(d) = p + Closing(HoursOf(d)) - TimeOfDay BY <1>5 DEF UntilClosing
 <1>7. EarliestCollection(d) = Larger(p + Opening(HoursOf(d)) - TimeOfDay, LeadTicks)
   BY <1>5 DEF EarliestCollection
 <1>8. UntilClosing(d) \in Int BY <1>2, <1>3, <1>6
 <1>9. EarliestCollection(d) \in Int /\ EarliestCollection(d) >= LeadTicks
   BY <1>0, <1>2, <1>3, <1>7 DEF Larger
 <1>10. EarliestCollection(d) <= UntilClosing(d) BY DEF DayBookable
 <1> QED BY <1>0, <1>8, <1>9, <1>10

(* The rules of a booking change within their kind. *)
LEMMA RulesTyped ==
  ASSUME SlotTyped,
         \/ SetWasherState \/ SetOwnHours \/ UpdateConfig \/ EntitlementChanges
         \/ SetDailyOrderCap
         \/ \E d \in SlotDays :
              RemoveOverride(d) \/ \E r \in {"closed", "special"} : UpsertOverride(d, r)
         \/ \E d, e \in SlotDays : CreateBlackout(d, e)
         \/ RemoveBlackout
  PROVE  /\ RulesChange /\ washerState' \in {"ready", "away", "barred"}
         /\ entitledTo' \in Int /\ ownLimit' \in Limit /\ orderCap' \in Limit
 <1>0. /\ SlotLimits \subseteq Int /\ SlotEntitlements \subseteq Int BY SlotNumbersFit
 <1>t. /\ washerState \in {"ready", "away", "barred"} /\ entitledTo \in Int
       /\ ownLimit \in Limit /\ orderCap \in Limit
   BY DEF SlotTyped
 <1>l. SlotLimits \cup {NoLimit} \subseteq Limit BY <1>0 DEF Limit
 <1> DEFINE Goal == /\ RulesChange /\ washerState' \in {"ready", "away", "barred"}
                    /\ entitledTo' \in Int /\ ownLimit' \in Limit /\ orderCap' \in Limit
 <1>1. ASSUME SetWasherState PROVE Goal BY <1>1, <1>t DEF SetWasherState
 <1>2. ASSUME SetOwnHours PROVE Goal BY <1>2, <1>t DEF SetOwnHours
 <1>3. ASSUME UpdateConfig PROVE Goal BY <1>3, <1>t, <1>l DEF UpdateConfig
 <1>4. ASSUME EntitlementChanges PROVE Goal BY <1>4, <1>t, <1>0 DEF EntitlementChanges
 <1>5. ASSUME SetDailyOrderCap PROVE Goal BY <1>5, <1>t, <1>l DEF SetDailyOrderCap
 <1>6. ASSUME NEW d \in SlotDays, RemoveOverride(d) PROVE Goal BY <1>6, <1>t DEF RemoveOverride
 <1>7. ASSUME NEW d \in SlotDays, NEW r, UpsertOverride(d, r) PROVE Goal
   BY <1>7, <1>t DEF UpsertOverride
 <1>8. ASSUME NEW d \in SlotDays, NEW e \in SlotDays, CreateBlackout(d, e) PROVE Goal
   BY <1>8, <1>t DEF CreateBlackout
 <1>9. ASSUME RemoveBlackout PROVE Goal BY <1>9, <1>t DEF RemoveBlackout
 <1> HIDE DEF Goal
 <1>q. Goal BY <1>1, <1>2, <1>3, <1>4, <1>5, <1>6, <1>7, <1>8, <1>9
 <1> QED BY <1>q DEF Goal

(* The three kinds of step: of a request, of an order or the clock, of a rule. *)
SlotRequestStep(h) ==
  \/ \E d \in SlotDays : AskBooking(h, d)
  \/ ReadRules(h) \/ ReadDate(h) \/ RaiseDayCounter(h)
  \/ \E o \in SlotOrders : PlaceBooking(h, o) \/ AskAccept(h, o)
  \/ ReserveDailyCap(h) \/ CommitAccept(h) \/ LoseSlotRequest(h)
RulesStep ==
  /\ RulesChange /\ washerState' \in {"ready", "away", "barred"}
  /\ entitledTo' \in Int /\ ownLimit' \in Limit /\ orderCap' \in Limit

LEMMA SlotStepKinds ==
  ASSUME SlotTyped, SlotNext
  PROVE  \/ \E h \in SlotRequests : SlotRequestStep(h)
         \/ \E o \in SlotOrders : EndBooking(o) \/ \E s \in {"pending", "accepted"} : SlipIn(o, s)
         \/ RulesStep \/ SlotTick
 <1>1. ASSUME \/ SetWasherState \/ SetOwnHours \/ UpdateConfig \/ EntitlementChanges
              \/ SetDailyOrderCap
              \/ \E d \in SlotDays :
                   RemoveOverride(d) \/ \E r \in {"closed", "special"} : UpsertOverride(d, r)
              \/ \E d, e \in SlotDays : CreateBlackout(d, e)
              \/ RemoveBlackout
       PROVE  RulesStep
   BY <1>1, RulesTyped DEF RulesStep
 <1> QED BY <1>1 DEF SlotNext, SlotRequestStep

LEMMA CapByTyped ==
  ASSUME NEW r \in Limit, NEW e \in Int
  PROVE  CapBy(r, e) \in Int
  BY DEF CapBy, Smaller, Limit

LEMMA SlotTypedNext ==
  ASSUME SlotTyped, \A h \in SlotRequests : BookingFits(h), [SlotNext]_slotVars
  PROVE  SlotTyped'
 <1> USE DEF SlotTyped
 <1>0. 0 \in SlotDays /\ 0 \in Int /\ 0 \in Limit /\ SpecialLimit \in Limit
   BY SlotNumbersFit DEF Limit, SpecialLimit
 <1>r. SlotRequests = SlotRequests /\ "idle" \in SlotSteps /\ "rules" \in SlotSteps
       /\ "date" \in SlotSteps /\ "count" \in SlotSteps /\ "place" \in SlotSteps
       /\ "reserve" \in SlotSteps /\ "accept" \in SlotSteps
   BY DEF SlotSteps
 <1>1. ASSUME NEW h \in SlotRequests, NEW d \in SlotDays, AskBooking(h, d) PROVE SlotTyped'
  <2>1. Gates(d) \in SUBSET BothGates BY DEF Gates, BothGates
  <2> QED BY <1>1, <1>r, <2>1 DEF AskBooking, SlotBegin, bookingRules, slotLocks
 <1>2. ASSUME NEW h \in SlotRequests, ReadRules(h) PROVE SlotTyped'
  <2>1. PICK n \in Int : n = CapBy(ownLimit, entitledTo) BY CapByTyped
  <2>2. n \in Limit BY DEF Limit
  <2>3. CASE washerState = "away"
   <3>1. SlotDone(h) /\ UNCHANGED <<slotNow, bookingRules, slotOf, slotLocks>>
     BY <1>2, <2>3 DEF ReadRules
   <3>2. /\ bkPc' \in [SlotRequests -> SlotSteps] /\ bkOrder' \in [SlotRequests -> SUBSET SlotOrders]
         /\ bkDay' \in [SlotRequests -> SlotDays] /\ bkStale' \in [SlotRequests -> BOOLEAN]
     BY <1>0, <1>r, <3>1 DEF SlotDone, SlotDoneBut
   <3>3. /\ bkLimit' \in [SlotRequests -> Limit] /\ bkSlack' \in [SlotRequests -> Int]
         /\ wasOpen' \in [SlotRequests -> SUBSET BothGates]
     BY <1>0, <3>1 DEF SlotDone, SlotDoneBut
   <3> QED BY <3>1, <3>2, <3>3 DEF bookingRules, slotLocks
  <2>4. CASE washerState # "away"
    BY <1>2, <1>r, <2>1, <2>2, <2>4 DEF ReadRules, bookingRules, slotLocks
  <2> QED BY <2>3, <2>4
 <1>3. ASSUME NEW h \in SlotRequests, ReadDate(h) PROVE SlotTyped'
  <2>0. PICK d \in SlotDays : d = bkDay[h] BY <1>3
  <2>1. bkPc[h] = "date" /\ bkLimit[h] \in Int BY <1>3 DEF ReadDate, BookingFits
  <2>2. PICK n \in Int : n = IF dateRule[d] = "special" THEN CapBy(SpecialLimit, bkLimit[h])
                             ELSE bkLimit[h]
    BY <1>0, <2>1, CapByTyped
  <2>3. n \in Limit BY DEF Limit
  <2>4. CASE DayBookable(d, Cardinality(Places(d)), n)
   <3>1. PICK u \in Int : u = UntilClosing(d) BY <2>4, BookableHasNotice
   <3> QED BY <1>3, <1>r, <2>0, <2>2, <2>3, <2>4, <3>1 DEF ReadDate, bookingRules, slotLocks
  <2>5. CASE ~DayBookable(d, Cardinality(Places(d)), n)
   <3>1. /\ SlotDone(h)
         /\ UNCHANGED <<slotNow, bookingRules, slotOf, slotLocks, slotBounds, slipped>>
     BY <1>3, <2>0, <2>2, <2>5 DEF ReadDate
   <3> QED BY <3>1, <1>0, <1>r DEF SlotDone, SlotDoneBut, bookingRules, slotLocks
  <2> QED BY <2>4, <2>5
 <1>4. ASSUME NEW h \in SlotRequests, RaiseDayCounter(h) PROVE SlotTyped'
   BY <1>4, <1>r DEF RaiseDayCounter, bookingRules
 <1>5. ASSUME NEW h \in SlotRequests, NEW o \in SlotOrders, PlaceBooking(h, o) PROVE SlotTyped'
  <2>0. PICK d \in SlotDays : d = bkDay[h] BY <1>5
  <2>1. PICK n \in Int : n = Cardinality(Places(d)) + 1
   <3>1. Places(d) \in SUBSET SlotOrders BY DEF Places
   <3> QED BY <3>1, OrdersCount
  <2> DEFINE new == [day |-> d, state |-> "pending", limit |-> bkLimit[h],
                     place |-> n, slack |-> bkSlack[h], gates |-> wasOpen[h]]
  <2>2. new \in SlotRecord BY DEF SlotRecord, SlotState
  <2>3. slotOf' = [slotOf EXCEPT ![o] = new] BY <1>5, <2>0, <2>1 DEF PlaceBooking
  <2> HIDE DEF new
  <2>4. slotOf' \in [SlotOrders -> SlotRecord] BY <2>2, <2>3
  <2> QED BY <1>5, <1>0, <1>r, <2>4 DEF PlaceBooking, SlotDoneBut, bookingRules
 <1>6. ASSUME NEW h \in SlotRequests, NEW o \in SlotOrders, AskAccept(h, o) PROVE SlotTyped'
  <2>1. PICK d \in SlotDays : d = slotOf[o].day BY DEF SlotRecord
  <2> QED BY <1>6, <1>r, <2>1 DEF AskAccept, SlotBegin, bookingRules, slotLocks
 <1>7. ASSUME NEW h \in SlotRequests, ReserveDailyCap(h) PROVE SlotTyped'
  <2>0. PICK d \in SlotDays : d = bkDay[h] BY <1>7
  <2>1. CASE UnderCap(AcceptedOn(d) \ bkOrder[h], bkLimit[h])
   <3> DEFINE mine == IF bkLimit[h] = NoLimit THEN {} ELSE {h}
   <3>1. mine \in SUBSET SlotRequests OBVIOUS
   <3>2. /\ capLock' = [capLock EXCEPT ![d] = @ \cup mine]
         /\ bkPc' = [bkPc EXCEPT ![h] = "accept"]
         /\ UNCHANGED <<bkOrder, bkDay, bkStale, bkLimit, bkSlack, wasOpen, slotNow,
                        bookingRules, slotOf, dayLock>>
     BY <1>7, <2>0, <2>1 DEF ReserveDailyCap
   <3> HIDE DEF mine
   <3> QED BY <1>r, <3>1, <3>2 DEF bookingRules
  <2>2. CASE ~UnderCap(AcceptedOn(d) \ bkOrder[h], bkLimit[h])
   <3>1. SlotDone(h) /\ UNCHANGED <<capLock, slotNow, bookingRules, slotOf, dayLock>>
     BY <1>7, <2>0, <2>2 DEF ReserveDailyCap
   <3> QED BY <1>0, <1>r, <3>1 DEF SlotDone, SlotDoneBut, bookingRules
  <2> QED BY <2>1, <2>2
 <1>8. ASSUME NEW h \in SlotRequests, CommitAccept(h) PROVE SlotTyped'
  <2>0. PICK d \in SlotDays : d = bkDay[h] BY <1>8
  <2>1. PICK o \in bkOrder[h] :
          slotOf' = IF slotOf[o].state = "pending"
                    THEN [slotOf EXCEPT ![o].state = "accepted", ![o].limit = bkLimit[h],
                            ![o].place = Cardinality(AcceptedOn(d)) + 1, ![o].slack = 0,
                            ![o].gates = {}]
                    ELSE slotOf
    BY <1>8, <2>0 DEF CommitAccept
  <2>2. PICK n \in Int : n = Cardinality(AcceptedOn(d)) + 1
   <3>1. AcceptedOn(d) \in SUBSET SlotOrders BY DEF Places, AcceptedOn
   <3> QED BY <3>1, OrdersCount
  <2>3. o \in SlotOrders /\ slotOf[o] \in SlotRecord OBVIOUS
  <2> DEFINE r == [slotOf[o] EXCEPT !.state = "accepted", !.limit = bkLimit[h], !.place = n,
                                    !.slack = 0, !.gates = {}]
  <2>4. r \in SlotRecord BY <1>0, <2>3 DEF SlotRecord, SlotState
  <2>5. slotOf' = slotOf \/ slotOf' = [slotOf EXCEPT ![o] = r] BY <2>1, <2>2
  <2> HIDE DEF r
  <2>6. slotOf' \in [SlotOrders -> SlotRecord] BY <2>3, <2>4, <2>5
  <2> QED BY <1>8, <1>0, <1>r, <2>6 DEF CommitAccept, SlotDone, SlotDoneBut, bookingRules
 <1>9. ASSUME NEW h \in SlotRequests, LoseSlotRequest(h) PROVE SlotTyped'
   BY <1>9, <1>0, <1>r DEF LoseSlotRequest, SlotDone, SlotDoneBut, bookingRules
 <1>10. ASSUME NEW o \in SlotOrders, EndBooking(o) PROVE SlotTyped'
  <2>1. PICK d \in SlotDays : d = slotOf[o].day BY DEF SlotRecord
  <2> DEFINE r == [NoSlot EXCEPT !.state = "ended", !.day = d]
  <2>2. r \in SlotRecord BY <1>0 DEF NoSlot, SlotRecord, SlotState
  <2>3. slotOf' = [slotOf EXCEPT ![o] = r] BY <1>10, <2>1 DEF EndBooking
  <2> HIDE DEF r
  <2>4. slotOf' \in [SlotOrders -> SlotRecord] BY <2>2, <2>3
  <2> QED BY <1>10, <2>4 DEF EndBooking, bookingRules, slotLocks, slotRequest
 <1>11. ASSUME NEW o \in SlotOrders, NEW s \in {"pending", "accepted"}, SlipIn(o, s)
        PROVE  SlotTyped'
  <2> DEFINE r == [slotOf[o] EXCEPT !.state = s]
  <2>2. r \in SlotRecord BY DEF SlotRecord, SlotState
  <2>3. slotOf' = [slotOf EXCEPT ![o] = r] BY <1>11 DEF SlipIn
  <2> HIDE DEF r
  <2>4. slotOf' \in [SlotOrders -> SlotRecord] BY <2>2, <2>3
  <2> QED BY <1>11, <2>4 DEF SlipIn, bookingRules, slotLocks, slotRequest
 <1>12. ASSUME RulesStep PROVE SlotTyped'
  <2>1. \A h \in SlotRequests : Gates(bkDay[h])' \in SUBSET BothGates BY DEF Gates, BothGates
  <2>2. wasOpen' \in [SlotRequests -> SUBSET BothGates] BY <1>12, <2>1 DEF RulesStep, RulesChange
  <2> QED BY <1>12, <2>2 DEF RulesStep, RulesChange, slotLocks, slotRequest
 <1>13. ASSUME SlotTick PROVE SlotTyped'
   BY <1>13, SlotNumbersFit DEF SlotTick, bookingRules, slotLocks, slotRequest
 <1>14. ASSUME UNCHANGED slotVars PROVE SlotTyped'
   BY <1>14 DEF slotVars, bookingRules, slotLocks, slotRequest
 <1> HIDE DEF SlotTyped
 <1> QED BY SlotStepKinds, <1>1, <1>2, <1>3, <1>4, <1>5, <1>6, <1>7, <1>8, <1>9, <1>10, <1>11,
       <1>12, <1>13, <1>14 DEF SlotRequestStep

(* A request that does not move keeps what it is about; it may only learn
   that its counter was raised, or see a gate open. *)
SlotKept(h) ==
  /\ bkPc'[h] = bkPc[h] /\ bkOrder'[h] = bkOrder[h] /\ bkDay'[h] = bkDay[h]
  /\ bkLimit'[h] = bkLimit[h] /\ bkSlack'[h] = bkSlack[h]
  /\ wasOpen[h] \subseteq wasOpen'[h] /\ (bkStale[h] => bkStale'[h])

LEMMA OtherRequestsKept ==
  ASSUME SlotTyped, NEW h \in SlotRequests, SlotRequestStep(h), NEW g \in SlotRequests \ {h}
  PROVE  SlotKept(g) /\ UNCHANGED bookingRules
 <1>t. /\ DOMAIN bkPc = SlotRequests /\ DOMAIN bkOrder = SlotRequests
       /\ DOMAIN bkDay = SlotRequests /\ DOMAIN bkStale = SlotRequests
       /\ DOMAIN bkLimit = SlotRequests /\ DOMAIN bkSlack = SlotRequests
       /\ DOMAIN wasOpen = SlotRequests /\ bkStale \in [SlotRequests -> BOOLEAN]
   BY DEF SlotTyped
 <1> USE DEF SlotKept
 <1>1. ASSUME NEW d \in SlotDays, AskBooking(h, d) PROVE SlotKept(g) /\ UNCHANGED bookingRules
   BY <1>1, <1>t DEF AskBooking, SlotBegin
 <1>2. ASSUME ReadRules(h) PROVE SlotKept(g) /\ UNCHANGED bookingRules
   BY <1>2, <1>t DEF ReadRules, SlotDone, SlotDoneBut
 <1>3. ASSUME ReadDate(h) PROVE SlotKept(g) /\ UNCHANGED bookingRules
   BY <1>3, <1>t DEF ReadDate, SlotDone, SlotDoneBut
 <1>4. ASSUME RaiseDayCounter(h) PROVE SlotKept(g) /\ UNCHANGED bookingRules
   BY <1>4, <1>t DEF RaiseDayCounter
 <1>5. ASSUME NEW o \in SlotOrders, PlaceBooking(h, o) PROVE SlotKept(g) /\ UNCHANGED bookingRules
   BY <1>5, <1>t DEF PlaceBooking, SlotDoneBut
 <1>6. ASSUME NEW o \in SlotOrders, AskAccept(h, o) PROVE SlotKept(g) /\ UNCHANGED bookingRules
   BY <1>6, <1>t DEF AskAccept, SlotBegin
 <1>7. ASSUME ReserveDailyCap(h) PROVE SlotKept(g) /\ UNCHANGED bookingRules
   BY <1>7, <1>t DEF ReserveDailyCap, SlotDone, SlotDoneBut
 <1>8. ASSUME CommitAccept(h) PROVE SlotKept(g) /\ UNCHANGED bookingRules
   BY <1>8, <1>t DEF CommitAccept, SlotDone, SlotDoneBut
 <1>9. ASSUME LoseSlotRequest(h) PROVE SlotKept(g) /\ UNCHANGED bookingRules
   BY <1>9, <1>t DEF LoseSlotRequest, SlotDone, SlotDoneBut
 <1> QED BY <1>1, <1>2, <1>3, <1>4, <1>5, <1>6, <1>7, <1>8, <1>9 DEF SlotRequestStep

LEMMA OtherStepsKeepRequests ==
  ASSUME SlotTyped,
         \/ \E o \in SlotOrders : EndBooking(o) \/ \E s \in {"pending", "accepted"} : SlipIn(o, s)
         \/ RulesStep \/ SlotTick \/ UNCHANGED slotVars
  PROVE  /\ \A g \in SlotRequests : SlotKept(g)
         /\ UNCHANGED <<slotLocks, slotRequest>>
  BY DEF SlotTyped, SlotKept, EndBooking, SlipIn, RulesStep, RulesChange, SlotTick, slotVars,
         slotRequest, slotLocks

(* Whose counter is raised. *)
LEMMA LocksFitNext ==
  ASSUME SlotTyped, LocksFit, [SlotNext]_slotVars
  PROVE  LocksFit'
 <1>t. /\ DOMAIN bkPc = SlotRequests /\ bkDay \in [SlotRequests -> SlotDays]
       /\ DOMAIN bkLimit = SlotRequests /\ DOMAIN bkOrder = SlotRequests
       /\ dayLock \in [SlotDays -> SUBSET SlotRequests]
       /\ capLock \in [SlotDays -> SUBSET SlotRequests]
   BY DEF SlotTyped
 <1>1. ASSUME NEW h \in SlotRequests, SlotRequestStep(h) PROVE LocksFit'
  <2>o. \A g \in SlotRequests \ {h} :
          bkPc'[g] = bkPc[g] /\ bkDay'[g] = bkDay[g] /\ bkLimit'[g] = bkLimit[g]
    BY <1>1, OtherRequestsKept DEF SlotKept
  <2>s. /\ \A d \in SlotDays, g \in SlotRequests \ {h} :
             /\ g \in dayLock[d] <=> bkPc[g] = "place" /\ bkDay[g] = d
             /\ g \in capLock[d] <=> bkPc[g] = "accept" /\ bkDay[g] = d /\ bkLimit[g] # NoLimit
        /\ \A d \in SlotDays :
             /\ h \in dayLock[d] <=> bkPc[h] = "place" /\ bkDay[h] = d
             /\ h \in capLock[d] <=> bkPc[h] = "accept" /\ bkDay[h] = d /\ bkLimit[h] # NoLimit
        /\ \A d \in SlotDays : \A f, g \in SlotRequests :
             /\ f \in dayLock[d] /\ g \in dayLock[d] => f = g
             /\ f \in capLock[d] /\ g \in capLock[d] => f = g
    BY DEF LocksFit
  (* It is enough that the request raises a counter nobody holds, or releases
     its own, in step with what it is about to do. *)
  <2> DEFINE Fits ==
        \A d \in SlotDays :
          /\ dayLock'[d] \subseteq SlotRequests /\ capLock'[d] \subseteq SlotRequests
          /\ \A g \in SlotRequests \ {h} : /\ g \in dayLock'[d] <=> g \in dayLock[d]
                                           /\ g \in capLock'[d] <=> g \in capLock[d]
          /\ h \in dayLock'[d] <=> bkPc'[h] = "place" /\ bkDay'[h] = d
          /\ h \in capLock'[d] <=>
               bkPc'[h] = "accept" /\ bkDay'[h] = d /\ bkLimit'[h] # NoLimit
          /\ h \in dayLock'[d] => h \in dayLock[d] \/ dayLock[d] = {}
          /\ h \in capLock'[d] => h \in capLock[d] \/ capLock[d] = {}
  <2>f. ASSUME Fits PROVE LocksFit'
   <3>1. ASSUME NEW d \in SlotDays, NEW g \in SlotRequests
         PROVE  /\ g \in dayLock'[d] <=> bkPc'[g] = "place" /\ bkDay'[g] = d
                /\ g \in capLock'[d] <=>
                     bkPc'[g] = "accept" /\ bkDay'[g] = d /\ bkLimit'[g] # NoLimit
     BY <2>f, <2>o, <2>s
   <3>2. ASSUME NEW d \in SlotDays, NEW f \in SlotRequests, NEW g \in SlotRequests
         PROVE  /\ f \in dayLock'[d] /\ g \in dayLock'[d] => f = g
                /\ f \in capLock'[d] /\ g \in capLock'[d] => f = g
     BY <2>f, <2>s
   <3> QED BY <3>1, <3>2 DEF LocksFit
  <2>n. UNCHANGED slotLocks => (dayLock' = dayLock /\ capLock' = capLock) BY DEF slotLocks
  <2>1. ASSUME NEW d \in SlotDays, AskBooking(h, d) PROVE LocksFit'
    BY <2>1, <1>t, <2>s, <2>f, <2>n DEF AskBooking, SlotBegin
  <2>2. ASSUME ReadRules(h) PROVE LocksFit'
    BY <2>2, <1>t, <2>s, <2>f, <2>n DEF ReadRules, SlotDone, SlotDoneBut
  <2>3. ASSUME ReadDate(h) PROVE LocksFit'
    BY <2>3, <1>t, <2>s, <2>f, <2>n DEF ReadDate, SlotDone, SlotDoneBut
  <2>4. ASSUME RaiseDayCounter(h) PROVE LocksFit' BY <2>4, <1>t, <2>s, <2>f DEF RaiseDayCounter
  <2>5. ASSUME NEW o \in SlotOrders, PlaceBooking(h, o) PROVE LocksFit'
    BY <2>5, <1>t, <2>s, <2>f DEF PlaceBooking, SlotDoneBut
  <2>6. ASSUME NEW o \in SlotOrders, AskAccept(h, o) PROVE LocksFit'
    BY <2>6, <1>t, <2>s, <2>f, <2>n DEF AskAccept, SlotBegin
  <2>7. ASSUME ReserveDailyCap(h) PROVE LocksFit'
   <3>1. bkPc[h] = "reserve" /\ dayLock' = dayLock BY <2>7 DEF ReserveDailyCap
   <3>2. CASE bkLimit[h] = NoLimit /\ bkPc'[h] = "accept"
     BY <2>7, <3>1, <3>2, <1>t, <2>s, <2>f DEF ReserveDailyCap, SlotDone, SlotDoneBut
   <3>3. CASE bkLimit[h] # NoLimit /\ bkPc'[h] = "accept"
     BY <2>7, <3>1, <3>3, <1>t, <2>s, <2>f DEF ReserveDailyCap, SlotDone, SlotDoneBut
   <3>4. CASE bkPc'[h] # "accept"
     BY <2>7, <3>1, <3>4, <1>t, <2>s, <2>f DEF ReserveDailyCap, SlotDone, SlotDoneBut
   <3> QED BY <3>2, <3>3, <3>4
  <2>8. ASSUME CommitAccept(h) PROVE LocksFit'
    BY <2>8, <1>t, <2>s, <2>f DEF CommitAccept, SlotDone, SlotDoneBut
  <2>9. ASSUME LoseSlotRequest(h) PROVE LocksFit'
    BY <2>9, <1>t, <2>s, <2>f DEF LoseSlotRequest, SlotDone, SlotDoneBut
  <2> HIDE DEF Fits
  <2> QED BY <1>1, <2>1, <2>2, <2>3, <2>4, <2>5, <2>6, <2>7, <2>8, <2>9 DEF SlotRequestStep
 <1>2. ASSUME UNCHANGED <<slotLocks, slotRequest>> PROVE LocksFit'
   BY <1>2 DEF LocksFit, slotLocks, slotRequest
 <1> QED BY <1>1, <1>2, SlotStepKinds, OtherStepsKeepRequests

(* Places are taken on a date by a booking that commits there, or slip in. *)
LEMMA PlacesMove ==
  ASSUME SlotTyped, SlotNext, NEW d \in SlotDays
  PROVE  /\ slipped \subseteq slipped'
         /\ \/ Places(d)' \subseteq Places(d)
            \/ d \in slipped'
            \/ \E g \in SlotRequests, o \in SlotOrders : PlaceBooking(g, o) /\ bkDay[g] = d
         /\ \/ AcceptedOn(d)' \subseteq AcceptedOn(d)
            \/ d \in slipped'
            \/ \E g \in SlotRequests :
                 CommitAccept(g) /\ bkDay[g] = d /\ (bkLimit[g] # NoLimit \/ capLock[d] = {})
            \/ \E g \in SlotRequests :
                 CommitAccept(g) /\ \E o \in bkOrder[g] : slotOf[o].day # bkDay[g]
 <1> DEFINE Goal == /\ slipped \subseteq slipped'
                    /\ \/ Places(d)' \subseteq Places(d)
                       \/ d \in slipped'
                       \/ \E g \in SlotRequests, o \in SlotOrders :
                            PlaceBooking(g, o) /\ bkDay[g] = d
                    /\ \/ AcceptedOn(d)' \subseteq AcceptedOn(d)
                       \/ d \in slipped'
                       \/ \E g \in SlotRequests :
                            /\ CommitAccept(g) /\ bkDay[g] = d
                            /\ bkLimit[g] # NoLimit \/ capLock[d] = {}
                       \/ \E g \in SlotRequests :
                            CommitAccept(g) /\ \E o \in bkOrder[g] : slotOf[o].day # bkDay[g]
 <1>t. slotOf \in [SlotOrders -> SlotRecord] /\ bkOrder \in [SlotRequests -> SUBSET SlotOrders]
   BY DEF SlotTyped
 <1>d. DOMAIN slotOf = SlotOrders BY <1>t
 <1>n. \A q \in SlotOrders : slotOf[q].day \in SlotDays BY <1>t DEF SlotRecord
 <1>u. ASSUME UNCHANGED <<slotOf, slipped>> PROVE Goal BY <1>u DEF Places, AcceptedOn
 <1>1. ASSUME NEW g \in SlotRequests, NEW o \in SlotOrders, PlaceBooking(g, o) PROVE Goal
  <2>1. PICK e : e = bkDay[g] OBVIOUS
  <2>2. slotOf' = [slotOf EXCEPT ![o] =
          [day |-> e, state |-> "pending", limit |-> bkLimit[g],
           place |-> Cardinality(Places(e)) + 1, slack |-> bkSlack[g], gates |-> wasOpen[g]]]
        /\ slipped' = slipped
    BY <1>1, <2>1 DEF PlaceBooking
  <2>3. slotOf'[o].day = e /\ slotOf'[o].state = "pending" BY <2>2, <1>d
  <2>4. \A q \in SlotOrders \ {o} : slotOf'[q] = slotOf[q] BY <2>2, <1>d
  <2>5. e # d => Places(d)' \subseteq Places(d) BY <2>3, <2>4 DEF Places
  <2>6. AcceptedOn(d)' \subseteq AcceptedOn(d) BY <2>3, <2>4 DEF AcceptedOn, Places
  <2> QED BY <1>1, <2>1, <2>2, <2>5, <2>6
 <1>2. ASSUME NEW g \in SlotRequests, CommitAccept(g) PROVE Goal
  <2>1. PICK e : e = bkDay[g] OBVIOUS
  <2>2. PICK o \in bkOrder[g] :
          slotOf' = IF slotOf[o].state = "pending"
                    THEN [slotOf EXCEPT ![o].state = "accepted", ![o].limit = bkLimit[g],
                            ![o].place = Cardinality(AcceptedOn(e)) + 1, ![o].slack = 0,
                            ![o].gates = {}]
                    ELSE slotOf
    BY <1>2, <2>1 DEF CommitAccept
  <2>3. /\ slipped' = IF bkLimit[g] = NoLimit /\ capLock[e] # {} THEN slipped \cup {e} ELSE slipped
        /\ o \in SlotOrders
    BY <1>2, <2>1, <1>t DEF CommitAccept
  <2>4. CASE slotOf[o].state # "pending" BY <2>2, <2>3, <2>4 DEF Places, AcceptedOn
  <2>5. CASE slotOf[o].state = "pending"
   <3>1. \A q \in SlotOrders \ {o} : slotOf'[q] = slotOf[q] BY <2>2, <2>5, <1>d
   <3>2. slotOf[o] \in SlotRecord BY <1>t, <2>3
   <3>3. slotOf'[o].day = slotOf[o].day /\ slotOf'[o].state = "accepted"
     BY <2>2, <2>3, <2>5, <1>d, <3>2 DEF SlotRecord
   <3>4. Places(d)' \subseteq Places(d) BY <3>1, <3>3, <2>5 DEF Places, Released
   <3>5. slotOf[o].day # d => AcceptedOn(d)' \subseteq AcceptedOn(d)
     BY <3>1, <3>3 DEF AcceptedOn, Places
   <3> QED BY <1>2, <2>1, <2>2, <2>3, <3>4, <3>5
  <2> QED BY <2>4, <2>5
 <1>3. ASSUME NEW o \in SlotOrders, EndBooking(o) PROVE Goal
  <2>1. /\ slotOf' = [slotOf EXCEPT ![o] = [NoSlot EXCEPT !.state = "ended", !.day = slotOf[o].day]]
        /\ slipped' = slipped
    BY <1>3 DEF EndBooking
  <2>2. \A q \in SlotOrders \ {o} : slotOf'[q] = slotOf[q] BY <2>1, <1>d
  <2>3. slotOf'[o].state = "ended" BY <2>1, <1>d DEF NoSlot
  <2> QED BY <2>1, <2>2, <2>3 DEF Places, AcceptedOn, Released
 <1>4. ASSUME NEW o \in SlotOrders, NEW s \in {"pending", "accepted"}, SlipIn(o, s) PROVE Goal
  <2>1. /\ slotOf' = [slotOf EXCEPT ![o].state = s] /\ slipped' = slipped \cup {slotOf[o].day}
    BY <1>4 DEF SlipIn
  <2>2. \A q \in SlotOrders \ {o} : slotOf'[q] = slotOf[q] BY <2>1, <1>d
  <2>3. slotOf[o] \in SlotRecord BY <1>t
  <2>4. slotOf'[o].day = slotOf[o].day BY <2>1, <2>3, <1>d DEF SlotRecord
  <2>5. slotOf[o].day # d =>
          Places(d)' \subseteq Places(d) /\ AcceptedOn(d)' \subseteq AcceptedOn(d)
    BY <2>2, <2>4 DEF Places, AcceptedOn
  <2> QED BY <2>1, <2>5
 <1>5. ASSUME NEW h \in SlotRequests, SlotRequestStep(h),
              \A o \in SlotOrders : ~PlaceBooking(h, o), ~CommitAccept(h)
       PROVE  Goal
  <2>1. UNCHANGED <<slotOf, slipped>>
    BY <1>5 DEF SlotRequestStep, AskBooking, ReadRules, ReadDate, RaiseDayCounter, AskAccept,
                ReserveDailyCap, LoseSlotRequest
  <2> QED BY <2>1, <1>u
 <1>6. ASSUME RulesStep \/ SlotTick PROVE Goal BY <1>6, <1>u DEF RulesStep, RulesChange, SlotTick
 <1> HIDE DEF Goal
 <1>q. Goal BY SlotStepKinds, <1>1, <1>2, <1>3, <1>4, <1>5, <1>6
 <1> QED BY <1>q DEF Goal

LEMMA KeptBookingFits ==
  ASSUME SlotTyped, LocksFit, SlotNext, SlotTyped', NEW g \in SlotRequests,
         BookingFits(g), SlotKept(g), UNCHANGED bookingRules \/ RulesStep
  PROVE  BookingFits(g)'
 <1>k. /\ bkPc'[g] = bkPc[g] /\ bkDay'[g] = bkDay[g] /\ bkLimit'[g] = bkLimit[g]
       /\ bkSlack'[g] = bkSlack[g] /\ wasOpen[g] \subseteq wasOpen'[g]
       /\ bkStale[g] => bkStale'[g]
   BY DEF SlotKept
 <1>1. /\ bkPc'[g] \in {"date", "count", "place"} => bkLimit'[g] \in Int
       /\ bkPc'[g] \in {"count", "place"} => bkSlack'[g] >= LeadTicks /\ "date" \in wasOpen'[g]
       /\ bkPc'[g] \in Booking => "provider" \in wasOpen'[g]
   BY <1>k DEF BookingFits
 <1>2. ASSUME NEW d \in SlotDays, bkDay'[g] = d,
              bkPc'[g] = "place" \/ (bkPc'[g] = "count" /\ ~bkStale'[g]),
              d \notin slipped'
       PROVE  Cardinality(Places(d))' < bkLimit'[g]
  <2>1. /\ slipped \subseteq slipped'
        /\ \/ Places(d)' \subseteq Places(d)
           \/ \E k \in SlotRequests, o \in SlotOrders : PlaceBooking(k, o) /\ bkDay[k] = d
    BY <1>2, PlacesMove
  <2>2. ASSUME NEW k \in SlotRequests, NEW o \in SlotOrders, PlaceBooking(k, o), bkDay[k] = d
        PROVE  FALSE
   <3>1. bkPc[k] = "place" /\ bkPc'[k] = "idle" BY <2>2 DEF PlaceBooking, SlotDoneBut, SlotTyped
   <3>2. k # g BY <3>1, <1>2
   <3>3. k \in dayLock[d] BY <2>2, <3>1 DEF LocksFit
   <3>4. bkPc[g] # "place" BY <3>2, <3>3, <1>k, <1>2, ZenonT(60) DEF LocksFit
   <3>5. bkStale'[g] BY <3>2, <3>4, <1>k, <1>2, <2>2 DEF PlaceBooking
   <3> QED BY <3>4, <3>5, <1>k, <1>2
  <2>3. Places(d)' \subseteq Places(d) BY <2>1, <2>2
  <2>4. Cardinality(Places(d)) < bkLimit[g] BY <1>2, <1>k, <2>1 DEF BookingFits
  <2>5. PICK P \in SUBSET SlotOrders : P = Places(d) BY DEF Places
  <2>6. PICK Q \in SUBSET SlotOrders : Q = Places(d)' BY DEF Places
  <2>7. /\ Cardinality(Q) \in Nat /\ Cardinality(P) \in Nat /\ Cardinality(Q) <= Cardinality(P)
    BY <2>3, <2>5, <2>6, OrdersCount
  <2>8. Cardinality(Places(d))' = Cardinality(Q) BY <2>6
  <2>9. bkLimit[g] \in Int BY <1>2, <1>k DEF BookingFits
  <2> QED BY <2>4, <2>5, <2>7, <2>8, <2>9, <1>k
 <1>3. ASSUME NEW d \in SlotDays, bkDay'[g] = d, bkPc'[g] \in Booking
       PROVE  Gates(d)' \subseteq wasOpen'[g]
  <2>1. Gates(d) \subseteq wasOpen[g] BY <1>3, <1>k DEF BookingFits
  <2>2. CASE UNCHANGED bookingRules
   <3>1. Gates(d)' = Gates(d)
     BY <2>2 DEF bookingRules, Gates, BlackedOut, AcceptsOn, WeekHours, IntersectWindows
   <3> QED BY <3>1, <2>1, <1>k
  <2>3. CASE RulesStep
   <3>1. bkDay' = bkDay BY <2>3 DEF RulesStep, RulesChange, slotRequest
   <3>2. wasOpen'[g] = wasOpen[g] \cup Gates(bkDay[g])'
     BY <2>3, <1>3, <1>k DEF RulesStep, RulesChange, Booking
   <3>3. Gates(bkDay[g])' = Gates(d)' BY <1>3, <1>k, <3>1 DEF Gates, BlackedOut, AcceptsOn
   <3> QED BY <3>2, <3>3
  <2> QED BY <2>2, <2>3
 <1> QED BY <1>1, <1>2, <1>3 DEF BookingFits

LEMMA MovedBookingFits ==
  ASSUME SlotTyped, SlotTyped', NEW h \in SlotRequests, BookingFits(h), SlotRequestStep(h)
  PROVE  BookingFits(h)'
 <1>t. /\ DOMAIN bkPc = SlotRequests /\ DOMAIN bkDay = SlotRequests
       /\ DOMAIN bkStale = SlotRequests /\ bkLimit \in [SlotRequests -> Limit]
       /\ DOMAIN bkSlack = SlotRequests /\ DOMAIN wasOpen = SlotRequests
       /\ ownLimit \in Limit /\ entitledTo \in Int /\ bkDay[h] \in SlotDays
   BY DEF SlotTyped
 <1>i. bkPc'[h] \notin Booking => BookingFits(h)' BY DEF BookingFits, Booking
 <1>g. \A d \in SlotDays : UNCHANGED bookingRules => Gates(d)' = Gates(d)
   BY DEF bookingRules, Gates, BlackedOut, AcceptsOn, WeekHours, IntersectWindows
 <1>1. ASSUME NEW d \in SlotDays, AskBooking(h, d) PROVE BookingFits(h)'
  <2>1. bkPc'[h] = "rules" /\ bkDay'[h] = d /\ wasOpen'[h] = Gates(d) /\ UNCHANGED bookingRules
    BY <1>1, <1>t DEF AskBooking, SlotBegin
  <2>2. "provider" \in Gates(d) BY <1>1 DEF AskBooking, EligibleFor, Gates
  <2> QED BY <2>1, <2>2, <1>g DEF BookingFits
 <1>2. ASSUME ReadRules(h) PROVE BookingFits(h)'
  <2>1. CASE washerState = "away"
    BY <1>2, <2>1, <1>t, <1>i DEF ReadRules, SlotDone, SlotDoneBut, Booking
  <2>2. CASE washerState # "away"
   <3>1. /\ bkPc[h] = "rules" /\ bkPc'[h] = "date" /\ bkDay'[h] = bkDay[h]
         /\ bkLimit'[h] = CapBy(ownLimit, entitledTo) /\ wasOpen'[h] = wasOpen[h]
         /\ UNCHANGED bookingRules
     BY <1>2, <2>2, <1>t DEF ReadRules
   <3>2. bkLimit'[h] \in Int BY <3>1, <1>t, CapByTyped
   <3> QED BY <3>1, <3>2, <1>g DEF BookingFits, Booking
  <2> QED BY <2>1, <2>2
 <1>3. ASSUME ReadDate(h) PROVE BookingFits(h)'
  <2>0. PICK d \in SlotDays : d = bkDay[h] BY <1>t
  <2>1. bkPc[h] = "date" /\ bkLimit[h] \in Int BY <1>3 DEF ReadDate, BookingFits
  <2>2. PICK n \in Int : n = IF dateRule[d] = "special" THEN CapBy(SpecialLimit, bkLimit[h])
                             ELSE bkLimit[h]
   <3>1. SpecialLimit \in Limit BY DEF SpecialLimit, Limit
   <3> QED BY <3>1, <2>1, CapByTyped
  <2>4. CASE DayBookable(d, Cardinality(Places(d)), n)
   <3>1. PICK u \in Int : u = UntilClosing(d) /\ u >= LeadTicks BY <2>4, BookableHasNotice
   <3>2. /\ bkPc'[h] = "count" /\ bkLimit'[h] = n /\ bkSlack'[h] = u /\ bkDay'[h] = d
         /\ wasOpen'[h] = wasOpen[h] /\ UNCHANGED <<bookingRules, slotOf, slipped>>
     BY <1>3, <1>t, <2>0, <2>2, <2>4, <3>1 DEF ReadDate
   <3>3. "date" \in Gates(d) /\ Cardinality(Places(d)) < n BY <2>4 DEF DayBookable, Gates
   <3>4. Places(d)' = Places(d) BY <3>2 DEF Places
   <3>5. "provider" \in wasOpen[h] /\ Gates(d) \subseteq wasOpen[h]
     BY <2>0, <2>1 DEF BookingFits, Booking
   <3> QED BY <3>1, <3>2, <3>3, <3>4, <3>5, <1>g DEF BookingFits
  <2>5. CASE ~DayBookable(d, Cardinality(Places(d)), n)
   <3>1. SlotDone(h) BY <1>3, <2>0, <2>2, <2>5 DEF ReadDate
   <3> QED BY <3>1, <1>t, <1>i DEF SlotDone, SlotDoneBut, Booking
  <2> QED BY <2>4, <2>5
 <1>4. ASSUME RaiseDayCounter(h) PROVE BookingFits(h)'
  <2>1. /\ bkPc[h] = "count" /\ bkDay'[h] = bkDay[h] /\ bkLimit'[h] = bkLimit[h]
        /\ bkSlack'[h] = bkSlack[h] /\ wasOpen'[h] = wasOpen[h]
        /\ UNCHANGED <<bookingRules, slotOf, slipped>>
        /\ (bkPc'[h] = "place" /\ ~bkStale[h]) \/ bkPc'[h] = "rules"
    BY <1>4, <1>t DEF RaiseDayCounter
  <2>2. \A d \in SlotDays : Places(d)' = Places(d) BY <2>1 DEF Places
  <2> QED BY <2>1, <2>2, <1>g DEF BookingFits, Booking
 <1>5. ASSUME \/ \E o \in SlotOrders : PlaceBooking(h, o) \/ AskAccept(h, o)
              \/ ReserveDailyCap(h) \/ CommitAccept(h) \/ LoseSlotRequest(h)
       PROVE  BookingFits(h)'
  <2>1. bkPc'[h] \in {"idle", "reserve", "accept"}
    BY <1>5, <1>t DEF PlaceBooking, AskAccept, SlotBegin, ReserveDailyCap, CommitAccept,
                      LoseSlotRequest, SlotDone, SlotDoneBut
  <2> QED BY <2>1, <1>i DEF Booking
 <1> QED BY <1>1, <1>2, <1>3, <1>4, <1>5 DEF SlotRequestStep

(* An order that was placed stays on its date. *)
LEMMA OrdersStayOnTheirDate ==
  ASSUME SlotTyped, SlotNext, NEW o \in SlotOrders, slotOf[o].state # "none"
  PROVE  slotOf'[o].state # "none" /\ slotOf'[o].day = slotOf[o].day
 <1>t. slotOf \in [SlotOrders -> SlotRecord] /\ bkOrder \in [SlotRequests -> SUBSET SlotOrders]
   BY DEF SlotTyped
 <1>d. DOMAIN slotOf = SlotOrders /\ slotOf[o] \in SlotRecord BY <1>t
 <1>1. ASSUME NEW g \in SlotRequests, NEW q \in SlotOrders, PlaceBooking(g, q)
       PROVE  slotOf'[o] = slotOf[o]
   BY <1>1, <1>d DEF PlaceBooking
 <1>2. ASSUME NEW g \in SlotRequests, CommitAccept(g)
       PROVE  slotOf'[o].state # "none" /\ slotOf'[o].day = slotOf[o].day
  <2>1. \E n : \E q \in bkOrder[g] :
          slotOf' = IF slotOf[q].state = "pending"
                    THEN [slotOf EXCEPT ![q].state = "accepted", ![q].limit = bkLimit[g],
                            ![q].place = n, ![q].slack = 0, ![q].gates = {}]
                    ELSE slotOf
    BY <1>2 DEF CommitAccept
  <2> QED BY <2>1, <1>d DEF SlotRecord
 <1>3. ASSUME NEW q \in SlotOrders, EndBooking(q)
       PROVE  slotOf'[o].state # "none" /\ slotOf'[o].day = slotOf[o].day
   BY <1>3, <1>d DEF EndBooking, NoSlot
 <1>4. ASSUME NEW q \in SlotOrders, NEW s \in {"pending", "accepted"}, SlipIn(q, s)
       PROVE  slotOf'[o].state # "none" /\ slotOf'[o].day = slotOf[o].day
   BY <1>4, <1>d DEF SlipIn, SlotRecord
 <1>5. ASSUME NEW h \in SlotRequests, SlotRequestStep(h),
              \A q \in SlotOrders : ~PlaceBooking(h, q), ~CommitAccept(h)
       PROVE  slotOf' = slotOf
   BY <1>5 DEF SlotRequestStep, AskBooking, ReadRules, ReadDate, RaiseDayCounter, AskAccept,
               ReserveDailyCap, LoseSlotRequest
 <1>6. ASSUME RulesStep \/ SlotTick PROVE slotOf' = slotOf
   BY <1>6 DEF RulesStep, RulesChange, SlotTick
 <1> QED BY SlotStepKinds, <1>1, <1>2, <1>3, <1>4, <1>5, <1>6

LEMMA KeptAcceptFits ==
  ASSUME SlotTyped, SlotTyped', LocksFit, SlotNext, \A k \in SlotRequests : AcceptFits(k),
         NEW g \in SlotRequests, SlotKept(g)
  PROVE  AcceptFits(g)'
 <1>k. /\ bkPc'[g] = bkPc[g] /\ bkDay'[g] = bkDay[g] /\ bkLimit'[g] = bkLimit[g]
       /\ bkOrder'[g] = bkOrder[g]
   BY DEF SlotKept
 <1>t. bkOrder[g] \in SUBSET SlotOrders BY DEF SlotTyped
 <1>1. ASSUME bkPc'[g] \in {"reserve", "accept"}, NEW o \in bkOrder'[g]
       PROVE  bkOrder'[g] = {o} /\ slotOf'[o].state # "none" /\ slotOf'[o].day = bkDay'[g]
  <2>1. o \in SlotOrders /\ bkOrder[g] = {o} /\ slotOf[o].state # "none" /\ slotOf[o].day = bkDay[g]
    BY <1>1, <1>k, <1>t DEF AcceptFits
  <2> QED BY <2>1, <1>k, OrdersStayOnTheirDate
 <1>2. ASSUME NEW d \in SlotDays, bkDay'[g] = d, bkPc'[g] = "accept", bkLimit'[g] # NoLimit,
              d \notin slipped'
       PROVE  \E n \in Int : n = bkLimit'[g] /\ Cardinality((AcceptedOn(d) \ bkOrder[g]))' < n
  <2>1. /\ slipped \subseteq slipped'
        /\ \/ AcceptedOn(d)' \subseteq AcceptedOn(d)
           \/ \E k \in SlotRequests :
                CommitAccept(k) /\ bkDay[k] = d /\ (bkLimit[k] # NoLimit \/ capLock[d] = {})
           \/ \E k \in SlotRequests :
                CommitAccept(k) /\ \E o \in bkOrder[k] : slotOf[o].day # bkDay[k]
    BY <1>2, PlacesMove
  <2>2. g \in capLock[d] BY <1>2, <1>k DEF LocksFit
  <2>3. ASSUME NEW k \in SlotRequests, CommitAccept(k) PROVE k # g /\ bkPc[k] = "accept"
    BY <2>3, <1>2, <1>k DEF CommitAccept, SlotDone, SlotDoneBut, SlotTyped
  <2>4. ASSUME NEW k \in SlotRequests, CommitAccept(k), bkDay[k] = d,
               bkLimit[k] # NoLimit \/ capLock[d] = {}
        PROVE  FALSE
    BY <2>2, <2>3, <2>4 DEF LocksFit
  <2>5. ASSUME NEW k \in SlotRequests, CommitAccept(k), NEW o \in bkOrder[k],
               slotOf[o].day # bkDay[k]
        PROVE  FALSE
    BY <2>3, <2>5 DEF AcceptFits
  <2>6. AcceptedOn(d)' \subseteq AcceptedOn(d) BY <2>1, <2>4, <2>5
  <2>7. PICK n \in Int : n = bkLimit[g] /\ Cardinality(AcceptedOn(d) \ bkOrder[g]) < n
    BY <1>2, <1>k, <2>1 DEF AcceptFits
  <2>8. PICK P \in SUBSET SlotOrders : P = AcceptedOn(d) \ bkOrder[g] BY DEF AcceptedOn, Places
  <2>9. PICK Q \in SUBSET SlotOrders : Q = AcceptedOn(d)' \ bkOrder[g]
    BY <2>6 DEF AcceptedOn, Places
  <2>10. Cardinality(Q) \in Nat /\ Cardinality(P) \in Nat /\ Cardinality(Q) <= Cardinality(P)
    BY <2>6, <2>8, <2>9, OrdersCount
  <2>11. (AcceptedOn(d) \ bkOrder[g])' = Q BY <2>9, <1>k
  <2> QED BY <2>7, <2>8, <2>10, <2>11, <1>k, SMTT(60)
 <1> QED BY <1>1, <1>2, <1>k DEF AcceptFits

LEMMA MovedAcceptFits ==
  ASSUME SlotTyped, SlotTyped', NEW h \in SlotRequests, AcceptFits(h), SlotRequestStep(h)
  PROVE  AcceptFits(h)'
 <1>t. /\ DOMAIN bkPc = SlotRequests /\ DOMAIN bkDay = SlotRequests
       /\ bkLimit \in [SlotRequests -> Limit] /\ bkDay[h] \in SlotDays
       /\ DOMAIN bkOrder = SlotRequests
   BY DEF SlotTyped
 <1>i. bkPc'[h] \notin {"reserve", "accept"} => AcceptFits(h)' BY DEF AcceptFits
 <1>1. ASSUME NEW o \in SlotOrders, AskAccept(h, o) PROVE AcceptFits(h)'
  <2>1. /\ slotOf[o].state = "pending" /\ bkPc'[h] = "reserve" /\ bkOrder'[h] = {o}
        /\ bkDay'[h] = slotOf[o].day /\ slotOf' = slotOf
    BY <1>1, <1>t DEF AskAccept, SlotBegin
  <2> QED BY <2>1 DEF AcceptFits
 <1>2. ASSUME ReserveDailyCap(h) PROVE AcceptFits(h)'
  <2>0. PICK d \in SlotDays : d = bkDay[h] BY <1>t
  <2>1. CASE UnderCap(AcceptedOn(d) \ bkOrder[h], bkLimit[h])
   <3>1. /\ bkPc[h] = "reserve" /\ bkPc'[h] = "accept" /\ bkOrder' = bkOrder /\ bkDay' = bkDay
         /\ bkLimit' = bkLimit /\ slotOf' = slotOf
     BY <1>2, <2>0, <2>1, <1>t DEF ReserveDailyCap
   <3>2. bkLimit[h] # NoLimit =>
           bkLimit[h] \in Int /\ Cardinality(AcceptedOn(d) \ bkOrder[h]) < bkLimit[h]
     BY <2>1, <1>t DEF UnderCap, Limit
   <3>3. (AcceptedOn(d) \ bkOrder[h])' = AcceptedOn(d) \ bkOrder[h] BY <3>1 DEF AcceptedOn, Places
   <3> QED BY <2>0, <3>1, <3>2, <3>3 DEF AcceptFits
  <2>2. CASE ~UnderCap(AcceptedOn(d) \ bkOrder[h], bkLimit[h])
   <3>1. SlotDone(h) BY <1>2, <2>0, <2>2 DEF ReserveDailyCap
   <3> QED BY <3>1, <1>t, <1>i DEF SlotDone, SlotDoneBut
  <2> QED BY <2>1, <2>2
 <1>3. ASSUME \/ \E d \in SlotDays : AskBooking(h, d)
              \/ ReadRules(h) \/ ReadDate(h) \/ RaiseDayCounter(h)
              \/ \E o \in SlotOrders : PlaceBooking(h, o)
              \/ CommitAccept(h) \/ LoseSlotRequest(h)
       PROVE  AcceptFits(h)'
  <2>1. bkPc'[h] \in {"idle", "rules", "date", "count", "place"}
    BY <1>3, <1>t DEF AskBooking, SlotBegin, ReadRules, ReadDate, RaiseDayCounter, PlaceBooking,
                      CommitAccept, LoseSlotRequest, SlotDone, SlotDoneBut
  <2> QED BY <2>1, <1>i
 <1> QED BY <1>1, <1>2, <1>3 DEF SlotRequestStep

(* What is promised of one order, and that every step keeps it. *)
OrderFits(o) ==
  /\ slotOf[o].state = "ended" => slotOf[o].place = 0
  /\ slotOf[o].state = "pending" /\ slotOf[o].day \notin slipped => slotOf[o].place <= slotOf[o].limit
  /\ slotOf[o].state = "accepted" /\ slotOf[o].limit # NoLimit /\ slotOf[o].day \notin slipped
       => slotOf[o].place <= slotOf[o].limit
  /\ slotOf[o].state = "pending" /\ slotOf[o].place > 0 /\ slotOf[o].day \notin slipped
       => slotOf[o].gates = BothGates
  /\ slotOf[o].state = "pending" /\ slotOf[o].place > 0 => slotOf[o].slack >= LeadTicks

LEMMA SlotInvByOrder ==
  SlotInv <=> /\ SlotTyped /\ LocksFit
              /\ \A h \in SlotRequests : BookingFits(h) /\ AcceptFits(h)
              /\ \A o \in SlotOrders : OrderFits(o)
  BY DEF SlotInv, EndedHoldNoPlace, NoOverbooking, AcceptedWithinCap, BookedThroughOpenGates,
         NoticeFits, OrderFits, BothGates

LEMMA OrderFitsNext ==
  ASSUME SlotTyped, SlotNext, \A h \in SlotRequests : BookingFits(h) /\ AcceptFits(h),
         NEW o \in SlotOrders, OrderFits(o)
  PROVE  OrderFits(o)'
 <1>t. /\ slotOf \in [SlotOrders -> SlotRecord] /\ bkOrder \in [SlotRequests -> SUBSET SlotOrders]
       /\ bkLimit \in [SlotRequests -> Limit] /\ wasOpen \in [SlotRequests -> SUBSET BothGates]
       /\ bkDay \in [SlotRequests -> SlotDays]
   BY DEF SlotTyped
 <1>d. DOMAIN slotOf = SlotOrders /\ slotOf[o] \in SlotRecord BY <1>t
 <1>s. slipped \subseteq slipped'
  <2>1. 0 \in SlotDays BY SlotNumbersFit
  <2> QED BY <2>1, PlacesMove
 <1>u. ASSUME slotOf'[o] = slotOf[o] PROVE OrderFits(o)' BY <1>u, <1>s DEF OrderFits
 <1>1. ASSUME NEW g \in SlotRequests, NEW q \in SlotOrders, PlaceBooking(g, q)
       PROVE  OrderFits(o)'
  <2>1. CASE q # o
   <3>1. slotOf'[o] = slotOf[o] BY <1>1, <1>d, <2>1 DEF PlaceBooking
   <3> QED BY <3>1, <1>u
  <2>2. CASE q = o
   <3>0. PICK e \in SlotDays : e = bkDay[g] BY <1>t
   <3>1. PICK n \in Int : n = Cardinality(Places(e)) /\ n >= 0
    <4>1. Places(e) \in SUBSET SlotOrders BY DEF Places
    <4> QED BY <4>1, OrdersCount
   <3>2. /\ slotOf'[o] = [day |-> e, state |-> "pending", limit |-> bkLimit[g],
                          place |-> n + 1, slack |-> bkSlack[g], gates |-> wasOpen[g]]
         /\ bkPc[g] = "place" /\ slipped' = slipped
     BY <1>1, <1>d, <2>2, <3>0, <3>1 DEF PlaceBooking
   <3>3. /\ bkLimit[g] \in Int /\ bkSlack[g] >= LeadTicks
         /\ "date" \in wasOpen[g] /\ "provider" \in wasOpen[g]
         /\ e \in slipped \/ n < bkLimit[g]
     BY <3>0, <3>1, <3>2 DEF BookingFits, Booking
   <3>4. wasOpen[g] = BothGates BY <1>t, <3>3 DEF BothGates
   <3> QED BY <3>2, <3>3, <3>4 DEF OrderFits
  <2> QED BY <2>1, <2>2
 <1>2. ASSUME NEW g \in SlotRequests, CommitAccept(g) PROVE OrderFits(o)'
  <2>0. PICK e \in SlotDays : e = bkDay[g] BY <1>t
  <2>1. PICK q \in bkOrder[g] :
          slotOf' = IF slotOf[q].state = "pending"
                    THEN [slotOf EXCEPT ![q].state = "accepted", ![q].limit = bkLimit[g],
                            ![q].place = Cardinality(AcceptedOn(e)) + 1, ![q].slack = 0,
                            ![q].gates = {}]
                    ELSE slotOf
    BY <1>2, <2>0 DEF CommitAccept
  <2>2. CASE q # o \/ slotOf[q].state # "pending"
   <3>1. slotOf'[o] = slotOf[o] BY <2>1, <2>2, <1>d
   <3> QED BY <3>1, <1>u
  <2>3. CASE q = o /\ slotOf[o].state = "pending"
   <3>1. bkPc[g] = "accept" BY <1>2 DEF CommitAccept
   <3>2. bkOrder[g] = {o} /\ slotOf[o].day = e BY <2>0, <2>1, <2>3, <3>1 DEF AcceptFits
   <3>3. AcceptedOn(e) \ bkOrder[g] = AcceptedOn(e) BY <2>3, <3>2 DEF AcceptedOn
   <3>4. PICK n \in Int : n = Cardinality(AcceptedOn(e)) + 1
    <4>1. AcceptedOn(e) \in SUBSET SlotOrders BY DEF AcceptedOn, Places
    <4> QED BY <4>1, OrdersCount
   <3>5. bkLimit[g] # NoLimit => e \in slipped \/ (bkLimit[g] \in Int /\ n <= bkLimit[g])
    <4>1. Cardinality(AcceptedOn(e)) \in Int
     <5>1. AcceptedOn(e) \in SUBSET SlotOrders BY DEF AcceptedOn, Places
     <5> QED BY <5>1, OrdersCount
    <4>2. bkLimit[g] # NoLimit =>
            e \in slipped \/ \E m \in Int : m = bkLimit[g] /\ Cardinality(AcceptedOn(e)) < m
      BY <2>0, <3>1, <3>3 DEF AcceptFits
    <4> QED BY <3>4, <4>1, <4>2
   <3>6. /\ slotOf'[o].state = "accepted" /\ slotOf'[o].limit = bkLimit[g]
         /\ slotOf'[o].place = n /\ slotOf'[o].day = e
     BY <2>1, <2>3, <3>2, <3>4, <1>d DEF SlotRecord
   <3> QED BY <3>5, <3>6, <1>s DEF OrderFits
  <2> QED BY <2>2, <2>3
 <1>3. ASSUME NEW q \in SlotOrders, EndBooking(q) PROVE OrderFits(o)'
  <2>1. CASE q # o
   <3>1. slotOf'[o] = slotOf[o] BY <1>3, <1>d, <2>1 DEF EndBooking
   <3> QED BY <3>1, <1>u
  <2>2. CASE q = o
   <3>1. slotOf'[o].state = "ended" /\ slotOf'[o].place = 0
     BY <1>3, <1>d, <2>2 DEF EndBooking, NoSlot
   <3> QED BY <3>1 DEF OrderFits
  <2> QED BY <2>1, <2>2
 <1>4. ASSUME NEW q \in SlotOrders, NEW s \in {"pending", "accepted"}, SlipIn(q, s)
       PROVE  OrderFits(o)'
  <2>1. CASE q # o
   <3>1. slotOf'[o] = slotOf[o] BY <1>4, <1>d, <2>1 DEF SlipIn
   <3> QED BY <3>1, <1>u
  <2>2. CASE q = o
   <3>1. slotOf'[o].day \in slipped' /\ slotOf'[o].place = 0 /\ slotOf'[o].state = s
     BY <1>4, <1>d, <2>2 DEF SlipIn, SlotRecord, OrderFits
   <3> QED BY <3>1 DEF OrderFits
  <2> QED BY <2>1, <2>2
 <1>5. ASSUME NEW h \in SlotRequests, SlotRequestStep(h),
              \A q \in SlotOrders : ~PlaceBooking(h, q), ~CommitAccept(h)
       PROVE  slotOf' = slotOf
   BY <1>5 DEF SlotRequestStep, AskBooking, ReadRules, ReadDate, RaiseDayCounter, AskAccept,
               ReserveDailyCap, LoseSlotRequest
 <1>6. ASSUME RulesStep \/ SlotTick PROVE slotOf' = slotOf
   BY <1>6 DEF RulesStep, RulesChange, SlotTick
 <1> QED BY SlotStepKinds, <1>1, <1>2, <1>3, <1>4, <1>5, <1>6, <1>u

LEMMA SlotInvNext == SlotInv /\ [SlotNext]_slotVars => SlotInv'
 <1> SUFFICES ASSUME SlotInv, [SlotNext]_slotVars PROVE SlotInv' OBVIOUS
 <1>i. /\ SlotTyped /\ LocksFit
       /\ \A h \in SlotRequests : BookingFits(h)
       /\ \A h \in SlotRequests : AcceptFits(h)
       /\ \A o \in SlotOrders : OrderFits(o)
   BY SlotInvByOrder
 <1>t. SlotTyped' BY <1>i, SlotTypedNext
 <1>l. LocksFit' BY <1>i, LocksFitNext
 <1>1. CASE SlotNext
  <2>1. \A o \in SlotOrders : OrderFits(o)' BY <1>i, <1>1, OrderFitsNext
  <2>2. ASSUME NEW g \in SlotRequests PROVE BookingFits(g)' /\ AcceptFits(g)'
   <3>1. CASE SlotRequestStep(g) BY <3>1, <1>i, <1>t, MovedBookingFits, MovedAcceptFits
   <3>2. CASE ~SlotRequestStep(g)
    <4>1. SlotKept(g) /\ (UNCHANGED bookingRules \/ RulesStep)
     <5>1. ASSUME NEW h \in SlotRequests, SlotRequestStep(h)
           PROVE  SlotKept(g) /\ UNCHANGED bookingRules
       BY <5>1, <3>2, <1>i, OtherRequestsKept
     <5>2. ASSUME \/ \E o \in SlotOrders :
                       EndBooking(o) \/ \E s \in {"pending", "accepted"} : SlipIn(o, s)
                  \/ RulesStep \/ SlotTick
           PROVE  SlotKept(g) /\ (UNCHANGED bookingRules \/ RulesStep)
      <6>1. SlotKept(g) BY <5>2, <1>i, OtherStepsKeepRequests
      <6>2. UNCHANGED bookingRules \/ RulesStep BY <5>2 DEF EndBooking, SlipIn, SlotTick
      <6> QED BY <6>1, <6>2
     <5> QED BY <5>1, <5>2, <1>1, <1>i, SlotStepKinds
    <4> QED BY <4>1, <1>1, <1>i, <1>t, KeptBookingFits, KeptAcceptFits
   <3> QED BY <3>1, <3>2
  <2>3. (\A o \in SlotOrders : OrderFits(o))' BY <2>1
  <2>4. (\A h \in SlotRequests : BookingFits(h) /\ AcceptFits(h))' BY <2>2
  <2>5. SlotInv' <=> (/\ SlotTyped /\ LocksFit
                      /\ \A h \in SlotRequests : BookingFits(h) /\ AcceptFits(h)
                      /\ \A o \in SlotOrders : OrderFits(o))'
    BY SlotInvByOrder, PTL
  <2> QED BY <1>t, <1>l, <2>3, <2>4, <2>5
 <1>2. CASE UNCHANGED slotVars
  <2>v. /\ UNCHANGED <<washerState, ownHours, dateRule, blackouts>>
        /\ UNCHANGED <<slotOf, bkPc, bkOrder, bkDay, bkStale, bkLimit, bkSlack, wasOpen, slipped>>
    BY <1>2 DEF slotVars, bookingRules, slotRequest
  <2>1. \A o \in SlotOrders : OrderFits(o)' BY <2>v, <1>i DEF OrderFits
  <2>p. ASSUME NEW d \in SlotDays
        PROVE  Places(d)' = Places(d) /\ AcceptedOn(d)' = AcceptedOn(d) /\ Gates(d)' = Gates(d)
   <3>1. Places(d)' = Places(d) BY <2>v DEF Places
   <3>2. AcceptedOn(d)' = AcceptedOn(d) BY <2>v, <3>1 DEF AcceptedOn
   <3>3. Gates(d)' = Gates(d) BY <2>v DEF Gates, BlackedOut, AcceptsOn, WeekHours, IntersectWindows
   <3> QED BY <3>1, <3>2, <3>3
  <2>2. ASSUME NEW g \in SlotRequests PROVE BookingFits(g)' /\ AcceptFits(g)'
   <3>1. BookingFits(g)' BY <2>v, <2>p, <1>i DEF BookingFits
   <3>2. AcceptFits(g)' BY <2>v, <2>p, <1>i DEF AcceptFits
   <3> QED BY <3>1, <3>2
  <2>3. (\A o \in SlotOrders : OrderFits(o))' BY <2>1
  <2>4. (\A h \in SlotRequests : BookingFits(h) /\ AcceptFits(h))' BY <2>2
  <2>5. SlotInv' <=> (/\ SlotTyped /\ LocksFit
                      /\ \A h \in SlotRequests : BookingFits(h) /\ AcceptFits(h)
                      /\ \A o \in SlotOrders : OrderFits(o))'
    BY SlotInvByOrder, PTL
  <2> QED BY <1>t, <1>l, <2>3, <2>4, <2>5
 <1> QED BY <1>1, <1>2

LEMMA SlotInvHolds == SlotInv => CapacityHolds
 <1> SUFFICES ASSUME SlotInv PROVE CapacityHolds OBVIOUS
 <1>1. \A o \in SlotOrders : slotOf[o].day \in SlotDays BY DEF SlotInv, SlotTyped, SlotRecord
 <1>2. ASSUME NEW S \in SUBSET SlotRequests, \A g, h \in S : g = h
       PROVE  Cardinality(S) <= 1
  <2>1. CASE S = {} BY <2>1, FS_EmptySet
  <2>2. CASE S # {}
   <3>1. PICK h \in S : TRUE BY <2>2
   <3>2. S = {h} BY <1>2, <3>1
   <3>3. Cardinality({h}) = 1 BY FS_Singleton
   <3> QED BY <3>2, <3>3
  <2> QED BY <2>1, <2>2
 <1>3. \A d \in SlotDays : Cardinality(dayLock[d]) <= 1 /\ Cardinality(capLock[d]) <= 1
   BY <1>2 DEF SlotInv, SlotTyped, LocksFit
 <1>4. slotNow \in 0..MaxSlotTick BY SlotNumbersFit DEF SlotInv, SlotTyped
 <1>5. SlotTypeOK BY <1>1, <1>3, <1>4 DEF SlotTypeOK, SlotInv, SlotTyped
 <1> QED BY <1>5 DEF CapacityHolds, SlotInv

(* The places of a day (createOrder, reserveDailyCapSlot): however bookings,
   acceptances, releases and changes of the rules interleave, no day is given
   more orders than the limits it was decided by. *)
THEOREM CapacityKept == SlotSpec => []CapacityHolds
 <1> QED BY SlotInvInit, SlotInvNext, SlotInvHolds, PTL DEF SlotSpec

-----------------------------------------------------------------------------
(* Branches of a merchant. *)
BranchSteps == {"idle", "insert", "open", "rename"}
BranchRow == [name : BrNames, active : BOOLEAN]

BrTyped ==
  /\ DOMAIN brRow \in SUBSET BrIds /\ brRow \in [DOMAIN brRow -> BranchRow]
  /\ brpc \in [BrRequests -> BranchSteps] /\ brBatch \in [BrRequests -> SUBSET BrNames]
  /\ brOpening \in [BrRequests -> SUBSET BrIds] /\ brTarget \in [BrRequests -> SUBSET BrIds]
  /\ brWallets \subseteq DOMAIN brRow /\ brCalls \in Nat /\ brCalls <= BrMostCalls

(* What a request in progress holds. *)
BranchRequestFits(h) ==
  /\ brOpening[h] # {} => brpc[h] = "open"
  /\ brBatch[h] # {} => brpc[h] \in {"insert", "rename"}
  /\ brpc[h] = "insert" => Cardinality({BrFolded[n] : n \in brBatch[h]}) = Cardinality(brBatch[h])
  /\ brpc[h] = "rename" => \E n \in BrNames, b \in BrIds : brBatch[h] = {n} /\ brTarget[h] = {b}
  /\ brpc[h] = "rename" => brTarget[h] \subseteq DOMAIN brRow
  /\ brOpening[h] \subseteq DOMAIN brRow

(* The names it found free are free still, or have been written since. *)
NamesStillFree(h) ==
  /\ brpc[h] = "insert" =>
       \A n \in brBatch[h], b \in DOMAIN brRow :
         BrFolded[n] = BrFolded[brRow[b].name] => BrFolded[n] \in brCrossed
  /\ brpc[h] = "rename" =>
       \A n \in brBatch[h], b \in DOMAIN brRow \ brTarget[h] :
         BrFolded[n] = BrFolded[brRow[b].name] => BrFolded[n] \in brCrossed

BrInv ==
  /\ BrTyped
  /\ \A h \in BrRequests : BranchRequestFits(h) /\ NamesStillFree(h)
  /\ NamesDiffer /\ EveryBranchHasItsWallet

(* A function that repeats no more names than it can repeats none. *)
LEMMA ImageDiffers ==
  ASSUME NEW S, IsFiniteSet(S), NEW f, DOMAIN f = S,
         Cardinality({f[n] : n \in S}) = Cardinality(S)
  PROVE  \A m, n \in S : f[m] = f[n] => m = n
 <1> DEFINE T == {f[n] : n \in S}
            g == [n \in S |-> f[n]]
 <1>1. g \in Surjection(S, T)
  <2>1. g \in [S -> T] OBVIOUS
  <2>2. \A t \in T : \E n \in S : g[n] = t OBVIOUS
  <2> QED BY <2>1, <2>2 DEF Surjection
 <1>2. g \in Injection(S, T)
  <2> HIDE DEF g
  <2> QED BY <1>1, FS_SurjSameCardinalityImpliesInj
 <1>3. \A m, n \in S : g[m] = g[n] => m = n
  <2>1. DOMAIN g = S OBVIOUS
  <2> HIDE DEF g
  <2> QED BY <1>2, <2>1 DEF Injection, IsInjective
 <1> QED BY <1>3

(* The ids of a batch get its names, each one of its own. *)
NamesGiven(ids, names) == CHOOSE f \in [ids -> names] : {f[b] : b \in ids} = names

LEMMA NamesOfABatch ==
  ASSUME NEW ids, NEW names, IsFiniteSet(ids), IsFiniteSet(names),
         Cardinality(ids) = Cardinality(names)
  PROVE  /\ NamesGiven(ids, names) \in [ids -> names]
         /\ \A a, b \in ids : NamesGiven(ids, names)[a] = NamesGiven(ids, names)[b] => a = b
 <1> DEFINE named == NamesGiven(ids, names)
 <1>1. PICK f : f \in Bijection(ids, names)
  <2>1. ExistsBijection(ids, names) BY FS_SameCardinalityBij
  <2> QED BY <2>1 DEF ExistsBijection
 <1>2. f \in [ids -> names] /\ {f[b] : b \in ids} = names
  <2>1. f \in [ids -> names] /\ \A t \in names : \E b \in ids : f[b] = t
    BY <1>1 DEF Bijection, Injection, Surjection
  <2> QED BY <2>1
 <1>3. named \in [ids -> names] /\ {named[b] : b \in ids} = names BY <1>2 DEF NamesGiven
 <1> HIDE DEF named
 <1>4. named \in Surjection(ids, names)
  <2>1. \A t \in names : \E b \in ids : named[b] = t BY <1>3
  <2> QED BY <1>3, <2>1 DEF Surjection
 <1>5. named \in Injection(ids, names) BY <1>4, FS_SurjSameCardinalityImpliesInj
 <1>6. \A a, b \in ids : named[a] = named[b] => a = b BY <1>3, <1>5 DEF Injection, IsInjective
 <1> QED BY <1>3, <1>6 DEF named

LEMMA BrInvInit == BrInit => BrInv
 <1> SUFFICES ASSUME BrInit PROVE BrInv OBVIOUS
 <1>1. PICK first \in BrFirst :
         /\ brRow = [b \in DOMAIN first |-> [name |-> first[b], active |-> TRUE]]
         /\ brWallets = DOMAIN first
   BY DEF BrInit
 <1>2. DOMAIN brRow = DOMAIN first /\ \A b \in DOMAIN first : brRow[b].name = first[b] BY <1>1
 <1>3. /\ DOMAIN first \subseteq BrIds /\ \A b \in DOMAIN first : first[b] \in BrNames
       /\ \A a, b \in DOMAIN first : a # b => BrFolded[first[a]] # BrFolded[first[b]]
   BY BranchesFit
 <1>4. BrTyped
  <2>1. brRow \in [DOMAIN brRow -> BranchRow] BY <1>1, <1>2, <1>3 DEF BranchRow
  <2>2. brCalls \in Nat /\ brCalls <= BrMostCalls BY BranchesFit DEF BrInit
  <2>3. /\ brpc \in [BrRequests -> BranchSteps] /\ brBatch \in [BrRequests -> SUBSET BrNames]
        /\ brOpening \in [BrRequests -> SUBSET BrIds]
        /\ brTarget \in [BrRequests -> SUBSET BrIds]
    BY DEF BrInit, BranchSteps
  <2> QED BY <2>1, <2>2, <2>3, <1>1, <1>2, <1>3 DEF BrTyped
 <1>5. \A h \in BrRequests : BranchRequestFits(h) /\ NamesStillFree(h)
   BY DEF BrInit, BranchRequestFits, NamesStillFree
 <1>6. NamesDiffer BY <1>2, <1>3 DEF NamesDiffer
 <1>7. EveryBranchHasItsWallet BY <1>1, <1>2 DEF EveryBranchHasItsWallet
 <1> QED BY <1>4, <1>5, <1>6, <1>7 DEF BrInv

(* A step writes names only as those a request had checked and, if another
   had checked the same, records it. *)
BranchRequestStep(h) ==
  \/ \E names \in SUBSET BrNames \ {{}} : BeginCreateBranches(h, names)
  \/ InsertBranches(h) \/ OpenWallets(h) \/ WriteRename(h) \/ LoseBranchRequest(h)
  \/ \E b \in DOMAIN brRow, name \in BrNames : BeginRename(h, b, name)
BranchStep == \E b \in DOMAIN brRow : TopUpOpensWallet(b) \/ \E active \in BOOLEAN : SetBranchActive(b, active)

NamesKept ==
  /\ DOMAIN brRow' = DOMAIN brRow /\ \A b \in DOMAIN brRow : brRow'[b].name = brRow[b].name
  /\ brRow' \in [DOMAIN brRow -> BranchRow]

RequestKept(g) ==
  /\ brpc'[g] = brpc[g] /\ brBatch'[g] = brBatch[g] /\ brTarget'[g] = brTarget[g]
  /\ brOpening'[g] = brOpening[g]

LEMMA OtherBranchRequestsKept ==
  ASSUME BrTyped, NEW h \in BrRequests, BranchRequestStep(h), NEW g \in BrRequests \ {h}
  PROVE  RequestKept(g)
 <1>t. /\ DOMAIN brpc = BrRequests /\ DOMAIN brBatch = BrRequests
       /\ DOMAIN brTarget = BrRequests /\ DOMAIN brOpening = BrRequests
   BY DEF BrTyped
 <1> USE DEF RequestKept
 <1>1. ASSUME NEW names \in SUBSET BrNames, BeginCreateBranches(h, names) PROVE RequestKept(g)
   BY <1>1, <1>t DEF BeginCreateBranches
 <1>2. ASSUME InsertBranches(h) PROVE RequestKept(g) BY <1>2, <1>t DEF InsertBranches
 <1>3. ASSUME OpenWallets(h) PROVE RequestKept(g) BY <1>3, <1>t DEF OpenWallets, OpenWallet
 <1>4. ASSUME WriteRename(h) PROVE RequestKept(g) BY <1>4, <1>t DEF WriteRename
 <1>5. ASSUME LoseBranchRequest(h) PROVE RequestKept(g) BY <1>5, <1>t DEF LoseBranchRequest
 <1>6. ASSUME NEW b, NEW n, BeginRename(h, b, n) PROVE RequestKept(g) BY <1>6, <1>t DEF BeginRename
 <1> QED BY <1>1, <1>2, <1>3, <1>4, <1>5, <1>6 DEF BranchRequestStep

(* What a name that is written does to the other requests. *)
LEMMA WrittenNamesMarked ==
  ASSUME BrTyped, NEW h \in BrRequests, NEW g \in BrRequests \ {h}, NamesStillFree(g),
         RequestKept(g), DOMAIN brRow \subseteq DOMAIN brRow', brCrossed \subseteq brCrossed',
         \A b \in DOMAIN brRow' :
           \/ b \in DOMAIN brRow /\ brRow'[b].name = brRow[b].name
           \/ brRow'[b].name \in brBatch[h] /\ Overtaken(h, brBatch[h]) \subseteq brCrossed'
  PROVE  NamesStillFree(g)'
 <1>1. ASSUME NEW n \in brBatch[g], brpc[g] \in {"insert", "rename"}, NEW b \in DOMAIN brRow',
              brpc[g] = "rename" => b \notin brTarget[g],
              BrFolded[n] = BrFolded[brRow'[b].name]
       PROVE  BrFolded[n] \in brCrossed'
  <2>1. CASE b \in DOMAIN brRow /\ brRow'[b].name = brRow[b].name BY <1>1, <2>1 DEF NamesStillFree
  <2>2. CASE brRow'[b].name \in brBatch[h] /\ Overtaken(h, brBatch[h]) \subseteq brCrossed'
   <3>1. BrFolded[n] \in {BrFolded[m] : m \in brBatch[h]} BY <1>1, <2>2
   <3>2. BrFolded[n] \in {BrFolded[m] : m \in brBatch[g]} OBVIOUS
   <3>3. g \in {k \in BrRequests \ {h} : brpc[k] \in {"insert", "rename"}} BY <1>1
   <3>4. BrFolded[n] \in Overtaken(h, brBatch[h]) BY <3>1, <3>2, <3>3 DEF Overtaken
   <3> QED BY <3>4, <2>2
  <2> QED BY <1>1, <2>1, <2>2
 <1> QED BY <1>1 DEF NamesStillFree, RequestKept

LEMMA BrTypedNext ==
  ASSUME BrTyped, \A k \in BrRequests : BranchRequestFits(k), BrNext
  PROVE  BrTyped'
 <1>t. /\ brRow \in [DOMAIN brRow -> BranchRow] /\ DOMAIN brRow \in SUBSET BrIds
       /\ brpc \in [BrRequests -> BranchSteps] /\ brBatch \in [BrRequests -> SUBSET BrNames]
       /\ brOpening \in [BrRequests -> SUBSET BrIds] /\ brTarget \in [BrRequests -> SUBSET BrIds]
       /\ brWallets \subseteq DOMAIN brRow /\ brCalls \in Nat /\ brCalls <= BrMostCalls
       /\ BrMostCalls \in Nat
   BY BranchesFit DEF BrTyped
 <1>c. BrCalled => brCalls' \in Nat /\ brCalls' <= BrMostCalls BY <1>t DEF BrCalled
 <1>1. ASSUME NEW h \in BrRequests, NEW names \in SUBSET BrNames, BeginCreateBranches(h, names)
       PROVE  BrTyped'
   BY <1>1, <1>t, <1>c DEF BeginCreateBranches, BrTyped, BranchSteps
 <1>2. ASSUME NEW h \in BrRequests, InsertBranches(h) PROVE BrTyped'
  <2>1. PICK ids \in SUBSET (BrIds \ DOMAIN brRow) :
          /\ Cardinality(ids) = Cardinality(brBatch[h])
          /\ LET named == CHOOSE f \in [ids -> brBatch[h]] : {f[b] : b \in ids} = brBatch[h] IN
             brRow' = [b \in DOMAIN brRow \cup ids |->
                         IF b \in ids THEN [name |-> named[b], active |-> TRUE] ELSE brRow[b]]
          /\ brOpening' = [brOpening EXCEPT ![h] = ids]
    BY <1>2 DEF InsertBranches
  <2> DEFINE named == NamesGiven(ids, brBatch[h])
  <2>2. named \in [ids -> brBatch[h]]
   <3>1. IsFiniteSet(ids) /\ IsFiniteSet(brBatch[h]) BY <1>t, BranchesFit, FS_Subset
   <3> QED BY <2>1, <3>1, NamesOfABatch
  <2>3. brRow' = [b \in DOMAIN brRow \cup ids |->
                    IF b \in ids THEN [name |-> named[b], active |-> TRUE] ELSE brRow[b]]
    BY <2>1 DEF NamesGiven
  <2> HIDE DEF named
  <2>4. DOMAIN brRow' = DOMAIN brRow \cup ids BY <2>3
  <2>5. \A b \in DOMAIN brRow' : brRow'[b] \in BranchRow
   <3>1. brBatch[h] \subseteq BrNames BY <1>t
   <3> QED BY <2>2, <2>3, <3>1, <1>t DEF BranchRow
  <2>6. brRow' \in [DOMAIN brRow' -> BranchRow] BY <2>3, <2>4, <2>5
  <2>7. /\ brpc' \in [BrRequests -> BranchSteps] /\ brBatch' \in [BrRequests -> SUBSET BrNames]
        /\ brTarget' = brTarget /\ brWallets' = brWallets /\ brCalls' = brCalls
    BY <1>2, <1>t DEF InsertBranches, BranchSteps
  <2>8. brOpening' \in [BrRequests -> SUBSET BrIds] BY <2>1, <1>t
  <2> QED BY <2>4, <2>6, <2>7, <2>8, <1>t DEF BrTyped
 <1>3. ASSUME NEW h \in BrRequests, OpenWallets(h) PROVE BrTyped'
  <2>1. PICK b \in brOpening[h] : OpenWallet(h, b) BY <1>3 DEF OpenWallets
  <2>2. brpc' \in [BrRequests -> BranchSteps] BY <1>3, <1>t DEF OpenWallets, BranchSteps
  <2>3. brOpening' \in [BrRequests -> SUBSET BrIds] BY <2>1, <1>t DEF OpenWallet
  <2>4. brWallets' \subseteq DOMAIN brRow BY <2>1, <1>t DEF OpenWallet, BranchRequestFits
  <2> QED BY <1>3, <2>2, <2>3, <2>4, <1>t DEF OpenWallets, BrTyped
 <1>4. ASSUME NEW h \in BrRequests, WriteRename(h) PROVE BrTyped'
  <2>1. PICK b \in brTarget[h], n \in brBatch[h] : brRow' = [brRow EXCEPT ![b].name = n]
    BY <1>4 DEF WriteRename
  <2>2. n \in BrNames BY <1>t
  <2>3. DOMAIN brRow' = DOMAIN brRow /\ brRow' \in [DOMAIN brRow -> BranchRow]
    BY <2>1, <2>2, <1>t DEF BranchRow
  <2> QED BY <1>4, <2>3, <1>t DEF WriteRename, BrTyped, BranchSteps
 <1>5. ASSUME NEW h \in BrRequests, LoseBranchRequest(h) PROVE BrTyped'
   BY <1>5, <1>t DEF LoseBranchRequest, BrTyped, BranchSteps
 <1>6. ASSUME NEW h \in BrRequests, NEW b \in DOMAIN brRow, NEW n \in BrNames, BeginRename(h, b, n)
       PROVE  BrTyped'
   BY <1>6, <1>t, <1>c DEF BeginRename, BrTyped, BranchSteps
 <1>7. ASSUME NEW b \in DOMAIN brRow, TopUpOpensWallet(b) PROVE BrTyped'
   BY <1>7, <1>t, <1>c DEF TopUpOpensWallet, BrTyped
 <1>8. ASSUME NEW b \in DOMAIN brRow, NEW a \in BOOLEAN, SetBranchActive(b, a) PROVE BrTyped'
  <2>1. DOMAIN brRow' = DOMAIN brRow /\ brRow' \in [DOMAIN brRow -> BranchRow]
    BY <1>8, <1>t DEF SetBranchActive, BranchRow
  <2> QED BY <1>8, <2>1, <1>t, <1>c DEF SetBranchActive, BrTyped
 <1> QED BY <1>1, <1>2, <1>3, <1>4, <1>5, <1>6, <1>7, <1>8 DEF BrNext

(* The requests and their batches. *)
LEMMA BranchRequestsNext ==
  ASSUME BrInv, NEW h \in BrRequests, BranchRequestStep(h)
  PROVE  /\ \A g \in BrRequests : BranchRequestFits(g)' /\ NamesStillFree(g)'
         /\ NamesDiffer' /\ EveryBranchHasItsWallet'
 <1>t. /\ brRow \in [DOMAIN brRow -> BranchRow] /\ DOMAIN brRow \in SUBSET BrIds
       /\ brpc \in [BrRequests -> BranchSteps] /\ brBatch \in [BrRequests -> SUBSET BrNames]
       /\ brOpening \in [BrRequests -> SUBSET BrIds] /\ brTarget \in [BrRequests -> SUBSET BrIds]
       /\ brWallets \subseteq DOMAIN brRow
   BY DEF BrInv, BrTyped
 <1>i. /\ \A g \in BrRequests : BranchRequestFits(g) /\ NamesStillFree(g)
       /\ NamesDiffer /\ EveryBranchHasItsWallet /\ BrTyped
   BY DEF BrInv
 <1>k. \A g \in BrRequests \ {h} : RequestKept(g) BY <1>i, OtherBranchRequestsKept
 <1> DEFINE Goal == /\ \A g \in BrRequests : BranchRequestFits(g)' /\ NamesStillFree(g)'
                    /\ NamesDiffer' /\ EveryBranchHasItsWallet'
            Opened == UNION {brOpening[g] : g \in BrRequests}
            Others == UNION {brOpening[g] : g \in BrRequests \ {h}}
 <1>o. Opened = Others \cup brOpening[h] /\ Opened' = Others \cup brOpening'[h]
  <2>1. Others' = Others BY <1>k DEF RequestKept
  <2>2. Opened' = Others' \cup brOpening'[h] OBVIOUS
  <2> QED BY <2>1, <2>2
 <1>g. ASSUME DOMAIN brRow \subseteq DOMAIN brRow', brCrossed \subseteq brCrossed',
              \A b \in DOMAIN brRow' :
                \/ b \in DOMAIN brRow /\ brRow'[b].name = brRow[b].name
                \/ brRow'[b].name \in brBatch[h] /\ Overtaken(h, brBatch[h]) \subseteq brCrossed',
              BranchRequestFits(h)', NamesStillFree(h)'
       PROVE  \A g \in BrRequests : BranchRequestFits(g)' /\ NamesStillFree(g)'
  <2>1. ASSUME NEW g \in BrRequests \ {h} PROVE NamesStillFree(g)'
    BY <1>g, <1>i, <1>k, WrittenNamesMarked
  <2>2. ASSUME NEW g \in BrRequests \ {h} PROVE BranchRequestFits(g)'
   <3>1. BranchRequestFits(g) /\ RequestKept(g) BY <1>i, <1>k
   <3> QED BY <3>1, <1>g DEF BranchRequestFits, RequestKept
  <2> QED BY <2>1, <2>2, <1>g
 <1>w. ASSUME DOMAIN brRow' = DOMAIN brRow, UNCHANGED brWallets, brLost \subseteq brLost',
              \A b \in brOpening[h] : b \in brOpening'[h] \/ b \in brLost'
       PROVE  EveryBranchHasItsWallet'
  <2>1. \A b \in DOMAIN brRow \ Opened : b \in brWallets \/ b \in brLost
    BY <1>i DEF EveryBranchHasItsWallet
  <2>2. \A b \in DOMAIN brRow' \ Opened' : b \in brWallets' \/ b \in brLost'
   <3> HIDE DEF Opened, Others
   <3> QED BY <2>1, <1>w, <1>o
  <2> QED BY <2>2 DEF EveryBranchHasItsWallet
 <1> HIDE DEF Opened, Others
 <1>n. ASSUME UNCHANGED <<brRow, brCrossed>> PROVE NamesDiffer' BY <1>n, <1>i DEF NamesDiffer
 <1>1. ASSUME NEW names \in SUBSET BrNames, BeginCreateBranches(h, names) PROVE Goal
  <2>1. /\ UNCHANGED <<brRow, brWallets, brOpening, brCrossed, brLost>>
        /\ brpc'[h] = "insert" /\ brBatch'[h] = names /\ brpc[h] = "idle"
        /\ Cardinality({BrFolded[n] : n \in names}) = Cardinality(names)
    BY <1>1, <1>t DEF BeginCreateBranches
  <2>2. \A n \in names, b \in DOMAIN brRow : BrFolded[n] # BrFolded[brRow[b].name]
    BY <1>1 DEF BeginCreateBranches, NameTaken, ExactMatchInsensitive
  <2>3. NamesStillFree(h)' BY <2>1, <2>2 DEF NamesStillFree
  <2>4. BranchRequestFits(h)'
   <3>1. BranchRequestFits(h) BY <1>i
   <3> QED BY <3>1, <2>1 DEF BranchRequestFits
  <2> QED BY <2>1, <2>3, <2>4, <1>g, <1>w, <1>n
 <1>2. ASSUME InsertBranches(h) PROVE Goal
  <2>1. PICK ids \in SUBSET (BrIds \ DOMAIN brRow) :
          /\ Cardinality(ids) = Cardinality(brBatch[h])
          /\ LET named == CHOOSE f \in [ids -> brBatch[h]] : {f[b] : b \in ids} = brBatch[h] IN
             brRow' = [b \in DOMAIN brRow \cup ids |->
                         IF b \in ids THEN [name |-> named[b], active |-> TRUE] ELSE brRow[b]]
          /\ brOpening' = [brOpening EXCEPT ![h] = ids]
    BY <1>2 DEF InsertBranches
  <2> DEFINE named == NamesGiven(ids, brBatch[h])
  <2>2. named \in [ids -> brBatch[h]] /\ \A a, b \in ids : named[a] = named[b] => a = b
   <3>1. IsFiniteSet(ids) /\ IsFiniteSet(brBatch[h]) BY <1>t, BranchesFit, FS_Subset
   <3>2. Cardinality(ids) = Cardinality(brBatch[h]) BY <2>1
   <3> QED BY ONLY <3>1, <3>2, NamesOfABatch
  <2>3. brRow' = [b \in DOMAIN brRow \cup ids |->
                    IF b \in ids THEN [name |-> named[b], active |-> TRUE] ELSE brRow[b]]
    BY <2>1 DEF NamesGiven
  <2> HIDE DEF named
  <2>4. /\ DOMAIN brRow' = DOMAIN brRow \cup ids
        /\ \A b \in ids : brRow'[b].name = named[b] /\ named[b] \in brBatch[h]
        /\ \A b \in DOMAIN brRow : b \notin ids /\ brRow'[b].name = brRow[b].name
    BY <2>2, <2>3
  <2>5. /\ brpc[h] = "insert" /\ brpc'[h] = "open" /\ brBatch'[h] = {}
        /\ brCrossed' = brCrossed \cup Overtaken(h, brBatch[h])
        /\ UNCHANGED <<brWallets, brLost>>
    BY <1>2, <1>t DEF InsertBranches
  <2>6. brOpening'[h] = ids BY <2>1, <1>t
  <2>7. BranchRequestFits(h)' BY <2>4, <2>5, <2>6 DEF BranchRequestFits
  <2>8. NamesStillFree(h)' BY <2>5 DEF NamesStillFree
  <2>9. \A g \in BrRequests : BranchRequestFits(g)' /\ NamesStillFree(g)'
    BY <2>4, <2>5, <2>7, <2>8, <1>g
  <2>10. \A m, n \in brBatch[h] : BrFolded[m] = BrFolded[n] => m = n
   <3> DEFINE folded == [n \in brBatch[h] |-> BrFolded[n]]
   <3>1. IsFiniteSet(brBatch[h]) BY <1>t, BranchesFit, FS_Subset
   <3>2. Cardinality({BrFolded[n] : n \in brBatch[h]}) = Cardinality(brBatch[h])
     BY <2>5, <1>i DEF BranchRequestFits
   <3>3. DOMAIN folded = brBatch[h] /\ \A n \in brBatch[h] : folded[n] = BrFolded[n] OBVIOUS
   <3>4. {folded[n] : n \in brBatch[h]} = {BrFolded[n] : n \in brBatch[h]} BY <3>3
   <3> HIDE DEF folded
   <3>5. Cardinality({folded[n] : n \in brBatch[h]}) = Cardinality(brBatch[h]) BY <3>2, <3>4
   <3>6. \A m, n \in brBatch[h] : folded[m] = folded[n] => m = n BY <3>1, <3>3, <3>5, ImageDiffers
   <3> QED BY <3>3, <3>6
  <2>11. NamesDiffer'
   <3>1. SUFFICES ASSUME NEW a \in DOMAIN brRow', NEW b \in DOMAIN brRow', a # b,
                         BrFolded[brRow'[a].name] = BrFolded[brRow'[b].name]
                  PROVE  BrFolded[brRow'[a].name] \in brCrossed'
     BY DEF NamesDiffer
   <3>2. CASE a \in DOMAIN brRow /\ b \in DOMAIN brRow
     BY <3>1, <3>2, <2>4, <2>5, <1>i DEF NamesDiffer
   <3>3. CASE a \in ids /\ b \in ids BY <3>1, <3>3, <2>2, <2>4, <2>10
   <3>4. ASSUME NEW c \in ids, NEW d \in DOMAIN brRow,
                BrFolded[named[c]] = BrFolded[brRow[d].name]
         PROVE  BrFolded[named[c]] \in brCrossed'
     BY <3>4, <2>4, <2>5, <1>i DEF NamesStillFree
   <3>5. CASE a \in ids /\ b \in DOMAIN brRow BY <3>1, <3>4, <3>5, <2>4
   <3>6. CASE a \in DOMAIN brRow /\ b \in ids BY <3>1, <3>4, <3>6, <2>4
   <3> QED BY <3>2, <3>3, <3>5, <3>6, <2>4
  <2>12. EveryBranchHasItsWallet'
   <3>1. \A b \in DOMAIN brRow \ Opened : b \in brWallets \/ b \in brLost
     BY <1>i DEF EveryBranchHasItsWallet, Opened
   <3>2. brOpening[h] = {} BY <2>5, <1>i DEF BranchRequestFits
   <3>3. \A b \in DOMAIN brRow' \ Opened' : b \in brWallets' \/ b \in brLost'
     BY <3>1, <3>2, <2>4, <2>5, <2>6, <1>o
   <3> QED BY <3>3 DEF EveryBranchHasItsWallet, Opened
  <2> QED BY <2>9, <2>11, <2>12
 <1>3. ASSUME OpenWallets(h) PROVE Goal
  <2>1. PICK b \in brOpening[h] : OpenWallet(h, b) BY <1>3 DEF OpenWallets
  <2>2. /\ UNCHANGED <<brRow, brBatch, brTarget, brCrossed, brLost>>
        /\ brpc[h] = "open"
        /\ brpc'[h] = IF brOpening'[h] = {} THEN "idle" ELSE "open"
    BY <1>3, <1>t DEF OpenWallets
  <2>3. brOpening'[h] = brOpening[h] \ {b} /\ brWallets' = brWallets \cup {b}
    BY <2>1, <1>t DEF OpenWallet
  <2>4. BranchRequestFits(h)'
   <3>1. BranchRequestFits(h) BY <1>i
   <3> QED BY <3>1, <2>2, <2>3 DEF BranchRequestFits
  <2>5. NamesStillFree(h)' BY <2>2 DEF NamesStillFree
  <2>6. EveryBranchHasItsWallet'
   <3>1. \A c \in DOMAIN brRow \ Opened : c \in brWallets \/ c \in brLost
     BY <1>i DEF EveryBranchHasItsWallet, Opened
   <3>2. \A c \in DOMAIN brRow' \ Opened' : c \in brWallets' \/ c \in brLost'
     BY <3>1, <2>2, <2>3, <1>o
   <3> QED BY <3>2 DEF EveryBranchHasItsWallet, Opened
  <2> QED BY <2>2, <2>4, <2>5, <2>6, <1>g, <1>n
 <1>4. ASSUME WriteRename(h) PROVE Goal
  <2>1. PICK b \in brTarget[h], n \in brBatch[h] : brRow' = [brRow EXCEPT ![b].name = n]
    BY <1>4 DEF WriteRename
  <2>2. /\ brpc[h] = "rename" /\ brpc'[h] = "idle" /\ brBatch'[h] = {} /\ brTarget'[h] = {}
        /\ brCrossed' = brCrossed \cup Overtaken(h, brBatch[h])
        /\ UNCHANGED <<brWallets, brOpening, brLost>>
    BY <1>4, <1>t DEF WriteRename
  <2>3. brTarget[h] = {b} /\ b \in DOMAIN brRow BY <2>1, <2>2, <1>i DEF BranchRequestFits
  <2>4. /\ DOMAIN brRow' = DOMAIN brRow /\ brRow'[b].name = n
        /\ \A c \in DOMAIN brRow : c # b => brRow'[c].name = brRow[c].name
    BY <2>1, <2>3, <1>t DEF BranchRow
  <2>5. BranchRequestFits(h)'
   <3>1. BranchRequestFits(h) BY <1>i
   <3> QED BY <3>1, <2>2, <2>4 DEF BranchRequestFits
  <2>6. NamesStillFree(h)' BY <2>2 DEF NamesStillFree
  <2>7. \A g \in BrRequests : BranchRequestFits(g)' /\ NamesStillFree(g)'
    BY <2>1, <2>2, <2>4, <2>5, <2>6, <1>g
  <2>8. NamesDiffer'
   <3>1. ASSUME NEW c \in DOMAIN brRow, c # b, BrFolded[n] = BrFolded[brRow[c].name]
         PROVE  BrFolded[n] \in brCrossed'
     BY <3>1, <2>1, <2>2, <2>3, <1>i DEF NamesStillFree
   <3>2. SUFFICES ASSUME NEW a \in DOMAIN brRow', NEW c \in DOMAIN brRow', a # c,
                         BrFolded[brRow'[a].name] = BrFolded[brRow'[c].name]
                  PROVE  BrFolded[brRow'[a].name] \in brCrossed'
     BY DEF NamesDiffer
   <3>3. CASE a # b /\ c # b BY <3>2, <3>3, <2>2, <2>4, <1>i DEF NamesDiffer
   <3>4. CASE a = b \/ c = b BY <3>1, <3>2, <3>4, <2>4
   <3> QED BY <3>3, <3>4
  <2> QED BY <2>2, <2>4, <2>7, <2>8, <1>w
 <1>5. ASSUME LoseBranchRequest(h) PROVE Goal
  <2>1. /\ UNCHANGED <<brRow, brWallets, brCrossed>> /\ brLost' = brLost \cup brOpening[h]
        /\ brpc'[h] = "idle" /\ brBatch'[h] = {} /\ brOpening'[h] = {} /\ brTarget'[h] = {}
    BY <1>5, <1>t DEF LoseBranchRequest
  <2>2. BranchRequestFits(h)' /\ NamesStillFree(h)' BY <2>1 DEF BranchRequestFits, NamesStillFree
  <2> QED BY <2>1, <2>2, <1>g, <1>w, <1>n
 <1>6. ASSUME NEW b \in DOMAIN brRow, NEW n \in BrNames, BeginRename(h, b, n) PROVE Goal
  <2>1. /\ UNCHANGED <<brRow, brWallets, brOpening, brCrossed, brLost>>
        /\ brpc[h] = "idle" /\ brpc'[h] = "rename" /\ brBatch'[h] = {n} /\ brTarget'[h] = {b}
        /\ ~NameTaken(n, DOMAIN brRow \ {b})
    BY <1>6, <1>t DEF BeginRename
  <2>2. \A c \in DOMAIN brRow \ {b} : BrFolded[n] # BrFolded[brRow[c].name]
    BY <2>1 DEF NameTaken, ExactMatchInsensitive
  <2>3. NamesStillFree(h)' BY <2>1, <2>2 DEF NamesStillFree
  <2>4. BranchRequestFits(h)'
   <3>1. BranchRequestFits(h) /\ b \in BrIds BY <1>i, <1>t
   <3> QED BY <3>1, <2>1 DEF BranchRequestFits
  <2> QED BY <2>1, <2>3, <2>4, <1>g, <1>w, <1>n
 <1> HIDE DEF Goal
 <1>q. Goal BY <1>1, <1>2, <1>3, <1>4, <1>5, <1>6 DEF BranchRequestStep
 <1> QED BY <1>q DEF Goal

LEMMA BrInvNext == BrInv /\ [BrNext]_brVars => BrInv'
 <1> SUFFICES ASSUME BrInv, [BrNext]_brVars PROVE BrInv' OBVIOUS
 <1>i. /\ BrTyped /\ NamesDiffer /\ EveryBranchHasItsWallet
       /\ \A k \in BrRequests : BranchRequestFits(k) /\ NamesStillFree(k)
   BY DEF BrInv
 <1>r. brRow \in [DOMAIN brRow -> BranchRow] BY <1>i DEF BrTyped
 <1>1. CASE BrNext
  <2>1. BrTyped' BY <1>1, <1>i, BrTypedNext
  <2>2. ASSUME NEW h \in BrRequests, BranchRequestStep(h) PROVE BrInv'
   <3>1. /\ \A g \in BrRequests : BranchRequestFits(g)' /\ NamesStillFree(g)'
         /\ NamesDiffer' /\ EveryBranchHasItsWallet'
     BY <2>2, BranchRequestsNext
   <3> QED BY <2>1, <3>1 DEF BrInv
  <2>3. ASSUME DOMAIN brRow' = DOMAIN brRow,
               \A b \in DOMAIN brRow : brRow'[b].name = brRow[b].name,
               brWallets \subseteq brWallets',
               UNCHANGED <<brpc, brBatch, brOpening, brTarget, brCrossed, brLost>>
        PROVE  BrInv'
   <3>1. ASSUME NEW h \in BrRequests PROVE BranchRequestFits(h)' /\ NamesStillFree(h)'
    <4>1. BranchRequestFits(h)' BY <2>3, <1>i DEF BranchRequestFits
    <4>2. NamesStillFree(h)' BY <2>3, <1>i DEF NamesStillFree
    <4> QED BY <4>1, <4>2
   <3>2. NamesDiffer' BY <2>3, <1>i DEF NamesDiffer
   <3>3. EveryBranchHasItsWallet' BY <2>3, <1>i DEF EveryBranchHasItsWallet
   <3> QED BY <2>1, <3>1, <3>2, <3>3 DEF BrInv
  <2>4. ASSUME NEW b \in DOMAIN brRow, TopUpOpensWallet(b) PROVE BrInv'
    BY <2>4, <2>3 DEF TopUpOpensWallet
  <2>5. ASSUME NEW b \in DOMAIN brRow, NEW a \in BOOLEAN, SetBranchActive(b, a) PROVE BrInv'
   <3>1. /\ DOMAIN brRow' = DOMAIN brRow
         /\ \A c \in DOMAIN brRow : brRow'[c].name = brRow[c].name
     BY <2>5, <1>r DEF SetBranchActive, BranchRow
   <3> QED BY <2>5, <3>1, <2>3 DEF SetBranchActive
  <2> QED BY <1>1, <2>2, <2>4, <2>5 DEF BrNext, BranchRequestStep
 <1>2. CASE UNCHANGED brVars
   BY <1>2, <1>i DEF brVars, BrInv, BrTyped, BranchRequestFits, NamesStillFree, NamesDiffer,
                     EveryBranchHasItsWallet
 <1> QED BY <1>1, <1>2

LEMMA BrInvHolds == BrInv => BranchesAreSound
 <1> SUFFICES ASSUME BrInv PROVE BranchesAreSound OBVIOUS
 <1>1. \A b \in DOMAIN brRow : brRow[b].name \in BrNames BY DEF BrInv, BrTyped, BranchRow
 <1>2. brCalls \in 0..BrMostCalls BY BranchesFit DEF BrInv, BrTyped
 <1>3. BrTypeOK BY <1>1, <1>2 DEF BrTypeOK, BrInv, BrTyped, BranchSteps
 <1> QED BY <1>3 DEF BranchesAreSound, BrInv

(* Branches of a merchant (create, update, createWallet): whatever creations,
   renames and top-ups cross, two branches share a name only if two requests
   had checked it before either wrote it, and each branch has a wallet unless
   the process that opened it was lost. *)
THEOREM BranchesSound == BrSpec => []BranchesAreSound
 <1> QED BY BrInvInit, BrInvNext, BrInvHolds, PTL DEF BrSpec

-----------------------------------------------------------------------------
(* The platform's fee. *)
FeeSteps == {"idle", "insert", "republish", "insert toggled", "mark", "seed", "seed insert"}
FeeRates == Rates \cup LegacyRates \cup {Fixed, DEFAULT_COMMISSION_PERCENT}
FeeRule ==
  [key : FeeKeys, ver : 1..MaxFeeVersion, from : FeeDays, until : 0..Never, active : BOOLEAN,
   rate : FeeRates, sup : 0..MaxFeeVersion]
FeeQuote ==
  [key : FeeKeys \cup {NoKey}, ver : 0..MaxFeeVersion,
   rate : Rates \cup LegacyRates \cup {DEFAULT_COMMISSION_PERCENT}, day : FeeDays]
FeeInput == [from : FeeDays, until : 0..Never, active : BOOLEAN, rate : FeeRates]

FeeTyped ==
  /\ rules \subseteq FeeRule /\ quotes \subseteq FeeQuote /\ feeDay \in FeeDays
  /\ legacyRate \in Rates \cup LegacyRates \cup {DEFAULT_COMMISSION_PERCENT}
  /\ fpc \in [FeeRequests -> FeeSteps] /\ fkey \in [FeeRequests -> FeeKeys \cup {NoKey}]
  /\ fread \in [FeeRequests -> Nat] /\ finput \in [FeeRequests -> FeeInput]
  /\ fseed \in [FeeRequests -> SUBSET FeeKeys]

OneRowAVersion == \A r, s \in rules : r.key = s.key /\ r.ver = s.ver => r = s

VersionsFollow == \A r \in rules : r.ver > 1 => Taken(r.key, r.ver - 1)

SuccessorIsNamed ==
  \A r \in rules :
    \/ r.sup = IF Taken(r.key, r.ver + 1) THEN r.ver + 1 ELSE 0
    \/ <<r.key, r.ver>> \in unmarked
    \/ \E h \in FeeRequests : fpc[h] = "mark" /\ fkey[h] = r.key /\ fread[h] = r.ver

(* What an administrator's request holds: the version it has read is there,
   and a switch carries the rate of it unless it has been overtaken. *)
RateIsOf(h) == \E r \in rules : r.key = fkey[h] /\ r.ver = fread[h] /\ r.rate = finput[h].rate
FeeRequestFits(h) ==
  /\ fpc[h] \notin {"idle", "seed"} => fkey[h] \in FeeKeys
  /\ fpc[h] \in {"idle", "seed", "seed insert"} => fread[h] = 0
  /\ fpc[h] \in {"insert", "insert toggled", "republish", "mark"} /\ fread[h] > 0
       => Taken(fkey[h], fread[h])
  /\ fpc[h] = "mark" => fread[h] > 0 /\ Taken(fkey[h], fread[h] + 1)
  /\ fpc[h] = "republish" => RateIsOf(h)
  /\ fpc[h] = "insert toggled" => <<fkey[h], fread[h] + 1>> \in overtaken \/ RateIsOf(h)

FeeInv ==
  /\ FeeTyped /\ OneRowAVersion /\ VersionsFollow /\ SuccessorIsNamed /\ SnapshotsExplain
  /\ \A h \in FeeRequests : FeeRequestFits(h)

(* A row keeps all but the name of its successor. *)
SameTerms(r, s) ==
  /\ s.key = r.key /\ s.ver = r.ver /\ s.from = r.from /\ s.until = r.until
  /\ s.active = r.active /\ s.rate = r.rate
FeeRowsKept == \A r \in rules : \E s \in rules' : SameTerms(r, s)

LEMMA FeeNumbers ==
  /\ MaxFeeDay \in Nat /\ MaxFeeVersion \in Nat /\ MaxFeeVersion >= 1 /\ 0 \in FeeDays
  /\ Never \in 0..Never /\ 1 \in 0..Never /\ 0 \in 0..MaxFeeVersion /\ 1 \in 1..MaxFeeVersion
  /\ 1..MaxFeeVersion \subseteq Nat /\ FeeDays \subseteq Nat
  BY FeeConstantsFit DEF FeeDays, Never

(* There is a newest version of a rule that has any. *)
LEMMA NewestIsThere ==
  ASSUME FeeTyped, NEW k \in FeeKeys, VersionsOf(k) # {}
  PROVE  NewestOf(k) \in rules /\ NewestOf(k).key = k
 <1> DEFINE H == {MaxFeeVersion - r.ver : r \in VersionsOf(k)}
 <1>1. \A r \in VersionsOf(k) : r \in rules /\ r.key = k /\ r.ver \in 1..MaxFeeVersion
   BY DEF VersionsOf, FeeTyped, FeeRule
 <1>2. H \in SUBSET Nat /\ H # {} BY <1>1, FeeNumbers
 <1>3. PICK t \in H : \A u \in H : t <= u
  <2> HIDE DEF H
  <2> QED BY <1>2, LeastOfNaturals
 <1>4. PICK r \in VersionsOf(k) : t = MaxFeeVersion - r.ver BY <1>3
 <1>5. \A s \in VersionsOf(k) : s.ver <= r.ver
  <2> TAKE s \in VersionsOf(k)
  <2>1. MaxFeeVersion - r.ver <= MaxFeeVersion - s.ver BY <1>3, <1>4
  <2>2. PICK a \in Nat, b \in Nat : a = r.ver /\ b = s.ver BY <1>1, FeeNumbers
  <2> QED BY <2>1, <2>2, FeeNumbers
 <1>6. NewestOf(k) \in VersionsOf(k) BY <1>4, <1>5 DEF NewestOf
 <1> QED BY <1>1, <1>6

LEMMA FeeInvInit == FeeInit => FeeInv
 <1> SUFFICES ASSUME FeeInit PROVE FeeInv OBVIOUS
 <1>1. NoInput \in FeeInput BY FeeNumbers DEF NoInput, FeeInput, FeeRates
 <1>2. FeeTyped BY <1>1, FeeNumbers DEF FeeInit, FeeTyped, FeeSteps
 <1>3. \A h \in FeeRequests : FeeRequestFits(h) BY DEF FeeInit, FeeRequestFits
 <1> QED BY <1>2, <1>3 DEF FeeInit, FeeInv, OneRowAVersion, VersionsFollow, SuccessorIsNamed,
                           SnapshotsExplain

(* The rows of a step: one is added, one names its successor, or none moves. *)
AddsRow(k, v, i) == rules' = rules \cup {FeeRow(k, v, i)}

LEMMA RowAdded ==
  ASSUME FeeInv, NEW k \in FeeKeys, NEW v \in 1..MaxFeeVersion, NEW i \in FeeInput, AddsRow(k, v, i),
         ~Taken(k, v), v > 1 => Taken(k, v - 1),
         \A r \in rules : r.key = k /\ r.ver + 1 = v =>
           \E h \in FeeRequests : fpc'[h] = "mark" /\ fkey'[h] = r.key /\ fread'[h] = r.ver,
         \A h \in FeeRequests : fpc[h] = "mark" =>
           fpc'[h] = "mark" /\ fkey'[h] = fkey[h] /\ fread'[h] = fread[h],
         unmarked \subseteq unmarked'
  PROVE  /\ rules' \subseteq FeeRule /\ OneRowAVersion' /\ VersionsFollow' /\ SuccessorIsNamed'
         /\ FeeRowsKept /\ Taken(k, v)'
 <1> DEFINE n == FeeRow(k, v, i)
 <1>1. /\ n \in FeeRule /\ n.key = k /\ n.ver = v /\ n.sup = 0
   BY FeeNumbers DEF FeeRow, FeeRule, FeeInput
 <1>2. rules' = rules \cup {n} BY DEF AddsRow
 <1> HIDE DEF n
 <1>t. rules \subseteq FeeRule BY DEF FeeInv, FeeTyped
 <1>3. \A r \in rules : ~(r.key = k /\ r.ver = v) BY DEF Taken
 <1>4. \A r \in rules : r.ver \in Nat /\ v \in Nat BY <1>t, FeeNumbers DEF FeeRule
 <1>5. ASSUME NEW j, NEW w PROVE Taken(j, w)' <=> Taken(j, w) \/ (j = k /\ w = v)
   BY <1>1, <1>2 DEF Taken
 <1>6. OneRowAVersion' BY <1>1, <1>2, <1>3 DEF OneRowAVersion, FeeInv
 <1>7. VersionsFollow'
  <2>1. ASSUME NEW r \in rules', r.ver > 1 PROVE Taken(r.key, r.ver - 1)'
   <3>1. CASE r = n BY <3>1, <2>1, <1>1, <1>5
   <3>2. CASE r \in rules BY <3>2, <2>1, <1>5 DEF FeeInv, VersionsFollow
   <3> QED BY <3>1, <3>2, <1>2
  <2> QED BY <2>1 DEF VersionsFollow
 <1>8. ~Taken(k, v + 1)
  <2>1. SUFFICES ASSUME NEW s \in rules, s.key = k, s.ver = v + 1 PROVE FALSE BY DEF Taken
  <2>2. s.ver > 1 /\ s.ver - 1 = v BY <2>1, <1>4, FeeNumbers
  <2>3. Taken(k, v) BY <2>1, <2>2 DEF FeeInv, VersionsFollow
  <2> QED BY <2>3
 <1>9. SuccessorIsNamed'
  <2>1. ASSUME NEW r \in rules'
        PROVE  \/ r.sup = IF Taken(r.key, r.ver + 1)' THEN r.ver + 1 ELSE 0
               \/ <<r.key, r.ver>> \in unmarked'
               \/ \E h \in FeeRequests : fpc'[h] = "mark" /\ fkey'[h] = r.key /\ fread'[h] = r.ver
   <3>1. CASE r = n
    <4>1. ~Taken(r.key, r.ver + 1)'
     <5>1. v + 1 # v BY FeeNumbers
     <5> QED BY <3>1, <5>1, <1>1, <1>5, <1>8
    <4> QED BY <3>1, <4>1, <1>1
   <3>2. CASE r \in rules /\ r.key = k /\ r.ver + 1 = v BY <3>2
   <3>3. CASE r \in rules /\ ~(r.key = k /\ r.ver + 1 = v)
    <4>1. Taken(r.key, r.ver + 1)' <=> Taken(r.key, r.ver + 1) BY <3>3, <1>5
    <4>2. \/ r.sup = IF Taken(r.key, r.ver + 1) THEN r.ver + 1 ELSE 0
          \/ <<r.key, r.ver>> \in unmarked
          \/ \E h \in FeeRequests : fpc[h] = "mark" /\ fkey[h] = r.key /\ fread[h] = r.ver
      BY <3>3 DEF FeeInv, SuccessorIsNamed
    <4> QED BY <4>1, <4>2
   <3> QED BY <3>1, <3>2, <3>3, <1>2
  <2> QED BY <2>1 DEF SuccessorIsNamed
 <1>10. FeeRowsKept BY <1>2 DEF FeeRowsKept, SameTerms
 <1>11. Taken(k, v)' BY <1>5
 <1> QED BY <1>1, <1>2, <1>t, <1>6, <1>7, <1>9, <1>10, <1>11

(* No row moves, and nobody stops short of marking one without a word. *)
LEMMA RowsStand ==
  ASSUME FeeInv, UNCHANGED rules, unmarked \subseteq unmarked',
         \A h \in FeeRequests : fpc[h] = "mark" =>
           \/ fpc'[h] = "mark" /\ fkey'[h] = fkey[h] /\ fread'[h] = fread[h]
           \/ <<fkey[h], fread[h]>> \in unmarked'
  PROVE  /\ rules' \subseteq FeeRule /\ OneRowAVersion' /\ VersionsFollow' /\ SuccessorIsNamed'
         /\ FeeRowsKept
 <1>t. rules \subseteq FeeRule BY DEF FeeInv, FeeTyped
 <1>1. \A j, w : Taken(j, w)' <=> Taken(j, w) BY DEF Taken
 <1>2. OneRowAVersion' /\ VersionsFollow' BY <1>1 DEF FeeInv, OneRowAVersion, VersionsFollow
 <1>3. SuccessorIsNamed'
  <2>1. ASSUME NEW r \in rules
        PROVE  \/ r.sup = IF Taken(r.key, r.ver + 1)' THEN r.ver + 1 ELSE 0
               \/ <<r.key, r.ver>> \in unmarked'
               \/ \E h \in FeeRequests : fpc'[h] = "mark" /\ fkey'[h] = r.key /\ fread'[h] = r.ver
   <3>1. \/ r.sup = IF Taken(r.key, r.ver + 1) THEN r.ver + 1 ELSE 0
         \/ <<r.key, r.ver>> \in unmarked
         \/ \E h \in FeeRequests : fpc[h] = "mark" /\ fkey[h] = r.key /\ fread[h] = r.ver
     BY DEF FeeInv, SuccessorIsNamed
   <3>2. Taken(r.key, r.ver + 1)' <=> Taken(r.key, r.ver + 1) BY <1>1
   <3> QED BY <3>1, <3>2
  <2> QED BY <2>1 DEF SuccessorIsNamed
 <1>4. FeeRowsKept BY DEF FeeRowsKept, SameTerms
 <1> QED BY <1>t, <1>2, <1>3, <1>4

(* The version that has been succeeded says so. *)
LEMMA RowMarked ==
  ASSUME FeeInv, NEW h \in FeeRequests, fpc[h] = "mark", unmarked' = unmarked,
         rules' = {IF r.key = fkey[h] /\ r.ver = fread[h]
                   THEN [r EXCEPT !.sup = fread[h] + 1] ELSE r : r \in rules},
         \A g \in FeeRequests \ {h} : fpc'[g] = fpc[g] /\ fkey'[g] = fkey[g] /\ fread'[g] = fread[g]
  PROVE  /\ rules' \subseteq FeeRule /\ OneRowAVersion' /\ VersionsFollow' /\ SuccessorIsNamed'
         /\ FeeRowsKept
 <1>t. rules \subseteq FeeRule /\ fread[h] \in Nat BY DEF FeeInv, FeeTyped
 <1>m. Taken(fkey[h], fread[h] + 1) /\ fread[h] > 0 BY DEF FeeInv, FeeRequestFits
 <1>n. fread[h] + 1 \in 0..MaxFeeVersion
  <2>1. PICK s \in rules : s.key = fkey[h] /\ s.ver = fread[h] + 1 BY <1>m DEF Taken
  <2> QED BY <2>1, <1>t, FeeNumbers DEF FeeRule
 <1> DEFINE Marked(r) == IF r.key = fkey[h] /\ r.ver = fread[h]
                         THEN [r EXCEPT !.sup = fread[h] + 1] ELSE r
 <1>1. ASSUME NEW r \in rules
       PROVE  /\ Marked(r) \in FeeRule /\ SameTerms(r, Marked(r))
              /\ r.key = fkey[h] /\ r.ver = fread[h] => Marked(r).sup = r.ver + 1
              /\ ~(r.key = fkey[h] /\ r.ver = fread[h]) => Marked(r).sup = r.sup
  <2>1. r \in FeeRule BY <1>t
  <2> QED BY <2>1, <1>n DEF FeeRule, SameTerms
 <1>2. rules' = {Marked(r) : r \in rules} OBVIOUS
 <1> HIDE DEF Marked
 <1>3. \A s \in rules' : \E r \in rules : s = Marked(r) BY <1>2
 <1>4. \A r \in rules : Marked(r) \in rules' BY <1>2
 <1>5. \A j, w : Taken(j, w)' <=> Taken(j, w)
  <2> TAKE j, w
  <2>1. ASSUME Taken(j, w)' PROVE Taken(j, w)
   <3>1. PICK s \in rules' : s.key = j /\ s.ver = w BY <2>1 DEF Taken
   <3> QED BY <3>1, <1>1, <1>3 DEF Taken, SameTerms
  <2>2. ASSUME Taken(j, w) PROVE Taken(j, w)'
   <3>1. PICK r \in rules : r.key = j /\ r.ver = w BY <2>2 DEF Taken
   <3> QED BY <3>1, <1>1, <1>4 DEF Taken, SameTerms
  <2> QED BY <2>1, <2>2
 <1>6. rules' \subseteq FeeRule BY <1>1, <1>3
 <1>7. OneRowAVersion'
  <2>1. ASSUME NEW a \in rules', NEW b \in rules', a.key = b.key, a.ver = b.ver PROVE a = b
   <3>1. PICK r \in rules, s \in rules : a = Marked(r) /\ b = Marked(s) BY <1>3
   <3>2. r.key = s.key /\ r.ver = s.ver BY <2>1, <3>1, <1>1 DEF SameTerms
   <3>3. r = s BY <3>2 DEF FeeInv, OneRowAVersion
   <3> QED BY <3>1, <3>3
  <2> QED BY <2>1 DEF OneRowAVersion
 <1>8. VersionsFollow'
  <2>1. ASSUME NEW a \in rules', a.ver > 1 PROVE Taken(a.key, a.ver - 1)'
   <3>1. PICK r \in rules : a = Marked(r) BY <1>3
   <3>2. r.key = a.key /\ r.ver = a.ver BY <3>1, <1>1 DEF SameTerms
   <3>3. Taken(a.key, a.ver - 1) BY <2>1, <3>2 DEF FeeInv, VersionsFollow
   <3> QED BY <3>3, <1>5
  <2> QED BY <2>1 DEF VersionsFollow
 <1>9. SuccessorIsNamed'
  <2>1. ASSUME NEW a \in rules'
        PROVE  \/ a.sup = IF Taken(a.key, a.ver + 1)' THEN a.ver + 1 ELSE 0
               \/ <<a.key, a.ver>> \in unmarked'
               \/ \E g \in FeeRequests : fpc'[g] = "mark" /\ fkey'[g] = a.key /\ fread'[g] = a.ver
   <3>1. PICK r \in rules : a = Marked(r) BY <1>3
   <3>2. r.key = a.key /\ r.ver = a.ver BY <3>1, <1>1 DEF SameTerms
   <3>3. Taken(a.key, a.ver + 1)' <=> Taken(r.key, r.ver + 1) BY <3>2, <1>5
   <3>4. CASE r.key = fkey[h] /\ r.ver = fread[h]
    <4>1. a.sup = a.ver + 1 BY <3>1, <3>2, <3>4, <1>1
    <4> QED BY <4>1, <3>2, <3>3, <3>4, <1>m
   <3>5. CASE ~(r.key = fkey[h] /\ r.ver = fread[h])
    <4>1. a.sup = r.sup BY <3>1, <3>5, <1>1
    <4>2. \/ r.sup = IF Taken(r.key, r.ver + 1) THEN r.ver + 1 ELSE 0
          \/ <<r.key, r.ver>> \in unmarked
          \/ \E g \in FeeRequests : fpc[g] = "mark" /\ fkey[g] = r.key /\ fread[g] = r.ver
      BY DEF FeeInv, SuccessorIsNamed
    <4> QED BY <4>1, <4>2, <3>2, <3>3, <3>5
   <3> QED BY <3>4, <3>5
  <2> QED BY <2>1 DEF SuccessorIsNamed
 <1>10. FeeRowsKept BY <1>1, <1>4 DEF FeeRowsKept
 <1> QED BY <1>6, <1>7, <1>8, <1>9, <1>10

FeeRequestStep(h) ==
  \/ \E k \in FeeKeys :
       \/ \E i \in FeeInputs : CreateRule(h, k, i) \/ UpdateRule(h, k, i)
       \/ \E active \in BOOLEAN : SetRuleActive(h, k, active)
       \/ SeedKey(h, k)
  \/ Republish(h) \/ InsertVersion(h) \/ MarkSuperseded(h)
  \/ BeginSeed(h) \/ SeedInsert(h) \/ SeedDone(h) \/ LoseFeeRequest(h)

FeeRequestKept(g) ==
  fpc'[g] = fpc[g] /\ fkey'[g] = fkey[g] /\ fread'[g] = fread[g] /\ finput'[g] = finput[g]

(* One request moves; the orders, the day and the old configuration stand. *)
FeeFrame(h) ==
  /\ \A g \in FeeRequests \ {h} : FeeRequestKept(g)
  /\ UNCHANGED <<quotes, feeDay, legacyRate>> /\ overtaken \subseteq overtaken' /\ unmarked \subseteq unmarked'
  /\ fpc' \in [FeeRequests -> FeeSteps] /\ fkey' \in [FeeRequests -> FeeKeys \cup {NoKey}]
  /\ fread' \in [FeeRequests -> Nat] /\ finput' \in [FeeRequests -> FeeInput]
  /\ fseed' \in [FeeRequests -> SUBSET FeeKeys]

LEMMA FeeFrames ==
  ASSUME FeeTyped, NEW h \in FeeRequests, FeeRequestFits(h), FeeRequestStep(h)
  PROVE  FeeFrame(h)
 <1>t. /\ fpc \in [FeeRequests -> FeeSteps] /\ fkey \in [FeeRequests -> FeeKeys \cup {NoKey}]
       /\ fread \in [FeeRequests -> Nat] /\ finput \in [FeeRequests -> FeeInput]
       /\ fseed \in [FeeRequests -> SUBSET FeeKeys] /\ feeDay \in FeeDays /\ rules \subseteq FeeRule
       /\ legacyRate \in Rates \cup LegacyRates \cup {DEFAULT_COMMISSION_PERCENT}
   BY DEF FeeTyped
 <1>n. NoInput \in FeeInput BY FeeNumbers DEF NoInput, FeeInput, FeeRates
 <1>i. FeeInputs \subseteq FeeInput BY FeeNumbers DEF FeeInputs, FeeInput, FeeRates
 <1>v. ASSUME NEW k \in FeeKeys, VersionsOf(k) # {}
       PROVE  NewestOf(k) \in FeeRule /\ NewestOf(k).ver \in Nat
  <2>1. NewestOf(k) \in FeeRule BY <1>v, <1>t, NewestIsThere
  <2> QED BY <2>1, FeeNumbers DEF FeeRule
 <1>d. ASSUME FeeDone(h), UNCHANGED <<quotes, feeDay, legacyRate, overtaken>>,
              unmarked \subseteq unmarked'
       PROVE  FeeFrame(h)
   BY <1>d, <1>t, <1>n DEF FeeDone, FeeFrame, FeeRequestKept, FeeSteps
 <1>b. ASSUME NEW at \in FeeSteps, NEW k \in FeeKeys \cup {NoKey}, NEW i \in FeeInput,
              FeeBegin(h, at, k, i), fread' \in [FeeRequests -> Nat],
              \A g \in FeeRequests \ {h} : fread'[g] = fread[g],
              fseed' \in [FeeRequests -> SUBSET FeeKeys],
              UNCHANGED <<quotes, feeDay, legacyRate, overtaken, unmarked>>
       PROVE  FeeFrame(h)
   BY <1>b, <1>t DEF FeeBegin, FeeFrame, FeeRequestKept
 <1>w. {"insert", "republish", "seed", "insert toggled", "mark", "seed insert"} \subseteq FeeSteps
   BY DEF FeeSteps
 <1>1. ASSUME NEW k \in FeeKeys, NEW i \in FeeInputs, CreateRule(h, k, i) PROVE FeeFrame(h)
   BY <1>1, <1>b, <1>i, <1>t, <1>w DEF CreateRule, feeHistory
 <1>2. ASSUME NEW k \in FeeKeys, NEW i \in FeeInputs, UpdateRule(h, k, i) PROVE FeeFrame(h)
  <2>1. NewestOf(k).ver \in Nat BY <1>2, <1>v DEF UpdateRule
  <2> QED BY <1>2, <2>1, <1>b, <1>i, <1>t, <1>w DEF UpdateRule, feeHistory
 <1>3. ASSUME NEW k \in FeeKeys, NEW active \in BOOLEAN, SetRuleActive(h, k, active)
       PROVE  FeeFrame(h)
  <2>1. NewestOf(k) \in FeeRule /\ NewestOf(k).ver \in Nat BY <1>3, <1>v DEF SetRuleActive
  <2>2. CopyOf(NewestOf(k), active) \in FeeInput BY <2>1, <1>t DEF CopyOf, FeeRule, FeeInput
  <2> QED BY <1>3, <2>1, <2>2, <1>b, <1>t, <1>w DEF SetRuleActive, feeHistory
 <1>4. ASSUME NEW k \in FeeKeys, SeedKey(h, k) PROVE FeeFrame(h)
   BY <1>4, <1>t, <1>w DEF SeedKey, FeeFrame, FeeRequestKept, feeHistory
 <1>5. ASSUME Republish(h) PROVE FeeFrame(h)
  <2>0. fkey[h] \in FeeKeys /\ VersionsOf(fkey[h]) # {}
    BY <1>5 DEF Republish, FeeRequestFits, RateIsOf, VersionsOf
  <2>1. NewestOf(fkey[h]).ver \in Nat BY <2>0, <1>v
  <2> QED BY <1>5, <2>1, <1>t, <1>w DEF Republish, FeeFrame, FeeRequestKept
 <1>6. ASSUME InsertVersion(h) PROVE FeeFrame(h)
  <2>1. CASE FeeDone(h) BY <1>6, <2>1, <1>d DEF InsertVersion, feeHistory
  <2>2. CASE ~FeeDone(h)
    BY <1>6, <2>2, <1>t, <1>n, <1>w DEF InsertVersion, FeeFrame, FeeRequestKept, feeHistory
  <2> QED BY <2>1, <2>2
 <1>7. ASSUME MarkSuperseded(h) PROVE FeeFrame(h) BY <1>7, <1>d DEF MarkSuperseded, feeHistory
 <1>8. ASSUME BeginSeed(h) PROVE FeeFrame(h)
  <2>1. [NoInput EXCEPT !.from = feeDay, !.active = TRUE, !.rate = legacyRate] \in FeeInput
    BY <1>t, FeeNumbers DEF NoInput, FeeInput, FeeRates
  <2> QED BY <1>8, <2>1, <1>b, <1>t, <1>w DEF BeginSeed, feeHistory
 <1>9. ASSUME SeedInsert(h) PROVE FeeFrame(h)
  <2>1. CASE FeeDone(h) BY <1>9, <2>1, <1>d DEF SeedInsert, feeHistory
  <2>2. CASE ~FeeDone(h)
    BY <1>9, <2>2, <1>t, <1>n, <1>w DEF SeedInsert, FeeFrame, FeeRequestKept, feeHistory
  <2> QED BY <2>1, <2>2
 <1>10. ASSUME SeedDone(h) PROVE FeeFrame(h) BY <1>10, <1>d DEF SeedDone, feeHistory
 <1>11. ASSUME LoseFeeRequest(h) PROVE FeeFrame(h) BY <1>11, <1>d DEF LoseFeeRequest
 <1> QED BY <1>1, <1>2, <1>3, <1>4, <1>5, <1>6, <1>7, <1>8, <1>9, <1>10, <1>11 DEF FeeRequestStep

(* What the step of a request does to the rows. *)
LEMMA FeeRowsNext ==
  ASSUME FeeInv, NEW h \in FeeRequests, FeeRequestStep(h), FeeFrame(h)
  PROVE  /\ rules' \subseteq FeeRule /\ OneRowAVersion' /\ VersionsFollow' /\ SuccessorIsNamed'
         /\ FeeRowsKept
 <1> DEFINE Goal == /\ rules' \subseteq FeeRule /\ OneRowAVersion' /\ VersionsFollow'
                    /\ SuccessorIsNamed' /\ FeeRowsKept
 <1>t. /\ fpc \in [FeeRequests -> FeeSteps] /\ fkey \in [FeeRequests -> FeeKeys \cup {NoKey}]
       /\ fread \in [FeeRequests -> Nat] /\ finput \in [FeeRequests -> FeeInput]
       /\ rules \subseteq FeeRule
   BY DEF FeeInv, FeeTyped
 <1>f. FeeRequestFits(h) BY DEF FeeInv
 <1>k. /\ \A g \in FeeRequests \ {h} : FeeRequestKept(g)
       /\ unmarked \subseteq unmarked'
   BY DEF FeeFrame
 <1>u. ASSUME UNCHANGED rules,
              fpc[h] # "mark" \/ <<fkey[h], fread[h]>> \in unmarked'
       PROVE  Goal
  <2>1. \A g \in FeeRequests : fpc[g] = "mark" =>
          \/ fpc'[g] = "mark" /\ fkey'[g] = fkey[g] /\ fread'[g] = fread[g]
          \/ <<fkey[g], fread[g]>> \in unmarked'
    BY <1>u, <1>k DEF FeeRequestKept
  <2> QED BY <1>u, <2>1, <1>k, RowsStand
 <1>1. ASSUME NEW k \in FeeKeys, NEW i \in FeeInputs, CreateRule(h, k, i) PROVE Goal
   BY <1>1, <1>u DEF CreateRule, FeeBegin
 <1>2. ASSUME NEW k \in FeeKeys, NEW i \in FeeInputs, UpdateRule(h, k, i) PROVE Goal
   BY <1>2, <1>u DEF UpdateRule, FeeBegin
 <1>3. ASSUME NEW k \in FeeKeys, NEW active \in BOOLEAN, SetRuleActive(h, k, active) PROVE Goal
   BY <1>3, <1>u DEF SetRuleActive, FeeBegin
 <1>4. ASSUME NEW k \in FeeKeys, SeedKey(h, k) PROVE Goal BY <1>4, <1>u DEF SeedKey
 <1>5. ASSUME Republish(h) PROVE Goal BY <1>5, <1>u DEF Republish
 <1>6. ASSUME InsertVersion(h) PROVE Goal
  <2>1. fpc[h] \in {"insert", "insert toggled"} BY <1>6 DEF InsertVersion
  <2>2. CASE Taken(fkey[h], fread[h] + 1) BY <1>6, <2>1, <2>2, <1>u DEF InsertVersion
  <2>3. CASE ~Taken(fkey[h], fread[h] + 1)
   <3>0. PICK k \in FeeKeys, n \in Nat : k = fkey[h] /\ n = fread[h]
     BY <2>1, <1>t, <1>f DEF FeeRequestFits
   <3>1. /\ AddsRow(k, n + 1, finput[h]) /\ n + 1 <= MaxFeeVersion
         /\ IF n = 0 THEN FeeDone(h) ELSE fpc' = [fpc EXCEPT ![h] = "mark"] /\ UNCHANGED <<fkey, fread>>
     BY <1>6, <2>3, <3>0 DEF InsertVersion, AddsRow
   <3>2. n + 1 \in 1..MaxFeeVersion /\ finput[h] \in FeeInput BY <3>1, <1>t, FeeNumbers
   <3>3. n + 1 > 1 => Taken(k, (n + 1) - 1)
    <4>1. n > 0 => Taken(k, n) BY <2>1, <3>0, <1>f DEF FeeRequestFits
    <4> QED BY <4>1
   <3>4. ASSUME NEW r \in rules, r.key = k, r.ver + 1 = n + 1
         PROVE  fpc'[h] = "mark" /\ fkey'[h] = r.key /\ fread'[h] = r.ver
    <4>1. r.ver = n /\ n # 0
     <5>1. r.ver \in 1..MaxFeeVersion BY <1>t DEF FeeRule
     <5> QED BY <3>4, <5>1, FeeNumbers
    <4> QED BY <3>0, <3>1, <3>4, <4>1, <1>t
   <3>5. \A g \in FeeRequests : fpc[g] = "mark" =>
           fpc'[g] = "mark" /\ fkey'[g] = fkey[g] /\ fread'[g] = fread[g]
     BY <2>1, <1>k DEF FeeRequestKept
   <3> QED BY <2>3, <3>0, <3>1, <3>2, <3>3, <3>4, <3>5, <1>k, RowAdded
  <2> QED BY <2>2, <2>3
 <1>7. ASSUME MarkSuperseded(h) PROVE Goal
  <2>1. \A g \in FeeRequests \ {h} : fpc'[g] = fpc[g] /\ fkey'[g] = fkey[g] /\ fread'[g] = fread[g]
    BY <1>k DEF FeeRequestKept
  <2>2. unmarked' = unmarked BY <1>7 DEF MarkSuperseded, feeHistory
  <2>3. /\ fpc[h] = "mark"
        /\ rules' = {IF r.key = fkey[h] /\ r.ver = fread[h]
                     THEN [r EXCEPT !.sup = fread[h] + 1] ELSE r : r \in rules}
    BY <1>7 DEF MarkSuperseded
  <2> QED BY <2>1, <2>2, <2>3, RowMarked
 <1>8. ASSUME BeginSeed(h) PROVE Goal BY <1>8, <1>u DEF BeginSeed, FeeBegin
 <1>9. ASSUME SeedInsert(h) PROVE Goal
  <2>1. fpc[h] = "seed insert" BY <1>9 DEF SeedInsert
  <2>2. CASE Taken(fkey[h], 1) BY <1>9, <2>1, <2>2, <1>u DEF SeedInsert
  <2>3. CASE ~Taken(fkey[h], 1)
   <3>0. PICK k \in FeeKeys : k = fkey[h] BY <2>1, <1>f DEF FeeRequestFits
   <3>1. AddsRow(k, 1, finput[h]) BY <1>9, <2>3, <3>0 DEF SeedInsert, AddsRow
   <3>2. 1 \in 1..MaxFeeVersion /\ finput[h] \in FeeInput BY <1>t, FeeNumbers
   <3>3. \A r \in rules : ~(r.key = k /\ r.ver + 1 = 1)
    <4>1. \A r \in rules : r.ver \in 1..MaxFeeVersion BY <1>t DEF FeeRule
    <4> QED BY <4>1, FeeNumbers
   <3>4. \A g \in FeeRequests : fpc[g] = "mark" =>
           fpc'[g] = "mark" /\ fkey'[g] = fkey[g] /\ fread'[g] = fread[g]
     BY <2>1, <1>k DEF FeeRequestKept
   <3>5. ~(1 > 1) OBVIOUS
   <3> QED BY <2>3, <3>0, <3>1, <3>2, <3>3, <3>4, <3>5, <1>k, RowAdded
  <2> QED BY <2>2, <2>3
 <1>10. ASSUME SeedDone(h) PROVE Goal BY <1>10, <1>u DEF SeedDone
 <1>11. ASSUME LoseFeeRequest(h) PROVE Goal BY <1>11, <1>u DEF LoseFeeRequest
 <1> HIDE DEF Goal
 <1>q. Goal BY <1>1, <1>2, <1>3, <1>4, <1>5, <1>6, <1>7, <1>8, <1>9, <1>10, <1>11 DEF FeeRequestStep
 <1> QED BY <1>q DEF Goal

(* What was there stays there, for whoever relies on it. *)
LEMMA KeptFeeRequestFits ==
  ASSUME FeeRowsKept, NEW g \in FeeRequests, FeeRequestFits(g), FeeRequestKept(g),
         overtaken \subseteq overtaken'
  PROVE  FeeRequestFits(g)'
 <1>1. \A j, w : Taken(j, w) => Taken(j, w)' BY DEF Taken, FeeRowsKept, SameTerms
 <1>2. RateIsOf(g) => RateIsOf(g)' BY DEF RateIsOf, FeeRequestKept, FeeRowsKept, SameTerms
 <1> QED BY <1>1, <1>2 DEF FeeRequestFits, FeeRequestKept

LEMMA MovedFeeRequestFits ==
  ASSUME FeeInv, NEW h \in FeeRequests, FeeRequestStep(h), FeeFrame(h), FeeRowsKept
  PROVE  FeeRequestFits(h)'
 <1>t. /\ fpc \in [FeeRequests -> FeeSteps] /\ fkey \in [FeeRequests -> FeeKeys \cup {NoKey}]
       /\ fread \in [FeeRequests -> Nat] /\ finput \in [FeeRequests -> FeeInput]
       /\ rules \subseteq FeeRule /\ FeeTyped
   BY DEF FeeInv, FeeTyped
 <1>f. FeeRequestFits(h) BY DEF FeeInv
 <1>a. \A j, w : Taken(j, w) => Taken(j, w)' BY DEF Taken, FeeRowsKept, SameTerms
 <1>v. ASSUME NEW k \in FeeKeys, VersionsOf(k) # {}
       PROVE  \E r \in rules : r = NewestOf(k) /\ r.key = k /\ Taken(k, r.ver) /\ Taken(k, r.ver)'
  <2>1. PICK r \in rules : r = NewestOf(k) /\ r.key = k BY <1>v, <1>t, NewestIsThere
  <2>2. Taken(k, r.ver) BY <2>1 DEF Taken
  <2> QED BY <2>1, <2>2, <1>a
 <1>d. ASSUME FeeDone(h) PROVE FeeRequestFits(h)' BY <1>d, <1>t DEF FeeDone, FeeRequestFits
 <1>1. ASSUME NEW k \in FeeKeys, NEW i \in FeeInputs, CreateRule(h, k, i)
       PROVE  FeeRequestFits(h)'
  <2>1. fpc'[h] = "insert" /\ fkey'[h] = k /\ fread'[h] = fread[h] /\ fpc[h] = "idle"
    BY <1>1, <1>t DEF CreateRule, FeeBegin
  <2>2. fread[h] = 0 BY <2>1, <1>f DEF FeeRequestFits
  <2> QED BY <2>1, <2>2 DEF FeeRequestFits
 <1>2. ASSUME NEW k \in FeeKeys, NEW i \in FeeInputs, UpdateRule(h, k, i)
       PROVE  FeeRequestFits(h)'
  <2>2. PICK r \in rules : r = NewestOf(k) /\ r.key = k /\ Taken(k, r.ver)'
    BY <1>2, <1>v DEF UpdateRule
  <2>1. fpc'[h] = "insert" /\ fkey'[h] = k /\ fread'[h] = r.ver
    BY <1>2, <2>2, <1>t DEF UpdateRule, FeeBegin
  <2> QED BY <2>1, <2>2 DEF FeeRequestFits
 <1>3. ASSUME NEW k \in FeeKeys, NEW active \in BOOLEAN, SetRuleActive(h, k, active)
       PROVE  FeeRequestFits(h)'
  <2>2. PICK r \in rules : r = NewestOf(k) /\ r.key = k /\ Taken(k, r.ver)'
    BY <1>3, <1>v DEF SetRuleActive
  <2>1. /\ fpc'[h] = "republish" /\ fkey'[h] = k /\ fread'[h] = r.ver
        /\ finput'[h].rate = r.rate /\ UNCHANGED rules
    BY <1>3, <2>2, <1>t DEF SetRuleActive, FeeBegin, CopyOf
  <2>4. RateIsOf(h)' BY <2>1, <2>2 DEF RateIsOf
  <2> QED BY <2>1, <2>2, <2>4 DEF FeeRequestFits
 <1>4. ASSUME NEW k \in FeeKeys, SeedKey(h, k) PROVE FeeRequestFits(h)'
  <2>1. fpc[h] = "seed" /\ fpc'[h] \in {"seed", "seed insert"}
        /\ (fpc'[h] = "seed insert" => fkey'[h] = k) /\ fread'[h] = fread[h]
    BY <1>4, <1>t DEF SeedKey
  <2>2. fread[h] = 0 BY <2>1, <1>f DEF FeeRequestFits
  <2> QED BY <2>1, <2>2 DEF FeeRequestFits
 <1>5. ASSUME Republish(h) PROVE FeeRequestFits(h)'
  <2>0. PICK k \in FeeKeys : k = fkey[h] BY <1>5, <1>f DEF Republish, FeeRequestFits
  <2>1. VersionsOf(k) # {} BY <1>5, <2>0, <1>f DEF Republish, FeeRequestFits, RateIsOf, VersionsOf
  <2>r. PICK r \in rules : r = NewestOf(k) /\ r.key = k /\ Taken(k, r.ver)' BY <2>1, <1>v
  <2>2. /\ fpc'[h] = "insert toggled" /\ fkey'[h] = k /\ fread'[h] = r.ver
        /\ finput'[h] = finput[h] /\ UNCHANGED rules /\ fpc[h] = "republish"
        /\ overtaken' = IF r.ver = fread[h] THEN overtaken
                        ELSE overtaken \cup {<<k, r.ver + 1>>}
    BY <1>5, <2>0, <2>r, <1>t DEF Republish
  <2>4. <<k, r.ver + 1>> \in overtaken' \/ RateIsOf(h)'
   <3>1. CASE r.ver = fread[h]
    <4>1. RateIsOf(h) BY <2>2, <1>f DEF FeeRequestFits
    <4> QED BY <3>1, <4>1, <2>0, <2>2 DEF RateIsOf
   <3>2. CASE r.ver # fread[h] BY <3>2, <2>2
   <3> QED BY <3>1, <3>2
  <2> QED BY <2>2, <2>r, <2>4 DEF FeeRequestFits
 <1>6. ASSUME InsertVersion(h) PROVE FeeRequestFits(h)'
  <2>1. CASE FeeDone(h) BY <2>1, <1>d
  <2>2. CASE ~FeeDone(h)
   <3>0. PICK k \in FeeKeys, n \in Nat : k = fkey[h] /\ n = fread[h]
     BY <1>6, <1>t, <1>f DEF InsertVersion, FeeRequestFits
   <3>9. /\ fpc[h] \in {"insert", "insert toggled"}
         /\ rules' = rules \cup {FeeRow(k, n + 1, finput[h])}
         /\ n # 0 /\ fpc' = [fpc EXCEPT ![h] = "mark"] /\ fkey' = fkey /\ fread' = fread
     BY <1>6, <2>2, <3>0 DEF InsertVersion
   <3>7. n # 0 BY <3>9
   <3>8. n > 0 BY <3>7
   <3>1. /\ fpc'[h] = "mark" /\ fkey'[h] = k /\ fread'[h] = n /\ n > 0
         /\ AddsRow(k, n + 1, finput[h]) /\ fpc[h] \in {"insert", "insert toggled"}
     BY <3>8, <3>9, <3>0, <1>t DEF AddsRow
   <3>2. Taken(k, n + 1)'
    <4>1. FeeRow(k, n + 1, finput[h]) \in rules' BY <3>1 DEF AddsRow
    <4> QED BY <4>1 DEF Taken, FeeRow
   <3>4. Taken(k, n)' BY <3>0, <3>1, <1>a, <1>f DEF FeeRequestFits
   <3> QED BY <3>1, <3>2, <3>4 DEF FeeRequestFits
  <2> QED BY <2>1, <2>2
 <1>7. ASSUME MarkSuperseded(h) PROVE FeeRequestFits(h)' BY <1>7, <1>d DEF MarkSuperseded
 <1>8. ASSUME BeginSeed(h) PROVE FeeRequestFits(h)'
  <2>1. fpc[h] = "idle" /\ fpc'[h] = "seed" /\ fread'[h] = fread[h]
    BY <1>8, <1>t DEF BeginSeed, FeeBegin
  <2>2. fread[h] = 0 BY <2>1, <1>f DEF FeeRequestFits
  <2> QED BY <2>1, <2>2 DEF FeeRequestFits
 <1>9. ASSUME SeedInsert(h) PROVE FeeRequestFits(h)'
  <2>1. CASE FeeDone(h) BY <2>1, <1>d
  <2>2. CASE ~FeeDone(h)
   <3>1. fpc[h] = "seed insert" /\ fpc'[h] = "seed" /\ fread'[h] = fread[h]
     BY <1>9, <2>2, <1>t DEF SeedInsert
   <3>2. fread[h] = 0 BY <3>1, <1>f DEF FeeRequestFits
   <3> QED BY <3>1, <3>2 DEF FeeRequestFits
  <2> QED BY <2>1, <2>2
 <1>10. ASSUME SeedDone(h) PROVE FeeRequestFits(h)' BY <1>10, <1>d DEF SeedDone
 <1>11. ASSUME LoseFeeRequest(h) PROVE FeeRequestFits(h)' BY <1>11, <1>d DEF LoseFeeRequest
 <1> QED BY <1>1, <1>2, <1>3, <1>4, <1>5, <1>6, <1>7, <1>8, <1>9, <1>10, <1>11 DEF FeeRequestStep

(* What an order is charged by names a version that was in force. *)
LEMMA PricedByARule ==
  ASSUME FeeInv, NEW q \in CommissionSnapshots
  PROVE  /\ q \in FeeQuote
         /\ q.key # NoKey =>
              \E r \in rules :
                /\ r.key = q.key /\ r.ver = q.ver /\ r.rate = q.rate /\ isRuleInEffect(r, q.day)
                /\ \A s \in rules : s.key = q.key /\ s.from <= feeDay /\ s # r => Precedes(r, s)
 <1>t. /\ rules \subseteq FeeRule /\ feeDay \in FeeDays
       /\ legacyRate \in Rates \cup LegacyRates \cup {DEFAULT_COMMISSION_PERCENT}
   BY DEF FeeInv, FeeTyped
 <1>1. CASE q = LegacySnapshot
  <2>1. q \in FeeQuote BY <1>1, <1>t, FeeNumbers DEF LegacySnapshot, FeeQuote
  <2>2. q.key = NoKey BY <1>1 DEF LegacySnapshot
  <2> QED BY <2>1, <2>2
 <1>2. CASE q # LegacySnapshot
  <2>1. PICK r \in ResolveRule(feeDay) : q = SnapshotOf(r) BY <1>2 DEF CommissionSnapshots
  <2>2. PICK k \in FeeKeys : r \in StandsFor(k, feeDay) /\ isRuleInEffect(r, feeDay)
    BY <2>1 DEF ResolveRule
  <2>3. /\ r \in rules /\ r.key = k
        /\ \A s \in rules : s.key = k /\ s.from <= feeDay /\ s # r => Precedes(r, s)
    BY <2>2 DEF StandsFor, Begun, VersionsOf
  <2>4. r.rate # Fixed /\ q = [key |-> r.key, ver |-> r.ver, rate |-> r.rate, day |-> feeDay]
    BY <1>2, <2>1 DEF SnapshotOf
  <2>5. r.ver \in 0..MaxFeeVersion /\ r.rate \in FeeRates
   <3>1. r.ver \in 1..MaxFeeVersion /\ r.rate \in FeeRates BY <2>3, <1>t DEF FeeRule
   <3> QED BY <3>1, FeeNumbers
  <2>6. q \in FeeQuote BY <2>3, <2>4, <2>5, <1>t DEF FeeQuote, FeeRates
  <2> QED BY <2>2, <2>3, <2>4, <2>6
 <1> QED BY <1>1, <1>2

LEMMA SnapshotsStay ==
  ASSUME SnapshotsExplain, FeeRowsKept, quotes' = quotes
  PROVE  SnapshotsExplain'
 <1>1. ASSUME NEW q \in quotes, q.key # NoKey
       PROVE  \E r \in rules' : r.key = q.key /\ r.ver = q.ver /\ r.rate = q.rate
                                  /\ isRuleInEffect(r, q.day)
  <2>1. PICK r \in rules : r.key = q.key /\ r.ver = q.ver /\ r.rate = q.rate
                             /\ isRuleInEffect(r, q.day)
    BY <1>1 DEF SnapshotsExplain
  <2>2. PICK s \in rules' : SameTerms(r, s) BY DEF FeeRowsKept
  <2> QED BY <2>1, <2>2 DEF SameTerms, isRuleInEffect
 <1> QED BY <1>1 DEF SnapshotsExplain

LEMMA FeeInvNext ==
  ASSUME FeeInv, FeeNext
  PROVE  FeeInv'
 <1>t. FeeTyped BY DEF FeeInv
 <1>1. ASSUME NEW h \in FeeRequests, FeeRequestStep(h) PROVE FeeInv'
  <2>1. FeeRequestFits(h) BY DEF FeeInv
  <2>2. FeeFrame(h) BY <1>1, <1>t, <2>1, FeeFrames
  <2>3. /\ rules' \subseteq FeeRule /\ OneRowAVersion' /\ VersionsFollow' /\ SuccessorIsNamed'
        /\ FeeRowsKept
    BY <1>1, <2>2, FeeRowsNext
  <2>4. FeeTyped' BY <1>t, <2>2, <2>3 DEF FeeTyped, FeeFrame
  <2>5. SnapshotsExplain' BY <2>2, <2>3, SnapshotsStay DEF FeeInv, FeeFrame
  <2>6. FeeRequestFits(h)' BY <1>1, <2>2, <2>3, MovedFeeRequestFits
  <2>7. ASSUME NEW g \in FeeRequests \ {h} PROVE FeeRequestFits(g)'
   <3>1. FeeRequestFits(g) /\ FeeRequestKept(g) /\ overtaken \subseteq overtaken'
     BY <2>2 DEF FeeInv, FeeFrame
   <3> QED BY <3>1, <2>3, KeptFeeRequestFits
  <2> QED BY <2>3, <2>4, <2>5, <2>6, <2>7 DEF FeeInv
 <1>s. ASSUME UNCHANGED <<rules, fpc, fkey, fread, finput, fseed, overtaken, unmarked>>,
              FeeTyped', SnapshotsExplain'
       PROVE  FeeInv'
  <2>1. /\ OneRowAVersion' /\ VersionsFollow' /\ SuccessorIsNamed' /\ FeeRowsKept BY <1>s, RowsStand
  <2>2. ASSUME NEW g \in FeeRequests PROVE FeeRequestFits(g)'
    BY <1>s, <2>1, KeptFeeRequestFits DEF FeeInv, FeeRequestKept
  <2> QED BY <1>s, <2>1, <2>2 DEF FeeInv
 <1>k. ASSUME rules' = rules PROVE FeeRowsKept BY <1>k DEF FeeRowsKept, SameTerms
 <1>2. ASSUME NEW rate \in LegacyRates, SetFeePercent(rate) PROVE FeeInv'
  <2>1. UNCHANGED <<rules, quotes, feeDay, fpc, fkey, fread, finput, fseed, overtaken, unmarked>>
        /\ legacyRate' = rate
    BY <1>2 DEF SetFeePercent, feeRequest, feeHistory
  <2>2. FeeTyped' BY <2>1, <1>t DEF FeeTyped
  <2>3. SnapshotsExplain' BY <2>1, <1>k, SnapshotsStay DEF FeeInv
  <2> QED BY <2>1, <2>2, <2>3, <1>s
 <1>3. ASSUME PriceOrder PROVE FeeInv'
  <2>1. UNCHANGED <<rules, feeDay, fpc, fkey, fread, finput, fseed, overtaken, unmarked, legacyRate>>
    BY <1>3 DEF PriceOrder, feeRequest, feeHistory
  <2>2. PICK q \in CommissionSnapshots : quotes' = quotes \cup {q} BY <1>3 DEF PriceOrder
  <2>3. /\ q \in FeeQuote
        /\ q.key # NoKey =>
             \E r \in rules : r.key = q.key /\ r.ver = q.ver /\ r.rate = q.rate
                                /\ isRuleInEffect(r, q.day)
    BY PricedByARule
  <2>4. FeeTyped' BY <2>1, <2>2, <2>3, <1>t DEF FeeTyped
  <2>5. SnapshotsExplain' BY <2>1, <2>2, <2>3 DEF FeeInv, SnapshotsExplain
  <2> QED BY <2>1, <2>4, <2>5, <1>s
 <1>4. ASSUME FeeDayPasses PROVE FeeInv'
  <2>1. UNCHANGED <<rules, quotes, legacyRate, fpc, fkey, fread, finput, fseed, overtaken, unmarked>>
        /\ feeDay' = feeDay + 1 /\ feeDay < MaxFeeDay
    BY <1>4 DEF FeeDayPasses, feeRequest, feeHistory
  <2>2. FeeTyped'
   <3>1. feeDay' \in FeeDays BY <2>1, <1>t, FeeNumbers DEF FeeTyped, FeeDays
   <3> QED BY <2>1, <3>1, <1>t DEF FeeTyped
  <2>3. SnapshotsExplain' BY <2>1, <1>k, SnapshotsStay DEF FeeInv
  <2> QED BY <2>1, <2>2, <2>3, <1>s
 <1> QED BY <1>1, <1>2, <1>3, <1>4 DEF FeeNext, FeeRequestStep

(* What the property says of a state, and of a step. *)
LEMMA FeeInvSays ==
  ASSUME FeeInv
  PROVE  FeeTypeOK /\ SnapshotsExplain /\ HistoryIsAChain
 <1>1. FeeTypeOK
  <2>1. rules \subseteq FeeRule /\ quotes \subseteq FeeQuote BY DEF FeeInv, FeeTyped
  <2> QED BY <2>1 DEF FeeTypeOK, FeeRule, FeeQuote, FeeRates
 <1>2. ASSUME NEW r \in rules
       PROVE  Cardinality({s \in rules : s.key = r.key /\ s.ver = r.ver}) = 1
  <2>1. {s \in rules : s.key = r.key /\ s.ver = r.ver} = {r} BY DEF FeeInv, OneRowAVersion
  <2> QED BY <2>1, FS_Singleton
 <1>3. HistoryIsAChain BY <1>2 DEF FeeInv, VersionsFollow, SuccessorIsNamed, HistoryIsAChain
 <1> QED BY <1>1, <1>3 DEF FeeInv

LEMMA FeeStepsAreSound ==
  ASSUME FeeInv, FeeNext
  PROVE  SwitchKeepsTheRate /\ SwitchedOffStaysOff
 <1>1. SwitchKeepsTheRate
  <2>1. \A h \in FeeRequests : FeeRequestFits(h) BY DEF FeeInv
  <2> QED BY <2>1 DEF SwitchKeepsTheRate, FeeRequestFits, RateIsOf
 <1>2. SwitchedOffStaysOff
  <2>1. ASSUME NEW q \in quotes' \ quotes, NEW r \in rules, NEW s \in rules,
               r.key = q.key, r.ver = q.ver, s.key = q.key, s.ver > r.ver,
               s.from <= feeDay, s.from >= r.from
        PROVE  FALSE
   <3>1. PriceOrder
    <4>1. ASSUME NEW h \in FeeRequests, FeeRequestStep(h) PROVE FALSE
     <5>1. FeeFrame(h) BY <4>1, FeeFrames DEF FeeInv
     <5> QED BY <2>1, <5>1 DEF FeeFrame
    <4> QED BY <2>1, <4>1 DEF FeeNext, FeeRequestStep, SetFeePercent, FeeDayPasses
   <3>2. q \in CommissionSnapshots BY <2>1, <3>1 DEF PriceOrder
   <3>t. rules \subseteq FeeRule BY DEF FeeInv, FeeTyped
   <3>3. q.key # NoKey BY <2>1, <3>t, FeeConstantsFit DEF FeeRule
   <3>4. PICK p \in rules : /\ p.key = q.key /\ p.ver = q.ver
           /\ \A u \in rules : u.key = q.key /\ u.from <= feeDay /\ u # p => Precedes(p, u)
     BY <3>2, <3>3, PricedByARule
   <3>5. p = r BY <2>1, <3>4 DEF FeeInv, OneRowAVersion
   <3>6. PICK a \in Nat, b \in Nat, c \in Nat, e \in Nat :
           a = r.from /\ b = s.from /\ c = r.ver /\ e = s.ver
    <4>1. r \in FeeRule /\ s \in FeeRule BY <3>t
    <4> QED BY <4>1, FeeNumbers DEF FeeRule
   <3>7. s # r BY <2>1, <3>6
   <3>8. a > b \/ (a = b /\ c > e) BY <2>1, <3>4, <3>5, <3>6, <3>7 DEF Precedes
   <3> QED BY <2>1, <3>6, <3>8
  <2> QED BY <2>1 DEF SwitchedOffStaysOff
 <1> QED BY <1>1, <1>2

(* What an order is charged can be explained and foretold: the versions of a
   rule form a chain, whoever publishes when and whoever is lost; the
   snapshot of an order names a version that was in force on its day; a
   switch of setRuleActive changes no rate, unless it was overtaken; and a
   rule that is off charges nobody. *)
THEOREM FeesSound == FeeSpec => FeesAreSound
 <1>1. FeeInv /\ [FeeNext]_feeVars => FeeInv'
  <2> SUFFICES ASSUME FeeInv, [FeeNext]_feeVars PROVE FeeInv' OBVIOUS
  <2>1. CASE FeeNext BY <2>1, FeeInvNext
  <2>2. CASE UNCHANGED feeVars
   <3>1. UNCHANGED <<rules, legacyRate, quotes, feeDay, fpc, fkey, fread, finput, fseed, overtaken, unmarked>>
     BY <2>2 DEF feeVars, feeRequest, feeHistory
   <3>2. \A j, w : Taken(j, w)' <=> Taken(j, w) BY <3>1 DEF Taken
   <3>3. /\ FeeTyped' /\ OneRowAVersion' /\ VersionsFollow' /\ SnapshotsExplain'
     BY <3>1, <3>2 DEF FeeInv, FeeTyped, OneRowAVersion, VersionsFollow, SnapshotsExplain
   <3>4. SuccessorIsNamed' /\ FeeRowsKept BY <3>1, RowsStand
   <3>5. \A g \in FeeRequests : FeeRequestFits(g)'
     BY <3>1, <3>4, KeptFeeRequestFits DEF FeeInv, FeeRequestKept
   <3> QED BY <3>3, <3>4, <3>5 DEF FeeInv
  <2> QED BY <2>1, <2>2
 <1>2. FeeInv /\ FeeInv' /\ [FeeNext]_feeVars =>
         [feeVars' # feeVars => /\ (FeeTypeOK /\ SnapshotsExplain /\ HistoryIsAChain)'
                                /\ SwitchKeepsTheRate /\ SwitchedOffStaysOff]_feeVars
  <2> SUFFICES ASSUME FeeInv, FeeInv', FeeNext
               PROVE  /\ (FeeTypeOK /\ SnapshotsExplain /\ HistoryIsAChain)'
                      /\ SwitchKeepsTheRate /\ SwitchedOffStaysOff
    OBVIOUS
  <2>1. (FeeTypeOK /\ SnapshotsExplain /\ HistoryIsAChain)' BY FeeInvSays, PTL
  <2> QED BY <2>1, FeeStepsAreSound
 <1> QED BY <1>1, <1>2, FeeInvInit, PTL DEF FeeSpec, FeesAreSound

-----------------------------------------------------------------------------
(* The marketplace. *)
MkBookings == [scheduled : BOOLEAN, paused : BOOLEAN, enabled : BOOLEAN]
MkBranches == [active : BOOLEAN, online : BOOLEAN]
MkItems == [offered : BOOLEAN, live : BOOLEAN]

MkTaps == {{}, {TRUE}, {FALSE}}
MkUses == 0..MkMostUsed
MkSteps == 0..MkMostSteps

MkTypes ==
  /\ mkKind \in {"washer", "laundry"} /\ mkDistance \in MkDistances
  /\ mkStatus \in {"ACTIVE", "SUSPENDED"} /\ mkAvailable \in BOOLEAN /\ mkTap \in MkTaps
  /\ mkArea \in MkRadii \cup {0} /\ mkBranch \in MkBranches /\ mkItem \in MkItems
  /\ mkWallet \in {"none", "inactive", "low", "funded"} /\ mkBooking \in MkBookings
  /\ mkConfig \in BOOLEAN /\ mkCap \in MkCaps \cup {0} /\ mkUsed \in MkUses
  /\ mkOrder \in {"none", "pending", "accepted"} /\ mkSteps \in MkSteps

LEMMA MkTypesNext ==
  ASSUME MkTypes, MkNext
  PROVE  MkTypes'
 <1>t. /\ mkBooking \in MkBookings /\ mkBranch \in MkBranches /\ mkItem \in MkItems
       /\ mkSteps \in MkSteps /\ mkUsed \in MkUses /\ mkAvailable \in BOOLEAN
       /\ mkConfig \in BOOLEAN
   BY DEF MkTypes
 <1>s. ASSUME Step PROVE mkSteps' \in MkSteps BY <1>s, <1>t, MkNumbersFit DEF Step, MkSteps
 <1>u. ASSUME mkUsed < MkMostUsed, mkUsed' = mkUsed + 1 PROVE mkUsed' \in MkUses
   BY <1>u, <1>t, MkNumbersFit DEF MkUses
 <1>1. CASE TapAvailability
  <2>1. {~mkAvailable} \in MkTaps
   <3>1. CASE mkAvailable = TRUE BY <3>1 DEF MkTaps
   <3>2. CASE mkAvailable = FALSE BY <3>2 DEF MkTaps
   <3> QED BY <3>1, <3>2, <1>t
  <2> QED BY <1>1, <1>s, <2>1 DEF TapAvailability, MkTypes
 <1>2. CASE ToggleAvailability
  <2>0. \A taps \in MkTaps : taps \subseteq BOOLEAN BY Zenon DEF MkTaps
  <2>1. mkAvailable' \in BOOLEAN BY <1>2, <2>0 DEF ToggleAvailability, MkTypes
  <2>2. mkTap' \in MkTaps BY <1>2 DEF ToggleAvailability, MkTaps
  <2> QED BY <1>2, <2>1, <2>2 DEF ToggleAvailability, MkTypes
 <1>3. CASE SetStatus BY <1>3, <1>s DEF SetStatus, MkTypes
 <1>4. CASE UpdateProfile
  <2>1. mkItem' \in MkItems BY <1>4, <1>t DEF UpdateProfile, MkItems
  <2> QED BY <1>4, <1>s, <2>1 DEF UpdateProfile, MkTypes
 <1>5. CASE SetOrderCap BY <1>5, <1>s DEF SetOrderCap, MkTypes
 <1>6. ASSUME NEW b \in MkBranches, SetBranch(b) PROVE MkTypes' BY <1>6, <1>s DEF SetBranch, MkTypes
 <1>7. CASE SetOnline \/ ArchiveBranch \/ RestoreBranch
  <2>1. /\ [mkBranch EXCEPT !.online = ~@] \in MkBranches
        /\ [mkBranch EXCEPT !.active = FALSE] \in MkBranches
        /\ [mkBranch EXCEPT !.active = TRUE] \in MkBranches
    BY <1>t DEF MkBranches
  <2> QED BY <1>6, <1>7, <2>1 DEF SetOnline, ArchiveBranch, RestoreBranch
 <1>8. ASSUME NEW i \in MkItems, SetItem(i) PROVE MkTypes' BY <1>8, <1>s DEF SetItem, MkTypes
 <1>9. CASE UpdateService \/ ArchiveService \/ RestoreService \/ ArchiveTemplate
  <2>1. /\ [mkItem EXCEPT !.offered = ~@] \in MkItems /\ [mkItem EXCEPT !.live = FALSE] \in MkItems
        /\ [mkItem EXCEPT !.live = TRUE] \in MkItems /\ [mkItem EXCEPT !.live = ~@] \in MkItems
    BY <1>t DEF MkItems
  <2> QED BY <1>8, <1>9, <2>1 DEF UpdateService, ArchiveService, RestoreService, ArchiveTemplate
 <1>10. ASSUME NEW b \in MkBookings, NEW stored \in BOOLEAN, SetBooking(b, stored) PROVE MkTypes'
   BY <1>10, <1>s DEF SetBooking, MkTypes
 <1>11. CASE PauseBookings \/ SetScheduled \/ SetEnabled
  <2>1. /\ [mkBooking EXCEPT !.paused = ~@] \in MkBookings
        /\ [mkBooking EXCEPT !.scheduled = ~@] \in MkBookings
        /\ [mkBooking EXCEPT !.enabled = ~@] \in MkBookings
    BY <1>t DEF MkBookings
  <2> QED BY <1>10, <1>11, <1>t, <2>1 DEF PauseBookings, SetScheduled, SetEnabled
 <1>12. CASE MoveWallet BY <1>12, <1>s DEF MoveWallet, MkTypes
 <1>13. CASE Place BY <1>13, <1>s DEF Place, MkTypes
 <1>14. CASE Accept BY <1>14, <1>s, <1>u DEF Accept, MkTypes
 <1>15. CASE AcceptOther BY <1>15, <1>s, <1>u DEF AcceptOther, MkTypes
 <1>16. CASE OpenCalendar BY <1>16, <1>s DEF OpenCalendar, MkTypes
 <1> QED BY <1>1, <1>2, <1>3, <1>4, <1>5, <1>7, <1>9, <1>11, <1>12, <1>13, <1>14, <1>15, <1>16
     DEF MkNext

LEMMA MkTypesHold == MkInit /\ [][MkNext]_mkVars => []MkTypes
 <1>1. MkInit => MkTypes
  <2> SUFFICES ASSUME MkInit PROVE MkTypes OBVIOUS
  <2>1. /\ mkBranch \in MkBranches /\ mkItem \in MkItems /\ mkBooking \in MkBookings
        /\ mkTap \in MkTaps /\ mkUsed \in MkUses /\ mkSteps \in MkSteps
    BY MkNumbersFit DEF MkInit, MkBranches, MkItems, MkBookings, MkTaps, MkUses, MkSteps
  <2> QED BY <2>1 DEF MkInit, MkTypes
 <1>2. MkTypes /\ [MkNext]_mkVars => MkTypes'
  <2>1. MkTypes /\ UNCHANGED mkVars => MkTypes' BY DEF mkVars, MkTypes
  <2> QED BY <2>1, MkTypesNext
 <1> QED BY <1>1, <1>2, PTL

LEMMA MkTyped == MkInit /\ [][MkNext]_mkVars => []MkTypeOK
 <1>1. MkTypes => MkTypeOK
   BY DEF MkTypes, MkTypeOK, MkBranches, MkItems, MkBookings, MkTaps, MkUses, MkSteps
 <1> QED BY <1>1, MkTypesHold, PTL

(* Until a config is stored the provider's own settings are the defaults:
   only the platform's policy can have closed the days. *)
DefaultsStand == ~mkConfig => mkBooking.scheduled /\ ~mkBooking.paused

LEMMA MkDefaults == MkInit /\ [][MkNext]_mkVars => []DefaultsStand
 <1>1. MkInit => DefaultsStand BY DEF MkInit, DefaultsStand
 <1>2. MkTypes /\ DefaultsStand /\ [MkNext]_mkVars => DefaultsStand'
  <2> SUFFICES ASSUME MkTypes, DefaultsStand, [MkNext]_mkVars PROVE DefaultsStand' OBVIOUS
  <2>1. CASE UNCHANGED <<mkConfig, mkBooking>> BY <2>1 DEF DefaultsStand
  <2>2. CASE mkConfig' = TRUE BY <2>2 DEF DefaultsStand
  <2>3. CASE SetEnabled
   <3>1. mkBooking' = [mkBooking EXCEPT !.enabled = ~@] /\ mkConfig' = mkConfig
     BY <2>3 DEF SetEnabled, SetBooking
   <3>2. mkBooking'.scheduled = mkBooking.scheduled /\ mkBooking'.paused = mkBooking.paused
     BY <3>1 DEF MkTypes, MkBookings
   <3> QED BY <3>1, <3>2 DEF DefaultsStand
  <2>4. CASE UNCHANGED mkVars BY <2>1, <2>4 DEF mkVars
  <2>5. CASE SetOnline \/ ArchiveBranch \/ RestoreBranch
    BY <2>1, <2>5 DEF SetOnline, ArchiveBranch, RestoreBranch, SetBranch
  <2>6. CASE UpdateService \/ ArchiveService \/ RestoreService \/ ArchiveTemplate
    BY <2>1, <2>6 DEF UpdateService, ArchiveService, RestoreService, ArchiveTemplate, SetItem
  <2>7. CASE TapAvailability \/ ToggleAvailability \/ SetStatus \/ UpdateProfile \/ SetOrderCap
    BY <2>1, <2>7 DEF TapAvailability, ToggleAvailability, SetStatus, UpdateProfile, SetOrderCap
  <2>8. CASE MoveWallet \/ Accept \/ AcceptOther BY <2>1, <2>8 DEF MoveWallet, Accept, AcceptOther
  <2>9. CASE PauseBookings \/ SetScheduled \/ OpenCalendar \/ Place
    BY <2>2, <2>9 DEF PauseBookings, SetScheduled, SetBooking, OpenCalendar, Place
  <2> QED BY <2>3, <2>4, <2>5, <2>6, <2>7, <2>8, <2>9 DEF MkNext
 <1> QED BY <1>1, <1>2, MkTypesHold, PTL

(* A distance within a radius is still within it when it is rounded to a
   tenth of a kilometre. *)
LEMMA RoundedWithin ==
  ASSUME NEW d \in Nat, NEW a \in Nat, d <= 100 * a
  PROVE  ((d + 5) \div 10) * 10 <= 100 * a
 <1>1. PICK n \in Int : n = (d + 5) \div 10 OBVIOUS
 <1>2. 10 * n <= d + 5 BY <1>1
 <1>3. 10 * n <= 100 * a + 5 BY <1>2
 <1>4. n <= 10 * a BY <1>1, <1>3
 <1> QED BY <1>1, <1>4

(* What a customer is shown and what she may then book agree: a card that
   says it takes bookings can be booked but for the gaps named in
   ShownIsBookable, nobody who can be booked is missing from an answer but
   for the customer's own circle and the length of the page, a quote stands
   at create but for the address and the days, and no setting strands an
   order that was booked.  For every distance, radius, circle and cap, any
   number of others, and whatever is switched in between. *)
THEOREM MarketAgrees == MkSpec => []ShownAndBookableAgree
 <1>1. MkTypeOK /\ DefaultsStand => ShownAndBookableAgree
  <2> SUFFICES ASSUME MkTypeOK, DefaultsStand PROVE ShownAndBookableAgree OBVIOUS
  <2>t. /\ mkKind \in {"washer", "laundry"} /\ mkDistance \in Nat /\ mkArea \in Nat
        /\ mkCap \in Nat /\ mkUsed \in Nat /\ MkLimit \in Nat
    BY MkNumbersFit DEF MkTypeOK
  <2>a. \A a \in CardAnswers :
          /\ a.placed \in BOOLEAN /\ a.ahead \in Nat
          /\ a.radius # MkAny => a.radius \in Nat
    BY MkNumbersFit DEF CardAnswers
  <2>1. ShownIsBookable
   <3> SUFFICES ASSUME NEW a \in CardAnswers, Listed(a), Card.accepting
                PROVE  \/ CanCreate
                       \/ /\ mkKind = "washer" /\ mkDistance > 100 * mkArea
                          /\ a.placed => ShownDistance <= 100 * mkArea
                       \/ mkKind = "laundry" /\ ~DaysOpen
                       \/ mkKind = "washer" /\ ~mkConfig /\ ~mkBooking.enabled
     BY DEF ShownIsBookable
   <3>1. CASE mkKind = "washer"
    <4>0. a.placed => ShownDistance <= 100 * mkArea
      BY <3>1 DEF Listed, Card, WasherCard, PassesFilters
    <4>1. SUFFICES ASSUME ~(mkDistance > 100 * mkArea), mkConfig \/ mkBooking.enabled
          PROVE  CanCreate
      BY <3>1, <4>0
    <4>2. /\ WasherAccepting /\ Catalog /\ WalletReady /\ mkStatus = "ACTIVE" /\ mkArea # 0
      BY <3>1 DEF Listed, Card, WasherCard, Found
    <4>3. mkAvailable /\ (mkConfig => DaysOpen) BY <4>2 DEF WasherAccepting
    <4>4. DaysOpen BY <4>1, <4>3 DEF DaysOpen, DefaultsStand
    <4>5. WithinRadius("create") BY <4>1, <2>t DEF WithinRadius
    <4>6. WasherBookable("create")
      BY <4>2, <4>3, <4>4, <4>5 DEF WasherBookable, AreaConfigured, DaysOpen
    <4> QED BY <3>1, <4>2, <4>4, <4>6 DEF CanCreate, ProviderBookable
   <3>2. CASE mkKind = "laundry"
     BY <3>2 DEF Listed, Card, MerchantCard, CanCreate, ProviderBookable, Found
   <3> QED BY <3>1, <3>2, <2>t
  <2>d. ShownDistance \in Int
   <3>1. PICK d \in Nat : d = mkDistance BY <2>t
   <3>2. ((d + 5) \div 10) * 10 \in Int OBVIOUS
   <3> QED BY <3>1, <3>2 DEF ShownDistance
  <2>2. BookableIsShown
   <3> SUFFICES ASSUME NEW a \in CardAnswers, CanCreate, ~(a.ahead >= MkLimit),
                       ~(a.placed /\ a.radius # MkAny /\ ShownDistance > 100 * a.radius)
                PROVE  Listed(a)
     BY DEF BookableIsShown
   <3>l. a.ahead < MkLimit BY <2>t, <2>a
   <3>r. a.placed => (a.radius # MkAny => ShownDistance <= 100 * a.radius)
    <4>1. SUFFICES ASSUME a.placed, a.radius # MkAny PROVE ShownDistance <= 100 * a.radius OBVIOUS
    <4>2. PICK r \in Nat : r = a.radius BY <2>a, <4>1
    <4>3. ~(ShownDistance > 100 * r) BY <4>1, <4>2
    <4>4. ShownDistance <= 100 * r BY <2>d, <4>3
    <4> QED BY <4>2, <4>4
   <3>1. CASE mkKind = "washer"
    <4>2. /\ mkStatus = "ACTIVE" /\ mkArea # 0 /\ mkDistance <= 100 * mkArea
          /\ WalletReady /\ Catalog
      BY <3>1 DEF CanCreate, ProviderBookable, WasherBookable, AreaConfigured, AreaRequired,
         WithinRadius
    <4>3. ShownDistance <= 100 * mkArea BY <4>2, <2>t, RoundedWithin DEF ShownDistance
    <4> QED BY <3>1, <3>l, <3>r, <4>2, <4>3 DEF Listed, Found, Card, WasherCard, PassesFilters
   <3>2. CASE mkKind = "laundry"
    <4>1. LaundryBookable /\ WalletReady /\ Catalog BY <3>2 DEF CanCreate, ProviderBookable
    <4>2. ShownDistance <= ShownDistance BY <2>d
    <4> QED BY <3>2, <3>l, <3>r, <4>1, <4>2 DEF Listed, Found, Card, MerchantCard, PassesFilters
   <3> QED BY <3>1, <3>2, <2>t
  <2>3. QuoteHoldsAtCreate
    BY <2>t DEF QuoteHoldsAtCreate, CanQuote, CanCreate, ProviderBookable, WasherBookable,
       AreaConfigured, AreaRequired, WithinRadius, DaysOpen
  <2>4. SettingsStrandNothing
    BY DEF SettingsStrandNothing, CanAccept, ProviderBookable, WasherBookable, AreaConfigured,
       AreaRequired, WithinRadius
  <2> QED BY <2>1, <2>2, <2>3, <2>4 DEF ShownAndBookableAgree
 <1> QED BY <1>1, MkTyped, MkDefaults, PTL DEF MkSpec

-----------------------------------------------------------------------------
(* The booking rules. *)
(* A finite set that is not empty and whose members are ranked has a highest
   and a lowest.  The least counterexample loses a member and is still one. *)
LEMMA HighestOfFinite ==
  ASSUME NEW S, IsFiniteSet(S), S # {}, NEW rank, \A k \in S : rank[k] \in Nat
  PROVE  \E k \in S : \A m \in S : rank[m] <= rank[k]
 <1> DEFINE Topless(X) == X # {} /\ \A k \in X : \E m \in X : ~(rank[m] <= rank[k])
            Sizes == {n \in Nat : \E X \in SUBSET S : Topless(X) /\ Cardinality(X) = n}
 <1>1. SUFFICES ASSUME Topless(S) PROVE FALSE OBVIOUS
 <1>2. Sizes \in SUBSET Nat /\ Sizes # {}
  <2>1. Cardinality(S) \in Nat BY FS_CardinalityType
  <2> QED BY <1>1, <2>1
 <1>3. PICK n \in Sizes : \A u \in Sizes : n <= u
  <2> HIDE DEF Sizes
  <2> QED BY <1>2, LeastOfNaturals
 <1>4. PICK X \in SUBSET S : Topless(X) /\ Cardinality(X) = n OBVIOUS
 <1>5. PICK x \in X : TRUE BY <1>4
 <1> DEFINE Y == X \ {x}
 <1>6. IsFiniteSet(X) /\ Cardinality(Y) = n - 1 /\ n \in Nat
  <2>1. IsFiniteSet(X) BY FS_Subset
  <2> QED BY <1>4, <1>5, <2>1, FS_RemoveElement
 <1>7. Cardinality(Y) \in Nat
  <2>1. IsFiniteSet(Y) BY <1>6, FS_Subset
  <2> QED BY <2>1, FS_CardinalityType
 <1>8. ~Topless(Y)
  <2>1. Cardinality(Y) \notin Sizes
   <3> HIDE DEF Sizes, Y
   <3> QED BY <1>3, <1>6, <1>7
  <2> QED BY <1>7, <2>1
 <1>9. CASE Y = {}
  <2>1. X = {x} BY <1>5, <1>9
  <2>2. rank[x] \in Nat BY <1>5
  <2>3. rank[x] <= rank[x] BY <2>2
  <2> QED BY <1>4, <1>5, <2>1, <2>3
 <1>10. CASE Y # {}
  <2>1. PICK k \in Y : \A m \in Y : rank[m] <= rank[k] BY <1>8, <1>10
  <2>2. rank[k] \in Nat /\ rank[x] \in Nat BY <1>5
  <2>3. CASE rank[x] <= rank[k]
   <3>1. \A m \in X : rank[m] <= rank[k] BY <2>1, <2>3
   <3> QED BY <1>4, <3>1
  <2>4. CASE ~(rank[x] <= rank[k])
   <3>1. \A m \in Y : rank[m] \in Nat OBVIOUS
   <3>2. \A m \in Y : rank[m] <= rank[x] BY <2>1, <2>2, <2>4, <3>1
   <3>3. rank[x] <= rank[x] BY <2>2
   <3>4. \A m \in X : rank[m] <= rank[x] BY <3>2, <3>3
   <3> QED BY <1>4, <1>5, <3>4
  <2> QED BY <2>3, <2>4
 <1> QED BY <1>9, <1>10

LEMMA LowestOfAny ==
  ASSUME NEW S, S # {}, NEW rank, \A k \in S : rank[k] \in Nat
  PROVE  \E k \in S : \A m \in S : rank[m] >= rank[k]
 <1> DEFINE R == {rank[k] : k \in S}
 <1>1. R \in SUBSET Nat /\ R # {} OBVIOUS
 <1>2. PICK t \in R : \A u \in R : t <= u
  <2> HIDE DEF R
  <2> QED BY <1>1, LeastOfNaturals
 <1>3. PICK k \in S : rank[k] = t OBVIOUS
 <1>4. \A m \in S : rank[m] \in R OBVIOUS
 <1>5. \A m \in S : rank[k] <= rank[m] BY <1>2, <1>3, <1>4
 <1>6. \A m \in S : rank[m] >= rank[k] BY <1>5
 <1> QED BY <1>6

(* Whatever milestone and campaign raise it, the safety limit comes last. *)
LEMMA GrantWithinSafety ==
  ASSUME milestones \subseteq Milestones, defaults \subseteq milestones, bonus \in Nat,
         NEW orders, NEW t \in PolicyTerms
  PROVE  DailyCapacity(orders, t) <= t.safety
 <1>n. IsFiniteSet(Milestones) /\ Capacities \subseteq Nat
       /\ \A k \in Milestones : MilestoneRank[k] \in Nat /\ MilestoneCapacity[k] \in Nat
   BY PolicyNumbersFit
 <1>1. ASSUME NEW S \in SUBSET milestones, S # {} PROVE Highest(S) \in S /\ Lowest(S) \in S
  <2>1. \E k \in S : \A m \in S : MilestoneRank[m] <= MilestoneRank[k]
   <3>1. IsFiniteSet(S) BY <1>n, FS_Subset
   <3> QED BY <3>1, <1>1, <1>n, HighestOfFinite
  <2>2. \E k \in S : \A m \in S : MilestoneRank[m] >= MilestoneRank[k] BY <1>1, <1>n, LowestOfAny
  <2> QED BY <2>1, <2>2 DEF Highest, Lowest
 <1>2. ResolveMilestone(orders) \in milestones \cup {NoMilestone}
  <2>1. Earned(orders) \in SUBSET milestones BY DEF Earned
  <2> QED BY <1>1, <2>1 DEF ResolveMilestone
 <1> DEFINE k == ResolveMilestone(orders)
            own == IF k = NoMilestone THEN t.base ELSE MilestoneCapacity[k]
            factor == IF CampaignApplies(k) THEN bonus ELSE 1
 <1>3. t.base \in Nat /\ t.safety \in Nat BY <1>n DEF PolicyTerms
 <1>4. own \in Nat
  <2> HIDE DEF k
  <2>1. k \in milestones \cup {NoMilestone} BY <1>2 DEF k
  <2> QED BY <1>3, <1>n, <2>1
 <1>5. factor \in Nat OBVIOUS
 <1>6. DailyCapacity(orders, t) = Least(own * factor, t.safety) BY DEF DailyCapacity
 <1> HIDE DEF own, factor
 <1>7. own * factor \in Nat BY <1>4, <1>5
 <1> QED BY <1>3, <1>6, <1>7 DEF Least

PublishSteps == {"archive", "insert", "restore"}
MilestoneSteps == {"clear", "default", "milestone", "count", "delete"}
PolicySteps == {"idle", "seed"} \cup PublishSteps \cup MilestoneSteps
PolicyRows == [ver : Nat, live : BOOLEAN, terms : PolicyTerms]

PolicyTyped ==
  /\ policies \in Seq(PolicyRows) /\ Len(policies) >= 1 /\ Len(policies) <= MaxPolicies
  /\ \A i \in DOMAIN policies : policies[i].ver >= 1 /\ policies[i].ver <= i
  /\ plPc \in [PolicyRequests -> PolicySteps] /\ plRow \in [PolicyRequests -> Nat]
  /\ plTerms \in [PolicyRequests -> PolicyTerms]
  /\ plKey \in [PolicyRequests -> Milestones \cup {NoMilestone}]
  /\ milestones \subseteq Milestones /\ defaults \subseteq milestones /\ targets \subseteq Milestones
  /\ bonus \in Nat /\ seededAgain \in Nat /\ grantedCap[2] \in DOMAIN policies
  /\ gapTaken \in BOOLEAN /\ publisherLost \in BOOLEAN /\ floorMoved \in BOOLEAN /\ floorSet \in BOOLEAN

AtMostOneLive == \A i, j \in LiveRows : i = j

(* A publisher has laid one section over a row that no one rewrites. *)
PublisherFits(h) ==
  /\ plPc[h] \in PublishSteps =>
       /\ plRow[h] \in DOMAIN policies
       /\ \/ plTerms[h].base = policies[plRow[h]].terms.base
          \/ plTerms[h].safety = policies[plRow[h]].terms.safety
  /\ plPc[h] \in MilestoneSteps => plKey[h] \in Milestones

(* Unless history says otherwise the newest row is live, or whoever archived
   it is about to insert the next or to restore it. *)
NewestIsAtHand ==
  publisherLost \/ gapTaken \/ seededAgain > 0 \/ LiveRows = {Len(policies)}
  \/ (LiveRows = {} /\ \E h \in PolicyRequests :
        plPc[h] \in {"insert", "restore"} /\ plRow[h] = Len(policies))

(* Unless history says otherwise one request at most holds the floor, and
   while none does there is exactly one. *)
FloorFits ==
  ~floorMoved =>
    /\ \A g, h \in PolicyRequests : plPc[g] = "default" /\ plPc[h] = "default" => g = h
    /\ \A h \in PolicyRequests : plPc[h] = "default" => defaults \subseteq {plKey[h]}
    /\ floorSet /\ (\A h \in PolicyRequests : plPc[h] # "default") => \E k \in Milestones : defaults = {k}

RemovalFits ==
  \A h \in PolicyRequests : plPc[h] = "delete" => plKey[h] \notin targets \ strayTargets

PolicyInv ==
  /\ PolicyTyped /\ AtMostOneLive /\ NewestIsAtHand /\ FloorFits /\ RemovalFits
  /\ \A h \in PolicyRequests : PublisherFits(h)
  /\ SectionsAreKept /\ TargetedMilestonesStay /\ SafetyBoundsGrant

(* Rows are only appended, or taken in and out of force. *)
RowsKept ==
  /\ policies' \in Seq(PolicyRows) /\ Len(policies) <= Len(policies') /\ Len(policies') <= MaxPolicies
  /\ \A i \in DOMAIN policies :
       policies'[i].ver = policies[i].ver /\ policies'[i].terms = policies[i].terms
  /\ \A i \in DOMAIN policies' : policies'[i].ver >= 1 /\ policies'[i].ver <= i

LEMMA AppendRow ==
  ASSUME PolicyTyped, NEW v \in Nat, NEW t \in PolicyTerms, Insertable, v >= 1, v <= Len(policies) + 1,
         policies' = Append(policies, PolicyRow(v, t))
  PROVE  /\ RowsKept /\ AtMostOneLive'
         /\ Len(policies') = Len(policies) + 1 /\ LiveRows' = {Len(policies')}
         /\ policies'[Len(policies')].ver = v /\ policies'[Len(policies')].terms = t
 <1>m. MaxPolicies \in Nat BY PolicyNumbersFit
 <1>1. policies \in Seq(PolicyRows) /\ Len(policies) \in Nat /\ DOMAIN policies = 1..Len(policies)
   BY DEF PolicyTyped
 <1> DEFINE r == PolicyRow(v, t)
 <1>2. r \in PolicyRows /\ r.ver = v /\ r.live /\ r.terms = t BY DEF PolicyRow, PolicyRows
 <1>n. policies' = Append(policies, r) OBVIOUS
 <1> HIDE DEF r
 <1>3. /\ policies' \in Seq(PolicyRows) /\ Len(policies') = Len(policies) + 1
       /\ \A i \in 1..Len(policies) : policies'[i] = policies[i]
       /\ policies'[Len(policies) + 1] = r /\ DOMAIN policies' = 1..(Len(policies) + 1)
   BY <1>1, <1>2, <1>n
 <1>4. Len(policies) < MaxPolicies /\ \A i \in 1..Len(policies) : ~policies[i].live
   BY <1>1 DEF Insertable, LiveRows
 <1>5. LiveRows' = {Len(policies) + 1}
  <2>1. \A i \in DOMAIN policies' : policies'[i].live <=> i = Len(policies) + 1
   <3>1. ASSUME NEW i \in 1..Len(policies) PROVE ~policies'[i].live /\ i # Len(policies) + 1
     BY <1>1, <1>3, <1>4
   <3>2. policies'[Len(policies) + 1].live BY <1>2, <1>3
   <3>3. \A i \in 1..(Len(policies) + 1) : i \in 1..Len(policies) \/ i = Len(policies) + 1 BY <1>1
   <3> QED BY <3>1, <3>2, <3>3, <1>3
  <2>2. Len(policies) + 1 \in DOMAIN policies' BY <1>1, <1>3
  <2> QED BY <2>1, <2>2 DEF LiveRows
 <1>6. RowsKept
  <2>1. \A i \in DOMAIN policies' : policies'[i].ver >= 1 /\ policies'[i].ver <= i
   <3>1. \A i \in 1..Len(policies) : policies'[i].ver >= 1 /\ policies'[i].ver <= i
     BY <1>1, <1>3 DEF PolicyTyped
   <3>2. \A i \in 1..(Len(policies) + 1) : i \in 1..Len(policies) \/ i = Len(policies) + 1 BY <1>1
   <3> QED BY <3>1, <3>2, <1>2, <1>3
  <2>2. Len(policies) <= Len(policies') /\ Len(policies') <= MaxPolicies BY <1>1, <1>3, <1>4, <1>m
  <2> QED BY <2>1, <2>2, <1>1, <1>3 DEF RowsKept
 <1> QED BY <1>2, <1>3, <1>5, <1>6 DEF AtMostOneLive

LEMMA RelabelRow ==
  ASSUME PolicyTyped, NEW i \in DOMAIN policies, NEW b \in BOOLEAN,
         policies' = [policies EXCEPT ![i].live = b]
  PROVE  /\ RowsKept /\ Len(policies') = Len(policies)
         /\ LiveRows' = IF b THEN LiveRows \cup {i} ELSE LiveRows \ {i}
 <1>m. MaxPolicies \in Nat BY PolicyNumbersFit
 <1>1. policies \in Seq(PolicyRows) /\ Len(policies) \in Nat /\ DOMAIN policies = 1..Len(policies)
       /\ Len(policies) <= MaxPolicies
   BY DEF PolicyTyped
 <1>r. policies[i] \in PolicyRows BY <1>1
 <1> DEFINE r == [policies[i] EXCEPT !.live = b]
 <1>2. /\ r \in PolicyRows /\ r.ver = policies[i].ver /\ r.terms = policies[i].terms
       /\ r.live = b
   BY <1>r DEF PolicyRows
 <1>3. policies' = [policies EXCEPT ![i] = r] BY <1>1
 <1> HIDE DEF r
 <1>4. /\ policies' \in Seq(PolicyRows) /\ Len(policies') = Len(policies)
       /\ DOMAIN policies' = DOMAIN policies
       /\ policies'[i] = r /\ \A j \in DOMAIN policies : j # i => policies'[j] = policies[j]
   BY <1>1, <1>2, <1>3
 <1>5. RowsKept
  <2>1. \A j \in DOMAIN policies :
          policies'[j].ver = policies[j].ver /\ policies'[j].terms = policies[j].terms
    BY <1>2, <1>4
  <2>2. Len(policies) <= Len(policies') /\ Len(policies') <= MaxPolicies BY <1>1, <1>4, <1>m
  <2> QED BY <2>1, <2>2, <1>4 DEF RowsKept, PolicyTyped
 <1>6. LiveRows' = IF b THEN LiveRows \cup {i} ELSE LiveRows \ {i}
  <2>1. \A j \in DOMAIN policies : policies'[j].live <=> IF j = i THEN b ELSE policies[j].live
    BY <1>2, <1>4
  <2> QED BY <2>1, <1>4 DEF LiveRows
 <1> QED BY <1>4, <1>5, <1>6

LEMMA SameRows ==
  ASSUME PolicyTyped, UNCHANGED policies
  PROVE  RowsKept /\ LiveRows' = LiveRows
  BY DEF PolicyTyped, RowsKept, LiveRows

LEMMA PolicyInvInit == PolicyInit => PolicyInv
 <1> SUFFICES ASSUME PolicyInit PROVE PolicyInv OBVIOUS
 <1>n. /\ MaxPolicies \in Nat \ {0} /\ SeedTerms \in PolicyTerms /\ Capacities \subseteq Nat
   BY PolicyNumbersFit DEF PolicyTerms
 <1> DEFINE r == PolicyRow(1, SeedTerms)
 <1>1. r \in PolicyRows /\ r.ver = 1 /\ r.live /\ r.terms = SeedTerms
   BY <1>n DEF PolicyRow, PolicyRows
 <1>2. policies = <<r>> BY DEF PolicyInit
 <1> HIDE DEF r
 <1>3. policies \in Seq(PolicyRows) /\ Len(policies) = 1 /\ DOMAIN policies = {1} /\ policies[1] = r
   BY <1>1, <1>2
 <1>4. LiveRows = {1} BY <1>1, <1>3 DEF LiveRows
 <1>5. PolicyTyped
  <2>1. /\ plPc \in [PolicyRequests -> PolicySteps] /\ plRow \in [PolicyRequests -> Nat]
        /\ plTerms \in [PolicyRequests -> PolicyTerms]
        /\ plKey \in [PolicyRequests -> Milestones \cup {NoMilestone}]
    BY <1>n DEF PolicyInit, PolicySteps
  <2>2. /\ milestones \subseteq Milestones /\ defaults \subseteq milestones
        /\ targets \subseteq Milestones /\ bonus \in Nat /\ seededAgain \in Nat
        /\ gapTaken \in BOOLEAN /\ publisherLost \in BOOLEAN /\ floorMoved \in BOOLEAN
        /\ floorSet \in BOOLEAN /\ grantedCap[2] = 1
    BY DEF PolicyInit
  <2>3. \A i \in DOMAIN policies : policies[i].ver >= 1 /\ policies[i].ver <= i BY <1>1, <1>3
  <2> QED BY <2>1, <2>2, <2>3, <1>3, <1>n DEF PolicyTyped
 <1>6. AtMostOneLive /\ NewestIsAtHand BY <1>3, <1>4 DEF AtMostOneLive, NewestIsAtHand
 <1>7. FloorFits /\ RemovalFits /\ \A h \in PolicyRequests : PublisherFits(h)
   BY DEF PolicyInit, FloorFits, RemovalFits, PublisherFits, PublishSteps, MilestoneSteps
 <1>8. SectionsAreKept BY <1>3 DEF SectionsAreKept
 <1>9. TargetedMilestonesStay BY DEF PolicyInit, TargetedMilestonesStay
 <1>10. SafetyBoundsGrant
  <2>1. grantedCap[1] = 0 /\ grantedCap[2] = 1 BY DEF PolicyInit
  <2>2. policies[1].terms.safety \in Nat BY <1>1, <1>3, <1>n DEF PolicyTerms
  <2> QED BY <2>1, <2>2 DEF SafetyBoundsGrant
 <1> QED BY <1>5, <1>6, <1>7, <1>8, <1>9, <1>10 DEF PolicyInv

LEMMA PolicyInvHolds == PolicyInv => PoliciesAreSound
 <1> SUFFICES ASSUME PolicyInv PROVE PoliciesAreSound OBVIOUS
 <1>1. policies \in Seq(PolicyRows) /\ Len(policies) \in Nat /\ MaxPolicies \in Nat
       /\ Len(policies) <= MaxPolicies /\ DOMAIN policies = 1..Len(policies)
   BY PolicyNumbersFit DEF PolicyInv, PolicyTyped
 <1>2. Cardinality(LiveRows) <= 1
  <2>1. CASE LiveRows = {} BY <2>1, FS_EmptySet
  <2>2. CASE LiveRows # {}
   <3>1. PICK i \in LiveRows : TRUE BY <2>2
   <3>2. LiveRows = {i} BY <3>1 DEF PolicyInv, AtMostOneLive
   <3>3. Cardinality({i}) = 1 BY FS_Singleton
   <3> QED BY <3>2, <3>3
  <2> QED BY <2>1, <2>2
 <1>3. \A i \in DOMAIN policies : policies[i].terms \in PolicyTerms /\ policies[i].ver \in 1..MaxPolicies
  <2> TAKE i \in DOMAIN policies
  <2>1. policies[i] \in PolicyRows /\ i \in Nat /\ i <= MaxPolicies BY <1>1
  <2>2. policies[i].ver \in Nat /\ policies[i].terms \in PolicyTerms BY <2>1 DEF PolicyRows
  <2>3. policies[i].ver >= 1 /\ policies[i].ver <= i BY DEF PolicyInv, PolicyTyped
  <2>4. PICK v \in Nat : v = policies[i].ver BY <2>2
  <2> QED BY <1>1, <2>1, <2>2, <2>3, <2>4
 <1>4. PolicyTypeOK BY <1>2, <1>3 DEF PolicyTypeOK, PolicyInv, PolicyTyped
 <1>5. NewestPolicyIsLive
   BY DEF PolicyInv, PolicyTyped, NewestIsAtHand, NewestPolicyIsLive, Publishing
 <1>6. OneFloor
  <2>1. SUFFICES ASSUME floorSet, ~floorMoved, \A h \in PolicyRequests : ~Flooring(h)
                 PROVE  Cardinality(defaults) = 1
    BY DEF OneFloor
  <2>2. PICK k \in Milestones : defaults = {k} BY <2>1 DEF PolicyInv, FloorFits, Flooring
  <2>3. Cardinality({k}) = 1 BY FS_Singleton
  <2> QED BY <2>2, <2>3
 <1> QED BY <1>4, <1>5, <1>6 DEF PoliciesAreSound, PolicyInv

PolicyRequestStep(h) ==
  \/ AskPolicy(h) \/ SeedPolicy(h)
  \/ \E section \in {"base", "safety"}, n \in Capacities : BeginPublish(h, section, n)
  \/ ArchivePolicy(h) \/ InsertPolicy(h) \/ RefuseInsert(h) \/ RestorePolicy(h)
  \/ \E k \in Milestones : BeginRemove(h, k) \/ \E d \in BOOLEAN : BeginMilestone(h, k, d)
  \/ ClearDefaults(h) \/ WriteMilestone(h) \/ CountCampaigns(h) \/ DeleteMilestone(h)
  \/ LosePolicyRequest(h)

PolicyRequestKept(g) ==
  plPc'[g] = plPc[g] /\ plRow'[g] = plRow[g] /\ plTerms'[g] = plTerms[g] /\ plKey'[g] = plKey[g]

(* The requests of a step: one moves, to a step of its own kind. *)
LEMMA PolicyRequestMoves ==
  ASSUME PolicyTyped, NEW h \in PolicyRequests, PolicyRequestStep(h)
  PROVE  /\ \A g \in PolicyRequests \ {h} : PolicyRequestKept(g)
         /\ plPc' \in [PolicyRequests -> PolicySteps]
         /\ plKey' \in [PolicyRequests -> Milestones \cup {NoMilestone}]
 <1> DEFINE Goal == /\ \A g \in PolicyRequests \ {h} : PolicyRequestKept(g)
                    /\ plPc' \in [PolicyRequests -> PolicySteps]
                    /\ plKey' \in [PolicyRequests -> Milestones \cup {NoMilestone}]
 <1>t. /\ plPc \in [PolicyRequests -> PolicySteps] /\ DOMAIN plRow = PolicyRequests
       /\ DOMAIN plTerms = PolicyRequests
       /\ plKey \in [PolicyRequests -> Milestones \cup {NoMilestone}]
   BY DEF PolicyTyped
 <1>d. ASSUME PolicyDone(h) PROVE Goal BY <1>d, <1>t DEF PolicyDone, PolicyRequestKept, PolicySteps
 <1>p. ASSUME NEW at \in PolicySteps, PolicyGoto(h, at) PROVE Goal
   BY <1>p, <1>t DEF PolicyGoto, PolicyRequestKept
 <1>w. \A at \in PublishSteps \cup MilestoneSteps \cup {"seed"} : at \in PolicySteps
   BY DEF PolicySteps
 <1>1. ASSUME AskPolicy(h) PROVE Goal
   BY <1>1, <1>t DEF AskPolicy, PolicyBegin, PolicyRequestKept, PolicySteps
 <1>2. ASSUME SeedPolicy(h) PROVE Goal BY <1>2, <1>d DEF SeedPolicy
 <1>3. ASSUME NEW section, NEW n, BeginPublish(h, section, n) PROVE Goal
   BY <1>3, <1>t DEF BeginPublish, PolicyBegin, PolicyRequestKept, PolicySteps, PublishSteps
 <1>4. ASSUME ArchivePolicy(h) PROVE Goal BY <1>4, <1>p, <1>w DEF ArchivePolicy, PublishSteps
 <1>5. ASSUME InsertPolicy(h) PROVE Goal BY <1>5, <1>p, <1>d, <1>w DEF InsertPolicy, PublishSteps
 <1>6. ASSUME RefuseInsert(h) PROVE Goal BY <1>6, <1>p, <1>w DEF RefuseInsert, PublishSteps
 <1>7. ASSUME RestorePolicy(h) PROVE Goal BY <1>7, <1>d DEF RestorePolicy
 <1>8. ASSUME NEW k \in Milestones, BeginRemove(h, k) PROVE Goal
   BY <1>8, <1>t DEF BeginRemove, PolicyBegin, PolicyRequestKept, PolicySteps, MilestoneSteps
 <1>9. ASSUME NEW k \in Milestones, NEW d \in BOOLEAN, BeginMilestone(h, k, d) PROVE Goal
   BY <1>9, <1>t DEF BeginMilestone, PolicyBegin, PolicyRequestKept, PolicySteps, MilestoneSteps
 <1>10. ASSUME ClearDefaults(h) PROVE Goal BY <1>10, <1>p, <1>w DEF ClearDefaults, MilestoneSteps
 <1>11. ASSUME WriteMilestone(h) PROVE Goal BY <1>11, <1>d DEF WriteMilestone
 <1>12. ASSUME CountCampaigns(h) PROVE Goal
   BY <1>12, <1>p, <1>d, <1>w DEF CountCampaigns, MilestoneSteps
 <1>13. ASSUME DeleteMilestone(h) PROVE Goal BY <1>13, <1>d DEF DeleteMilestone
 <1>14. ASSUME LosePolicyRequest(h) PROVE Goal BY <1>14, <1>d DEF LosePolicyRequest
 <1> HIDE DEF Goal
 <1>q. Goal
   BY <1>1, <1>2, <1>3, <1>4, <1>5, <1>6, <1>7, <1>8, <1>9, <1>10, <1>11, <1>12, <1>13, <1>14
   DEF PolicyRequestStep
 <1> QED BY <1>q DEF Goal

(* The rows of policies, what a publisher holds, and that the newest row is
   at hand. *)
RowsFit ==
  /\ RowsKept /\ AtMostOneLive' /\ NewestIsAtHand' /\ SectionsAreKept'
  /\ seededAgain' \in Nat /\ gapTaken' \in BOOLEAN /\ publisherLost' \in BOOLEAN
  /\ plRow' \in [PolicyRequests -> Nat] /\ plTerms' \in [PolicyRequests -> PolicyTerms]

LEMMA SectionsKept ==
  ASSUME PolicyTyped, SectionsAreKept, RowsKept, Len(policies') = Len(policies),
         seededAgain' = seededAgain, gapTaken => gapTaken'
  PROVE  SectionsAreKept'
 <1>1. DOMAIN policies = 1..Len(policies) /\ Len(policies) \in Nat BY DEF PolicyTyped
 <1>2. SUFFICES ASSUME seededAgain = 0, ~gapTaken, NEW i \in 2..Len(policies)
       PROVE  /\ policies'[i].ver = policies'[i - 1].ver + 1
              /\ \/ policies'[i - 1].terms.base = policies'[i].terms.base
                 \/ policies'[i - 1].terms.safety = policies'[i].terms.safety
   BY DEF SectionsAreKept
 <1>3. i \in DOMAIN policies /\ i - 1 \in DOMAIN policies BY <1>1
 <1>4. /\ policies[i].ver = policies[i - 1].ver + 1
       /\ \/ policies[i - 1].terms.base = policies[i].terms.base
          \/ policies[i - 1].terms.safety = policies[i].terms.safety
   BY <1>2 DEF SectionsAreKept
 <1> QED BY <1>3, <1>4 DEF RowsKept

LEMMA SectionsGrow ==
  ASSUME PolicyTyped, SectionsAreKept, RowsKept, Len(policies') = Len(policies) + 1,
         \/ seededAgain' # 0 \/ gapTaken'
         \/ /\ policies'[Len(policies) + 1].ver = policies[Len(policies)].ver + 1
            /\ \/ policies'[Len(policies) + 1].terms.base = policies[Len(policies)].terms.base
               \/ policies'[Len(policies) + 1].terms.safety = policies[Len(policies)].terms.safety,
         seededAgain' = 0 /\ ~gapTaken' => seededAgain = 0 /\ ~gapTaken
  PROVE  SectionsAreKept'
 <1>1. DOMAIN policies = 1..Len(policies) /\ Len(policies) \in Nat /\ Len(policies) >= 1
   BY DEF PolicyTyped
 <1>2. SUFFICES ASSUME seededAgain' = 0, ~gapTaken', NEW i \in 2..(Len(policies) + 1)
       PROVE  /\ policies'[i].ver = policies'[i - 1].ver + 1
              /\ \/ policies'[i - 1].terms.base = policies'[i].terms.base
                 \/ policies'[i - 1].terms.safety = policies'[i].terms.safety
   BY DEF SectionsAreKept
 <1>3. CASE i = Len(policies) + 1
  <2>1. i - 1 = Len(policies) /\ Len(policies) \in DOMAIN policies BY <1>1, <1>3
  <2> QED BY <1>2, <1>3, <2>1 DEF RowsKept
 <1>4. CASE i \in 2..Len(policies)
  <2>1. i \in DOMAIN policies /\ i - 1 \in DOMAIN policies BY <1>1, <1>4
  <2>2. /\ policies[i].ver = policies[i - 1].ver + 1
        /\ \/ policies[i - 1].terms.base = policies[i].terms.base
           \/ policies[i - 1].terms.safety = policies[i].terms.safety
    BY <1>2, <1>4 DEF SectionsAreKept
  <2> QED BY <2>1, <2>2 DEF RowsKept
 <1> QED BY <1>1, <1>3, <1>4

LEMMA RowsNext ==
  ASSUME PolicyInv, NEW h \in PolicyRequests, PolicyRequestStep(h)
  PROVE  RowsFit
 <1>t. /\ policies \in Seq(PolicyRows) /\ Len(policies) \in Nat /\ Len(policies) >= 1
       /\ DOMAIN policies = 1..Len(policies)
       /\ plPc \in [PolicyRequests -> PolicySteps] /\ plRow \in [PolicyRequests -> Nat]
       /\ plTerms \in [PolicyRequests -> PolicyTerms]
       /\ plKey \in [PolicyRequests -> Milestones \cup {NoMilestone}]
       /\ seededAgain \in Nat /\ gapTaken \in BOOLEAN /\ publisherLost \in BOOLEAN
       /\ \A i \in DOMAIN policies : policies[i].ver >= 1 /\ policies[i].ver <= i
   BY DEF PolicyInv, PolicyTyped
 <1>y. \A i \in DOMAIN policies : policies[i] \in PolicyRows /\ policies[i].ver \in Nat
                                  /\ policies[i].terms \in PolicyTerms
  <2> TAKE i \in DOMAIN policies
  <2>1. policies[i] \in PolicyRows BY <1>t
  <2> QED BY <2>1 DEF PolicyRows
 <1>i. /\ PolicyTyped /\ AtMostOneLive /\ NewestIsAtHand /\ SectionsAreKept
       /\ \A g \in PolicyRequests : PublisherFits(g)
   BY DEF PolicyInv
 <1>s. SeedTerms \in PolicyTerms /\ 1 \in Nat BY PolicyNumbersFit DEF PolicyTerms
 <1>k. \A g \in PolicyRequests \ {h} : PolicyRequestKept(g) BY <1>i, PolicyRequestMoves
 (* Where the rows stand and no publisher leaves without a word. *)
 <1>u. ASSUME UNCHANGED <<policies, seededAgain, gapTaken>>, publisherLost => publisherLost',
              publisherLost' \in BOOLEAN,
              \/ plPc[h] \notin {"insert", "restore"} \/ publisherLost'
              \/ plPc'[h] \in {"insert", "restore"} /\ plRow'[h] = plRow[h]
              \/ LiveRows # {},
              plRow' \in [PolicyRequests -> Nat], plTerms' \in [PolicyRequests -> PolicyTerms]
       PROVE  RowsFit
  <2>1. RowsKept /\ LiveRows' = LiveRows BY <1>u, <1>i, SameRows
  <2>2. AtMostOneLive' BY <2>1, <1>i DEF AtMostOneLive
  <2>3. NewestIsAtHand'
   <3>1. ASSUME LiveRows = {}, NEW g \in PolicyRequests, plPc[g] \in {"insert", "restore"},
                plRow[g] = Len(policies), ~publisherLost'
         PROVE  plPc'[g] \in {"insert", "restore"} /\ plRow'[g] = Len(policies)
    <4>1. CASE g # h BY <4>1, <3>1, <1>k DEF PolicyRequestKept
    <4>2. CASE g = h BY <4>2, <3>1, <1>u
    <4> QED BY <4>1, <4>2
   <3> QED BY <3>1, <2>1, <1>u, <1>i DEF NewestIsAtHand
  <2>4. SectionsAreKept' BY <2>1, <1>u, <1>i, SectionsKept
  <2> QED BY <2>1, <2>2, <2>3, <2>4, <1>u, <1>t DEF RowsFit
 <1>d. ASSUME PolicyDone(h)
       PROVE  plRow' \in [PolicyRequests -> Nat] /\ plTerms' \in [PolicyRequests -> PolicyTerms]
   BY <1>d, <1>t, <1>s DEF PolicyDone
 <1>1. ASSUME AskPolicy(h) PROVE RowsFit
   BY <1>1, <1>u, <1>t DEF AskPolicy, PolicyBegin, policyHistory, publishHistory
 <1>2. ASSUME SeedPolicy(h) PROVE RowsFit
  <2>1. CASE ~Insertable BY <1>2, <2>1, <1>u, <1>d, <1>t DEF SeedPolicy
  <2>2. CASE Insertable
   <3>1. policies' = Append(policies, PolicyRow(1, SeedTerms)) /\ seededAgain' = seededAgain + 1
         /\ UNCHANGED <<gapTaken, publisherLost>>
     BY <1>2, <2>2 DEF SeedPolicy
   <3>2. RowsKept /\ AtMostOneLive' /\ Len(policies') = Len(policies) + 1
    <4>1. 1 >= 1 /\ 1 <= Len(policies) + 1 BY <1>t
    <4> QED BY <3>1, <4>1, <2>2, <1>i, <1>s, AppendRow
   <3>3. seededAgain' > 0 /\ seededAgain' \in Nat /\ seededAgain' # 0 BY <3>1, <1>t
   <3>4. NewestIsAtHand' BY <3>3 DEF NewestIsAtHand
   <3>5. SectionsAreKept' BY <3>2, <3>3, <1>i, SectionsGrow
   <3>6. plRow' \in [PolicyRequests -> Nat] /\ plTerms' \in [PolicyRequests -> PolicyTerms]
     BY <1>2, <1>d DEF SeedPolicy
   <3> QED BY <3>1, <3>2, <3>3, <3>4, <3>5, <3>6, <1>t DEF RowsFit
  <2> QED BY <2>1, <2>2
 <1>3. ASSUME NEW section \in {"base", "safety"}, NEW n \in Capacities, BeginPublish(h, section, n)
       PROVE  RowsFit
  <2>1. LiveRows # {} BY <1>3 DEF BeginPublish
  <2>2. LivePolicy \in LiveRows BY <2>1 DEF LivePolicy
  <2>3. LivePolicy \in DOMAIN policies BY <2>2 DEF LiveRows
  <2>4. PICK i \in DOMAIN policies : i = LivePolicy BY <2>3
  <2> DEFINE merged == [policies[i].terms EXCEPT ![section] = n]
  <2>5. merged \in PolicyTerms BY <1>3, <1>y DEF PolicyTerms
  <2>6. plRow' = [plRow EXCEPT ![h] = i] /\ plTerms' = [plTerms EXCEPT ![h] = merged]
    BY <1>3, <2>4 DEF BeginPublish
  <2> HIDE DEF merged
  <2>7. i \in Nat BY <1>t
  <2>8. plRow' \in [PolicyRequests -> Nat] /\ plTerms' \in [PolicyRequests -> PolicyTerms]
    BY <2>5, <2>6, <2>7, <1>t
  <2> QED BY <1>3, <2>1, <2>8, <1>u, <1>t DEF BeginPublish, policyHistory, publishHistory
 <1>4. ASSUME ArchivePolicy(h) PROVE RowsFit
  <2>1. /\ policies' = [policies EXCEPT ![plRow[h]].live = FALSE]
        /\ plPc[h] = "archive" /\ plPc' = [plPc EXCEPT ![h] = "insert"]
        /\ UNCHANGED <<plRow, plTerms, seededAgain, gapTaken, publisherLost>>
    BY <1>4 DEF ArchivePolicy, PolicyGoto, policyHistory, publishHistory
  <2>2. PICK i \in DOMAIN policies : i = plRow[h] BY <2>1, <1>i DEF PublisherFits, PublishSteps
  <2>3. RowsKept /\ Len(policies') = Len(policies) /\ LiveRows' = LiveRows \ {i}
    BY <2>1, <2>2, <1>i, RelabelRow
  <2>4. AtMostOneLive' BY <2>3, <1>i DEF AtMostOneLive
  <2>5. plPc'[h] = "insert" BY <2>1, <1>t
  <2>6. NewestIsAtHand'
   <3>1. CASE publisherLost \/ gapTaken \/ seededAgain > 0 BY <3>1, <2>1 DEF NewestIsAtHand
   <3>2. CASE LiveRows = {Len(policies)}
    <4>1. CASE i = Len(policies)
     <5>1. LiveRows' = {} /\ plRow'[h] = Len(policies') BY <4>1, <3>2, <2>1, <2>2, <2>3
     <5> QED BY <5>1, <2>5 DEF NewestIsAtHand
    <4>2. CASE i # Len(policies)
     <5>1. LiveRows' = {Len(policies')} BY <4>2, <3>2, <2>3
     <5> QED BY <5>1 DEF NewestIsAtHand
    <4> QED BY <4>1, <4>2
   <3>3. ASSUME LiveRows = {}, NEW g \in PolicyRequests, plPc[g] \in {"insert", "restore"},
                plRow[g] = Len(policies)
         PROVE  NewestIsAtHand'
    <4>1. g # h BY <3>3, <2>1
    <4>2. plPc'[g] = plPc[g] /\ plRow'[g] = Len(policies')
      BY <4>1, <3>3, <2>3, <1>k DEF PolicyRequestKept
    <4>3. LiveRows' = {} BY <3>3, <2>3
    <4> QED BY <3>3, <4>2, <4>3 DEF NewestIsAtHand
   <3> QED BY <3>1, <3>2, <3>3, <1>i DEF NewestIsAtHand
  <2>7. SectionsAreKept' BY <2>1, <2>3, <1>i, SectionsKept
  <2> QED BY <2>1, <2>3, <2>4, <2>6, <2>7, <1>t DEF RowsFit
 <1>5. ASSUME InsertPolicy(h) PROVE RowsFit
  <2>1. CASE ~Insertable BY <1>5, <2>1, <1>u, <1>t DEF InsertPolicy, PolicyGoto
  <2>2. CASE Insertable
   <3>0. PICK i \in DOMAIN policies : i = plRow[h]
     BY <1>5, <1>i DEF InsertPolicy, PublisherFits, PublishSteps
   <3>1. /\ policies' = Append(policies, PolicyRow(policies[i].ver + 1, plTerms[h]))
         /\ gapTaken' = (gapTaken \/ i # Len(policies)) /\ plPc[h] = "insert"
         /\ UNCHANGED <<seededAgain, publisherLost>>
     BY <1>5, <2>2, <3>0 DEF InsertPolicy
   <3>2. PICK v \in Nat : v = policies[i].ver + 1 /\ v >= 1 /\ v <= Len(policies) + 1
    <4>1. policies[i].ver \in Nat /\ policies[i].ver <= i /\ i \in Nat /\ i <= Len(policies)
      BY <1>t, <1>y
    <4>2. PICK w \in Nat : w = policies[i].ver BY <4>1
    <4>3. w + 1 \in Nat /\ w + 1 >= 1 /\ w + 1 <= Len(policies) + 1 BY <4>1, <4>2, <1>t
    <4> QED BY <4>2, <4>3
   <3>3. plTerms[h] \in PolicyTerms BY <1>t
   <3>4. /\ RowsKept /\ AtMostOneLive' /\ Len(policies') = Len(policies) + 1
         /\ LiveRows' = {Len(policies')}
         /\ policies'[Len(policies')].ver = v /\ policies'[Len(policies')].terms = plTerms[h]
     BY <3>1, <3>2, <3>3, <2>2, <1>i, AppendRow
   <3>5. NewestIsAtHand' BY <3>4 DEF NewestIsAtHand
   <3>6. SectionsAreKept'
    <4>1. \/ plTerms[h].base = policies[i].terms.base
          \/ plTerms[h].safety = policies[i].terms.safety
      BY <3>0, <3>1, <1>i DEF PublisherFits, PublishSteps
    <4>2. i # Len(policies) => gapTaken' BY <3>1
    <4> QED BY <3>1, <3>2, <3>4, <4>1, <4>2, <1>i, <1>t, SectionsGrow
   <3>7. plRow' \in [PolicyRequests -> Nat] /\ plTerms' \in [PolicyRequests -> PolicyTerms]
     BY <1>5, <2>2, <1>d DEF InsertPolicy
   <3> QED BY <3>1, <3>4, <3>5, <3>6, <3>7, <1>t DEF RowsFit
  <2> QED BY <2>1, <2>2
 <1>6. ASSUME RefuseInsert(h) PROVE RowsFit
   BY <1>6, <1>u, <1>t DEF RefuseInsert, PolicyGoto, policyHistory, publishHistory
 <1>7. ASSUME RestorePolicy(h) PROVE RowsFit
  <2>0. /\ plPc[h] = "restore" /\ PolicyDone(h) /\ UNCHANGED <<seededAgain, publisherLost>>
        /\ policies' = IF LiveRows = {} THEN [policies EXCEPT ![plRow[h]].live = TRUE] ELSE policies
        /\ gapTaken' = (gapTaken \/ (LiveRows = {} /\ plRow[h] # Len(policies)))
    BY <1>7 DEF RestorePolicy
  <2>1. CASE LiveRows # {} BY <2>0, <2>1, <1>u, <1>d, <1>t
  <2>2. CASE LiveRows = {}
   <3>0. PICK i \in DOMAIN policies : i = plRow[h] BY <2>0, <1>i DEF PublisherFits, PublishSteps
   <3>1. RowsKept /\ Len(policies') = Len(policies) /\ LiveRows' = {i}
     BY <2>0, <2>2, <3>0, <1>i, RelabelRow
   <3>2. AtMostOneLive' BY <3>1 DEF AtMostOneLive
   <3>3. NewestIsAtHand'
    <4>1. i = Len(policies) \/ gapTaken' BY <2>0, <2>2, <3>0
    <4> QED BY <4>1, <3>1 DEF NewestIsAtHand
   <3>4. SectionsAreKept' BY <2>0, <3>1, <1>i, SectionsKept
   <3> QED BY <2>0, <3>1, <3>2, <3>3, <3>4, <1>d, <1>t DEF RowsFit
  <2> QED BY <2>1, <2>2
 <1>8. ASSUME NEW k \in Milestones, BeginRemove(h, k) PROVE RowsFit
   BY <1>8, <1>u, <1>t DEF BeginRemove, PolicyBegin, policyHistory, publishHistory
 <1>9. ASSUME NEW k \in Milestones, NEW d \in BOOLEAN, BeginMilestone(h, k, d) PROVE RowsFit
   BY <1>9, <1>u, <1>t DEF BeginMilestone, PolicyBegin, publishHistory
 <1>10. ASSUME ClearDefaults(h) PROVE RowsFit
   BY <1>10, <1>u, <1>t DEF ClearDefaults, PolicyGoto, publishHistory
 <1>11. ASSUME WriteMilestone(h) PROVE RowsFit
   BY <1>11, <1>u, <1>d, <1>t DEF WriteMilestone, publishHistory
 <1>12. ASSUME CountCampaigns(h) PROVE RowsFit
   BY <1>12, <1>u, <1>d, <1>t DEF CountCampaigns, PolicyGoto, policyHistory, publishHistory
 <1>13. ASSUME DeleteMilestone(h) PROVE RowsFit
   BY <1>13, <1>u, <1>d, <1>t DEF DeleteMilestone, publishHistory
 <1>14. ASSUME LosePolicyRequest(h) PROVE RowsFit BY <1>14, <1>u, <1>d, <1>t DEF LosePolicyRequest
 <1>q. \/ AskPolicy(h) \/ SeedPolicy(h)
       \/ \E section \in {"base", "safety"}, n \in Capacities : BeginPublish(h, section, n)
       \/ ArchivePolicy(h) \/ InsertPolicy(h) \/ RefuseInsert(h) \/ RestorePolicy(h)
       \/ \E k \in Milestones : BeginRemove(h, k) \/ \E d \in BOOLEAN : BeginMilestone(h, k, d)
       \/ ClearDefaults(h) \/ WriteMilestone(h) \/ CountCampaigns(h) \/ DeleteMilestone(h)
       \/ LosePolicyRequest(h)
   BY DEF PolicyRequestStep
 <1> QED
   BY <1>q, <1>1, <1>2, <1>3, <1>4, <1>5, <1>6, <1>7, <1>8, <1>9, <1>10, <1>11, <1>12, <1>13, <1>14

(* What the requests hold, the floor and the targets. *)
LEMMA PublishersFitNext ==
  ASSUME PolicyInv, NEW h \in PolicyRequests, PolicyRequestStep(h), RowsFit
  PROVE  \A g \in PolicyRequests : PublisherFits(g)'
 <1>t. /\ plPc \in [PolicyRequests -> PolicySteps] /\ DOMAIN plRow = PolicyRequests
       /\ DOMAIN plTerms = PolicyRequests /\ DOMAIN plKey = PolicyRequests
       /\ DOMAIN policies = 1..Len(policies) /\ Len(policies) \in Nat
       /\ policies \in Seq(PolicyRows)
   BY DEF PolicyInv, PolicyTyped
 <1>y. \A i \in DOMAIN policies : policies[i].terms \in PolicyTerms
  <2> TAKE i \in DOMAIN policies
  <2>1. policies[i] \in PolicyRows BY <1>t
  <2> QED BY <2>1 DEF PolicyRows
 <1>i. PolicyTyped /\ \A g \in PolicyRequests : PublisherFits(g) BY DEF PolicyInv
 <1>k. \A g \in PolicyRequests \ {h} : PolicyRequestKept(g) BY <1>i, PolicyRequestMoves
 <1>r. \A i \in DOMAIN policies : i \in DOMAIN policies' /\ policies'[i].terms = policies[i].terms
  <2>1. /\ policies' \in Seq(PolicyRows) /\ Len(policies) <= Len(policies')
        /\ \A i \in DOMAIN policies : policies'[i].terms = policies[i].terms
    BY DEF RowsFit, RowsKept
  <2>2. DOMAIN policies' = 1..Len(policies') /\ Len(policies') \in Nat BY <2>1
  <2> QED BY <2>1, <2>2, <1>t
 <1>o. ASSUME NEW g \in PolicyRequests, PolicyRequestKept(g) PROVE PublisherFits(g)'
   BY <1>o, <1>r, <1>i DEF PublisherFits, PolicyRequestKept
 <1>w. \A g \in PolicyRequests : plPc[g] \in PublishSteps => plRow[g] \in DOMAIN policies
   BY <1>i DEF PublisherFits
 (* A request that goes on keeps what it holds; one that ends holds nothing. *)
 <1>d. ASSUME PolicyDone(h) PROVE PublisherFits(h)'
   BY <1>d, <1>t DEF PolicyDone, PublisherFits, PublishSteps, MilestoneSteps
 <1>p. ASSUME NEW at, PolicyGoto(h, at),
              \/ plPc[h] \in PublishSteps /\ at \in PublishSteps
              \/ plPc[h] \in MilestoneSteps /\ at \in MilestoneSteps
       PROVE  PublisherFits(h)'
  <2>1. plPc'[h] = at /\ plRow' = plRow /\ plTerms' = plTerms /\ plKey' = plKey
    BY <1>p, <1>t DEF PolicyGoto
  <2>2. PublishSteps \cap MilestoneSteps = {} BY DEF PublishSteps, MilestoneSteps
  <2>3. PublisherFits(h) BY <1>i
  <2> QED BY <2>1, <2>2, <2>3, <1>p, <1>r DEF PublisherFits
 <1>1. ASSUME AskPolicy(h) PROVE PublisherFits(h)'
   BY <1>1, <1>t DEF AskPolicy, PolicyBegin, PublisherFits, PublishSteps, MilestoneSteps
 <1>2. ASSUME SeedPolicy(h) PROVE PublisherFits(h)' BY <1>2, <1>d DEF SeedPolicy
 <1>3. ASSUME NEW section \in {"base", "safety"}, NEW n \in Capacities, BeginPublish(h, section, n)
       PROVE  PublisherFits(h)'
  <2>1. LivePolicy \in LiveRows BY <1>3 DEF BeginPublish, LivePolicy
  <2>2. PICK i \in DOMAIN policies : i = LivePolicy BY <2>1 DEF LiveRows
  <2>3. /\ plRow'[h] = i /\ plTerms'[h] = [policies[i].terms EXCEPT ![section] = n]
        /\ plPc'[h] = "archive"
    BY <1>3, <2>2, <1>t DEF BeginPublish, PolicyBegin
  <2>4. \/ plTerms'[h].base = policies[i].terms.base
        \/ plTerms'[h].safety = policies[i].terms.safety
    BY <2>3, <1>3, <1>y DEF PolicyTerms
  <2> QED BY <2>2, <2>3, <2>4, <1>r DEF PublisherFits, PublishSteps, MilestoneSteps
 <1>4. ASSUME ArchivePolicy(h) PROVE PublisherFits(h)' BY <1>4, <1>p DEF ArchivePolicy, PublishSteps
 <1>5. ASSUME InsertPolicy(h) PROVE PublisherFits(h)'
   BY <1>5, <1>p, <1>d DEF InsertPolicy, PublishSteps
 <1>6. ASSUME RefuseInsert(h) PROVE PublisherFits(h)' BY <1>6, <1>p DEF RefuseInsert, PublishSteps
 <1>7. ASSUME RestorePolicy(h) PROVE PublisherFits(h)' BY <1>7, <1>d DEF RestorePolicy
 <1>8. ASSUME NEW k \in Milestones, BeginRemove(h, k) PROVE PublisherFits(h)'
   BY <1>8, <1>t DEF BeginRemove, PolicyBegin, PublisherFits, PublishSteps
 <1>9. ASSUME NEW k \in Milestones, NEW d \in BOOLEAN, BeginMilestone(h, k, d)
       PROVE  PublisherFits(h)'
   BY <1>9, <1>t DEF BeginMilestone, PolicyBegin, PublisherFits, PublishSteps
 <1>10. ASSUME ClearDefaults(h) PROVE PublisherFits(h)'
   BY <1>10, <1>p DEF ClearDefaults, MilestoneSteps
 <1>11. ASSUME WriteMilestone(h) PROVE PublisherFits(h)' BY <1>11, <1>d DEF WriteMilestone
 <1>12. ASSUME CountCampaigns(h) PROVE PublisherFits(h)'
   BY <1>12, <1>p, <1>d DEF CountCampaigns, MilestoneSteps
 <1>13. ASSUME DeleteMilestone(h) PROVE PublisherFits(h)' BY <1>13, <1>d DEF DeleteMilestone
 <1>14. ASSUME LosePolicyRequest(h) PROVE PublisherFits(h)' BY <1>14, <1>d DEF LosePolicyRequest
 <1>q. PublisherFits(h)'
   BY <1>1, <1>2, <1>3, <1>4, <1>5, <1>6, <1>7, <1>8, <1>9, <1>10, <1>11, <1>12, <1>13, <1>14
   DEF PolicyRequestStep
 <1> QED BY <1>o, <1>k, <1>q

(* The milestones, their default and what a campaign targets. *)
MilestonesFit ==
  /\ FloorFits' /\ RemovalFits' /\ TargetedMilestonesStay'
  /\ milestones' \subseteq Milestones /\ defaults' \subseteq milestones' /\ targets' = targets
  /\ bonus' = bonus /\ floorMoved' \in BOOLEAN /\ floorSet' \in BOOLEAN

LEMMA MilestonesNext ==
  ASSUME PolicyInv, NEW h \in PolicyRequests, PolicyRequestStep(h)
  PROVE  MilestonesFit
 <1>t. /\ plPc \in [PolicyRequests -> PolicySteps]
       /\ plKey \in [PolicyRequests -> Milestones \cup {NoMilestone}]
       /\ milestones \subseteq Milestones /\ defaults \subseteq milestones /\ targets \subseteq Milestones
       /\ floorMoved \in BOOLEAN /\ floorSet \in BOOLEAN
   BY DEF PolicyInv, PolicyTyped
 <1>i. /\ PolicyTyped /\ FloorFits /\ RemovalFits /\ TargetedMilestonesStay
       /\ \A g \in PolicyRequests : plPc[g] \in MilestoneSteps => plKey[g] \in Milestones
   BY DEF PolicyInv, PublisherFits
 <1>k. \A g \in PolicyRequests \ {h} : plPc'[g] = plPc[g] /\ plKey'[g] = plKey[g]
   BY <1>i, PolicyRequestMoves DEF PolicyRequestKept
 <1>r. ASSUME plPc'[h] # "delete" \/ plKey'[h] \notin targets, UNCHANGED <<targets, strayTargets>>
       PROVE  RemovalFits'
  <2>1. SUFFICES ASSUME NEW g \in PolicyRequests, plPc'[g] = "delete"
        PROVE  plKey'[g] \notin targets' \ strayTargets'
    BY DEF RemovalFits
  <2>2. CASE g = h BY <2>1, <2>2, <1>r
  <2>3. CASE g # h BY <2>1, <2>3, <1>r, <1>k, <1>i DEF RemovalFits
  <2> QED BY <2>2, <2>3
(* Where nothing of a milestone is written. *)
 <1>u. ASSUME UNCHANGED <<milestones, defaults, targets, bonus, floorSet, strayTargets>>,
              floorMoved => floorMoved', floorMoved' \in BOOLEAN,
              plPc[h] # "default" \/ floorMoved', plPc'[h] # "default",
              plPc'[h] # "delete" \/ plKey'[h] \notin targets
       PROVE  MilestonesFit
  <2>1. RemovalFits' BY <1>u, <1>r
  <2>2. TargetedMilestonesStay' BY <1>u, <1>i DEF TargetedMilestonesStay
  <2>3. FloorFits'
   <3>1. SUFFICES ASSUME ~floorMoved' PROVE FloorFits' BY DEF FloorFits
   <3>2. \A g \in PolicyRequests : plPc'[g] = "default" => plPc[g] = "default" /\ plKey'[g] = plKey[g]
     BY <1>u, <1>k
   <3>3. \A g \in PolicyRequests : plPc[g] = "default" => plPc'[g] = "default" BY <3>1, <1>u, <1>k
   <3> QED BY <3>1, <3>2, <3>3, <1>u, <1>i DEF FloorFits
  <2> QED BY <2>1, <2>2, <2>3, <1>u, <1>t DEF MilestonesFit
 <1>d. ASSUME PolicyDone(h) PROVE plPc'[h] = "idle" BY <1>d, <1>t DEF PolicyDone
 <1>1. ASSUME AskPolicy(h) PROVE MilestonesFit
   BY <1>1, <1>u, <1>t DEF AskPolicy, PolicyBegin, policyHistory, milestoneRows
 <1>2. ASSUME SeedPolicy(h) PROVE MilestonesFit
   BY <1>2, <1>u, <1>d, <1>t DEF SeedPolicy, milestoneRows
 <1>3. ASSUME NEW section, NEW n, BeginPublish(h, section, n) PROVE MilestonesFit
   BY <1>3, <1>u, <1>t DEF BeginPublish, PolicyBegin, policyHistory, milestoneRows
 <1>4. ASSUME ArchivePolicy(h) PROVE MilestonesFit
   BY <1>4, <1>u, <1>t DEF ArchivePolicy, PolicyGoto, policyHistory, milestoneRows
 <1>5. ASSUME InsertPolicy(h) PROVE MilestonesFit
   BY <1>5, <1>u, <1>d, <1>t DEF InsertPolicy, PolicyGoto, milestoneRows
 <1>6. ASSUME RefuseInsert(h) PROVE MilestonesFit
   BY <1>6, <1>u, <1>t DEF RefuseInsert, PolicyGoto, policyHistory, milestoneRows
 <1>7. ASSUME RestorePolicy(h) PROVE MilestonesFit
   BY <1>7, <1>u, <1>d, <1>t DEF RestorePolicy, milestoneRows
 <1>8. ASSUME NEW k \in Milestones, BeginRemove(h, k) PROVE MilestonesFit
   BY <1>8, <1>u, <1>t DEF BeginRemove, PolicyBegin, policyHistory, milestoneRows
 <1>9. ASSUME NEW k \in Milestones, NEW d \in BOOLEAN, BeginMilestone(h, k, d) PROVE MilestonesFit
   BY <1>9, <1>u, <1>t DEF BeginMilestone, PolicyBegin, milestoneRows
 <1>10. ASSUME ClearDefaults(h) PROVE MilestonesFit
  <2>1. /\ plPc[h] = "clear" /\ plPc'[h] = "default" /\ plKey' = plKey
        /\ defaults' = defaults \cap {plKey[h]}
        /\ floorMoved' = (floorMoved \/ \E g \in PolicyRequests \ {h} : Flooring(g))
        /\ UNCHANGED <<milestones, targets, bonus, floorSet, strayTargets>>
    BY <1>10, <1>t DEF ClearDefaults, PolicyGoto
  <2>2. RemovalFits' BY <2>1, <1>r
  <2>3. TargetedMilestonesStay' BY <2>1, <1>i DEF TargetedMilestonesStay
  <2>4. FloorFits'
   <3>1. SUFFICES ASSUME ~floorMoved' PROVE FloorFits' BY DEF FloorFits
   <3>2. \A g \in PolicyRequests \ {h} : plPc'[g] # "default" BY <3>1, <2>1, <1>k DEF Flooring
   <3> QED BY <3>2, <2>1 DEF FloorFits
  <2> QED BY <2>1, <2>2, <2>3, <2>4, <1>t DEF MilestonesFit
 <1>11. ASSUME WriteMilestone(h) PROVE MilestonesFit
  <2>1. /\ milestones' = milestones \cup {plKey[h]} /\ plPc[h] \in {"milestone", "default"}
        /\ defaults' = IF plPc[h] = "default" THEN defaults \cup {plKey[h]} ELSE defaults \ {plKey[h]}
        /\ floorSet' = (floorSet \/ plPc[h] = "default")
        /\ floorMoved' = (floorMoved \/ (plPc[h] = "milestone" /\ plKey[h] \in defaults))
        /\ UNCHANGED <<targets, bonus, strayTargets>>
    BY <1>11 DEF WriteMilestone
  <2>2. plPc'[h] = "idle" BY <1>11, <1>d DEF WriteMilestone
  <2>3. plKey[h] \in Milestones BY <2>1, <1>i DEF MilestoneSteps
  <2>4. RemovalFits' BY <2>1, <2>2, <1>r
  <2>5. TargetedMilestonesStay' BY <2>1, <1>i DEF TargetedMilestonesStay
  <2>6. FloorFits'
   <3>1. SUFFICES ASSUME ~floorMoved' PROVE FloorFits' BY DEF FloorFits
   <3>2. ~floorMoved BY <3>1, <2>1
   <3>3. CASE plPc[h] = "default"
    <4>1. \A g \in PolicyRequests : plPc'[g] # "default" BY <3>2, <3>3, <2>2, <1>k, <1>i DEF FloorFits
    <4>2. defaults' = {plKey[h]} BY <3>2, <3>3, <2>1, <1>i DEF FloorFits
    <4> QED BY <4>1, <4>2, <2>3 DEF FloorFits
   <3>4. CASE plPc[h] = "milestone"
    <4>0. plKey[h] \notin defaults BY <3>1, <3>4, <2>1
    <4>1. defaults' = defaults /\ (floorSet' <=> floorSet) BY <4>0, <3>4, <2>1
    <4>2. \A g \in PolicyRequests : (plPc'[g] = "default" <=> plPc[g] = "default")
                                    /\ (plPc[g] = "default" => plKey'[g] = plKey[g])
      BY <3>4, <2>2, <1>k
    <4> QED BY <4>1, <4>2, <3>2, <1>i DEF FloorFits
   <3> QED BY <2>1, <3>3, <3>4
  <2>7. defaults' \subseteq milestones' /\ milestones' \subseteq Milestones BY <2>1, <2>3, <1>t
  <2>8. floorMoved' \in BOOLEAN /\ floorSet' \in BOOLEAN BY <2>1
  <2> QED BY <2>1, <2>4, <2>5, <2>6, <2>7, <2>8 DEF MilestonesFit
 <1>12. ASSUME CountCampaigns(h) PROVE MilestonesFit
  <2>1. plPc'[h] = "idle" \/ plKey'[h] \notin targets
    BY <1>12, <1>d, <1>t DEF CountCampaigns, PolicyGoto
  <2>2. plPc'[h] # "default" /\ plPc[h] # "default"
    BY <1>12, <1>d, <1>t DEF CountCampaigns, PolicyGoto
  <2> QED BY <1>12, <2>1, <2>2, <1>u, <1>t DEF CountCampaigns, policyHistory, milestoneRows
 <1>13. ASSUME DeleteMilestone(h) PROVE MilestonesFit
  <2>1. /\ milestones' = milestones \ {plKey[h]} /\ defaults' = defaults \ {plKey[h]}
        /\ floorMoved' = (floorMoved \/ plKey[h] \in defaults) /\ plPc[h] = "delete"
        /\ UNCHANGED <<targets, bonus, floorSet, strayTargets>>
    BY <1>13 DEF DeleteMilestone
  <2>2. plPc'[h] = "idle" BY <1>13, <1>d DEF DeleteMilestone
  <2>3. RemovalFits' BY <2>1, <2>2, <1>r
  <2>4. TargetedMilestonesStay' BY <2>1, <1>i DEF TargetedMilestonesStay, RemovalFits
  <2>5. FloorFits'
   <3>1. SUFFICES ASSUME ~floorMoved' PROVE FloorFits' BY DEF FloorFits
   <3>2. ~floorMoved /\ defaults' = defaults BY <3>1, <2>1
   <3>3. \A g \in PolicyRequests : (plPc'[g] = "default" <=> plPc[g] = "default")
                                   /\ (plPc[g] = "default" => plKey'[g] = plKey[g])
     BY <2>1, <2>2, <1>k
   <3> QED BY <3>2, <3>3, <2>1, <1>i DEF FloorFits
  <2> QED BY <2>1, <2>3, <2>4, <2>5, <1>t DEF MilestonesFit
 <1>14. ASSUME LosePolicyRequest(h) PROVE MilestonesFit
  <2>1. /\ floorMoved' = (floorMoved \/ plPc[h] = "default") /\ plPc'[h] = "idle"
        /\ UNCHANGED <<milestones, defaults, targets, bonus, floorSet, strayTargets>>
    BY <1>14, <1>d DEF LosePolicyRequest, milestoneRows
  <2> QED BY <2>1, <1>u
 <1>q. \/ AskPolicy(h) \/ SeedPolicy(h)
       \/ \E section \in {"base", "safety"}, n \in Capacities : BeginPublish(h, section, n)
       \/ ArchivePolicy(h) \/ InsertPolicy(h) \/ RefuseInsert(h) \/ RestorePolicy(h)
       \/ \E k \in Milestones : BeginRemove(h, k) \/ \E d \in BOOLEAN : BeginMilestone(h, k, d)
       \/ ClearDefaults(h) \/ WriteMilestone(h) \/ CountCampaigns(h) \/ DeleteMilestone(h)
       \/ LosePolicyRequest(h)
   BY DEF PolicyRequestStep
 <1> QED
   BY <1>q, <1>1, <1>2, <1>3, <1>4, <1>5, <1>6, <1>7, <1>8, <1>9, <1>10, <1>11, <1>12, <1>13, <1>14

LEMMA PolicyInvNext == PolicyInv /\ [PolicyNext]_policyVars => PolicyInv'
 <1> SUFFICES ASSUME PolicyInv, [PolicyNext]_policyVars PROVE PolicyInv' OBVIOUS
 <1>t. /\ PolicyTyped /\ policies \in Seq(PolicyRows) /\ Len(policies) \in Nat
       /\ DOMAIN policies = 1..Len(policies) /\ Len(policies) >= 1
       /\ milestones \subseteq Milestones /\ defaults \subseteq milestones /\ targets \subseteq Milestones
       /\ bonus \in Nat /\ grantedCap[2] \in DOMAIN policies /\ SafetyBoundsGrant
   BY DEF PolicyInv, PolicyTyped
 <1>1. ASSUME NEW h \in PolicyRequests, PolicyRequestStep(h) PROVE PolicyInv'
  <2>1. RowsFit BY <1>1, RowsNext
  <2>2. MilestonesFit BY <1>1, MilestonesNext
  <2>3. \A g \in PolicyRequests : PublisherFits(g)' BY <1>1, <2>1, PublishersFitNext
  <2>4. /\ plPc' \in [PolicyRequests -> PolicySteps]
        /\ plKey' \in [PolicyRequests -> Milestones \cup {NoMilestone}]
    BY <1>1, <1>t, PolicyRequestMoves
  <2>5. grantedCap' = grantedCap
    BY <1>1 DEF PolicyRequestStep, AskPolicy, SeedPolicy, BeginPublish, ArchivePolicy, InsertPolicy,
         RefuseInsert, RestorePolicy, BeginRemove, BeginMilestone, ClearDefaults, WriteMilestone,
         CountCampaigns, DeleteMilestone, LosePolicyRequest
  <2>6. PICK i \in DOMAIN policies : i = grantedCap[2] BY <1>t
  <2>7. /\ policies' \in Seq(PolicyRows) /\ Len(policies) <= Len(policies')
        /\ Len(policies') <= MaxPolicies /\ Len(policies') \in Nat
        /\ policies'[i].terms = policies[i].terms
        /\ DOMAIN policies' = 1..Len(policies')
    BY <2>1 DEF RowsFit, RowsKept
  <2>8. i \in DOMAIN policies' /\ Len(policies') >= 1 BY <2>7, <1>t
  <2>9. SafetyBoundsGrant' BY <2>5, <2>6, <2>7, <1>t DEF SafetyBoundsGrant
  <2>10. PolicyTyped'
    BY <2>1, <2>2, <2>4, <2>5, <2>6, <2>7, <2>8, <1>t
    DEF RowsFit, RowsKept, MilestonesFit, PolicyTyped
  <2> QED BY <2>1, <2>2, <2>3, <2>9, <2>10 DEF RowsFit, MilestonesFit, PolicyInv
 <1>u. ASSUME UNCHANGED <<policies, milestones, defaults, floorMoved, floorSet, seededAgain,
                          publisherLost, gapTaken, plPc, plRow, plTerms, plKey>>,
              targets' \subseteq Milestones, bonus' \in Nat, grantedCap'[2] \in DOMAIN policies,
              RemovalFits', TargetedMilestonesStay', SafetyBoundsGrant'
       PROVE  PolicyInv'
  <2>1. LiveRows' = LiveRows BY <1>u DEF LiveRows
  <2>2. PolicyTyped' BY <1>u, <1>t DEF PolicyTyped
  <2>3. AtMostOneLive' /\ NewestIsAtHand' BY <1>u, <2>1 DEF PolicyInv, AtMostOneLive, NewestIsAtHand
  <2>4. FloorFits' /\ SectionsAreKept' BY <1>u DEF PolicyInv, FloorFits, SectionsAreKept
  <2>5. \A h \in PolicyRequests : PublisherFits(h)' BY <1>u DEF PolicyInv, PublisherFits
  <2> QED BY <1>u, <2>2, <2>3, <2>4, <2>5 DEF PolicyInv
 <1>2. ASSUME NEW k \in Milestones \cup {NoMilestone}, NEW factor \in {1, 2}, SaveCampaign(k, factor)
       PROVE  PolicyInv'
  <2>1. /\ targets' = IF k = NoMilestone THEN {} ELSE {k}
        /\ strayTargets' = IF k = NoMilestone THEN {}
                           ELSE IF k \in milestones /\ \A h \in PolicyRequests : ~(plPc[h] = "delete" /\ plKey[h] = k)
                                THEN {} ELSE {k}
        /\ UNCHANGED <<plPc, plKey, milestones>>
    BY <1>2 DEF SaveCampaign, policyRequest
  <2>2. targets' \subseteq Milestones /\ bonus' \in Nat BY <1>2, <2>1 DEF SaveCampaign
  <2>3. RemovalFits' BY <2>1 DEF RemovalFits
  <2>4. TargetedMilestonesStay' BY <2>1 DEF TargetedMilestonesStay
  <2>5. SafetyBoundsGrant' BY <1>2, <1>t DEF SaveCampaign, SafetyBoundsGrant
  <2> QED BY <1>2, <1>t, <2>2, <2>3, <2>4, <2>5, <1>u DEF SaveCampaign, policyRequest, publishHistory
 <1>3. ASSUME NEW orders \in CompletedOrders, GrantCapacity(orders) PROVE PolicyInv'
  <2>1. LivePolicy \in LiveRows BY <1>3 DEF GrantCapacity, LivePolicy
  <2>2. PICK i \in DOMAIN policies : i = LivePolicy BY <2>1 DEF LiveRows
  <2>3. grantedCap' = <<DailyCapacity(orders, policies[i].terms), i>>
    BY <1>3, <2>2 DEF GrantCapacity
  <2>4. policies[i].terms \in PolicyTerms
   <3>1. policies[i] \in PolicyRows BY <1>t
   <3> QED BY <3>1 DEF PolicyRows
  <2>5. DailyCapacity(orders, policies[i].terms) <= policies[i].terms.safety
    BY <2>4, <1>t, GrantWithinSafety
  <2>6. UNCHANGED policies BY <1>3 DEF GrantCapacity
  <2>7. SafetyBoundsGrant' BY <2>3, <2>5, <2>6 DEF SafetyBoundsGrant
  <2>8. RemovalFits' /\ TargetedMilestonesStay'
    BY <1>3 DEF GrantCapacity, policyRequest, milestoneRows, policyHistory, RemovalFits,
                TargetedMilestonesStay, PolicyInv
  <2> QED BY <1>3, <2>3, <2>7, <2>8, <1>t, <1>u
          DEF GrantCapacity, policyRequest, milestoneRows, policyHistory, publishHistory
 <1>4. CASE UNCHANGED policyVars
  <2>1. RemovalFits' /\ TargetedMilestonesStay' /\ SafetyBoundsGrant'
    BY <1>4 DEF policyVars, policyRequest, milestoneRows, policyHistory, RemovalFits,
                TargetedMilestonesStay, SafetyBoundsGrant, PolicyInv
  <2> QED BY <1>4, <2>1, <1>t, <1>u
          DEF policyVars, policyRequest, milestoneRows, policyHistory, publishHistory
 <1> QED BY <1>1, <1>2, <1>3, <1>4 DEF PolicyNext, PolicyRequestStep

(* The booking rules (publish, current, upsertMilestone, removeMilestone,
   upsertCampaign, entitlementFor): through publications that cross, restores,
   refused inserts and lost processes one newest policy is in force with each
   section that was published, there is one floor, targeted milestones stay,
   and no grant exceeds the safety limit, but for the crossings on record. *)
THEOREM PoliciesSound == PolicySpec => []PoliciesAreSound
 <1> QED BY PolicyInvInit, PolicyInvNext, PolicyInvHolds, PTL DEF PolicySpec

-----------------------------------------------------------------------------
(* The price list. *)
LEMMA ProductsGrow ==
  ASSUME NEW a \in Nat, NEW b \in Nat, NEW p \in Nat, a <= b
  PROVE  a * p <= b * p /\ a * p \in Nat /\ b * p \in Nat
  OBVIOUS

LEMMA ProductsCount ==
  ASSUME NEW a \in Nat, NEW b \in Nat, a > 0, b > 0
  PROVE  a * b > 0
  OBVIOUS

LEMMA HalvesGrow ==
  ASSUME NEW a \in Nat, NEW b \in Nat, a <= b
  PROVE  /\ HalfRounded(a) <= HalfRounded(b) /\ HalfRounded(a) \in Nat
         /\ a > 0 => HalfRounded(a) > 0
  BY DEF HalfRounded

LEMMA PartsGrow ==
  ASSUME NEW a \in Nat, NEW b \in Nat, NEW s \in Nat, s > 0, a <= b
  PROVE  PartsOf(a, s) <= PartsOf(b, s) /\ PartsOf(a, s) \in Nat
 <1> DEFINE x == a + s - 1
            y == b + s - 1
 <1>1. x \in Nat /\ y \in Nat /\ x <= y OBVIOUS
 <1> HIDE DEF x, y
 <1>2. PICK q \in Int, r \in Int : q = x \div s /\ r = y \div s BY <1>1
 <1>3. s * q <= x /\ y < s * r + s /\ x >= 0 /\ x < s * q + s BY <1>1, <1>2
 <1>4. q <= r
  <2>1. SUFFICES ASSUME q >= r + 1 PROVE FALSE BY <1>2
  <2>2. s * q >= s * (r + 1) BY <2>1
  <2>3. s * (r + 1) = s * r + s OBVIOUS
  <2> QED BY <2>2, <2>3, <1>1, <1>3
 <1>5. q >= 0
  <2>1. SUFFICES ASSUME q + 1 <= 0 PROVE FALSE BY <1>2
  <2>2. s * (q + 1) <= 0 BY <2>1
  <2>3. s * (q + 1) = s * q + s OBVIOUS
  <2> QED BY <2>2, <2>3, <1>1, <1>3
 <1> QED BY <1>2, <1>4, <1>5 DEF PartsOf, x, y

PriceTerms ==
  [model : PricingModels, price : Nat, size : Nat, excess : Nat, minKg : Nat, least : Nat \ {0}, most : Nat]
BasketTypes ==
  [weight : Nat, count : Nat, pickup : {"customer", "free", "paid"},
   return : {"customer", "free", "paid"}, express : BOOLEAN]

(* A line costs no less for a heavier basket, and nothing only when the terms
   say so: the price is nothing, or nothing was weighed or counted. *)
LEMMA LineIsSound ==
  ASSUME NEW p \in PriceTerms, NEW w \in Nat, NEW v \in Nat, NEW n \in Nat, w <= v
  PROVE  /\ LineTotal(p, w, n) \in Nat /\ LineTotal(p, v, n) \in Nat
         /\ LineTotal(p, w, n) <= LineTotal(p, v, n)
         /\ LineTotal(p, w, n) = 0 =>
              p.price = 0 \/ (p.model = "kg" /\ w = 0) \/ (p.model = "item" /\ n = 0)
 <1>1. PICK price \in Nat, size \in Nat, excess \in Nat, minKg \in Nat :
         price = p.price /\ size = p.size /\ excess = p.excess /\ minKg = p.minKg
   BY DEF PriceTerms
 <1>2. p.model \in PricingModels BY DEF PriceTerms
 <1>3. PICK bw \in Nat, bv \in Nat :
         bw = BillableHalves(w, minKg) /\ bv = BillableHalves(v, minKg) /\ bw <= bv /\ w <= bw
   BY DEF BillableHalves, Over
 <1>4. CASE p.model = "kg"
  <2>1. LineTotal(p, w, n) = HalfRounded(bw * price) /\ LineTotal(p, v, n) = HalfRounded(bv * price)
    BY <1>1, <1>3, <1>4 DEF LineTotal
  <2>2. bw * price <= bv * price /\ bw * price \in Nat /\ bv * price \in Nat BY <1>3, ProductsGrow
  <2>3. bw > 0 /\ price > 0 => bw * price > 0 BY ProductsCount
  <2>4. price # 0 /\ w # 0 => bw * price > 0 BY <2>3, <1>3
  <2>5. /\ HalfRounded(bw * price) <= HalfRounded(bv * price)
        /\ HalfRounded(bw * price) \in Nat /\ HalfRounded(bv * price) \in Nat
        /\ bw * price > 0 => HalfRounded(bw * price) > 0
    BY <2>2, HalvesGrow
  <2> QED BY <2>1, <2>4, <2>5, <1>1, <1>4
 <1>5. CASE p.model = "load"
  <2>1. /\ LineTotal(p, w, n) = LoadsFor(w, size) * price
        /\ LineTotal(p, v, n) = LoadsFor(v, size) * price
    BY <1>1, <1>5 DEF LineTotal
  <2>2. /\ LoadsFor(w, size) \in Nat /\ LoadsFor(v, size) \in Nat
        /\ LoadsFor(w, size) <= LoadsFor(v, size) /\ LoadsFor(w, size) > 0
   <3>1. CASE size = 0 BY <3>1 DEF LoadsFor
   <3>2. CASE size # 0
    <4>1. 2 * size \in Nat /\ 2 * size > 0 BY <3>2
    <4>2. PICK a \in Nat, b \in Nat : a = PartsOf(w, 2 * size) /\ b = PartsOf(v, 2 * size) /\ a <= b
      BY <4>1, PartsGrow
    <4>3. LoadsFor(w, size) = Over(1, a) /\ LoadsFor(v, size) = Over(1, b)
      BY <3>2, <4>2 DEF LoadsFor
    <4> QED BY <4>2, <4>3 DEF Over
   <3> QED BY <3>1, <3>2
  <2>3. PICK a \in Nat, b \in Nat : a = LoadsFor(w, size) /\ b = LoadsFor(v, size) /\ a <= b /\ a > 0
    BY <2>2
  <2>4. a * price <= b * price /\ a * price \in Nat /\ b * price \in Nat BY <2>3, ProductsGrow
  <2>5. price > 0 => a * price > 0 BY <2>3, ProductsCount
  <2> QED BY <2>1, <2>3, <2>4, <2>5, <1>1
 <1>6. CASE p.model = "item"
  <2>1. LineTotal(p, w, n) = n * price /\ LineTotal(p, v, n) = n * price BY <1>1, <1>6 DEF LineTotal
  <2>2. n * price \in Nat BY ProductsGrow
  <2>3. n > 0 /\ price > 0 => n * price > 0 BY ProductsCount
  <2> QED BY <2>1, <2>2, <2>3, <1>1, <1>6
 <1>7. CASE p.model = "base"
  <2>1. PICK a \in Nat, b \in Nat : a = Over(0, bw - 2 * size) /\ b = Over(0, bv - 2 * size) /\ a <= b
    BY <1>3 DEF Over
  <2>2. /\ LineTotal(p, w, n) = price + HalfRounded(a * excess)
        /\ LineTotal(p, v, n) = price + HalfRounded(b * excess)
    BY <1>1, <1>3, <1>7, <2>1 DEF LineTotal
  <2>3. a * excess <= b * excess /\ a * excess \in Nat /\ b * excess \in Nat BY <2>1, ProductsGrow
  <2>4. PICK c \in Nat, d \in Nat :
          c = HalfRounded(a * excess) /\ d = HalfRounded(b * excess) /\ c <= d
    BY <2>3, HalvesGrow
  <2> QED BY <2>2, <2>4, <1>1
 <1> QED BY <1>2, <1>4, <1>5, <1>6, <1>7 DEF PricingModels

PriceTemplates ==
  [active : BOOLEAN, control : {"washer", "fixed", "shop"}, model : PricingModels, price : Nat,
   size : Nat, excess : Nat, minKg : Nat, min : 0..MostPrice, max : Nat, allowed : SUBSET PricingModels]
PriceOffers == PriceTerms \cup {NoOffer}
PriceLegs ==
  [pickup : LegAmounts \cup {NoFee}, delivery : LegAmounts \cup {NoFee}, expressOn : BOOLEAN,
   express : Int \cup {NoFee}]

(* What is charged lies within the platform's ceiling. *)
PriceFits(p) ==
  /\ p.basket \in PriceBaskets /\ p.basket # NoBasket
  /\ {p.line, p.fee, p.pickup, p.return, p.express, p.ceiling} \subseteq Nat
  /\ p.pickup <= p.ceiling /\ p.return <= p.ceiling /\ p.express <= p.ceiling
  /\ p.basket.pickup = "customer" => p.pickup = 0
  /\ p.basket.return = "customer" => p.return = 0

(* A price, from whatever was read. *)
PriceFrom(b, t, f, rate, legs, ceiling) ==
  LET terms == Resolved(t, f)
      line == LineTotal(terms, b.weight, b.count) IN
  [basket |-> b, model |-> terms.model, price |-> terms.price, line |-> line,
   fee |-> calculatePlatformFee(line, rate),
   pickup |-> LegFee(legs.pickup, b.pickup, ceiling),
   return |-> LegFee(legs.delivery, b.return, ceiling),
   express |-> IF b.express THEN ExpressFee(legs, ceiling) ELSE 0,
   ceiling |-> ceiling]

LEMMA PriceIsFrom ==
  ASSUME NEW h, NEW ceiling
  PROVE  Price(h, ceiling) =
           PriceFrom(prBasket[h], prTemplate[h], prOffer[h], prRate[h], prLegs[h], ceiling)
  BY DEF Price, PriceFrom

LEMMA ResolvedTerms ==
  ASSUME NEW t \in PriceTemplates, NEW f \in PriceOffers
  PROVE  Resolved(t, f) \in PriceTerms
  BY PriceNumbersFit DEF Resolved, PlatformPricing, PriceTemplates, PriceOffers, PriceTerms

LEMMA ClampedFee ==
  ASSUME NEW fee \in Int, NEW ceiling \in Nat
  PROVE  clampLegFee(fee, ceiling) \in Nat /\ clampLegFee(fee, ceiling) <= ceiling
  BY DEF clampLegFee, Under

LEMMA LegFeeFits ==
  ASSUME NEW leg \in LegAmounts \cup {NoFee}, NEW tier, NEW ceiling \in Nat
  PROVE  /\ LegFee(leg, tier, ceiling) \in Nat /\ LegFee(leg, tier, ceiling) <= ceiling
         /\ tier = "customer" => LegFee(leg, tier, ceiling) = 0
 <1>1. LegAmount(leg, tier) \in Int BY PriceNumbersFit DEF LegAmount, LegAmounts
 <1>2. /\ clampLegFee(LegAmount(leg, tier), ceiling) \in Nat
       /\ clampLegFee(LegAmount(leg, tier), ceiling) <= ceiling
   BY <1>1, ClampedFee
 <1> QED BY <1>2 DEF LegFee

LEMMA PlatformFeeFits ==
  ASSUME NEW s \in Nat, NEW r \in Nat
  PROVE  calculatePlatformFee(s, r) \in Nat
 <1>1. PICK n \in Nat : n = 2 * s * r + 100
  <2>1. 2 * s * r \in Nat OBVIOUS
  <2> QED BY <2>1
 <1>2. n \div 200 \in Nat OBVIOUS
 <1> QED BY <1>1, <1>2 DEF calculatePlatformFee

LEMMA PriceFromFits ==
  ASSUME NEW b \in PriceBaskets, NEW t \in PriceTemplates, NEW f \in PriceOffers, NEW rate \in Nat,
         NEW legs \in PriceLegs, NEW ceiling \in Nat
  PROVE  PriceFits(PriceFrom(b, t, f, rate, legs, ceiling))
 <1>1. b \in BasketTypes /\ b # NoBasket BY PriceNumbersFit DEF BasketTypes
 <1>2. Resolved(t, f) \in PriceTerms BY ResolvedTerms
 <1>3. PICK w \in Nat, n \in Nat : w = b.weight /\ n = b.count BY <1>1 DEF BasketTypes
 <1>4. PICK line \in Nat : line = LineTotal(Resolved(t, f), w, n) BY <1>2, LineIsSound
 <1>5. calculatePlatformFee(line, rate) \in Nat BY PlatformFeeFits
 <1>6. /\ legs.pickup \in LegAmounts \cup {NoFee} /\ legs.delivery \in LegAmounts \cup {NoFee}
       /\ legs.express \in Int \cup {NoFee}
   BY DEF PriceLegs
 <1>7. PICK pickup \in Nat, return \in Nat :
         /\ pickup = LegFee(legs.pickup, b.pickup, ceiling) /\ pickup <= ceiling
         /\ return = LegFee(legs.delivery, b.return, ceiling) /\ return <= ceiling
         /\ b.pickup = "customer" => pickup = 0
         /\ b.return = "customer" => return = 0
   BY <1>6, LegFeeFits
 <1>8. ExpressFee(legs, ceiling) \in Nat /\ ExpressFee(legs, ceiling) <= ceiling
  <2>1. (IF legs.express = NoFee THEN DefaultExpressFee ELSE legs.express) \in Int
    BY <1>6, PriceNumbersFit
  <2> QED BY <2>1, ClampedFee DEF ExpressFee
 <1>9. PICK express \in Nat :
         express = (IF b.express THEN ExpressFee(legs, ceiling) ELSE 0) /\ express <= ceiling
   BY <1>8
 <1>10. PriceFrom(b, t, f, rate, legs, ceiling) =
          [basket |-> b, model |-> Resolved(t, f).model, price |-> Resolved(t, f).price, line |-> line,
           fee |-> calculatePlatformFee(line, rate), pickup |-> pickup, return |-> return,
           express |-> express, ceiling |-> ceiling]
   BY <1>3, <1>4, <1>7, <1>9 DEF PriceFrom
 <1> QED BY <1>1, <1>5, <1>7, <1>9, <1>10 DEF PriceFits

(* A home washer's line comes to nothing only in the two ways that are said. *)
FreeFor(p) == p.line = 0 => p.price = 0 \/ (p.model = "kg" /\ p.basket.weight = 0)

LEMMA PriceFromIsNotFree ==
  ASSUME NEW b \in PriceBaskets, NEW t \in PriceTemplates, NEW f \in PriceOffers, NEW rate,
         NEW legs, NEW ceiling, t.control # "shop", QuantityWithin(t, f, b.count)
  PROVE  FreeFor(PriceFrom(b, t, f, rate, legs, ceiling))
 <1>1. b \in BasketTypes BY PriceNumbersFit DEF BasketTypes
 <1>2. PICK terms \in PriceTerms : terms = Resolved(t, f) BY ResolvedTerms
 <1>3. PICK w \in Nat, n \in Nat : w = b.weight /\ n = b.count BY <1>1 DEF BasketTypes
 <1>4. terms.model = "item" => n # 0
  <2>1. terms.least \in Nat \ {0} BY DEF PriceTerms
  <2> QED BY <1>2, <1>3, <2>1 DEF QuantityWithin
 <1>5. LineTotal(terms, w, n) = 0 => terms.price = 0 \/ (terms.model = "kg" /\ w = 0)
  <2>1. w <= w OBVIOUS
  <2> QED BY <1>4, <2>1, LineIsSound
 <1> QED BY <1>2, <1>3, <1>5 DEF PriceFrom, FreeFor

-----------------------------------------------------------------------------
PriceSteps == {"idle", "template", "offer", "rate", "legs", "ceiling", "end"}
PastTemplate == {"offer", "rate", "legs", "ceiling"}
PastOffer == {"rate", "legs", "ceiling"}
PastRate == {"legs", "ceiling"}

(* The five documents, and what an editor is about to write. *)
PriceDocsTyped ==
  /\ template \in PriceTemplates /\ offer \in PriceOffers /\ legFees \in PriceLegs
  /\ legCeiling \in Ceilings /\ commissionRate \in Commissions
  /\ offer \in {NoOffer} \cup {KeptOf(f) : f \in Offers}

EditorsTyped ==
  /\ edPc \in [PriceEditors -> {"idle", "offer", "patch"}]
  /\ edPatch \in [PriceEditors -> TemplatePatches \cup {NoFee}]
  /\ edOffer \in [PriceEditors -> {NoOffer} \cup {KeptOf(f) : f \in Offers}]

(* A template that update has written. *)
KeptCoherent ==
  /\ template.min <= template.max
  /\ template.control = "fixed" /\ template.model = "load" => template.size > 0 \/ capacityNulled

(* An offer that was checked against the template as it now is. *)
WithinGuardrails(f) ==
  /\ template.control = "washer" /\ f.model \in template.allowed
  /\ template.min <= f.price /\ f.price <= template.max

EditorFits(e) ==
  /\ edPc[e] = "offer" /\ e \notin outrun => WithinGuardrails(edOffer[e])
  /\ edPc[e] = "patch" =>
       /\ edPatch[e] \in TemplatePatches /\ template.control # "shop"
       /\ ~templatesCrossed => TemplateCoherent(Merged(template, edPatch[e]))

DocsInv ==
  /\ PriceDocsTyped /\ EditorsTyped
  /\ offer # NoOffer /\ "offer" \notin outrun => WithinGuardrails(offer)
  /\ ~templatesCrossed => KeptCoherent
  /\ \A e \in PriceEditors : EditorFits(e)

(* What a quote or an order has read. *)
ReadsTyped ==
  /\ prPc \in [Pricers -> PriceSteps]
  /\ prBasket \in [Pricers -> PriceBaskets \cup {NoBasket}]
  /\ prTemplate \in [Pricers -> PriceTemplates \cup {NoOffer}] /\ prOffer \in [Pricers -> PriceOffers]
  /\ prRate \in [Pricers -> Nat] /\ prLegs \in [Pricers -> PriceLegs \cup {NoFee}]

ReadsFit(h) ==
  /\ prPc[h] \notin {"idle", "end"} => prBasket[h] \in PriceBaskets
  /\ prPc[h] \in PastTemplate =>
       /\ prTemplate[h] \in PriceTemplates
       /\ prTemplate[h].control = "shop" <=> template.control = "shop"
  /\ prPc[h] \in PastOffer => QuantityWithin(prTemplate[h], prOffer[h], prBasket[h].count)
  /\ prPc[h] = "ceiling" => prLegs[h] \in PriceLegs

(* As long as nothing changed since the quote began, what was read still is. *)
ReadsCurrent(h) ==
  /\ prPc[h] \in PastTemplate => prTemplate[h] = template
  /\ prPc[h] \in PastOffer => prOffer[h] = offer
  /\ prPc[h] \in PastRate => prRate[h] = commissionRate
  /\ prPc[h] = "ceiling" => prLegs[h] = legFees

PriceNow(b) == PriceFrom(b, template, offer, commissionRate, legFees, legCeiling)

(* The order follows the quote, of the same basket. *)
OrderFollows ==
  /\ prPc["quote"] # "end" => prPc["order"] = "idle" /\ quoted = NoPrice
  /\ prPc["order"] # "end" => placed = NoPrice
  /\ prPc["order"] \notin {"idle", "end"} /\ quoted # NoPrice => prBasket["order"] = quoted.basket
  /\ placed # NoPrice /\ quoted # NoPrice => placed.basket = quoted.basket

Answers ==
  /\ \A p \in {quoted, placed} : p # NoPrice => PriceFits(p)
  /\ placed # NoPrice /\ template.control # "shop" => FreeFor(placed)

StillCurrent ==
  ~pricesMoved =>
    /\ \A h \in Pricers : ReadsCurrent(h)
    /\ \A p \in {quoted, placed} : p # NoPrice => p = PriceNow(p.basket)

PriceInv ==
  /\ DocsInv /\ ReadsTyped /\ OrderFollows /\ Answers /\ StillCurrent /\ pricesMoved \in BOOLEAN
  /\ \A h \in Pricers : ReadsFit(h)

LEMMA PriceInvInit == PriceInit => PriceInv
 <1> SUFFICES ASSUME PriceInit PROVE PriceInv OBVIOUS
 <1>1. template \in PriceTemplates /\ TemplateCoherent(template)
   BY PriceNumbersFit DEF PriceInit, PriceTemplates, TemplateCoherent
 <1>2. legFees \in PriceLegs BY PriceNumbersFit DEF PriceInit, PriceLegs
 <1>3. PriceDocsTyped BY <1>1, <1>2, PriceNumbersFit DEF PriceInit, PriceDocsTyped, PriceOffers
 <1>4. EditorsTyped BY DEF PriceInit, EditorsTyped
 <1>5. DocsInv BY <1>1, <1>3, <1>4 DEF PriceInit, DocsInv, EditorFits, TemplateCoherent, KeptCoherent
 <1>6. ReadsTyped BY DEF PriceInit, ReadsTyped, PriceSteps, PriceOffers
 <1>7. \A h \in Pricers : ReadsFit(h) /\ ReadsCurrent(h)
   BY DEF PriceInit, ReadsFit, ReadsCurrent, PastTemplate, PastOffer, PastRate
 <1>8. OrderFollows BY DEF PriceInit, OrderFollows, Pricers
 <1>9. Answers /\ StillCurrent BY <1>7 DEF PriceInit, Answers, StillCurrent
 <1> QED BY <1>5, <1>6, <1>7, <1>8, <1>9 DEF PriceInit, PriceInv

(* What the invariant says of the property. *)
LEMMA PriceInvSays ==
  ASSUME PriceInv
  PROVE  PricesAreSound
 <1>d. PriceDocsTyped BY DEF PriceInv, DocsInv
 <1>p. \A p \in {quoted, placed} : p # NoPrice => PriceFits(p) BY DEF PriceInv, Answers
 <1>1. PriceTypeOK
  <2>1. ASSUME NEW p \in {quoted, placed}
        PROVE  p.basket \in PriceBaskets \cup {NoBasket} /\ TotalOf(p) \in Nat
   <3>1. CASE p = NoPrice BY <3>1 DEF NoPrice, TotalOf
   <3>2. CASE p # NoPrice BY <3>2, <1>p DEF PriceFits, TotalOf
   <3> QED BY <3>1, <3>2
  <2> QED BY <1>d, <2>1 DEF PriceTypeOK, PriceDocsTyped
 <1>2. QuotedIsPlaced
  <2>1. SUFFICES ASSUME placed # NoPrice, quoted # NoPrice, ~pricesMoved PROVE placed = quoted
    BY DEF QuotedIsPlaced
  <2>2. placed = PriceNow(placed.basket) /\ quoted = PriceNow(quoted.basket)
    BY <2>1 DEF PriceInv, StillCurrent
  <2>3. placed.basket = quoted.basket BY <2>1 DEF PriceInv, OrderFollows
  <2> QED BY <2>2, <2>3
 <1>3. NothingIsFree BY DEF NothingIsFree, PriceInv, Answers, FreeFor
 <1>4. FeesWithinCeiling BY <1>p DEF FeesWithinCeiling, PriceFits
 <1>5. HeavierNeverCheaper
  <2>1. SUFFICES ASSUME NEW b \in PriceBaskets, NEW c \in PriceBaskets, b.weight <= c.weight,
                        b.count = c.count
                 PROVE  LineTotal(Resolved(template, offer), b.weight, b.count)
                          <= LineTotal(Resolved(template, offer), c.weight, c.count)
    BY DEF HeavierNeverCheaper
  <2>2. Resolved(template, offer) \in PriceTerms BY <1>d, ResolvedTerms DEF PriceDocsTyped
  <2>3. b \in BasketTypes /\ c \in BasketTypes BY PriceNumbersFit DEF BasketTypes
  <2>4. PICK w \in Nat, v \in Nat, n \in Nat : w = b.weight /\ v = c.weight /\ n = b.count
    BY <2>3 DEF BasketTypes
  <2> QED BY <2>1, <2>2, <2>4, LineIsSound
 <1>6. OfferWithinGuardrails BY DEF OfferWithinGuardrails, PriceInv, DocsInv, WithinGuardrails
 <1>7. TemplateStaysCoherent BY DEF TemplateStaysCoherent, PriceInv, DocsInv, KeptCoherent
 <1> QED BY <1>1, <1>2, <1>3, <1>4, <1>5, <1>6, <1>7 DEF PricesAreSound

LEMMA DocsStand ==
  ASSUME DocsInv, UNCHANGED <<priceDocs, priceEdits, priceHistory>>
  PROVE  DocsInv'
 <1>1. /\ template' = template /\ offer' = offer /\ legFees' = legFees /\ legCeiling' = legCeiling
       /\ commissionRate' = commissionRate /\ edPc' = edPc /\ edPatch' = edPatch /\ edOffer' = edOffer
       /\ templatesCrossed' = templatesCrossed /\ outrun' = outrun
       /\ capacityNulled' = capacityNulled
   BY DEF priceDocs, priceEdits, priceHistory
 <1>2. PriceDocsTyped' /\ EditorsTyped' BY <1>1 DEF DocsInv, PriceDocsTyped, EditorsTyped
 <1>3. \A e \in PriceEditors : EditorFits(e)' BY <1>1 DEF DocsInv, EditorFits, WithinGuardrails
 <1> QED BY <1>1, <1>2, <1>3 DEF DocsInv, WithinGuardrails, KeptCoherent

(* A price that changes once a quote has begun is a change that is told. *)
LEMMA DocsChange ==
  ASSUME PriceInv, DocsInv', UNCHANGED <<priceReads, quoted, placed>>, PricesMove,
         template'.control = "shop" <=> template.control = "shop"
  PROVE  PriceInv'
 <1>u. UNCHANGED <<prPc, prBasket, prTemplate, prOffer, prRate, prLegs, quoted, placed>>
   BY DEF priceReads
 <1>1. ReadsTyped' /\ OrderFollows' BY <1>u DEF PriceInv, ReadsTyped, OrderFollows
 <1>2. \A h \in Pricers : ReadsFit(h)' BY <1>u DEF PriceInv, ReadsFit
 <1>3. Answers'
  <2>1. \A p \in {quoted, placed} : p # NoPrice => PriceFits(p) BY DEF PriceInv, Answers
  <2>2. placed # NoPrice /\ template'.control # "shop" => FreeFor(placed) BY DEF PriceInv, Answers
  <2> QED BY <1>u, <2>1, <2>2 DEF Answers, PriceFits
 <1>4. StillCurrent'
  <2>1. SUFFICES ASSUME ~pricesMoved'
                 PROVE  /\ \A h \in Pricers : ReadsCurrent(h)'
                        /\ quoted' = NoPrice /\ placed' = NoPrice
    BY DEF StillCurrent
  <2>2. prPc["quote"] = "idle" BY <2>1 DEF PricesMove
  <2>3. prPc["order"] = "idle" /\ quoted = NoPrice /\ placed = NoPrice
    BY <2>2 DEF PriceInv, OrderFollows
  <2>4. \A h \in Pricers : ReadsCurrent(h)'
    BY <1>u, <2>2, <2>3 DEF ReadsCurrent, Pricers, PastTemplate, PastOffer, PastRate
  <2> QED BY <1>u, <2>3, <2>4
 <1>5. pricesMoved' \in BOOLEAN BY DEF PricesMove
 <1> QED BY <1>1, <1>2, <1>3, <1>4, <1>5 DEF PriceInv

LEMMA KeptTerms ==
  ASSUME NEW f \in Offers
  PROVE  /\ KeptOf(f) \in PriceTerms /\ KeptOf(f).model = f.model /\ KeptOf(f).price = f.price
 <1>1. f \in PriceTerms BY PriceNumbersFit DEF PriceTerms
 <1> QED BY <1>1 DEF KeptOf, PriceTerms

(* A patched template of the home washers' is still one. *)
LEMMA TemplatePatched ==
  ASSUME NEW t \in PriceTemplates, NEW p \in TemplatePatches, t.control # "shop"
  PROVE  Patched(t, p) \in PriceTemplates /\ Patched(t, p).control # "shop"
 <1>0. CASE p.value = Null
  <2>1. p.field \in {"price", "size", "excess", "minKg", "min", "max", "control", "model", "allowed"}
    BY PriceNumbersFit DEF AsNull
  <2>2. MostPrice \in Nat /\ 0 \in 0..MostPrice BY PriceNumbersFit
  <2>3. CASE p.field \in {"price", "size", "excess", "minKg"}
    BY <1>0, <2>3 DEF Patched, PriceTemplates, AsNull
  <2>4. CASE p.field \in {"min", "max"} BY <1>0, <2>2, <2>4 DEF Patched, PriceTemplates, AsNull
  <2>5. CASE p.field \in {"control", "model", "allowed"}
    BY <1>0, <2>5 DEF Patched, PriceTemplates, AsNull, PricingModels
  <2> QED BY <2>1, <2>3, <2>4, <2>5
 <1>1. CASE p.value # Null /\ p.field \in {"price", "size", "excess", "minKg", "max"} /\ p.value \in Nat
  <2>1. CASE p.field = "price" BY <1>1, <2>1 DEF Patched, PriceTemplates
  <2>2. CASE p.field = "size" BY <1>1, <2>2 DEF Patched, PriceTemplates
  <2>3. CASE p.field = "excess" BY <1>1, <2>3 DEF Patched, PriceTemplates
  <2>4. CASE p.field = "minKg" BY <1>1, <2>4 DEF Patched, PriceTemplates
  <2>5. CASE p.field = "max" BY <1>1, <2>5 DEF Patched, PriceTemplates
  <2> QED BY <1>1, <2>1, <2>2, <2>3, <2>4, <2>5
 <1>5. CASE p.value # Null /\ p.field = "min" /\ p.value \in 0..MostPrice
   BY <1>5 DEF Patched, PriceTemplates
 <1>2. CASE p.value # Null /\ p.field = "control" /\ p.value \in {"washer", "fixed"}
   BY <1>2 DEF Patched, PriceTemplates
 <1>3. CASE p.value # Null /\ p.field = "model" /\ p.value \in PricingModels BY <1>3 DEF Patched, PriceTemplates
 <1>4. CASE p.value # Null /\ p.field = "allowed" /\ p.value \subseteq PricingModels
   BY <1>4 DEF Patched, PriceTemplates
 <1> QED BY <1>0, <1>1, <1>2, <1>3, <1>4, <1>5, PriceNumbersFit

(* What was checked is what is written, but for a capacity sent as null. *)
LEMMA MergedIsKept ==
  ASSUME NEW t \in PriceTemplates, NEW p \in TemplatePatches, TemplateCoherent(Merged(t, p))
  PROVE  /\ Patched(t, p).min <= Patched(t, p).max
         /\ Patched(t, p).control = "fixed" /\ Patched(t, p).model = "load"
              => Patched(t, p).size > 0 \/ (p.field = "size" /\ p.value = Null)
 <1>1. CASE p.value # Null BY <1>1 DEF Merged, TemplateCoherent
 <1>2. CASE p.value = Null
  <2>1. p.field \in {"price", "size", "excess", "minKg", "min", "max", "control", "model", "allowed"}
    BY PriceNumbersFit DEF AsNull
  <2>2. /\ t.min \in 0..MostPrice /\ t.max \in Nat /\ t.size \in Nat /\ t.min <= t.max
        /\ t.control = "fixed" /\ t.model = "load" => t.size > 0
    BY <1>2 DEF PriceTemplates, Merged, TemplateCoherent
  <2>3. MostPrice \in Nat BY PriceNumbersFit
  <2>4. CASE p.field \in {"price", "excess", "minKg", "allowed"}
   <3>1. /\ Patched(t, p).min = t.min /\ Patched(t, p).max = t.max /\ Patched(t, p).control = t.control
         /\ Patched(t, p).model = t.model /\ Patched(t, p).size = t.size
     BY <2>4 DEF Patched, PriceTemplates
   <3> QED BY <2>2, <3>1
  <2>5. CASE p.field = "size"
   <3>1. Patched(t, p).min = t.min /\ Patched(t, p).max = t.max BY <2>5 DEF Patched, PriceTemplates
   <3> QED BY <1>2, <2>2, <2>5, <3>1
  <2>6. CASE p.field = "min"
   <3>1. /\ Patched(t, p).min = 0 /\ Patched(t, p).max = t.max /\ Patched(t, p).control = t.control
         /\ Patched(t, p).model = t.model /\ Patched(t, p).size = t.size
     BY <1>2, <2>6 DEF Patched, PriceTemplates, AsNull
   <3> QED BY <2>2, <3>1
  <2>7. CASE p.field = "max"
   <3>1. /\ Patched(t, p).min = t.min /\ Patched(t, p).max = MostPrice /\ Patched(t, p).control = t.control
         /\ Patched(t, p).model = t.model /\ Patched(t, p).size = t.size
     BY <1>2, <2>7 DEF Patched, PriceTemplates, AsNull
   <3> QED BY <2>2, <2>3, <3>1
  <2>8. CASE p.field = "control"
   <3>1. Patched(t, p).min = t.min /\ Patched(t, p).max = t.max /\ Patched(t, p).control = "washer"
     BY <1>2, <2>8 DEF Patched, PriceTemplates, AsNull
   <3> QED BY <2>2, <3>1
  <2>9. CASE p.field = "model"
   <3>1. Patched(t, p).min = t.min /\ Patched(t, p).max = t.max /\ Patched(t, p).model = "base"
     BY <1>2, <2>9 DEF Patched, PriceTemplates, AsNull
   <3> QED BY <2>2, <3>1
  <2> QED BY <2>1, <2>4, <2>5, <2>6, <2>7, <2>8, <2>9
 <1> QED BY <1>1, <1>2

(* The steps of those who change prices. *)
LEMMA EditorsMove ==
  ASSUME PriceInv, NEW e \in PriceEditors
  PROVE  /\ \A f \in Offers : BeginOffer(e, f) => PriceInv'
         /\ \A patch \in TemplatePatches : BeginPatch(e, patch) => PriceInv'
         /\ SaveOffer(e) => PriceInv'
         /\ WritePatch(e) => PriceInv'
 <1>d. /\ DocsInv /\ PriceDocsTyped /\ EditorsTyped /\ \A g \in PriceEditors : EditorFits(g)
       /\ offer # NoOffer /\ "offer" \notin outrun => WithinGuardrails(offer)
       /\ ~templatesCrossed => KeptCoherent
   BY DEF PriceInv, DocsInv
 <1>e. "offer" \notin PriceEditors BY PriceNumbersFit
 <1>s. ASSUME DocsInv', UNCHANGED <<priceDocs, priceReads, quoted, placed, pricesMoved>>
       PROVE  PriceInv'
  <2>1. /\ template' = template /\ offer' = offer /\ legFees' = legFees /\ legCeiling' = legCeiling
        /\ commissionRate' = commissionRate /\ prPc' = prPc /\ prBasket' = prBasket
        /\ prTemplate' = prTemplate /\ prOffer' = prOffer /\ prRate' = prRate /\ prLegs' = prLegs
        /\ quoted' = quoted /\ placed' = placed /\ pricesMoved' = pricesMoved
    BY <1>s DEF priceDocs, priceReads
  <2>2. ReadsTyped' /\ OrderFollows' BY <2>1 DEF PriceInv, ReadsTyped, OrderFollows
  <2>3. \A h \in Pricers : ReadsFit(h)' BY <2>1 DEF PriceInv, ReadsFit
  <2>4. Answers' BY <2>1 DEF PriceInv, Answers, PriceFits
  <2>5. StillCurrent'
   <3>1. \A h \in Pricers : ReadsCurrent(h) => ReadsCurrent(h)' BY <2>1 DEF ReadsCurrent
   <3>3. ~pricesMoved => \A h \in Pricers : ReadsCurrent(h) BY DEF PriceInv, StillCurrent
   <3>5. ~pricesMoved =>
           \A p \in {quoted, placed} : p # NoPrice =>
             p = PriceFrom(p.basket, template, offer, commissionRate, legFees, legCeiling)
     BY DEF PriceInv, StillCurrent, PriceNow
   <3> QED BY <2>1, <3>1, <3>3, <3>5 DEF StillCurrent, PriceNow
  <2> QED BY <1>s, <2>1, <2>2, <2>3, <2>4, <2>5 DEF PriceInv
 <1>1. ASSUME NEW f \in Offers, BeginOffer(e, f) PROVE PriceInv'
  <2>1. /\ OfferAllowed(template, f) /\ edPc' = [edPc EXCEPT ![e] = "offer"]
        /\ edOffer' = [edOffer EXCEPT ![e] = KeptOf(f)] /\ edPatch' = edPatch
        /\ UNCHANGED <<priceDocs, priceReads, quoted, placed, pricesMoved, templatesCrossed, capacityNulled, outrun>>
    BY <1>1 DEF BeginOffer, EditBegin
  <2>u. /\ template' = template /\ offer' = offer /\ legFees' = legFees /\ legCeiling' = legCeiling
        /\ commissionRate' = commissionRate
    BY <2>1 DEF priceDocs
  <2>2. WithinGuardrails(KeptOf(f)) BY <2>1, KeptTerms DEF OfferAllowed, WithinGuardrails
  <2>3. PriceDocsTyped' /\ EditorsTyped' BY <2>1, <2>u, <1>d DEF PriceDocsTyped, EditorsTyped
  <2>4. ASSUME NEW g \in PriceEditors PROVE EditorFits(g)'
   <3>1. CASE g = e BY <2>1, <2>2, <2>u, <3>1, <1>d DEF EditorFits, WithinGuardrails, EditorsTyped
   <3>2. CASE g # e BY <2>1, <2>u, <3>2, <1>d DEF EditorFits, WithinGuardrails, EditorsTyped
   <3> QED BY <3>1, <3>2
  <2>5. DocsInv' BY <2>1, <2>u, <2>3, <2>4, <1>d DEF DocsInv, WithinGuardrails, KeptCoherent
  <2> QED BY <2>1, <2>5, <1>s
 <1>2. ASSUME NEW patch \in TemplatePatches, BeginPatch(e, patch) PROVE PriceInv'
  <2>1. /\ template.control # "shop" /\ TemplateCoherent(Merged(template, patch))
        /\ edPc' = [edPc EXCEPT ![e] = "patch"]
        /\ edPatch' = [edPatch EXCEPT ![e] = patch] /\ edOffer' = edOffer
        /\ UNCHANGED <<priceDocs, priceReads, quoted, placed, pricesMoved, templatesCrossed, capacityNulled, outrun>>
    BY <1>2 DEF BeginPatch, EditBegin
  <2>u. /\ template' = template /\ offer' = offer /\ legFees' = legFees /\ legCeiling' = legCeiling
        /\ commissionRate' = commissionRate
    BY <2>1 DEF priceDocs
  <2>3. PriceDocsTyped' /\ EditorsTyped' BY <2>1, <2>u, <1>d DEF PriceDocsTyped, EditorsTyped
  <2>4. ASSUME NEW g \in PriceEditors PROVE EditorFits(g)'
   <3>1. CASE g = e BY <2>1, <2>u, <3>1, <1>d DEF EditorFits, WithinGuardrails, EditorsTyped
   <3>2. CASE g # e BY <2>1, <2>u, <3>2, <1>d DEF EditorFits, WithinGuardrails, EditorsTyped
   <3> QED BY <3>1, <3>2
  <2>5. DocsInv' BY <2>1, <2>u, <2>3, <2>4, <1>d DEF DocsInv, WithinGuardrails, KeptCoherent
  <2> QED BY <2>1, <2>5, <1>s
 <1>3. ASSUME SaveOffer(e) PROVE PriceInv'
  <2>1. /\ edPc[e] = "offer" /\ edPc' = [edPc EXCEPT ![e] = "idle"]
        /\ edPatch' = [edPatch EXCEPT ![e] = NoFee] /\ edOffer' = [edOffer EXCEPT ![e] = NoOffer]
        /\ PricesMove /\ offer' = edOffer[e]
        /\ outrun' = (outrun \ {e, "offer"}) \cup (IF e \in outrun THEN {"offer"} ELSE {})
        /\ template' = template /\ legFees' = legFees /\ legCeiling' = legCeiling
        /\ commissionRate' = commissionRate /\ templatesCrossed' = templatesCrossed
        /\ capacityNulled' = capacityNulled
        /\ UNCHANGED <<priceReads, quoted, placed>>
    BY <1>3 DEF SaveOffer, EditDone
  <2>2. PriceDocsTyped'
   <3>1. edOffer[e] \in {NoOffer} \cup {KeptOf(f) : f \in Offers} BY <1>d DEF EditorsTyped
   <3>2. edOffer[e] \in PriceOffers BY <3>1, KeptTerms DEF PriceOffers
   <3> QED BY <2>1, <3>1, <3>2, <1>d DEF PriceDocsTyped
  <2>3. EditorsTyped' BY <2>1, <1>d DEF EditorsTyped
  <2>4. ASSUME NEW g \in PriceEditors PROVE EditorFits(g)'
   <3>1. CASE g = e BY <2>1, <3>1, <1>d DEF EditorFits, EditorsTyped
   <3>2. CASE g # e
    <4>1. g \notin outrun' => g \notin outrun BY <2>1, <3>2, <1>e
    <4> QED BY <2>1, <3>2, <4>1, <1>d DEF EditorFits, WithinGuardrails, EditorsTyped
   <3> QED BY <3>1, <3>2
  <2>5. "offer" \notin outrun' => WithinGuardrails(edOffer[e])
   <3>1. "offer" \notin outrun' => e \notin outrun BY <2>1
   <3> QED BY <2>1, <3>1, <1>d DEF EditorFits
  <2>6. DocsInv' BY <2>1, <2>2, <2>3, <2>4, <2>5, <1>d DEF DocsInv, WithinGuardrails, KeptCoherent
  <2> QED BY <2>1, <2>6, DocsChange
 <1>4. ASSUME WritePatch(e) PROVE PriceInv'
  <2>1. /\ edPc[e] = "patch" /\ edPc' = [edPc EXCEPT ![e] = "idle"]
        /\ edPatch' = [edPatch EXCEPT ![e] = NoFee] /\ edOffer' = [edOffer EXCEPT ![e] = NoOffer]
        /\ PricesMove /\ offer' = offer /\ template' = Patched(template, edPatch[e])
        /\ templatesCrossed' = (templatesCrossed \/ \E g \in PriceEditors \ {e} : edPc[g] = "patch")
        /\ capacityNulled' = IF edPatch[e].field = "size" THEN edPatch[e].value = Null ELSE capacityNulled
        /\ outrun' = {g \in PriceEditors : edPc[g] = "offer"} \cup (IF offer = NoOffer THEN {} ELSE {"offer"})
        /\ legFees' = legFees /\ legCeiling' = legCeiling /\ commissionRate' = commissionRate
        /\ UNCHANGED <<priceReads, quoted, placed>>
    BY <1>4 DEF WritePatch, EditDone
  <2>2. /\ edPatch[e] \in TemplatePatches /\ template.control # "shop"
        /\ ~templatesCrossed => TemplateCoherent(Merged(template, edPatch[e]))
    BY <2>1, <1>d DEF EditorFits
  <2>3. template' \in PriceTemplates /\ template'.control # "shop"
    BY <2>1, <2>2, <1>d, TemplatePatched DEF PriceDocsTyped
  <2>4. PriceDocsTyped' /\ EditorsTyped' BY <2>1, <2>3, <1>d DEF PriceDocsTyped, EditorsTyped
  <2>5. ASSUME NEW g \in PriceEditors PROVE EditorFits(g)'
   <3>1. CASE g = e BY <2>1, <3>1, <1>d DEF EditorFits, EditorsTyped
   <3>2. CASE g # e
    <4>1. edPc'[g] = edPc[g] /\ edPatch'[g] = edPatch[g] BY <2>1, <3>2, <1>d DEF EditorsTyped
    <4>2. edPc[g] = "offer" => g \in outrun' BY <2>1
    <4>3. edPc[g] = "patch" => templatesCrossed' BY <2>1, <3>2
    <4>4. edPc[g] = "patch" => edPatch[g] \in TemplatePatches BY <1>d DEF EditorFits
    <4> QED BY <2>3, <4>1, <4>2, <4>3, <4>4 DEF EditorFits
   <3> QED BY <3>1, <3>2
  <2>6. ~templatesCrossed' => KeptCoherent'
   <3>1. SUFFICES ASSUME ~templatesCrossed PROVE KeptCoherent' BY <2>1
   <3>2. template \in PriceTemplates BY <1>d DEF PriceDocsTyped
   <3>3. /\ template'.min <= template'.max
         /\ template'.control = "fixed" /\ template'.model = "load"
              => template'.size > 0 \/ (edPatch[e].field = "size" /\ edPatch[e].value = Null)
     BY <2>1, <2>2, <3>1, <3>2, MergedIsKept
   <3>4. edPatch[e].field = "size" /\ edPatch[e].value = Null => capacityNulled' BY <2>1
   <3> QED BY <3>3, <3>4 DEF KeptCoherent
  <2>7. offer' # NoOffer => "offer" \in outrun' BY <2>1
  <2>8. DocsInv' BY <2>4, <2>5, <2>6, <2>7 DEF DocsInv
  <2> QED BY <2>1, <2>2, <2>3, <2>8, DocsChange
 <1> QED BY <1>1, <1>2, <1>3, <1>4

LEMMA PricesChange ==
  ASSUME PriceInv, RemoveOffer \/ SetTemplateActive \/ PlatformPublishes
                     \/ \E leg \in {"pickup", "delivery"}, fee \in LegFees : UpdateFulfillmentPricing(leg, fee)
  PROVE  PriceInv'
 <1>d. /\ DocsInv /\ PriceDocsTyped /\ EditorsTyped /\ \A g \in PriceEditors : EditorFits(g)
       /\ offer # NoOffer /\ "offer" \notin outrun => WithinGuardrails(offer)
       /\ ~templatesCrossed => KeptCoherent
   BY DEF PriceInv, DocsInv
 <1>s. ASSUME PriceDocsTyped', UNCHANGED <<edPc, edPatch, edOffer, templatesCrossed, capacityNulled>>,
              \A e \in PriceEditors : e \in outrun' <=> e \in outrun,
              offer' # NoOffer => offer' = offer /\ outrun' = outrun,
              \/ template' = template
              \/ template' = [template EXCEPT !.active = ~@]
       PROVE  DocsInv' /\ (template'.control = "shop" <=> template.control = "shop")
  <2>t. template \in PriceTemplates BY <1>d DEF PriceDocsTyped
  <2>1. /\ template'.control = template.control /\ template'.allowed = template.allowed
        /\ template'.min = template.min /\ template'.max = template.max
        /\ template'.model = template.model /\ template'.size = template.size
    BY <1>s, <2>t DEF PriceTemplates
  <2>2. \A f : WithinGuardrails(f) => WithinGuardrails(f)' BY <2>1 DEF WithinGuardrails
  <2>3. KeptCoherent' <=> KeptCoherent BY <2>1, <1>s DEF KeptCoherent
  <2>4. ASSUME NEW p \in TemplatePatches, TemplateCoherent(Merged(template, p))
        PROVE  TemplateCoherent(Merged(template', p))
   <3>0. CASE p.value = Null BY <2>1, <2>4, <3>0 DEF Merged, TemplateCoherent
   <3>1. CASE template' = template BY <2>4, <3>1
   <3>2. CASE p.value # Null /\ template' = [template EXCEPT !.active = ~@]
    <4>1. p.field \in {"price", "size", "excess", "minKg", "min", "max", "control", "model", "allowed"}
      BY PriceNumbersFit DEF AsNull
    <4>2. /\ Patched(template', p).control = Patched(template, p).control
          /\ Patched(template', p).min = Patched(template, p).min
          /\ Patched(template', p).max = Patched(template, p).max
          /\ Patched(template', p).model = Patched(template, p).model
          /\ Patched(template', p).size = Patched(template, p).size
      BY <3>2, <4>1, <2>t DEF Patched, PriceTemplates
    <4> QED BY <2>4, <3>2, <4>2 DEF TemplateCoherent, Merged
   <3> QED BY <3>0, <3>1, <3>2, <1>s
  <2>5. ASSUME NEW e \in PriceEditors PROVE EditorFits(e)'
   <3>1. EditorFits(e) BY <1>d
   <3> QED BY <1>s, <2>1, <2>2, <2>4, <3>1 DEF EditorFits, WithinGuardrails
  <2>6. EditorsTyped' BY <1>s, <1>d DEF EditorsTyped
  <2>7. offer' # NoOffer /\ "offer" \notin outrun' => WithinGuardrails(offer)'
    BY <1>s, <2>1, <1>d DEF WithinGuardrails
  <2> QED BY <1>s, <1>d, <2>1, <2>3, <2>5, <2>6, <2>7 DEF DocsInv, WithinGuardrails, KeptCoherent
 <1>e. "offer" \notin PriceEditors BY PriceNumbersFit
 <1>1. CASE RemoveOffer
  <2>1. /\ offer' = NoOffer /\ outrun' = outrun \ {"offer"} /\ PricesMove
        /\ template' = template /\ legFees' = legFees /\ legCeiling' = legCeiling
        /\ commissionRate' = commissionRate /\ templatesCrossed' = templatesCrossed
        /\ capacityNulled' = capacityNulled
        /\ edPc' = edPc /\ edPatch' = edPatch /\ edOffer' = edOffer
        /\ UNCHANGED <<priceReads, quoted, placed>>
    BY <1>1 DEF RemoveOffer, priceEdits
  <2>2. PriceDocsTyped' BY <2>1, <1>d DEF PriceDocsTyped, PriceOffers
  <2>3. DocsInv' BY <2>1, <2>2, <1>s, <1>e
  <2> QED BY <2>1, <2>3, DocsChange
 <1>c. ASSUME ChangePrices, legFees' \in PriceLegs, legCeiling' \in Ceilings, commissionRate' \in Commissions,
              template' \in PriceTemplates,
              template' = template \/ template' = [template EXCEPT !.active = ~@]
       PROVE  PriceInv'
  <2>1. /\ offer' = offer /\ outrun' = outrun /\ PricesMove /\ templatesCrossed' = templatesCrossed
        /\ capacityNulled' = capacityNulled
        /\ edPc' = edPc /\ edPatch' = edPatch /\ edOffer' = edOffer
        /\ UNCHANGED <<priceReads, quoted, placed>>
    BY <1>c DEF ChangePrices, priceEdits
  <2>2. PriceDocsTyped' BY <2>1, <1>c, <1>d DEF PriceDocsTyped
  <2>3. DocsInv' /\ (template'.control = "shop" <=> template.control = "shop") BY <2>1, <2>2, <1>c, <1>s
  <2> QED BY <2>1, <2>3, DocsChange
 <1>t. /\ template \in PriceTemplates /\ legFees \in PriceLegs /\ legCeiling \in Ceilings
       /\ commissionRate \in Commissions
   BY <1>d DEF PriceDocsTyped
 <1>2. CASE SetTemplateActive
  <2>1. [template EXCEPT !.active = ~@] \in PriceTemplates BY <1>t DEF PriceTemplates
  <2> QED BY <1>2, <2>1, <1>c, <1>t DEF SetTemplateActive
 <1>3. CASE PlatformPublishes
  <2>1. legCeiling' \in Ceilings /\ commissionRate' \in Commissions
    BY <1>3, <1>t DEF PlatformPublishes
  <2> QED BY <1>3, <2>1, <1>c, <1>t DEF PlatformPublishes
 <1>4. ASSUME NEW leg \in {"pickup", "delivery"}, NEW fee \in LegFees, UpdateFulfillmentPricing(leg, fee)
       PROVE  PriceInv'
  <2>1. [legFees EXCEPT ![leg] = fee] \in PriceLegs
   <3>1. fee \in LegAmounts BY PriceNumbersFit
   <3>2. CASE leg = "pickup" BY <3>1, <3>2, <1>t DEF PriceLegs
   <3>3. CASE leg = "delivery" BY <3>1, <3>3, <1>t DEF PriceLegs
   <3> QED BY <3>2, <3>3
  <2> QED BY <1>4, <2>1, <1>c, <1>t DEF UpdateFulfillmentPricing
 <1> QED BY <1>1, <1>2, <1>3, <1>4

(* The steps of the quote and the order. *)
ReadsKept(g) ==
  /\ prPc'[g] = prPc[g] /\ prBasket'[g] = prBasket[g] /\ prTemplate'[g] = prTemplate[g]
  /\ prOffer'[g] = prOffer[g] /\ prRate'[g] = prRate[g] /\ prLegs'[g] = prLegs[g]

LEMMA PricerMoves ==
  ASSUME PriceInv, NEW h \in Pricers, UNCHANGED <<priceDocs, quoted, placed, priceEdits, priceHistory>>,
         ReadsTyped', \A g \in Pricers \ {h} : ReadsKept(g),
         ReadsFit(h)', ~pricesMoved => ReadsCurrent(h)', OrderFollows'
  PROVE  PriceInv'
 <1>1. DocsInv' BY DocsStand DEF PriceInv
 <1>u. /\ template' = template /\ offer' = offer /\ legFees' = legFees /\ legCeiling' = legCeiling
       /\ commissionRate' = commissionRate /\ pricesMoved' = pricesMoved
       /\ quoted' = quoted /\ placed' = placed
   BY DEF priceDocs, priceHistory
 <1>2. ASSUME NEW g \in Pricers \ {h} PROVE ReadsFit(g)' /\ (~pricesMoved => ReadsCurrent(g)')
  <2>1. ReadsFit(g) /\ (~pricesMoved => ReadsCurrent(g)) /\ ReadsKept(g)
    BY DEF PriceInv, StillCurrent
  <2> QED BY <2>1, <1>u DEF ReadsFit, ReadsCurrent, ReadsKept
 <1>3. Answers' BY <1>u DEF PriceInv, Answers, PriceFits
 <1>4. StillCurrent'
  <2>1. ~pricesMoved => \A p \in {quoted, placed} : p # NoPrice =>
          p = PriceFrom(p.basket, template, offer, commissionRate, legFees, legCeiling)
    BY DEF PriceInv, StillCurrent, PriceNow
  <2>2. ~pricesMoved => \A g \in Pricers : ReadsCurrent(g)' BY <1>2
  <2> QED BY <1>u, <2>1, <2>2 DEF StillCurrent, PriceNow
 <1>5. \A g \in Pricers : ReadsFit(g)' BY <1>2
 <1> QED BY <1>1, <1>u, <1>3, <1>4, <1>5 DEF PriceInv

LEMMA PricerReads ==
  ASSUME PriceInv, NEW h \in Pricers
  PROVE  /\ \A b \in PriceBaskets : AskPrice(h, b) => PriceInv'
         /\ ReadTemplate(h) => PriceInv'
         /\ ReadOffer(h) => PriceInv'
         /\ ReadRate(h) => PriceInv'
         /\ ReadLegs(h) => PriceInv'
 <1>t. /\ prPc \in [Pricers -> PriceSteps]
       /\ prBasket \in [Pricers -> PriceBaskets \cup {NoBasket}]
       /\ prTemplate \in [Pricers -> PriceTemplates \cup {NoOffer}] /\ prOffer \in [Pricers -> PriceOffers]
       /\ prRate \in [Pricers -> Nat] /\ prLegs \in [Pricers -> PriceLegs \cup {NoFee}]
       /\ template \in PriceTemplates /\ offer \in PriceOffers /\ legFees \in PriceLegs
       /\ commissionRate \in Nat
   BY PriceNumbersFit DEF PriceInv, ReadsTyped, DocsInv, PriceDocsTyped
 <1>f. ReadsFit(h) /\ (~pricesMoved => ReadsCurrent(h)) /\ OrderFollows
   BY DEF PriceInv, StillCurrent
 <1>w. {"template", "offer", "rate", "legs", "ceiling", "end"} \subseteq PriceSteps BY DEF PriceSteps
 <1>u. ASSUME UNCHANGED priceDocs
       PROVE  /\ template' = template /\ offer' = offer /\ legFees' = legFees
              /\ commissionRate' = commissionRate
   BY <1>u DEF priceDocs
 <1>o. ASSUME NEW at \in PriceSteps \ {"idle"}, PriceGoto(h, at), prPc[h] \notin {"idle", "end"},
              UNCHANGED <<prBasket, quoted, placed>>
       PROVE  OrderFollows'
  <2>1. /\ \A g \in Pricers : prPc'[g] = IF g = h THEN at ELSE prPc[g]
        /\ prBasket' = prBasket /\ quoted' = quoted /\ placed' = placed
    BY <1>o, <1>t DEF PriceGoto
  <2>2. CASE h = "quote"
   <3>1. prPc["quote"] # "end" BY <1>o, <2>2
   <3>2. prPc["order"] = "idle" /\ quoted = NoPrice /\ placed = NoPrice
     BY <3>1, <1>f DEF OrderFollows
   <3>3. prPc'["order"] = "idle" BY <2>1, <2>2, <3>2 DEF Pricers
   <3> QED BY <2>1, <3>2, <3>3 DEF OrderFollows
  <2>3. CASE h = "order"
   <3>1. prPc["order"] \notin {"idle", "end"} /\ prPc'["quote"] = prPc["quote"]
     BY <1>o, <2>1, <2>3 DEF Pricers
   <3>2. prPc["quote"] = "end" /\ placed = NoPrice BY <3>1, <1>f DEF OrderFollows
   <3> QED BY <2>1, <3>1, <3>2, <1>f DEF OrderFollows
  <2> QED BY <2>2, <2>3 DEF Pricers
 <1>1. ASSUME NEW b \in PriceBaskets, AskPrice(h, b) PROVE PriceInv'
  <2>1. /\ prPc[h] = "idle" /\ prPc' = [prPc EXCEPT ![h] = "template"]
        /\ prBasket' = [prBasket EXCEPT ![h] = b]
        /\ prTemplate' = prTemplate /\ prOffer' = prOffer /\ prRate' = prRate /\ prLegs' = prLegs
        /\ h = "order" => prPc["quote"] = "end" /\ quoted.basket \in {NoBasket, b}
        /\ UNCHANGED <<priceDocs, quoted, placed, priceEdits, priceHistory>>
    BY <1>1 DEF AskPrice, PriceGoto
  <2>2. ReadsTyped' BY <2>1, <1>t, <1>w DEF ReadsTyped
  <2>3. \A g \in Pricers \ {h} : ReadsKept(g) BY <2>1, <1>t DEF ReadsKept
  <2>4. ReadsFit(h)' /\ ReadsCurrent(h)'
    BY <2>1, <1>t DEF ReadsFit, ReadsCurrent, PastTemplate, PastOffer, PastRate
  <2>5. OrderFollows'
   <3>1. CASE h = "quote"
    <4>1. prPc["order"] = "idle" /\ quoted = NoPrice /\ placed = NoPrice
      BY <2>1, <3>1, <1>f DEF OrderFollows
    <4>2. prPc'["order"] = "idle" BY <2>1, <3>1, <4>1, <1>t DEF Pricers
    <4> QED BY <2>1, <4>1, <4>2 DEF OrderFollows
   <3>2. CASE h = "order"
    <4>1. /\ prPc["quote"] = "end" /\ prPc'["quote"] = "end" /\ placed = NoPrice
          /\ prBasket'["order"] = b
      BY <2>1, <3>2, <1>t, <1>f DEF OrderFollows, Pricers
    <4>2. quoted # NoPrice => quoted.basket = b
     <5>1. quoted # NoPrice => quoted.basket # NoBasket BY DEF PriceInv, Answers, PriceFits
     <5> QED BY <5>1, <2>1, <3>2
    <4> QED BY <2>1, <4>1, <4>2 DEF OrderFollows
   <3> QED BY <3>1, <3>2 DEF Pricers
  <2> QED BY <2>1, <2>2, <2>3, <2>4, <2>5, PricerMoves
 <1>2. ASSUME ReadTemplate(h) PROVE PriceInv'
  <2>1. /\ prPc[h] = "template" /\ prBasket' = prBasket
        /\ prOffer' = prOffer /\ prRate' = prRate /\ prLegs' = prLegs
        /\ UNCHANGED <<priceDocs, quoted, placed, priceEdits, priceHistory>>
        /\ \/ PriceGoto(h, "offer") /\ prTemplate' = [prTemplate EXCEPT ![h] = template]
           \/ PriceGoto(h, "end") /\ prTemplate' = prTemplate
    BY <1>2 DEF ReadTemplate
  <2>2. ReadsTyped' BY <2>1, <1>t, <1>w DEF ReadsTyped, PriceGoto
  <2>3. \A g \in Pricers \ {h} : ReadsKept(g) BY <2>1, <1>t DEF ReadsKept, PriceGoto
  <2>4. ReadsFit(h)' /\ ReadsCurrent(h)'
    BY <2>1, <1>t, <1>f, <1>u
       DEF PriceGoto, ReadsFit, ReadsCurrent, PastTemplate, PastOffer, PastRate
  <2>5. OrderFollows' BY <2>1, <1>o, <1>w
  <2> QED BY <2>1, <2>2, <2>3, <2>4, <2>5, PricerMoves
 <1>3. ASSUME ReadOffer(h) PROVE PriceInv'
  <2>1. /\ prPc[h] = "offer" /\ prBasket' = prBasket
        /\ prTemplate' = prTemplate /\ prRate' = prRate /\ prLegs' = prLegs
        /\ UNCHANGED <<priceDocs, quoted, placed, priceEdits, priceHistory>>
        /\ \/ /\ PriceGoto(h, "rate") /\ prOffer' = [prOffer EXCEPT ![h] = offer]
              /\ QuantityWithin(prTemplate[h], offer, prBasket[h].count)
           \/ PriceGoto(h, "end") /\ prOffer' = prOffer
    BY <1>3 DEF ReadOffer
  <2>2. ReadsTyped' BY <2>1, <1>t, <1>w DEF ReadsTyped, PriceGoto
  <2>3. \A g \in Pricers \ {h} : ReadsKept(g) BY <2>1, <1>t DEF ReadsKept, PriceGoto
  <2>4. ReadsFit(h)' /\ (~pricesMoved => ReadsCurrent(h)')
   <3>1. CASE PriceGoto(h, "rate") /\ prOffer' = [prOffer EXCEPT ![h] = offer]
                /\ QuantityWithin(prTemplate[h], offer, prBasket[h].count)
    <4>1. prPc'[h] = "rate" /\ prOffer'[h] = offer BY <3>1, <1>t DEF PriceGoto
    <4> QED BY <2>1, <3>1, <4>1, <1>t, <1>f, <1>u
            DEF ReadsFit, ReadsCurrent, PastTemplate, PastOffer, PastRate
   <3>2. CASE PriceGoto(h, "end") /\ prOffer' = prOffer
    <4>1. prPc'[h] = "end" BY <3>2, <1>t DEF PriceGoto
    <4> QED BY <4>1 DEF ReadsFit, ReadsCurrent, PastTemplate, PastOffer, PastRate
   <3> QED BY <2>1, <3>1, <3>2
  <2>5. OrderFollows' BY <2>1, <1>o, <1>w
  <2> QED BY <2>1, <2>2, <2>3, <2>4, <2>5, PricerMoves
 <1>4. ASSUME ReadRate(h) PROVE PriceInv'
  <2>1. /\ prPc[h] = "rate" /\ prBasket' = prBasket /\ PriceGoto(h, "legs")
        /\ prTemplate' = prTemplate /\ prOffer' = prOffer /\ prLegs' = prLegs
        /\ prRate' = [prRate EXCEPT ![h] = commissionRate]
        /\ UNCHANGED <<priceDocs, quoted, placed, priceEdits, priceHistory>>
    BY <1>4 DEF ReadRate
  <2>2. ReadsTyped' BY <2>1, <1>t, <1>w DEF ReadsTyped, PriceGoto
  <2>3. \A g \in Pricers \ {h} : ReadsKept(g) BY <2>1, <1>t DEF ReadsKept, PriceGoto
  <2>4. ReadsFit(h)' /\ (~pricesMoved => ReadsCurrent(h)')
   <3>1. prPc'[h] = "legs" /\ prRate'[h] = commissionRate BY <2>1, <1>t DEF PriceGoto
   <3> QED BY <2>1, <3>1, <1>f, <1>u
           DEF ReadsFit, ReadsCurrent, PastTemplate, PastOffer, PastRate
  <2>5. OrderFollows' BY <2>1, <1>o, <1>w
  <2> QED BY <2>1, <2>2, <2>3, <2>4, <2>5, PricerMoves
 <1>5. ASSUME ReadLegs(h) PROVE PriceInv'
  <2>1. /\ prPc[h] = "legs" /\ prBasket' = prBasket /\ PriceGoto(h, "ceiling")
        /\ prTemplate' = prTemplate /\ prOffer' = prOffer /\ prRate' = prRate
        /\ prLegs' = [prLegs EXCEPT ![h] = legFees]
        /\ UNCHANGED <<priceDocs, quoted, placed, priceEdits, priceHistory>>
    BY <1>5 DEF ReadLegs
  <2>2. ReadsTyped' BY <2>1, <1>t, <1>w DEF ReadsTyped, PriceGoto
  <2>3. \A g \in Pricers \ {h} : ReadsKept(g) BY <2>1, <1>t DEF ReadsKept, PriceGoto
  <2>4. ReadsFit(h)' /\ (~pricesMoved => ReadsCurrent(h)')
   <3>1. prPc'[h] = "ceiling" /\ prLegs'[h] = legFees BY <2>1, <1>t DEF PriceGoto
   <3> QED BY <2>1, <3>1, <1>t, <1>f, <1>u
           DEF ReadsFit, ReadsCurrent, PastTemplate, PastOffer, PastRate
  <2>5. OrderFollows' BY <2>1, <1>o, <1>w
  <2> QED BY <2>1, <2>2, <2>3, <2>4, <2>5, PricerMoves
 <1> QED BY <1>1, <1>2, <1>3, <1>4, <1>5

(* The price that is answered, from all that was read. *)
LEMMA PriceAnswered ==
  ASSUME PriceInv, NEW h \in Pricers, prPc[h] = "ceiling"
  PROVE  LET p == Price(h, legCeiling) IN
         /\ PriceFits(p) /\ p.basket = prBasket[h]
         /\ template.control # "shop" => FreeFor(p)
         /\ ~pricesMoved => p = PriceFrom(p.basket, template, offer, commissionRate, legFees, legCeiling)
 <1> DEFINE p == PriceFrom(prBasket[h], prTemplate[h], prOffer[h], prRate[h], prLegs[h], legCeiling)
 <1>1. Price(h, legCeiling) = p BY PriceIsFrom
 <1>2. /\ ReadsFit(h) /\ (~pricesMoved => ReadsCurrent(h)) /\ prOffer[h] \in PriceOffers
       /\ prRate[h] \in Nat /\ legCeiling \in Nat
   BY PriceNumbersFit DEF PriceInv, StillCurrent, ReadsTyped, DocsInv, PriceDocsTyped
 <1>3. /\ prBasket[h] \in PriceBaskets /\ prTemplate[h] \in PriceTemplates /\ prLegs[h] \in PriceLegs
       /\ QuantityWithin(prTemplate[h], prOffer[h], prBasket[h].count)
       /\ prTemplate[h].control = "shop" <=> template.control = "shop"
   BY <1>2 DEF ReadsFit, PastTemplate, PastOffer
 <1>4. PriceFits(p) BY <1>2, <1>3, PriceFromFits
 <1>5. p.basket = prBasket[h] BY DEF PriceFrom
 <1>6. template.control # "shop" => FreeFor(p) BY <1>2, <1>3, PriceFromIsNotFree
 <1>7. ~pricesMoved => /\ prTemplate[h] = template /\ prOffer[h] = offer
                       /\ prRate[h] = commissionRate /\ prLegs[h] = legFees
   BY <1>2 DEF ReadsCurrent, PastTemplate, PastOffer, PastRate
 <1>8. ~pricesMoved => p = PriceFrom(p.basket, template, offer, commissionRate, legFees, legCeiling)
   BY <1>5, <1>7
 <1> HIDE DEF p
 <1> QED BY <1>1, <1>4, <1>5, <1>6, <1>8

LEMMA PricerAnswers ==
  ASSUME PriceInv, QuoteOrder \/ PlaceOrder
  PROVE  PriceInv'
 <1>t. /\ prPc \in [Pricers -> PriceSteps]
       /\ prBasket \in [Pricers -> PriceBaskets \cup {NoBasket}]
       /\ prTemplate \in [Pricers -> PriceTemplates \cup {NoOffer}] /\ prOffer \in [Pricers -> PriceOffers]
       /\ prRate \in [Pricers -> Nat] /\ prLegs \in [Pricers -> PriceLegs \cup {NoFee}]
   BY DEF PriceInv, ReadsTyped
 <1>f. ASSUME NEW h \in Pricers, PriceForget(h),
              UNCHANGED <<priceDocs, priceEdits, priceHistory>>
       PROVE  /\ DocsInv' /\ ReadsTyped' /\ \A g \in Pricers : ReadsFit(g)'
              /\ ~pricesMoved => \A g \in Pricers : ReadsCurrent(g)'
              /\ prPc' = [prPc EXCEPT ![h] = "end"] /\ prBasket' = [prBasket EXCEPT ![h] = NoBasket]
              /\ template' = template /\ offer' = offer /\ legFees' = legFees /\ legCeiling' = legCeiling
              /\ commissionRate' = commissionRate /\ pricesMoved' = pricesMoved
  <2>1. /\ prPc' = [prPc EXCEPT ![h] = "end"] /\ prBasket' = [prBasket EXCEPT ![h] = NoBasket]
        /\ prTemplate' = [prTemplate EXCEPT ![h] = NoOffer] /\ prOffer' = [prOffer EXCEPT ![h] = NoOffer]
        /\ prRate' = [prRate EXCEPT ![h] = 0] /\ prLegs' = [prLegs EXCEPT ![h] = NoFee]
    BY <1>f DEF PriceForget, PriceGoto
  <2>2. /\ template' = template /\ offer' = offer /\ legFees' = legFees /\ legCeiling' = legCeiling
        /\ commissionRate' = commissionRate /\ pricesMoved' = pricesMoved
    BY <1>f DEF priceDocs, priceHistory
  <2>3. DocsInv' BY <1>f, DocsStand DEF PriceInv
  <2>4. ReadsTyped' BY <2>1, <1>t DEF ReadsTyped, PriceSteps, PriceOffers
  <2>5. ASSUME NEW g \in Pricers PROVE ReadsFit(g)' /\ (~pricesMoved => ReadsCurrent(g)')
   <3>1. CASE g = h
     BY <2>1, <3>1, <1>t DEF ReadsFit, ReadsCurrent, PastTemplate, PastOffer, PastRate
   <3>2. CASE g # h
    <4>1. ReadsKept(g) BY <2>1, <3>2, <1>t DEF ReadsKept
    <4>2. ReadsFit(g) /\ (~pricesMoved => ReadsCurrent(g)) BY DEF PriceInv, StillCurrent
    <4> QED BY <4>1, <4>2, <2>2 DEF ReadsFit, ReadsCurrent, ReadsKept
   <3> QED BY <3>1, <3>2
  <2> QED BY <2>1, <2>2, <2>3, <2>4, <2>5
 <1>o. OrderFollows /\ Answers BY DEF PriceInv
 <1>s. ~pricesMoved => \A p \in {quoted, placed} : p # NoPrice =>
         p = PriceFrom(p.basket, template, offer, commissionRate, legFees, legCeiling)
   BY DEF PriceInv, StillCurrent, PriceNow
 <1>b. pricesMoved \in BOOLEAN BY DEF PriceInv
 <1>1. CASE QuoteOrder
  <2>1. /\ prPc["quote"] = "ceiling" /\ PriceForget("quote") /\ placed' = placed
        /\ quoted' \in {NoPrice, Price("quote", legCeiling)}
        /\ UNCHANGED <<priceDocs, priceEdits, priceHistory>> /\ "quote" \in Pricers
    BY <1>1 DEF QuoteOrder, Pricers
  <2>2. PICK p : /\ p = Price("quote", legCeiling) /\ PriceFits(p)
                 /\ ~pricesMoved => p = PriceFrom(p.basket, template, offer, commissionRate, legFees, legCeiling)
    BY <2>1, PriceAnswered
  <2>3. prPc["order"] = "idle" /\ placed = NoPrice BY <2>1, <1>o DEF OrderFollows
  <2>f. /\ DocsInv' /\ ReadsTyped' /\ \A g \in Pricers : ReadsFit(g)'
        /\ ~pricesMoved => \A g \in Pricers : ReadsCurrent(g)'
        /\ prPc' = [prPc EXCEPT !["quote"] = "end"]
        /\ template' = template /\ offer' = offer /\ legFees' = legFees /\ legCeiling' = legCeiling
        /\ commissionRate' = commissionRate /\ pricesMoved' = pricesMoved
    BY <2>1, <1>f
  <2>4. prPc'["quote"] = "end" /\ prPc'["order"] = "idle" BY <2>1, <2>3, <2>f, <1>t DEF Pricers
  <2>5. OrderFollows' BY <2>1, <2>3, <2>4 DEF OrderFollows
  <2>6. Answers' BY <2>1, <2>2, <2>3 DEF Answers, PriceFits
  <2>7. StillCurrent' BY <2>1, <2>2, <2>3, <2>f DEF StillCurrent, PriceNow
  <2> QED BY <2>f, <2>5, <2>6, <2>7, <1>b DEF PriceInv
 <1>2. CASE PlaceOrder
  <2>1. /\ prPc["order"] = "ceiling" /\ PriceForget("order") /\ quoted' = quoted
        /\ placed' \in {NoPrice, Price("order", legCeiling)}
        /\ UNCHANGED <<priceDocs, priceEdits, priceHistory>> /\ "order" \in Pricers
    BY <1>2 DEF PlaceOrder, Pricers
  <2>2. PICK p : /\ p = Price("order", legCeiling) /\ PriceFits(p) /\ p.basket = prBasket["order"]
                 /\ template.control # "shop" => FreeFor(p)
                 /\ ~pricesMoved => p = PriceFrom(p.basket, template, offer, commissionRate, legFees, legCeiling)
    BY <2>1, PriceAnswered
  <2>3. /\ prPc["quote"] = "end"
        /\ quoted # NoPrice => prBasket["order"] = quoted.basket
    BY <2>1, <1>o DEF OrderFollows
  <2>f. /\ DocsInv' /\ ReadsTyped' /\ \A g \in Pricers : ReadsFit(g)'
        /\ ~pricesMoved => \A g \in Pricers : ReadsCurrent(g)'
        /\ prPc' = [prPc EXCEPT !["order"] = "end"]
        /\ template' = template /\ offer' = offer /\ legFees' = legFees /\ legCeiling' = legCeiling
        /\ commissionRate' = commissionRate /\ pricesMoved' = pricesMoved
    BY <2>1, <1>f
  <2>4. prPc'["quote"] = "end" /\ prPc'["order"] = "end" BY <2>1, <2>3, <2>f, <1>t DEF Pricers
  <2>5. OrderFollows' BY <2>1, <2>2, <2>3, <2>4 DEF OrderFollows
  <2>6. Answers' BY <2>1, <2>2, <2>f, <1>o DEF Answers, PriceFits
  <2>7. StillCurrent' BY <2>1, <2>2, <2>f, <1>s DEF StillCurrent, PriceNow
  <2> QED BY <2>f, <2>5, <2>6, <2>7, <1>b DEF PriceInv
 <1> QED BY <1>1, <1>2

(* The price a customer is quoted is the one she places, as long as nothing
   changed since she asked: each is computed from five reads of its own.
   And for every template, offer, basket, fee and ceiling the API lets in, a
   home washer's line comes to nothing only when the terms say so, a heavier
   basket is never cheaper, no leg costs more than the ceiling, and offers
   and templates keep the limits they were checked against. *)
THEOREM PricesSound == PriceSpec => []PricesAreSound
 <1>1. PriceInv /\ [PriceNext]_priceVars => PriceInv'
  <2> SUFFICES ASSUME PriceInv, [PriceNext]_priceVars PROVE PriceInv' OBVIOUS
  <2>1. ASSUME NEW h \in Pricers, NEW b \in PriceBaskets, AskPrice(h, b) PROVE PriceInv'
    BY <2>1, PricerReads
  <2>2. ASSUME NEW h \in Pricers, ReadTemplate(h) \/ ReadOffer(h) \/ ReadRate(h) \/ ReadLegs(h)
        PROVE  PriceInv'
   <3>1. CASE ReadTemplate(h) BY <3>1, PricerReads
   <3>2. CASE ReadOffer(h) BY <3>2, PricerReads
   <3>3. CASE ReadRate(h) BY <3>3, PricerReads
   <3>4. CASE ReadLegs(h) BY <3>4, PricerReads
   <3> QED BY <2>2, <3>1, <3>2, <3>3, <3>4
  <2>3. CASE QuoteOrder \/ PlaceOrder BY <2>3, PricerAnswers
  <2>4. ASSUME NEW e \in PriceEditors, NEW f \in Offers, BeginOffer(e, f) PROVE PriceInv'
    BY <2>4, EditorsMove
  <2>5. ASSUME NEW e \in PriceEditors, NEW patch \in TemplatePatches, BeginPatch(e, patch)
        PROVE  PriceInv'
    BY <2>5, EditorsMove
  <2>6. ASSUME NEW e \in PriceEditors, SaveOffer(e) \/ WritePatch(e) PROVE PriceInv'
    BY <2>6, EditorsMove
  <2>7. CASE RemoveOffer \/ SetTemplateActive \/ PlatformPublishes
               \/ \E leg \in {"pickup", "delivery"}, fee \in LegFees : UpdateFulfillmentPricing(leg, fee)
    BY <2>7, PricesChange
  <2>8. CASE UNCHANGED priceVars
   <3>1. UNCHANGED <<priceDocs, quoted, placed, priceEdits, priceHistory>>
         /\ UNCHANGED <<prPc, prBasket, prTemplate, prOffer, prRate, prLegs>>
     BY <2>8 DEF priceVars, priceReads
   <3>2. ReadsTyped' /\ OrderFollows' BY <3>1 DEF PriceInv, ReadsTyped, OrderFollows
   <3>3. "quote" \in Pricers /\ \A g \in Pricers : ReadsKept(g) BY <3>1 DEF ReadsKept, Pricers
   <3>4. UNCHANGED <<template, offer, legFees, commissionRate>> BY <3>1 DEF priceDocs
   <3>5. ReadsFit("quote")' /\ (~pricesMoved => ReadsCurrent("quote")')
     BY <3>1, <3>3, <3>4 DEF PriceInv, StillCurrent, ReadsFit, ReadsCurrent
   <3> QED BY <3>1, <3>2, <3>3, <3>5, PricerMoves
  <2> QED BY <2>1, <2>2, <2>3, <2>4, <2>5, <2>6, <2>7, <2>8 DEF PriceNext
 <1> QED BY <1>1, PriceInvInit, PriceInvSays, PTL DEF PriceSpec

-----------------------------------------------------------------------------
(* The composition. *)
(* A step of the storefront is a step of the component in focus, and leaves
   the variables of every other one alone. *)
LEMMA OneComponentMoves ==
  ASSUME [Next]_composedVars
  PROVE  /\ [FeeNext]_feeVars
         /\ [PolicyNext]_policyVars
         /\ [SlotNext]_slotVars
         /\ [PriceNext]_priceVars
         /\ [MkNext]_mkVars
         /\ [BrNext]_brVars
 <1>1. CASE FeeMoves BY <1>1 DEF FeeMoves
 <1>2. CASE PolicyMoves BY <1>2 DEF PolicyMoves
 <1>3. CASE SlotMoves BY <1>3 DEF SlotMoves
 <1>4. CASE PriceMoves BY <1>4 DEF PriceMoves
 <1>5. CASE MkMoves BY <1>5 DEF MkMoves
 <1>6. CASE BrMoves BY <1>6 DEF BrMoves
 <1>7. CASE UNCHANGED composedVars BY <1>7 DEF composedVars
 <1> QED BY <1>1, <1>2, <1>3, <1>4, <1>5, <1>6, <1>7 DEF Next

(* Storefront.tla composes its components without changing any: each behaves
   in it as its own specification allows, so that what is proved of one is
   proved of the composition that is model-checked. *)
THEOREM StorefrontRunsItsComponents ==
  Spec => FeeSpec /\ PolicySpec /\ SlotSpec /\ PriceSpec /\ MkSpec /\ BrSpec
 <1>1. Init => FeeInit /\ PolicyInit /\ SlotInit /\ PriceInit /\ MkInit /\ BrInit BY DEF Init
 <1> QED BY <1>1, OneComponentMoves, PTL
         DEF Spec, FeeSpec, PolicySpec, SlotSpec, PriceSpec, MkSpec, BrSpec

(* What is proved above of each component, of the composition. *)
THEOREM StorefrontSound ==
  Spec => /\ [](/\ CapacityHolds /\ BranchesAreSound /\ PoliciesAreSound
                /\ ShownAndBookableAgree /\ PricesAreSound)
          /\ FeesAreSound
 <1> QED BY StorefrontRunsItsComponents, CapacityKept, BranchesSound, PoliciesSound, MarketAgrees,
            PricesSound, FeesSound, PTL

=============================================================================
