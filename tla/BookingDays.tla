---------------------------- MODULE BookingDays -----------------------------
(* The places of a home washer's days: which day a customer may book, how
   the last place of a day is given out, and how many orders of a day she
   may accept.

   A booking reads the rules outside its transaction, reads the date's
   exceptions and its orders inside, and then raises the counter of the
   date, which is there only so that two bookings of one date conflict: a
   transaction whose snapshot is older than the counter starts over.  An
   acceptance does the same with a counter of its own.

   Time passes in ticks of a part of a day; a day's windows are the set of
   ticks they cover. *)
EXTENDS Integers, FiniteSets

CONSTANTS
  SlotOrders, SlotRequests, SlotDays,  \* orders, requests in progress, dates 0, 1, ...
  DayTicks,            \* ticks of a day
  DefaultHours, UniversalHours, HoursChoices, \* sets of ticks of a day
  NoLimit, SlotLimits, \* limits an administrator or a washer enters
  SlotEntitlements,    \* capacities the platform's policy grants
  FirstEntitlements, FirstCaps,  \* what she begins with
  LeadTicks, CutoffTick, AdvanceDays,
  MaxSlotTick, MaxSlotCalls, MaxRuleChanges, MaxSlotMishaps  \* bounds

(* The hours of a day are ticks of it, and the platform's default is not empty;
   limits are counts of orders. *)
ASSUME SlotOrdersAreFinite == IsFiniteSet(SlotOrders)
ASSUME SlotNumbersFit ==
  /\ SlotDays \subseteq Nat /\ 0 \in SlotDays
  /\ DayTicks \in Nat \ {0} /\ LeadTicks \in Nat /\ MaxSlotTick \in Nat
  /\ DefaultHours # {} /\ DefaultHours \cup UniversalHours \subseteq 0..(DayTicks - 1)
  /\ SlotLimits \cup SlotEntitlements \cup FirstEntitlements \subseteq Nat
  /\ FirstCaps \subseteq SlotLimits \cup {NoLimit}

VARIABLES
  slotNow,             \* the clock
  washerState,         \* "ready"; "away": not available or paused; "barred": suspended or unpaid
  ownHours, ownLimit, entitledTo, orderCap,  \* her hours and limit, her tier, the accepted orders a day
  dateRule, blackouts, \* overrides by date; ranges of dates that are blocked
  slotOf,              \* the orders
  dayLock,             \* who has raised the counter of a date and not committed
  capLock,             \* who has raised the counter of accepted orders
  bkPc, bkOrder, bkDay, bkStale, bkLimit, bkSlack, \* a request in progress; bkStale: the
                       \* counter was raised by another since its snapshot
  slotCalls, ruleChanges, slotMishaps,
  wasOpen,             \* history: the gates each booking in progress has seen open
  slipped              \* history: dates given an order behind the counter's back

bookingRules == <<washerState, ownHours, ownLimit, entitledTo, orderCap, dateRule, blackouts>>
slotRequest == <<bkPc, bkOrder, bkDay, bkStale, bkLimit, bkSlack>>
slotBounds == <<slotCalls, ruleChanges, slotMishaps>>
slotLocks == <<dayLock, capLock>>
slotVars == <<slotNow, bookingRules, slotOf, slotLocks, slotRequest, slotBounds, wasOpen, slipped>>

NoSlot == [day |-> 0, state |-> "none", limit |-> 0, place |-> 0, slack |-> 0, gates |-> {}]
Released == {"none", "ended"}
Places(d) == {o \in SlotOrders : slotOf[o].day = d /\ slotOf[o].state \notin Released}
AcceptedOn(d) == {o \in Places(d) : slotOf[o].state = "accepted"}

Today == slotNow \div DayTicks
TimeOfDay == slotNow % DayTicks
Smaller(a, b) == IF a < b THEN a ELSE b
Larger(a, b) == IF a > b THEN a ELSE b
Opening(H) == CHOOSE t \in H : \A u \in H : t <= u
Closing(H) == 1 + CHOOSE t \in H : \A u \in H : t >= u

SpecialLimit == 1      \* the limit that an override of a date sets

-----------------------------------------------------------------------------
(* weeklyFromOperatingHours and effectiveDay: her own hours within the
   platform's week; an override of the date has its own windows or closes it. *)
IntersectWindows(a, b) == a \cap b
WeekHours == IntersectWindows(ownHours, UniversalHours)
HoursOf(d) ==
  IF dateRule[d] = "special" THEN DefaultHours
  ELSE IF WeekHours = {} THEN DefaultHours ELSE WeekHours
AcceptsOn(d) == dateRule[d] # "closed" /\ WeekHours # {}

(* capBy: what is asked for, within what is granted. *)
CapBy(requested, entitled) == IF requested = NoLimit THEN entitled ELSE Smaller(requested, entitled)

(* The earliest moment, from now, at which she could collect. *)
EarliestCollection(d) ==
  Larger((d - Today) * DayTicks + Opening(HoursOf(d)) - TimeOfDay, LeadTicks)
UntilClosing(d) == (d - Today) * DayTicks + Closing(HoursOf(d)) - TimeOfDay

BlackedOut(d) == \E b \in blackouts : d \in b[1]..b[2]

(* dayUnavailableReason, once the provider's own switches have been read. *)
DayBookable(d, booked, limit) ==
  /\ d - Today \in 0..AdvanceDays
  /\ ~BlackedOut(d) /\ AcceptsOn(d)
  /\ d = Today => TimeOfDay < CutoffTick
  /\ booked < limit
  /\ UntilClosing(d) > 0 /\ EarliestCollection(d) <= UntilClosing(d)

UnderCap(S, cap) == IF cap = NoLimit THEN TRUE ELSE Cardinality(S) < cap

(* assertProviderBookable: her switches gate new bookings, a suspension or an
   empty wallet gates acceptance too. *)
EligibleFor(stage) == washerState = "ready" \/ (stage = "accept" /\ washerState = "away")

Gates(d) == (IF washerState = "ready" THEN {"provider"} ELSE {})
       \cup (IF ~BlackedOut(d) /\ AcceptsOn(d) THEN {"date"} ELSE {})

SlotInit ==
  /\ slotNow = 0 /\ washerState = "ready"
  /\ ownHours = DefaultHours /\ ownLimit = NoLimit /\ entitledTo \in FirstEntitlements
  /\ orderCap \in FirstCaps
  /\ dateRule = [d \in SlotDays |-> "none"] /\ blackouts = {}
  /\ slotOf = [o \in SlotOrders |-> NoSlot]
  /\ dayLock = [d \in SlotDays |-> {}] /\ capLock = [d \in SlotDays |-> {}]
  /\ bkPc = [h \in SlotRequests |-> "idle"]
  /\ bkOrder = [h \in SlotRequests |-> {}]
  /\ bkDay = [h \in SlotRequests |-> 0] /\ bkStale = [h \in SlotRequests |-> FALSE]
  /\ bkLimit = [h \in SlotRequests |-> 0] /\ bkSlack = [h \in SlotRequests |-> 0]
  /\ slotCalls = 0 /\ ruleChanges = 0 /\ slotMishaps = 0
  /\ wasOpen = [h \in SlotRequests |-> {}] /\ slipped = {}

-----------------------------------------------------------------------------
SlotBegin(h, at) ==
  /\ bkPc[h] = "idle" /\ slotCalls < MaxSlotCalls /\ slotCalls' = slotCalls + 1
  /\ bkPc' = [bkPc EXCEPT ![h] = at]
  /\ UNCHANGED <<ruleChanges, slotMishaps>>

SlotDoneBut(h) ==      \* all but bkStale
  /\ bkPc' = [bkPc EXCEPT ![h] = "idle"]
  /\ bkOrder' = [bkOrder EXCEPT ![h] = {}]
  /\ bkDay' = [bkDay EXCEPT ![h] = 0]
  /\ bkLimit' = [bkLimit EXCEPT ![h] = 0] /\ bkSlack' = [bkSlack EXCEPT ![h] = 0]
  /\ wasOpen' = [wasOpen EXCEPT ![h] = {}]
SlotDone(h) == SlotDoneBut(h) /\ bkStale' = [bkStale EXCEPT ![h] = FALSE]

(* createOrder: the provider is eligible and, as a courtesy, the accepted
   orders of the date are below her cap. *)
AskBooking(h, d) ==
  /\ EligibleFor("create")
  /\ UnderCap(AcceptedOn(d), orderCap)
  /\ SlotBegin(h, "rules")
  /\ bkDay' = [bkDay EXCEPT ![h] = d]
  /\ wasOpen' = [wasOpen EXCEPT ![h] = Gates(d)]
  /\ UNCHANGED <<slotNow, bookingRules, slotOf, slotLocks, bkOrder, bkStale, bkLimit, bkSlack, slipped>>

(* assertDayBookable: her configuration and her tier, outside the transaction. *)
ReadRules(h) ==
  /\ bkPc[h] = "rules"
  /\ IF washerState = "away" THEN SlotDone(h)
     ELSE /\ bkLimit' = [bkLimit EXCEPT ![h] = CapBy(ownLimit, entitledTo)]
          /\ bkPc' = [bkPc EXCEPT ![h] = "date"]
          /\ UNCHANGED <<bkOrder, bkDay, bkStale, bkSlack, wasOpen>>
  /\ UNCHANGED <<slotNow, bookingRules, slotOf, slotLocks, slotBounds, slipped>>

(* The transaction's snapshot: the exceptions of the date and its orders. *)
ReadDate(h) ==
  LET d == bkDay[h]
      limit == IF dateRule[d] = "special" THEN CapBy(SpecialLimit, bkLimit[h]) ELSE bkLimit[h] IN
  /\ bkPc[h] = "date"
  /\ IF DayBookable(d, Cardinality(Places(d)), limit)
     THEN /\ bkPc' = [bkPc EXCEPT ![h] = "count"]
          /\ bkStale' = [bkStale EXCEPT ![h] = FALSE]
          /\ bkLimit' = [bkLimit EXCEPT ![h] = limit]
          /\ bkSlack' = [bkSlack EXCEPT ![h] = UntilClosing(d)]
          /\ UNCHANGED <<bkOrder, bkDay, wasOpen>>
     ELSE SlotDone(h)
  /\ UNCHANGED <<slotNow, bookingRules, slotOf, slotLocks, slotBounds, slipped>>

(* Mutant: the counter is raised outside the transaction. *)
CountWithoutConflict(h) ==
  LET d == bkDay[h] IN
  /\ bkPc[h] = "count"
  /\ bkPc' = [bkPc EXCEPT ![h] = "place"]
  /\ UNCHANGED <<slotNow, bookingRules, slotOf, slotLocks, bkOrder, bkDay, bkStale, bkLimit,
                 bkSlack, slotBounds, wasOpen, slipped>>

(* The counter of the date: who finds it raised since the snapshot, or being
   raised, starts over. *)
RaiseDayCounter(h) ==
  LET d == bkDay[h] IN
  /\ bkPc[h] = "count"
  /\ IF dayLock[d] = {} /\ ~bkStale[h]
     THEN /\ dayLock' = [dayLock EXCEPT ![d] = {h}]
          /\ bkPc' = [bkPc EXCEPT ![h] = "place"]
     ELSE bkPc' = [bkPc EXCEPT ![h] = "rules"] /\ UNCHANGED dayLock
  /\ UNCHANGED <<slotNow, bookingRules, slotOf, capLock, bkOrder, bkDay, bkStale,
                 bkLimit, bkSlack, slotBounds, wasOpen, slipped>>

(* The order is saved and the transaction commits. *)
PlaceBooking(h, o) ==
  LET d == bkDay[h] IN
  /\ bkPc[h] = "place" /\ slotOf[o].state = "none"
  /\ slotOf' = [slotOf EXCEPT ![o] =
       [day |-> d, state |-> "pending", limit |-> bkLimit[h],
        place |-> Cardinality(Places(d)) + 1, slack |-> bkSlack[h], gates |-> wasOpen[h]]]
  /\ dayLock' = [dayLock EXCEPT ![d] = @ \ {h}]
  /\ bkStale' = [g \in SlotRequests |-> g # h /\ (bkStale[g] \/ (bkPc[g] = "count" /\ bkDay[g] = d))]
  /\ SlotDoneBut(h)
  /\ UNCHANGED <<slotNow, bookingRules, capLock, slotBounds, slipped>>

-----------------------------------------------------------------------------
(* acceptOrder: the provider may have gone away, not been suspended. *)
AskAccept(h, o) ==
  /\ slotOf[o].state = "pending" /\ EligibleFor("accept")
  /\ SlotBegin(h, "reserve")
  /\ bkOrder' = [bkOrder EXCEPT ![h] = {o}] /\ bkDay' = [bkDay EXCEPT ![h] = slotOf[o].day]
  /\ bkLimit' = [bkLimit EXCEPT ![h] = orderCap]
  /\ UNCHANGED <<slotNow, bookingRules, slotOf, slotLocks, bkStale, bkSlack, wasOpen, slipped>>

(* reserveDailyCapSlot: the counter is raised first, so the others that are
   counted afterwards include whoever won the race.  Without a cap nothing is
   reserved. *)
ReserveDailyCap(h) ==
  LET d == bkDay[h] IN
  /\ bkPc[h] = "reserve"
  /\ bkLimit[h] = NoLimit \/ capLock[d] = {}
  /\ IF UnderCap(AcceptedOn(d) \ bkOrder[h], bkLimit[h])
     THEN /\ capLock' = [capLock EXCEPT ![d] = @ \cup (IF bkLimit[h] = NoLimit THEN {} ELSE {h})]
          /\ bkPc' = [bkPc EXCEPT ![h] = "accept"]
          /\ UNCHANGED <<bkOrder, bkDay, bkStale, bkLimit, bkSlack, wasOpen>>
     ELSE SlotDone(h) /\ UNCHANGED capLock
  /\ UNCHANGED <<slotNow, bookingRules, slotOf, dayLock, slotBounds, slipped>>

(* The transition commits, if the order is still waiting for it. *)
CommitAccept(h) ==
  LET d == bkDay[h] IN
  /\ bkPc[h] = "accept"
  /\ \E o \in bkOrder[h] :
       slotOf' = IF slotOf[o].state = "pending"
                 THEN [slotOf EXCEPT ![o].state = "accepted", ![o].limit = bkLimit[h],
                         ![o].place = Cardinality(AcceptedOn(d)) + 1, ![o].slack = 0, ![o].gates = {}]
                 ELSE slotOf
  /\ capLock' = [capLock EXCEPT ![d] = @ \ {h}]
  /\ slipped' = IF bkLimit[h] = NoLimit /\ capLock[d] # {} THEN slipped \cup {d} ELSE slipped
  /\ SlotDone(h)
  /\ UNCHANGED <<slotNow, bookingRules, dayLock, slotBounds>>

(* Cancelled or rejected: the place is free again, no counter is lowered. *)
EndBooking(o) ==
  /\ slotOf[o].state \in {"pending", "accepted"}
  /\ slotOf' = [slotOf EXCEPT ![o] = [NoSlot EXCEPT !.state = "ended", !.day = slotOf[o].day]]
  /\ UNCHANGED <<slotNow, bookingRules, slotLocks, slotRequest, slotBounds, wasOpen, slipped>>

(* A mishap or a change of rules takes the room of a request, so that the bounds are shared. *)
SlotMishap ==
  /\ slotMishaps < MaxSlotMishaps /\ slotMishaps' = slotMishaps + 1
  /\ slotCalls < MaxSlotCalls /\ slotCalls' = slotCalls + 1

(* overrideStatus, or a change of provider the customer agrees to, puts an
   order on a date without asking for a place. *)
SlipIn(o, state) ==
  /\ SlotMishap
  /\ slotOf[o].state = "ended"
  /\ slotOf' = [slotOf EXCEPT ![o].state = state]
  /\ slipped' = slipped \cup {slotOf[o].day}
  /\ UNCHANGED <<slotNow, bookingRules, slotLocks, slotRequest, ruleChanges, wasOpen>>

-----------------------------------------------------------------------------
(* The rules change under a booking in progress.  "wasOpen" remembers, for
   each booking, which of the gates were open at some moment. *)
RulesChange ==
  /\ ruleChanges < MaxRuleChanges /\ ruleChanges' = ruleChanges + 1
  /\ slotCalls < MaxSlotCalls /\ slotCalls' = slotCalls + 1
  /\ UNCHANGED <<slotNow, slotOf, slotLocks, slotRequest, slotMishaps, slipped>>
  /\ wasOpen' = [h \in SlotRequests |->
                   IF bkPc[h] \in {"rules", "date", "count", "place"}
                   THEN wasOpen[h] \cup Gates(bkDay[h])' ELSE wasOpen[h]]

(* updateOwnCapacity, toggleAvailability, setStatus, and her wallet. *)
SetWasherState ==
  /\ washerState' \in {"ready", "away", "barred"} \ {washerState}
  /\ UNCHANGED <<ownHours, ownLimit, entitledTo, orderCap, dateRule, blackouts>>
  /\ RulesChange

SetOwnHours ==
  /\ ownHours' \in HoursChoices \ {ownHours}
  /\ UNCHANGED <<washerState, ownLimit, entitledTo, orderCap, dateRule, blackouts>>
  /\ RulesChange

UpdateConfig ==
  /\ ownLimit' \in (SlotLimits \cup {NoLimit}) \ {ownLimit}
  /\ UNCHANGED <<washerState, ownHours, entitledTo, orderCap, dateRule, blackouts>>
  /\ RulesChange

EntitlementChanges ==
  /\ entitledTo' \in SlotEntitlements \ {entitledTo}
  /\ UNCHANGED <<washerState, ownHours, ownLimit, orderCap, dateRule, blackouts>>
  /\ RulesChange

SetDailyOrderCap ==
  /\ orderCap' \in (SlotLimits \cup {NoLimit}) \ {orderCap}
  /\ UNCHANGED <<washerState, ownHours, ownLimit, entitledTo, dateRule, blackouts>>
  /\ RulesChange

UpsertOverride(d, rule) ==
  /\ rule # dateRule[d] /\ dateRule' = [dateRule EXCEPT ![d] = rule]
  /\ UNCHANGED <<washerState, ownHours, ownLimit, entitledTo, orderCap, blackouts>>
  /\ RulesChange

RemoveOverride(d) ==
  /\ dateRule[d] # "none" /\ dateRule' = [dateRule EXCEPT ![d] = "none"]
  /\ UNCHANGED <<washerState, ownHours, ownLimit, entitledTo, orderCap, blackouts>>
  /\ RulesChange

CreateBlackout(from, to) ==
  /\ from <= to /\ blackouts' = blackouts \cup {<<from, to>>}
  /\ UNCHANGED <<washerState, ownHours, ownLimit, entitledTo, orderCap, dateRule>>
  /\ RulesChange

RemoveBlackout ==
  /\ \E b \in blackouts : blackouts' = blackouts \ {b}
  /\ UNCHANGED <<washerState, ownHours, ownLimit, entitledTo, orderCap, dateRule>>
  /\ RulesChange

SlotTick ==
  /\ slotNow < MaxSlotTick /\ slotNow' = slotNow + 1
  /\ UNCHANGED <<bookingRules, slotOf, slotLocks, slotRequest, slotBounds, wasOpen, slipped>>

(* The server process is lost: the transaction aborts and its locks with it. *)
LoseSlotRequest(h) ==
  /\ bkPc[h] \in {"place", "accept"}
  /\ SlotMishap
  /\ dayLock' = [d \in SlotDays |-> dayLock[d] \ {h}]
  /\ capLock' = [d \in SlotDays |-> capLock[d] \ {h}]
  /\ SlotDone(h)
  /\ UNCHANGED <<slotNow, bookingRules, slotOf, ruleChanges, slipped>>

SlotNext ==
  \/ \E h \in SlotRequests :
       \/ \E d \in SlotDays : AskBooking(h, d)
       \/ ReadRules(h) \/ ReadDate(h) \/ RaiseDayCounter(h)
       \/ \E o \in SlotOrders : PlaceBooking(h, o) \/ AskAccept(h, o)
       \/ ReserveDailyCap(h) \/ CommitAccept(h) \/ LoseSlotRequest(h)
  \/ \E o \in SlotOrders : EndBooking(o) \/ \E s \in {"pending", "accepted"} : SlipIn(o, s)
  \/ SetWasherState \/ SetOwnHours \/ UpdateConfig \/ EntitlementChanges \/ SetDailyOrderCap
  \/ \E d \in SlotDays : RemoveOverride(d) \/ \E r \in {"closed", "special"} : UpsertOverride(d, r)
  \/ \E d, e \in SlotDays : CreateBlackout(d, e)
  \/ RemoveBlackout
  \/ SlotTick

SlotSpec == SlotInit /\ [][SlotNext]_slotVars

-----------------------------------------------------------------------------
SlotTypeOK ==
  /\ slotNow \in 0..MaxSlotTick /\ washerState \in {"ready", "away", "barred"}
  /\ \A o \in SlotOrders : slotOf[o].day \in SlotDays
  /\ \A d \in SlotDays : Cardinality(dayLock[d]) <= 1 /\ Cardinality(capLock[d]) <= 1

(* Two customers who race for the last place of a day do not both get it: a
   booking takes a place within the limit it was told, unless an order was put
   on its date without asking for one. *)
NoOverbooking ==
  \A o \in SlotOrders :
    slotOf[o].state = "pending" /\ slotOf[o].day \notin slipped => slotOf[o].place <= slotOf[o].limit

(* She is not made to accept more orders of a day than the cap that was in
   force when she decided, unless another acceptance of the date was under way
   since before there was a cap. *)
AcceptedWithinCap ==
  \A o \in SlotOrders :
    slotOf[o].state = "accepted" /\ slotOf[o].limit # NoLimit /\ slotOf[o].day \notin slipped
      => slotOf[o].place <= slotOf[o].limit

(* Nobody books a date that was blocked, or a washer who was away, all the
   time the booking took: each gate stood open at some moment of it, though
   not necessarily both at the same moment. *)
BookedThroughOpenGates ==
  \A o \in SlotOrders :
    slotOf[o].state = "pending" /\ slotOf[o].place > 0 /\ slotOf[o].day \notin slipped
      => slotOf[o].gates = {"provider", "date"}

(* A booking leaves the washer her notice: between the decision and the close
   of the day there is at least the lead time. *)
NoticeFits ==
  \A o \in SlotOrders :
    slotOf[o].state = "pending" /\ slotOf[o].place > 0 => slotOf[o].slack >= LeadTicks

(* However bookings, acceptances, releases and changes of the rules
   interleave, no day holds more orders than its limits, nothing is booked
   through a closed gate, and the promised notice fits. *)
CapacityHolds ==
  /\ SlotTypeOK
  /\ NoOverbooking
  /\ AcceptedWithinCap
  /\ BookedThroughOpenGates
  /\ NoticeFits

=============================================================================
