-------------------------- MODULE MCOrderLifecycle --------------------------
(* OrderLifecycle for TLC: which mutations the callers of an instance issue. *)
EXTENDS OrderLifecycle, TLC

CONSTANTS a, b, j, courier

BookingCalls ==
  {"acceptOrder", "rejectOrder", "proposeOrderChange", "respondToProviderChange",
   "cancelOrder"}
PickupCalls ==
  {"assignPickupStaff", "startPickupRoute", "arriveAtPickup",
   "recordPickupWeight", "recordPickupPayment", "recordFailedPickupAttempt",
   "retryPickupSameDay", "escalateToReschedule", "reschedulePickup",
   "cancelAfterFailedPickup"}
HoldCalls ==
  {"raiseQualityHold", "noteQualityIssue", "respondToQualityHold"}
ReturnCalls ==
  {"markLaundryReady", "chooseReturnOption", "assignReturnStaff",
   "startReturnRoute", "arriveAtReturn", "recordDelivery",
   "recordFailedDeliveryAttempt", "confirmReturnedToProvider",
   "scheduleRedelivery"}
CounterCalls ==
  {"receiveAtCounter", "verifySelfPickup", "abandonUnsettledOrder",
   "reinstateAbandonedOrder"}
LoneCalls == {"rejectAssignment", "updateCourierLocation"}
SupportCalls == {"overrideStatus"}

OneCaller == {a}
TwoCallers == {a, b}
OneCourier == {courier}
AtCounter == {"customer_dropoff"}
IssuedWithSupport ==
  {"acceptOrder", "receiveAtCounter"} \cup HoldCalls \cup SupportCalls
AnyMode == {"provider_pickup", "customer_dropoff"}
IssuedWithoutHolds == BookingCalls \cup PickupCalls \cup ReturnCalls \cup CounterCalls
                     \cup LoneCalls

Symmetric == Permutations(Callers)
====
