SPECIFICATION FairSpec
CONSTANTS
  a = a
  b = b
  j = j
  courier = courier
  NoOne = NoOne
  Callers <- TwoCallers
  Sweeps = {j}
  Couriers <- OneCourier
  PickupModes <- AtCounter
  Issued <- IssuedWithSupport
  Promoted = {FALSE}
  MaxVersion = 9
  MaxStamped = 5
  MaxHolds = 2
  MaxExtras = 1
PROPERTY HoldResolvedOnce
PROPERTY HoldTimesOut
CHECK_DEADLOCK FALSE
