SPECIFICATION Spec
CONSTANTS
  a = a
  b = b
  j = j
  courier = courier
  NoOne = NoOne
  Callers <- TwoCallers
  Sweeps = {j}
  Couriers <- OneCourier
  PickupModes <- AnyMode
  Issued <- IssuedWithoutHolds
  Promoted = {TRUE, FALSE}
  MaxVersion = 14
  MaxStamped = 5
  MaxHolds = 0
  MaxExtras = 1
SYMMETRY Symmetric
INVARIANT HistoryIsKept
PROPERTY CouriersStay
PROPERTY FreshCommitsSerialise
CHECK_DEADLOCK FALSE
