CONSTANTS
  a = a
  b = b
  j = j
  Nobody = Nobody
  Callers <- OneCaller
  Sweeps <- OneSweep
  Estimate = 20
  Services <- LightOrHeavy
  Surcharges <- OneSurcharge
  Extras = 5
  Discount = 4
  FeePercent = 10
  MaxVersion = 3
  MaxMishaps = 0
SPECIFICATION Spec
INVARIANT DiscountIsKept
CHECK_DEADLOCK FALSE
