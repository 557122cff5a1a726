CONSTANTS
  a = a
  b = b
  j = j
  Nobody = Nobody
  Callers <- TwoCallers
  Sweeps <- OneSweep
  Estimate = 20
  Services <- LightOrHeavy
  Surcharges <- OneSurcharge
  Extras = 5
  Discount = 0
  FeePercent = 10
  MaxVersion = 6
  MaxMishaps = 1
SPECIFICATION Spec
SYMMETRY Symmetric
INVARIANT SettlementBooks
CHECK_DEADLOCK FALSE
