CONSTANTS
  a = a
  b = b
  j = j
  Nobody = Nobody
  Callers <- OneCaller
  Sweeps <- OneSweep
  Estimate = 20
  Services <- LightOrHeavy
  Surcharges <- OneSurcharge
  Extras = 5
  Discount = 0
  FeePercent = 10
  MaxVersion = 9
  MaxMishaps = 1
SPECIFICATION FairSpec
PROPERTY LifeIsSound
PROPERTY UnsettledIsSwept
CHECK_DEADLOCK FALSE
