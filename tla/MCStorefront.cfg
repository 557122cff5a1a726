SPECIFICATION Spec
CONSTANTS
  r1 = r1  r2 = r2  o1 = o1  o2 = o2  k1 = k1  m1 = m1  m2 = m2
  FeeKeys = {k1}
  Rates = {5}
  LegacyRates = {8}
  NoKey = NoKey
  FeeRequests = {r1, r2}
  MaxFeeDay = 1
  MaxFeeVersion = 3
  MaxFeeCalls = 3
  MaxFeeMishaps = 1
  MaxQuotes = 1
  Milestones = {m1, m2}
  NoMilestone = NoMilestone
  MilestoneRank <- Ranks
  MilestoneCapacity <- MilestoneCaps
  MinOrders <- OrdersFor
  SeedTerms <- Seed
  Capacities = {1, 2, 3}
  PolicyRequests = {r1, r2}
  CompletedOrders = {0, 1}
  MaxPolicies = 3
  MaxPolicyCalls = 4
  MaxPolicyMishaps = 1
  SlotOrders = {o1, o2}
  SlotRequests = {r1, r2}
  SlotDays = {0, 1}
  DayTicks = 3
  DefaultHours = {1, 2}
  UniversalHours = {1, 2}
  HoursChoices = {{1}, {1, 2}}
  NoLimit = NoLimit
  SlotLimits = {1}
  SlotEntitlements = {1, 2}
  FirstEntitlements = {1}
  FirstCaps = {1}
  LeadTicks = 2
  CutoffTick = 2
  AdvanceDays = 1
  MaxSlotTick = 1
  MaxSlotCalls = 4
  MaxRuleChanges = 1
  MaxSlotMishaps = 1
  FirstTemplates <- TemplatesAtFirst
  Offers <- OffersMade
  NoOffer = NoOffer
  NoBasket = NoBasket
  NoFee = NoFee
  PriceBaskets <- Baskets
  TemplatePatches <- Patches
  FirstLegs <- LegsAtFirst
  LegFees <- FeesEntered
  Ceilings = {4, 8}
  FirstCeilings = {4}
  Commissions = {7, 20}
  FirstCommissions = {20}
  DefaultPremiumFee = 5
  DefaultExpressFee = 12
  PriceEditors = {r1, r2}
  MaxPriceChanges = 2
  MostItems = 9
  MostPrice = 20
  Null = Null
  MkDistances = {350, 503, 1600}
  MkRadii = {5, 20}
  MkCeiling = 20
  MkPreferences = {15}
  MkAny = MkAny
  MkAhead = {0, 29, 30}
  MkLimit = 30
  MkCaps = {1, 2}
  MkMostUsed = 2
  MkMostSteps = 6
  BrIds = {"b1", "b2", "b3"}
  BrNames = {"Main", "MAIN", "Annex"}
  BrFolded <- Folded
  BrFirst <- OpenedBefore
  BrRequests = {r1, r2}
  BrMostCalls = 3
SYMMETRY Interchangeable
INVARIANTS
  PoliciesAreSound
  CapacityHolds
  PricesAreSound
  ShownAndBookableAgree
  BranchesAreSound
PROPERTIES
  FeesAreSound
CHECK_DEADLOCK FALSE
