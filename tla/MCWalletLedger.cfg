CONSTANTS
  b1 = b1
  o1 = o1
  a1 = a1
  None = None
  Intents = {i1, i2}
  Hooks = {h1, h2}
  Branches <- MCBranches
  Orders <- MCOrders
  Adjustments <- MCAdjustments
  BranchOf <- MCBranchOf
  Amounts = {3}
  FeeOf <- MCFeeOf
  DeltaOf <- MCDeltaOf
  ActivationMin = 5
  MaxFailures = 1
SPECIFICATION FairSpec
INVARIANT BooksAgree
INVARIANT ActivatedIffTopUpReachedMinimum
PROPERTY ImplementsAccount
PROPERTY PaidIsCredited
CHECK_DEADLOCK FALSE
