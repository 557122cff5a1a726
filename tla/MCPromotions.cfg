SPECIFICATION Spec
CONSTANTS
  c = c
  b = b
  None = None
  Handlers = {h1, h2}
  Codes = {k}
  Waivers = {w}
  FirstOrderOnly = {}
  Orders = {o1, o2}
  Redemptions = {r1, r2, r3}
  Customers <- OneCustomer
  Branches <- OneBranch
  Customer <- ItsCustomer
  Branch <- ItsBranch
  PerSubject = 1
  Caps = {1, 3}
  FirstCap = 1
  MaxFailures = 1
  MaxChanges = 1
SYMMETRY Symmetric
INVARIANT CapsAndCountsHold
INVARIANT WaiversAndLimits
PROPERTY FinalRowsStay
CHECK_DEADLOCK FALSE
