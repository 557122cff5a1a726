SPECIFICATION Spec
CONSTANTS
  r1 = r1  r2 = r2  x1 = x1  x2 = x2  k1 = k1  staff1 = staff1  owner = owner
  customer = customer  agent = agent  p1 = p1  b1 = b1  b2 = b2  a1 = a1  a2 = a2
  f1 = f1  f2 = f2  f3 = f3  t1 = t1
  PosRequests = {r1, r2}
  PosKeys = {k1}
  NoTillKey = NoTillKey
  MaxPosOrders = 2
  MaxPosCalls = 5
  MaxQuantity = 1
  OpeningStock = 1
  UnitSizes = {1, 2}
  MaxPosMishaps = 1
  RatingRequests = {r1, r2}
  RatedOrders = {x1, x2}
  Scores = {1, 4}
  MaxRatingCalls = 5
  ChatCouriers = {x1, x2}
  ChatStaff = {staff1}
  ChatOwner = owner
  ChatCustomer = customer
  SupportAgent = agent
  NoCourier = NoCourier
  NoThread = NoThread
  ChatRequests = {r1, r2}
  MaxMessages = 2
  MaxChatCalls = 4
  MaxChatSteps = 7
  MaxLegChanges = 5
  Owner = owner
  Staffers = {staff1}
  Customers = {}
  FeedBranches = {b1, b2}
  Grants <- GrantedOnBranch
  NeededGrants = {p1}
  AnyGrant = AnyGrant
  Addressed = {staff1, b2}
  FeedEvents = {e1}
  NoEvent = NoEvent
  FeedTasks = {r1, r2}
  NoTarget = NoTarget
  MaxRows = 2
  MaxFeedCalls = 3
  MaxFeedTime = 3
  Retention = 2
  BcAccounts = {a1, a2}
  BcRoles = {"customer", "washer"}
  RoleOf <- RolesHeld
  AudienceChoices <- AudiencesPicked
  Phones = {f1, f2, f3}
  DeadPhones = {f3}
  ChunkSize = 1
  BcIds = {1}
  Tickets = {t1}
  Agents = {x1, x2}
  NoAgent = NoAgent
  DeskRequests = {r1, r2}
  MaxDeskCalls = 5
  MaxDeskMishaps = 1
  CmCampaigns = {"loud", "quiet"}
  CmImportance <- Importance
  CmFirstCampaigns <- CampaignsAtFirst
  CmInputs <- CampaignEdits
  CmRequests = {r1, r2}
  CmSessions = {"s1"}
  CmNoSession = "none"
  CmFloor = 2
  CmDay = 2
  CmWeek = 3
  CmRetention = 4
  CmLongestRequest = 1
  CmLastTick = 5
  CmMostCalls = 3
SYMMETRY Interchangeable
INVARIANTS
  TillIsSound
  RatingsAreSound
PROPERTIES
  ChatIsSound
  MessagesAreSound
  TicketsAreSound
  ShowingsAreSound
CHECK_DEADLOCK FALSE
