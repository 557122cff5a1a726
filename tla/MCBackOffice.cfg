SPECIFICATION Spec
CONSTANTS
  r1 = r1  r2 = r2  x1 = x1  x2 = x2  x3 = x3  d1 = d1  d2 = d2
  KycRequests = {r1, r2}
  Reviewers = {x1, x2}
  KycTypes = {"VALID_ID", "VALID_ID_BACK"}
  RequiredTypes = {"VALID_ID", "VALID_ID_BACK"}
  FrontTypes = {"VALID_ID"}
  BackTypes = {"VALID_ID_BACK"}
  NoReviewer = NoReviewer
  MaxDocuments = 2
  MaxKycMishaps = 1
  MaxKycCalls = 5
  Phones = {x1, x2}
  DeviceRequests = {r1, r2}
  NoPhone = NoPhone
  MaxDeviceCalls = 6
  MaxDeviceMishaps = 1
  SelfieRequests = {r1, r2}
  MaxSelfies = 3
  MaxSelfieCalls = 5
  MaxSelfieMishaps = 1
  AcBranches = {"east", "west"}
  AcGroupForms <- GroupForms
  AcOldLists <- OldLists
  AcFragile = "log_view"
  AcKinds = {"staff", "courier", "washer", "customer"}
  AcMostRows = 2
  AcMostCalls = 2
  RgRequests = {r1, r2}
  RgUids = {x1, x2}
  RgEmails = {x1, x2}
  RgMostCalls = 3
  RgMostMishaps = 1
  MgRuns = {r1, r2}
  MgDocs = {x1, x2}
  MgMostRuns = 2
  MgMostEdits = 1
  EmRuns = {r1, r2}
  EmFiles = {x1, x2, x3}
  EmMostRuns = 2
  EmMostWrites = 2
  BvItems <- Work
  BvLateAfter <- LateAfter
  BvShownAfter <- ShownAfter
  BvFirst <- WaitingAtFirst
  BvPerSource = 1
  BvMostWallets = 1
  BvBranches = {"b1", "b2"}
  BvAccounts = {"shop", "boss", "ana"}
  BvRoleOf <- Held
  BvPhoneOf <- Dialled
  BvRoleFilters = {{"merchant"}, {"ghost"}}
  BvLastTick = 2
  BvMostCalls = 1
  BvMostMoves = 1
  BioDevices = {d1, d2}
  BioUidOf <- SignedIn
  BioChallenges = {"c1"}
  BioLogins = {r1, r2}
  BioMostKeys = 2
  BioMostSessions = 2
  SrRows <- Searchable
  SrFirst <- StoredAtFirst
  SrTerms <- Terms
  SrLimits = {1, 8}
  SrPerType = 2
  SrPhoneUsers = 3
  SrMostInserts = 1
SYMMETRY Interchangeable
INVARIANTS
  SessionsAreSound
  GateAndFaceAgree
  MigrationsKeepMeaning
  PagesAreHonest
  LoginsAreSound
PROPERTIES
  ReviewIsSound
  AccessIsSound
  AccountsAreWhole
CHECK_DEADLOCK FALSE
