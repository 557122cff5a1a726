SPECIFICATION FairSpec
CONSTANTS
  Users = {u1, u2}
  Admins = {u2}
  Requests = {p1}
  Sweeps = {s1}
  Guards = {g1}
  Issued <- Mutation
  MaxCalls = 2
  MaxFailures = 1
  None = None
INVARIANT StaleOnlyInWindow
PROPERTY CopyCatchesUp
CHECK_DEADLOCK FALSE
