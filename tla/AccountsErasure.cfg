SPECIFICATION FairSpec
CONSTANTS
  Users = {u1}
  Admins = {}
  Requests = {p1, p2}
  Sweeps = {s1, s2}
  Guards = {}
  Issued = {"requestDeletion", "cancelDeletion"}
  MaxCalls = 3
  MaxFailures = 1
  None = None
INVARIANT ErasureIsProof
PROPERTY RecordsClosedOnce
PROPERTY DueIsErased
CHECK_DEADLOCK FALSE
