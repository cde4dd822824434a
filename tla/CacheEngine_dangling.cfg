\* A 304 for an entry whose body another fill has replaced.
CONSTANTS
  r1 = r1
  r2 = r2
  r3 = r3
  None = None
  Req <- ThreeRequests
  Header <- OnlyOrigin
  Origin = "Origin"
  Absent = "none"
  Sent <- Alike
  PolicyOf <- FollowOrigin
  Answers <- NoCache
  ManagedTTL = 2
  MaxTime = 1
  MaxVersion = 0
  Purging = FALSE
  Errors = FALSE
  Always304 = TRUE
SPECIFICATION Spec
SYMMETRY AllAlike
INVARIANT EntryBodyExists
\* Every request is handled once, so the system stops when all have ended.
CHECK_DEADLOCK FALSE
