\* A 304 for a request with an Origin.
CONSTANTS
  r1 = r1
  r2 = r2
  r3 = r3
  None = None
  Req <- ThreeRequests
  Header <- OnlyOrigin
  Origin = "Origin"
  Absent = "none"
  Sent <- Embedded
  PolicyOf <- FollowOrigin
  Answers <- Revalidated
  ManagedTTL = 2
  MaxTime = 1
  MaxVersion = 0
  Purging = FALSE
  Errors = FALSE
  Always304 = FALSE
SPECIFICATION Spec
SYMMETRY TwoAlike
INVARIANT ServesOwnVariant
\* Every request is handled once, so the system stops when all have ended.
CHECK_DEADLOCK FALSE
