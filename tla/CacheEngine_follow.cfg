\* Requests alike under follow_origin, with revalidation and changing content.
CONSTANTS
  r1 = r1
  r2 = r2
  r3 = r3
  None = None
  Req <- ThreeRequests
  Header <- OnlyOrigin
  Origin = "Origin"
  Absent = "none"
  Sent <- Alike
  PolicyOf <- FollowOrigin
  Answers <- Revalidated
  ManagedTTL = 2
  MaxTime = 1
  MaxVersion = 1
  Purging = FALSE
  Errors = TRUE
  Always304 = FALSE
SPECIFICATION Spec
SYMMETRY AllAlike
PROPERTY NoRollback
\* Every request is handled once, so the system stops when all have ended.
CHECK_DEADLOCK FALSE
