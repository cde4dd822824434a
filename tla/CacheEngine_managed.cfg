\* Managed caching of an origin that varies, three requests.
CONSTANTS
  r1 = r1
  r2 = r2
  r3 = r3
  None = None
  Req <- ThreeRequests
  Header <- OriginAndLang
  Origin = "Origin"
  Absent = "none"
  Sent <- Mixed
  PolicyOf <- Managed
  Answers <- Varying
  ManagedTTL = 2
  MaxTime = 1
  MaxVersion = 0
  Purging = FALSE
  Errors = FALSE
  Always304 = FALSE
SPECIFICATION Spec
SYMMETRY TwoAlike
INVARIANTS TypeOK ServesOwnVariant IInv
PROPERTY RefinesFillTable
\* Every request is handled once, so the system stops when all have ended.
CHECK_DEADLOCK FALSE
