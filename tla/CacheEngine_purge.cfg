\* A purge among fills that vary, failing store calls, and an edited rule.
CONSTANTS
  r1 = r1
  r2 = r2
  r3 = r3
  None = None
  Req <- TwoRequests
  Header <- OriginAndLang
  Origin = "Origin"
  Absent = "none"
  Sent <- Languages
  PolicyOf <- Edited
  Answers <- Varying
  ManagedTTL = 2
  MaxTime = 1
  MaxVersion = 0
  Purging = TRUE
  Errors = TRUE
  Always304 = FALSE
SPECIFICATION Spec
INVARIANTS EntryBodyExists PurgeIsFinal
\* Every request is handled once, so the system stops when all have ended.
CHECK_DEADLOCK FALSE
