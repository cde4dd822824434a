\* Three requests for two keys under the fairness the code justifies; no
\* symmetry, for the sake of the liveness properties.
CONSTANTS
  r1 = r1
  r2 = r2
  r3 = r3
  k1 = k1
  k2 = k2
  None = None
  Req <- ThreeRequests
  Key <- TwoKeys
SPECIFICATION FairSpec
INVARIANTS TypeOK OnePlanPerKey TableMatchesPlans NoLostWakeup IInv
PROPERTIES ReleasedByOwner RefinesSingleFlight WaiterFreed RequestsEnd
\* Every request is handled once, so the system stops when all have ended.
CHECK_DEADLOCK FALSE
