\* Fills, deletes, hits, expiry and crashes of two goroutines.
CONSTANTS
  p1 = p1
  p2 = p2
  k1 = k1
  k2 = k2
  b1 = b1
  b2 = b2
  b3 = b3
  None = None
  Proc <- TwoProcs
  Key <- TwoKeys
  Body <- ThreeBodies
  Ops <- WithReads
  Faults <- CrashAndExpiry
SPECIFICATION Spec
SYMMETRY Symmetry
INVARIANTS TypeOK EntryHasBody BodiesNotShared
PROPERTY RemovesOnlyOrphans
\* Body names are not given out for ever: the model stops when all are used up.
CHECK_DEADLOCK FALSE
