\* Everything at once but colliding names: what still holds.
CONSTANTS
  p1 = p1
  p2 = p2
  k1 = k1
  k2 = k2
  b1 = b1
  b2 = b2
  b3 = b3
  None = None
  Proc <- TwoProcs
  Key <- TwoKeys
  Body <- TwoBodies
  Ops <- WithReuse
  Faults <- AllButNames
SPECIFICATION Spec
SYMMETRY Symmetry
INVARIANTS DamageIsConfined OrphansAreNew IInv
\* Body names are not given out for ever: the model stops when all are used up.
CHECK_DEADLOCK FALSE
