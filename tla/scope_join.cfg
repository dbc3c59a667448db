SPECIFICATION FairSpec
CONSTANTS
  k1 = k1  k2 = k2  k3 = k3
  NoChild = NoChild
  Children = {k1, k2, k3}
  Eager = {k1, k2}
  MayThrow = {k1, k2}
  MayStop = TRUE
INVARIANTS JoinWaitsForChildren
PROPERTIES JoinEnds
CHECK_DEADLOCK FALSE
