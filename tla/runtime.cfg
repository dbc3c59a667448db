SPECIFICATION FairSpec
CONSTANTS
  o1 = o1 o2 = o2 o3 = o3 o4 = o4
  Ops = {o1, o2, o3, o4}
  Scenarios <- MCScenarios
  Stoppable = {o1, o2}
  Ms = 2
  MaxTime = 7
  None = None
INVARIANTS FaultsAreKnown CancelledWorkNeverRan RateBounded
PROPERTIES StoppedOpsEnd
CHECK_DEADLOCK FALSE
