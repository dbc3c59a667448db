SPECIFICATION FairSpec
CONSTANTS
  o1 = o1 o2 = o2 o3 = o3
  Ops = {o1, o2, o3}
  Scenarios <- MCScenarios
  Stoppable = {o1, o2, o3}
  None = None
INVARIANTS ReaderIsRegistered NoLostInput PoolRequestsOutliveLibuv
PROPERTIES StoppedCallsEnd
CHECK_DEADLOCK FALSE
