SPECIFICATION FairSpec
CONSTANTS
  o1 = o1 o2 = o2 o3 = o3 o4 = o4 o5 = o5
  pathA = pathA pathB = pathB
  Ops = {o1, o2, o3, o4, o5}
  Scenarios <- MCScenarios
  MaxConns = 3
  MaxEvents = 3
  None = None
INVARIANTS ConnectionsKept CancelledAcceptsCostOne WaitsAnswerTruly WatchingIsKnown
PROPERTIES ListenersEnd
CHECK_DEADLOCK FALSE
