SPECIFICATION Spec
CONSTANTS
  o1 = o1 o2 = o2 o3 = o3
  Ops = {o1, o2, o3}
  Scenarios <- StreamScenarios
  Stoppable = {o1, o2, o3}
  None = None
INVARIANTS RequestsOutliveLibuv
CHECK_DEADLOCK FALSE
