SPECIFICATION FairSpec
CONSTANTS
  a = a b = b c = c
  Tasks = {a, b, c}
  Scenarios <- MCScenarios
  Permits = 0
  Stoppable = {a, b}
INVARIANTS LocalExclusion PermitsConserved NobodyForgotten
PROPERTIES EveryTaskEnds
CHECK_DEADLOCK FALSE
