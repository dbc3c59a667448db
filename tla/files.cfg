SPECIFICATION FairSpec
CONSTANTS
  t1 = t1 t2 = t2 F = F G = G
  Tasks = {t1, t2}
  Objects = {F, G}
  Scenarios <- MCScenarios
  Stoppable = {t1}
  Descriptors = {1, 2, 3}
  Chunk = 2
  Original <- MCOriginal
  None = None
INVARIANTS DescriptorsHaveOneOwner CreatorsDoNotFail RemoveAllRemoves ReadsAreContiguous
PROPERTIES ScriptsEnd
CHECK_DEADLOCK FALSE
