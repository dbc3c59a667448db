SPECIFICATION FairSyncSpec
CONSTANTS
  Users = {1, 2, 3, 4}
  Scenarios <- MCScenarios
  MaxWaits = 2
  Permits = 0
  Calls <- SyncCalls
  TryCalls <- SyncTryCalls
  OnLoop = {}
  Stoppable <- SyncStoppable
  StopThreads = {"loop", "other"}
INVARIANTS MutualExclusion NobodyWaitsForOpenLock NoLostNotification PermitsKept
PROPERTIES GrantedInOrder SyncCallsEnd
CHECK_DEADLOCK FALSE
