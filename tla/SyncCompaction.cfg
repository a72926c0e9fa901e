SPECIFICATION Spec
CONSTANTS
  Machines <- MCMachines
  FirstItems <- MCFirstItems
  Vals <- MCVals
  Creator = 1
  a = a
  b = b
  t1 = t1
  t2 = t2
  Deleted = Deleted
  None = None
  NoTree = NoTree
  Ids = {t1}
  MaxEdits = 2
  MaxClock = 5
  MaxEpoch = 1
  Retention = 0
  MaxCuts = 1
  GuardsTabs = TRUE
  CutsMerges = FALSE
INVARIANTS
  SyncedMeansSame
PROPERTIES
  
  OldHistoryStaysOut
