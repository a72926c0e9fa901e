SPECIFICATION FairSpec
CONSTANTS
  Machines <- MCMachines
  FirstItems <- MCFirstItems
  Vals <- MCVals
  Creator = 1
  a = a
  b = b
  t1 = t1
  t2 = t2
  Deleted = Deleted
  None = None
  NoTree = NoTree
  Ids = {t1, t2}
  MaxEdits = 2
  MaxClock = 5
  MaxEpoch = 0
  Retention = 9
  MaxCuts = 1
  GuardsTabs = FALSE
  CutsMerges = TRUE
INVARIANTS
  TypeOK
  SyncedMeansSame
  SyncedMachinesAgree
PROPERTIES
  
  MachinesConverge
