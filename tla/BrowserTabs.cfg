SPECIFICATION Spec
CONSTANTS
  Space = {s1, s2}
  Tab = {a, b, c}
  None = None
  MaxClosed = 1
  MaxFolders = 1
  MaxMarks = 5
  WindowsSplit = FALSE
SYMMETRY MCSymmetry
INVARIANTS
  TypeOK
  SplitsAreWhole
  
  FoldersHoldRows
  PinsComeFirst
  CachesAreCurrent
PROPERTIES
  
  SplitsLast
