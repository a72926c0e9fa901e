SPECIFICATION Spec
CONSTANTS
  Space = {s1, s2}
  Tab = {a, b, c}
  None = None
  MaxClosed = 1
  MaxFolders = 1
  MaxMarks = 6
  WindowsSplit = TRUE
SYMMETRY MCSymmetry
INVARIANT SplitsAreWhole
