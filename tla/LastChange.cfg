SPECIFICATION Spec
CONSTANTS
  NoPass = NoPass
  NoMarker = NoMarker
  PatientReader = TRUE
  MaxEdits = 1
  MaxThemes = 0
  MaxConnects = 1
  MaxStops = 0
INVARIANTS
  LastChangeIsPending
CHECK_DEADLOCK FALSE
