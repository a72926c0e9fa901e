SPECIFICATION Spec
CONSTANTS
  NoPass = NoPass
  NoMarker = NoMarker
  PatientReader = TRUE
  MaxEdits = 0
  MaxThemes = 1
  MaxConnects = 1
  MaxStops = 0
PROPERTIES
  ThemeEditSurvives
CHECK_DEADLOCK FALSE
