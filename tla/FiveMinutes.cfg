SPECIFICATION FairSpec
CONSTANTS
  NoPass = NoPass
  NoMarker = NoMarker
  PatientReader = FALSE
  MaxEdits = 1
  MaxThemes = 0
  MaxConnects = 1
  MaxStops = 0
PROPERTIES
  EveryFiveMinutesWhileOn
CHECK_DEADLOCK FALSE
