SPECIFICATION FairSpec
CONSTANTS
  NoPass = NoPass
  NoMarker = NoMarker
  PatientReader = TRUE
  MaxEdits = 2
  MaxThemes = 1
  MaxConnects = 2
  MaxStops = 1
INVARIANTS
  TypeOK
  TimersFollowSwitch
  NoticedEditIsPending
  AdoptBeforePublish
  MarkerIsCurrent
PROPERTIES
  PageEditSurvives
  NoticedEditIsPublished
  DisconnectCompletes
CHECK_DEADLOCK FALSE
