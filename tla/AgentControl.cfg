SPECIFICATION Spec
CONSTANTS
  a = a
  b = b
  s1 = s1
  s2 = s2
  Names = {a, b}
  Sockets = {s1, s2}
  Spaces = {home, x, y}
  Tabs = {t1, t2}
  Windows = {w}
  Home = home
  HomeTab = t1
  Kept = x
  KeptTab = t2
  Keeper = a
  Carries <- OneAndBoth
  None = None
  MaxAsks = 2
  MaxActs = 2
INVARIANTS
  TypeOK
  RequestsAreHeld
  NothingOutOfReach
  TemporariesGo
PROPERTIES
  ReadersSpacesStay
  StoppedStartsNothing
  EveryRequestIsAnswered
CHECK_DEADLOCK FALSE
