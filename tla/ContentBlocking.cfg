SPECIFICATION Spec
CONSTANTS
  List = {l}
  Rules = {r1, r2}
  Version = {v1, v2}
  Unusable = {v2}
  Uncompiled = {r2}
  Seeded = {l}
  None = None
  MaxAsks = 2
  MaxStarts = 2
INVARIANTS
  TypeOK
  CompilingIsShown
  RestIsCurrent
  CurrentIsAsked
  CurrentIsStored
PROPERTIES
  
  OnlyWhatWasAsked
  PagesAreLetGo
  ListsSettle
CHECK_DEADLOCK FALSE
