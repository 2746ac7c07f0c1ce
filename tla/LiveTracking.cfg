\* One delivery; two requests of its courier that may overlap and crash; one
\* connection.
CONSTANTS
  None = None
  d1 = d1
  Keys <- MCDeliveries
  TrackOf <- MCTrackOf
  Connections = {c1}
  LastStatus = 2
  MaxPoints = 1
  Slots = {s1, s2}
  CanCrash = TRUE
SPECIFICATION Spec
INVARIANTS
  HeardIsUpToDate
  NoOrphans
PROPERTIES
  NeverGoesBack
\* The courier need not report anything more, so the system may stop.
CHECK_DEADLOCK FALSE
