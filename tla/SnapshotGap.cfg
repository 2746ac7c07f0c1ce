\* One delivery; two requests of its courier that may overlap and crash; one
\* connection.
CONSTANTS
  None = None
  d1 = d1
  Keys <- MCDeliveries
  TrackOf <- MCTrackOf
  Connections = {c1}
  LastStatus = 1
  MaxPoints = 2
  Slots = {s1, s2}
  CanCrash = TRUE
SPECIFICATION Spec
INVARIANT SnapshotMissesNothing
\* The courier need not report anything more, so the system may stop.
CHECK_DEADLOCK FALSE
