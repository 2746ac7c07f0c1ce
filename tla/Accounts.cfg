\* One person; two requests that may overlap and crash; two logins in a window.
CONSTANTS
  None = None
  Keys = {u1}
  Slots = {s1, s2}
  CanCrash = TRUE
  Limit = 2
SPECIFICATION FairSpec
INVARIANTS
  AccountsAreCoherent
  PendingHasACode
  CodeWorksOnce
  EveryWindowEnds
PROPERTIES
  ModerationStands
  CodeActivates
\* Nobody need send another request, so the system may stop.
CHECK_DEADLOCK FALSE
