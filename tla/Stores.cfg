\* One store; two requests that may overlap and crash; three reviews.
CONSTANTS
  None = None
  NoThreshold = NoThreshold
  Keys = {t1}
  o1 = o1
  o2 = o2
  o3 = o3
  Orders <- MCOrders
  ReviewIds = {v1, v2, v3}
  Stars <- MCStars
  Slots = {s1, s2}
  CanCrash = TRUE
SPECIFICATION Spec
SYMMETRY IdSymmetry
INVARIANTS
  RateFitsSubscription
  RatingIsNotInflated
  RatingIsTheMean
PROPERTIES
  SuspensionHolds
\* Nobody need send another request, so the system may stop.
CHECK_DEADLOCK FALSE
