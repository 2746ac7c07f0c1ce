\* One errand, two couriers; three requests that may overlap and crash.
CONSTANTS
  None = None
  Keys = {e1}
  Couriers = {c1, c2}
  PaymentIds = {m1, m2, m3}
  Slots = {s1, s2, s3}
  CanCrash = TRUE
SPECIFICATION FairSpec
INVARIANTS
  ErrandsAreCoherent
  EarningsAreBacked
  PaidOnce
PROPERTIES
  KeepsPromise
  CompletedIsSettled
\* Nobody need send another request, so the system may stop.
CHECK_DEADLOCK FALSE
