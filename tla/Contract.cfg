\* Two orders, two products, one request at a time, nothing crashes: the safety of
\* serial trade, the order contract, and liveness under fairness.
CONSTANTS
  o1 = o1  o2 = o2  p1 = p1  p2 = p2  m1 = m1  m2 = m2
  d1 = d1  d2 = d2  c1 = c1  c2 = c2  s1 = s1  s2 = s2
  None = None
  OrderIds = {o1, o2}
  ProductIds = {p1, p2}
  PaymentIds = {m1, m2}
  DeliveryIds = {d1, d2}
  CourierIds = {c1}
  Slots = {s1}
  Carts <- NamedTwice
  InitStock <- ThreeOfOne
  FeeChoices <- WithFee
  NewStocks <- NoEdit
  MaxStock = 3
  MaxBatches = 2
  Onboarded = {c1}
  Ops <- ContractOps
  CanCrash = FALSE
SPECIFICATION FairSpec
INVARIANTS
  PaidInFull
  BusyCourierHasJob
PROPERTIES
  
  KeepsContract
  DeliveryCompletes
\* Clients need not send another request, so the system may stop.
CHECK_DEADLOCK FALSE
