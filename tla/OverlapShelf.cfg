\* Two overlapping requests, which may crash, that take, return or edit the same stock.
CONSTANTS
  o1 = o1  o2 = o2  p1 = p1  p2 = p2  m1 = m1  m2 = m2
  d1 = d1  d2 = d2  c1 = c1  c2 = c2  s1 = s1  s2 = s2
  None = None
  OrderIds = {o1, o2}
  ProductIds = {p1}
  PaymentIds = {m1, m2}
  DeliveryIds = {d1, d2}
  CourierIds = {c1}
  Slots = {s1, s2}
  Carts <- OneOrTwo
  InitStock <- TwoEach
  FeeChoices <- WithFee
  NewStocks <- SellOut
  MaxStock = 2
  MaxBatches = 2
  Onboarded = {c1}
  Ops <- ShelfOps
  CanCrash = TRUE
SPECIFICATION Spec
SYMMETRY IdSymmetry
INVARIANTS
  StockNeverNegative
\* Clients need not send another request, so the system may stop.
CHECK_DEADLOCK FALSE
