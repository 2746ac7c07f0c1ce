\* Two orders of one store; two statements that may overlap and crash.
CONSTANTS
  None = None
  NoThreshold = NoThreshold
  StatementIds = {n1, n2}
  Keys = {t1}
  Orders = {o1, o2}
  ItemTotals = {15, 30}
  Rates = {10}
  BaseFees = {5}
  FreeOver = 30
  Slots = {s1, s2}
  CanCrash = TRUE
SPECIFICATION FairSpec
INVARIANTS
  TypeOK
  SettledIsBilled
  BooksBalance
PROPERTIES
  CoveredGetsSettled
\* Nobody need ask for another statement, so the system may stop.
CHECK_DEADLOCK FALSE
