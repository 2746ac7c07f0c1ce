\* Two clients, of which one has an order; two chats that may overlap and crash.
CONSTANTS
  u1 = u1  u2 = u2
  None = None
  Keys = {k1}
  Slots = {s1, s2}
  Users = {u1, u2}
  Orders = {o1}
  OwnerOf <- FirstOrders
  Status = {"pending", "accepted"}
  MaxCalls = 2
  MaxBlocks = 2
  MaxExchanges = 2
  CanCrash = TRUE
SPECIFICATION FairSpec
INVARIANTS
  TranscriptsArePrivate
  TranscriptsAreKept
  AnswersAreTimely
PROPERTIES
  ChatEnds
\* Nobody need ask another question, so the system may stop.
CHECK_DEADLOCK FALSE
