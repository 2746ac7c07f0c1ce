------------------------------ MODULE Requests ------------------------------
(***************************************************************************)
(* HTTP requests in progress.  Every handler of the API is an async        *)
(* function that reads documents, tests them in memory and writes whole    *)
(* documents back, one awaited database call after another: between two    *)
(* of these calls any other request may run.  A slot holds one request: pc *)
(* says which database call comes next, the other fields are the handler's *)
(* local variables.  With one slot requests do not overlap; with two,      *)
(* every interleaving of two requests occurs.                              *)
(*                                                                         *)
(* A request that the guards refuse before it wrote anything leaves no     *)
(* trace, so the first step of an operation is taken only when its guards  *)
(* hold; a handler that gives up later frees its slot (Finish).            *)
(***************************************************************************)
EXTENDS Documents, FiniteSets

CONSTANTS
  Slots,      \* bound: how many requests may be in progress together
  Ops,        \* bound: the operations clients invoke
  CanCrash    \* may a handler stop between two of its database calls?

ASSUME CanCrashAssumption == CanCrash \in BOOLEAN
ASSUME SlotsAssumption == IsFiniteSet(Slots)

VARIABLE req

\* The database call a handler is about to make.
Labels ==
  {"idle",
   "create", "cancel", "restock", "save_order", "save_product",
   "check_intent", "insert_intent", "save_payment", "load_paid",
   "check_payment", "insert_payment", "save_paid", "ledger",
   "save_availability",
   "check_assigned", "pick", "insert_delivery", "save_assigned", "save_profile",
   "save_delivery", "load_synced", "save_synced", "free",
   "save_location", "load_located", "save_proof"}

Take == [product : ProductIds, goods : Product, qty : Nat \ {0}]

Request ==
  [pc       : Labels,
   oid      : Maybe(OrderIds),    order    : Maybe(Order),
   did      : Maybe(DeliveryIds), delivery : Maybe(Delivery),
   pid      : Maybe(PaymentIds),  payment  : Maybe(Payment),
   cid      : Maybe(CourierIds),  profile  : Maybe(Profile),
   product  : Maybe(ProductIds),  goods    : Maybe(Product),
   lines    : Seq(Line),          \* cart lines still to be handled
   taken    : Seq(Take),          \* products read, to be decremented
   todo     : Seq(LedgerEntry)]   \* ledger entries still to be written

Idle ==
  [pc |-> "idle",
   oid |-> None, order |-> None, did |-> None, delivery |-> None,
   pid |-> None, payment |-> None, cid |-> None, profile |-> None,
   product |-> None, goods |-> None,
   lines |-> << >>, taken |-> << >>, todo |-> << >>]

RequestsInit == req = [s \in Slots |-> Idle]
RequestsTypeOK == req \in [Slots -> Request]

\* Slot s is free and clients invoke op.
Free(s, op) == req[s].pc = "idle" /\ op \in Ops

At(s, label) == req[s].pc = label

\* The request of slot s goes on as r, which says what call comes next.
Goto(s, r) == req' = [req EXCEPT ![s] = r]

Finish(s) == Goto(s, Idle)

\* The process dies, or a database call raises: what was written stays written.
Crash(s) == CanCrash /\ ~At(s, "idle") /\ Finish(s)
=============================================================================
