------------------------------ MODULE Documents ------------------------------
(***************************************************************************)
(* The documents the marketplace keeps in MongoDB (the models.py files),   *)
(* and the status tables of the pure logic modules that say which status   *)
(* may follow which.  A document keeps the fields a guard reads or a       *)
(* property is about; names, prices, addresses and timestamps are left     *)
(* out.  A collection is a function from ids to documents, None where no   *)
(* document has that id.                                                   *)
(***************************************************************************)
EXTENDS Integers, Sequences

CONSTANTS
  OrderIds, ProductIds, PaymentIds, DeliveryIds,   \* ids the database hands out
  CourierIds,    \* user ids of collaborator accounts
  None,          \* Python's None, and a missing document
  Carts          \* the carts clients submit: sequences of [product, qty]

Line == [product : ProductIds, qty : Nat \ {0}]

ASSUME CartsAssumption == Carts \subseteq Seq(Line)
ASSUME NoneAssumption ==
  None \notin OrderIds \cup ProductIds \cup PaymentIds \cup DeliveryIds
              \cup CourierIds \cup Int \cup {"platform", "seller"}
ASSUME CourierAssumption == {"platform", "seller"} \cap CourierIds = {}

Maybe(S) == S \cup {None}

\* Beanie's save(), insert() and delete(): the whole document at once, whatever
\* the collection holds by then; a saved document that is gone comes back.
SaveInto(collection, id, doc) == [collection EXCEPT ![id] = doc]

-----------------------------------------------------------------------------
(* orders/models.py, orders/logic.py *)

OrderStatus == {"pending", "accepted", "preparing", "ready", "assigned",
                "picked_up", "delivered", "cancelled"}

Methods == {"cash", "wompi"}

Order == [status : OrderStatus,
          items : Carts,
          method : Methods,
          fee : BOOLEAN,                    \* amounts.delivery_fee > 0
          collaborator : Maybe(CourierIds),
          payment : Maybe(PaymentIds)]

Cancellable == {"pending", "accepted", "preparing", "ready"}

\* Mutant: the seller skips the preparation.
SellerAdvanceSkips == [st \in {"accepted", "preparing"} |-> "ready"]

\* Statuses the seller moves an order on from, and where to.
SellerAdvance == [st \in {"accepted", "preparing"} |->
                    IF st = "accepted" THEN "preparing" ELSE "ready"]

RecordStatus(order, st) == [order EXCEPT !.status = st]

-----------------------------------------------------------------------------
(* catalog/models.py: stock = None means that stock is not tracked *)

Product == [stock : Maybe(Int), available : BOOLEAN]

-----------------------------------------------------------------------------
(* delivery/models.py, delivery/logic.py *)

DeliveryStatus == {"assigned", "en_route_pickup", "picked_up",
                   "en_route_dropoff", "delivered"}

Delivery == [order : OrderIds,
             collaborator : CourierIds,
             status : DeliveryStatus,
             proof : BOOLEAN]

DeliveryAdvance ==
  [st \in DeliveryStatus \ {"delivered"} |->
     CASE st = "assigned"         -> "en_route_pickup"
       [] st = "en_route_pickup"  -> "picked_up"
       [] st = "picked_up"        -> "en_route_dropoff"
       [] st = "en_route_dropoff" -> "delivered"]

\* Milestones of a delivery that its order follows.
OrderSync == {"picked_up", "delivered"}

-----------------------------------------------------------------------------
(* collaborators/models.py; approved: verification_status is APPROVED, the one *)
(* verdict the code tells from the others; located: current_location is set    *)

Availability == {"offline", "online", "on_delivery"}

Profile == [approved : BOOLEAN, availability : Availability, located : BOOLEAN]

-----------------------------------------------------------------------------
(* payments/models.py *)

PaymentStatus == {"pending", "approved", "declined"}

Payment == [order : OrderIds, method : Methods, status : PaymentStatus]

\* A ledger entry credits an account; "platform" stands for user_id = None
\* (the commission) and "seller" for the owner of the order's store.
LedgerEntry == [order : OrderIds,
                user : CourierIds \cup {"platform", "seller"},
                settled : BOOLEAN]

\* Mutants: no fee for the courier, all of it settled, the seller paid first.
LedgerLinesNoFee(oid, order, settled) ==
  LET line(user) == [order |-> oid, user |-> user, settled |-> settled]
  IN  << line("platform"), line("seller") >>
LedgerLinesSettled(oid, order, settled) ==
  LET line(user) == [order |-> oid, user |-> user, settled |-> TRUE]
  IN  << line("platform"), line("seller") >>
LedgerLinesSellerFirst(oid, order, settled) ==
  LET line(user) == [order |-> oid, user |-> user, settled |-> settled]
  IN  << line("seller"), line("platform") >>

\* The entries one settlement of an order writes, in the order it writes them.
LedgerLines(oid, order, settled) ==
  LET line(user, paid) == [order |-> oid, user |-> user, settled |-> paid]
  IN  IF order.collaborator # None /\ order.fee
        THEN << line(order.collaborator, TRUE),
                line("platform", settled), line("seller", settled) >>
        ELSE << line("platform", settled), line("seller", settled) >>

-----------------------------------------------------------------------------
\* A document is never None.
ASSUME DocumentAssumption ==
  None \notin Order \cup Product \cup Delivery \cup Profile \cup Payment
=============================================================================
