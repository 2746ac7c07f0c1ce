---------------------------- MODULE Marketplace ----------------------------
(***************************************************************************)
(* The marketplace: orders, catalogue stock, payments, ledger, couriers    *)
(* and deliveries, served by the requests of module Requests.              *)
(***************************************************************************)
EXTENDS Deliveries, FiniteSetsExt

vars == <<req, orders, products, payments, ledger, deliveries, profiles>>

Init ==
  /\ RequestsInit
  /\ OrdersInit
  /\ PaymentsInit
  /\ CollaboratorsInit
  /\ DeliveriesInit

TypeOK ==
  /\ RequestsTypeOK
  /\ OrdersTypeOK
  /\ PaymentsTypeOK
  /\ CollaboratorsTypeOK
  /\ DeliveriesTypeOK

\* A client, seller, admin, courier or the payment gateway sends a request.
Begin(s) ==
  \/ OrdersBegin(s) /\ UNCHANGED <<payments, ledger, deliveries, profiles>>
  \/ PaymentsBegin(s) /\ UNCHANGED <<products, deliveries, profiles>>
  \/ CollaboratorsBegin(s) /\ UNCHANGED <<orders, products, payments, ledger, deliveries>>
  \/ DeliveriesBegin(s) /\ UNCHANGED <<products, payments, ledger>>

\* The server makes the next database call of a request.
Serve(s) ==
  \/ OrdersStep(s) /\ UNCHANGED <<payments, ledger, deliveries, profiles>>
  \/ PaymentsStep(s) /\ UNCHANGED <<products, deliveries, profiles>>
  \/ CollaboratorsStep(s) /\ UNCHANGED <<orders, products, payments, ledger, deliveries>>
  \/ DeliveriesStep(s) /\ UNCHANGED <<products, payments, ledger>>

Fail(s) == Crash(s) /\ UNCHANGED <<orders, products, payments, ledger, deliveries, profiles>>

Next == \E s \in Slots : Begin(s) \/ Serve(s) \/ Fail(s)

Spec == Init /\ [][Next]_vars

\* Nobody has to send a request; the server goes on with every one it has
\* begun, as the event loop resumes a coroutine whose database call returned.
FairSpec == Spec /\ \A s \in Slots : WF_vars(Serve(s))

\* The order a request is about, None if it is about none (or no longer).
Subject(s) ==
  CASE req[s].oid # None      -> req[s].oid
    [] req[s].oid = None /\ req[s].delivery # None -> req[s].delivery.order
    [] req[s].oid = None /\ req[s].delivery = None /\ req[s].payment # None -> req[s].payment.order
    [] OTHER -> None

\* An environment that never has two requests about one order in progress.
Isolated ==
  \A s, t \in Slots : s # t /\ Subject(s) # None => Subject(s) # Subject(t)

IsolatedSpec == Init /\ [][Next /\ Isolated']_vars

-----------------------------------------------------------------------------
(* Vocabulary of the properties *)

Placed(o) == orders[o] # None

\* No request is in progress.
Quiet == \A s \in Slots : At(s, "idle")

\* Some delivery was created for order o, given to one of these couriers.
Carried(o, couriers) ==
  \E d \in DeliveryIds : /\ deliveries[d] # None
                         /\ deliveries[d].order = o
                         /\ deliveries[d].collaborator \in couriers

\* A delivery has passed the point its order's status speaks of.
Reached(d, status) ==
  CASE status = "assigned"  -> TRUE
    [] status = "picked_up" ->
         deliveries[d].status \in {"picked_up", "en_route_dropoff", "delivered"}
    [] status = "delivered" -> deliveries[d].status = "delivered"

-----------------------------------------------------------------------------
(* Safety that every environment keeps: overlapping requests and crashes *)

\* Stock on sale is never negative, whatever orders, cancellations and edits
\* overlap: create_order tests the very document it later decrements.
StockNeverNegative ==
  \A p \in ProductIds :
    products[p] # None /\ products[p].stock # None => products[p].stock >= 0

\* An order says that it is on its way only if a delivery was created for it,
\* and names a courier only if that courier got such a delivery.
OnItsWay == {"assigned", "picked_up", "delivered"}
Backed(o, order) ==
  /\ order.status \in OnItsWay => Carried(o, CourierIds)
  /\ order.collaborator # None => Carried(o, {order.collaborator})
OrdersAreBacked == \A o \in OrderIds : Placed(o) => Backed(o, orders[o])

\* The ledger speaks of orders that have a payment, books as settled exactly
\* what was paid through the gateway (commission and seller's earning), and
\* credits a delivery fee only to a courier who got a delivery of the order.
EntryBacked(e) ==
  /\ \E p \in PaymentIds : payments[p] # None /\ payments[p].order = e.order
  /\ orders[e.order] # None
  /\ IF e.user \in CourierIds
       THEN e.settled /\ Carried(e.order, {e.user})
       ELSE e.settled = (orders[e.order].method = "wompi")
LedgerIsBacked == \A e \in LedgerEntry : ledger[e] > 0 => EntryBacked(e)

\* The ledger pays a seller no more often than it books the commission.
SellerAfterPlatform ==
  \A o \in OrderIds : Credited(o, "seller") <= Credited(o, "platform")

\* A payment is made the way its order says.
PaymentFitsOrder ==
  \A p \in PaymentIds : payments[p] # None =>
    /\ Placed(payments[p].order)
    /\ payments[p].method = orders[payments[p].order].method

\* Matching finds every courier who is available: one who is online has a
\* location, and keeps it while on a delivery.
AvailableIsLocated ==
  \A c \in CourierIds :
    profiles[c] # None /\ profiles[c].availability # "offline" => profiles[c].located

\* Saving whole documents that were read earlier never changes what was
\* bought, how it is paid, or who delivers what, and nothing disappears.
Kept ==
  /\ \A o \in OrderIds : orders[o] # None =>
       /\ orders'[o] # None
       /\ orders'[o].items = orders[o].items
       /\ orders'[o].method = orders[o].method
       /\ orders'[o].fee = orders[o].fee
  /\ \A d \in DeliveryIds : deliveries[d] # None =>
       /\ deliveries'[d] # None
       /\ deliveries'[d].order = deliveries[d].order
       /\ deliveries'[d].collaborator = deliveries[d].collaborator
  /\ \A p \in PaymentIds : payments[p] # None =>
       /\ payments'[p] # None
       /\ payments'[p].order = payments[p].order
       /\ payments'[p].method = payments[p].method
LedgerGrows == \A e \in LedgerEntry : ledger'[e] >= ledger[e]
TermsAreKept == [][Kept /\ LedgerGrows]_vars

-----------------------------------------------------------------------------
(* Safety of requests about one order that do not overlap (IsolatedSpec), *)
(* even if they crash and however requests about other orders interleave   *)

\* An order is assigned to one courier, once.
AtMostOneDelivery == \A o \in OrderIds : Cardinality(DeliveriesOf(o)) <= 1

\* An order is paid once, by one payment document ("idempotent, already
\* settled/intented", settle_order_payment), and the ledger credits everyone
\* once for it, however often the webhook or the courier calls: "never applied
\* twice" (docs/ORDER_FLOW.md).
PaidOnce ==
  \A o \in OrderIds :
    /\ Cardinality(PaymentsOf(o)) <= 1
    /\ \A user \in CourierIds \cup {"platform", "seller"} : Credited(o, user) <= 1

\* The order follows its delivery and is never ahead of it.
OrderFollowsDelivery ==
  \A o \in OrderIds :
    Placed(o) /\ orders[o].status \in {"assigned", "picked_up", "delivered"}
      => \E d \in DeliveriesOf(o) : Reached(d, orders[o].status)

\* A delivery only moves forward, one status at a time.
DeliveryForwardOnly ==
  [][ \A d \in DeliveryIds : deliveries[d] # None /\ deliveries'[d] # deliveries[d] =>
        \/ deliveries'[d].status = deliveries[d].status
        \/ /\ deliveries[d].status \in DOMAIN DeliveryAdvance
           /\ deliveries'[d].status = DeliveryAdvance[deliveries[d].status] ]_vars

-----------------------------------------------------------------------------
(* Safety of requests that neither overlap nor crash.  The account of the *)
(* stock is that of one request in progress.                             *)

\* The stock of p is counted.
Stocked(p) == products[p] # None /\ products[p].stock # None

\* Pieces of p in the first n lines of a cart.
Quantity(items, n, p) ==
  MapThenSumSet(LAMBDA i : IF items[i].product = p THEN items[i].qty ELSE 0, 1..n)

Names(lines, p) == \E i \in DOMAIN lines : lines[i].product = p

\* What placing an order takes from the shelf.  Of a product that several lines
\* name the last one counts: each saves a copy read before the others' saves.
Charged(lines, p) ==
  IF Names(lines, p) THEN lines[Max({i \in DOMAIN lines : lines[i].product = p})].qty ELSE 0

\* What an order has of p: a cancelled one gave back every line.
Outstanding(o, p) ==
  CASE ~Placed(o)                                      -> 0
    [] Placed(o) /\ orders[o].status # "cancelled" -> Charged(orders[o].items, p)
    [] OTHER -> Charged(orders[o].items, p) - Quantity(orders[o].items, Len(orders[o].items), p)
OnOrder(p) == MapThenSumSet(LAMBDA o : Outstanding(o, p), OrderIds)

\* What a request has taken so far for an order it did not place yet: all, once
\* it has no copy of p left to save.
TakenAway(r, p) ==
  CASE r.pc # "create" \/ Names(r.lines, p) -> 0
    [] r.pc = "create" /\ ~Names(r.lines, p) /\ Names(r.taken, p) ->
         LET i == CHOOSE i \in DOMAIN r.taken : r.taken[i].product = p
         IN  r.taken[i].goods.stock - products[p].stock
    [] OTHER -> Charged(r.order.items, p)

\* What it has put back of an order that is not marked cancelled yet.
PutBack(r, p) ==
  IF r.pc \in {"cancel", "restock"}
    THEN Quantity(r.order.items, Len(r.order.items) - Len(r.lines), p) ELSE 0

Account(r, p) == products[p].stock + OnOrder(p) + TakenAway(r, p) - PutBack(r, p)

\* The seller is about to set another stock.
Edited(r, p) ==
  r.pc = "save_product" /\ r.product = p /\ r.goods.stock # products[p].stock

\* No piece gets lost between the shelf and the orders, and none is sold twice:
\* in every step but the seller's own edit of the stock (and deletion of the
\* product), what is on the shelf, on order and in the hands of the request in
\* progress stays the same in all.
AccountKept(s, p) ==
  Stocked(p) /\ Stocked(p)' /\ ~Edited(req[s], p)
    => Account(req[s], p)' = Account(req[s], p)
StockConserved == [][\A s \in Slots, p \in ProductIds : AccountKept(s, p)]_vars

\* All that is paid is booked in full.  Delivering a cash order leaves one
\* approved payment, which the order refers to, and one entry for everyone who
\* earns; an approved gateway payment is the one its order refers to and pays
\* the platform and the seller.
PaidInFull ==
  Quiet =>
    /\ \A o \in OrderIds :
         Placed(o) /\ orders[o].method = "cash" /\ orders[o].status = "delivered" =>
           /\ orders[o].payment # None
           /\ payments[orders[o].payment].status = "approved"
           /\ \A user \in {"platform", "seller"} : Credited(o, user) = 1
           /\ orders[o].fee => Credited(o, orders[o].collaborator) = 1
    /\ \A p \in PaymentIds :
         payments[p] # None /\ payments[p].method = "wompi" /\ payments[p].status = "approved" =>
           /\ orders[payments[p].order].payment = p
           /\ \A user \in {"platform", "seller"} : Credited(payments[p].order, user) = 1

\* A courier shown as on a delivery has one to finish.
Busy(c) == profiles[c] # None /\ profiles[c].availability = "on_delivery"
HasJob(c) ==
  \E d \in DeliveryIds : /\ deliveries[d] # None
                         /\ deliveries[d].collaborator = c
                         /\ deliveries[d].status # "delivered"
BusyCourierHasJob == Quiet => \A c \in CourierIds : Busy(c) => HasJob(c)

-----------------------------------------------------------------------------
(* Liveness of requests that neither overlap nor crash, under FairSpec *)

\* All that follows from a delivery: its order is delivered, a cash order is
\* settled (the seller's earning is the last entry of a settlement), and the
\* courier is free, unless another delivery keeps them busy.
Completed(delivery) ==
  LET o == delivery.order
      c == delivery.collaborator
  IN  /\ Quiet
      /\ orders[o].status = "delivered"
      /\ orders[o].method = "cash" => Credited(o, "seller") = 1
      /\ Busy(c) => HasJob(c)

\* Once the courier has marked a delivery delivered, all of it comes to pass.
DeliveryCompletes ==
  \A d \in DeliveryIds :
    deliveries[d] # None /\ deliveries[d].status = "delivered"
      ~> deliveries[d] # None /\ Completed(deliveries[d])

-----------------------------------------------------------------------------
(* What the marketplace promises, module OrderContract: requests that neither *)
(* overlap nor crash implement it, under FairSpec.                            *)

Contract == INSTANCE OrderContract WITH
  status  <- [o \in OrderIds |-> IF Placed(o) THEN orders[o].status ELSE "none"],
  cash    <- [o \in OrderIds |-> Placed(o) /\ orders[o].method = "cash"],
  courier <- [o \in OrderIds |-> IF Placed(o) THEN orders[o].collaborator ELSE None],
  booked  <- [o \in OrderIds |-> Credited(o, "seller") > 0]

\* Every write of the handlers is a step the contract allows, or none: no order
\* skips a status, goes back or changes courier, and cash is booked at last.
KeepsContract == Contract!Spec
=============================================================================
