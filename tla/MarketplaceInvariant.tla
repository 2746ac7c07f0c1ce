------------------------- MODULE MarketplaceInvariant -------------------------
(***************************************************************************)
(* The inductive invariant behind the safety that overlapping requests     *)
(* cannot break.  The documents in a collection are no evidence of what a  *)
(* request will write: what counts is what each request holds.  HoldsX     *)
(* says what the copy of a document in a request may be, in terms of facts *)
(* about the collections that no later write undoes (TermsAreKept).        *)
(***************************************************************************)
EXTENDS Marketplace

SameTerms(a, b) == a.items = b.items /\ a.method = b.method /\ a.fee = b.fee

HoldsOrder(r) ==
  /\ r.oid \in OrderIds /\ r.order \in Order
  /\ orders[r.oid] # None
  /\ SameTerms(r.order, orders[r.oid])
  /\ Backed(r.oid, r.order)

HoldsDelivery(r) ==
  /\ r.did \in DeliveryIds /\ r.delivery \in Delivery
  /\ deliveries[r.did] # None
  /\ r.delivery.order = deliveries[r.did].order
  /\ r.delivery.collaborator = deliveries[r.did].collaborator

HoldsPayment(r) ==
  /\ r.payment \in Payment
  /\ \E p \in PaymentIds : payments[p] # None /\ payments[p].order = r.payment.order
  /\ orders[r.payment.order] # None
  /\ r.payment.method = orders[r.payment.order].method

HoldsProfile(r) ==
  /\ r.cid \in CourierIds /\ r.profile \in Profile
  /\ r.profile.availability # "offline" => r.profile.located

HoldsGoods(r) ==
  /\ r.goods \in Product
  /\ r.goods.stock # None => r.goods.stock >= 0

OrderLabels == {"cancel", "restock", "save_order", "check_payment", "insert_payment",
                "save_paid", "check_assigned", "pick", "insert_delivery",
                "save_assigned", "save_synced"}
DeliveryLabels == {"save_delivery", "load_synced", "save_synced", "check_payment",
                   "insert_payment", "free", "save_location", "load_located", "save_proof"}
PaymentLabels == {"save_payment", "load_paid", "save_paid"}
ProfileLabels == {"insert_delivery", "save_assigned", "save_profile"}

RequestInv(r) ==
  /\ r.pc = "create" =>
       /\ r.order \in Order
       /\ r.order.status = "pending" /\ r.order.collaborator = None
  /\ r.pc \in OrderLabels => HoldsOrder(r)
  /\ r.pc \in DeliveryLabels => r.did # None
  /\ r.did # None => HoldsDelivery(r)
  /\ r.pc = "load_synced" => r.delivery.status \in OrderSync
  /\ r.pc \in PaymentLabels => HoldsPayment(r)
  /\ r.pc \in {"save_payment", "load_paid"} =>
       /\ r.pid \in PaymentIds
       /\ payments[r.pid] # None
       /\ payments[r.pid].order = r.payment.order
       /\ payments[r.pid].method = r.payment.method
  /\ r.pc = "save_paid" => r.payment.order = r.oid
  /\ r.pc \in {"check_payment", "insert_payment"} => r.order.method = "cash"
  /\ r.pc \in {"check_intent", "insert_intent"} =>
       r.oid \in OrderIds /\ orders[r.oid] # None /\ orders[r.oid].method = "wompi"
  /\ r.pc \in ProfileLabels => HoldsProfile(r)
  /\ r.pc \in {"insert_delivery", "save_assigned"} => r.profile.located
  /\ r.pc \in {"restock", "save_product"} => HoldsGoods(r)
  /\ r.pc = "restock" => r.lines # << >> /\ r.goods.stock # None
  /\ r.pc = "save_product" => r.product \in ProductIds
  /\ \A i \in DOMAIN r.taken :
       r.taken[i].goods.stock \in Int /\ r.taken[i].goods.stock >= r.taken[i].qty
  /\ \A i \in DOMAIN r.todo : EntryBacked(r.todo[i])

DeliveriesArePlaced ==
  \A d \in DeliveryIds : deliveries[d] # None => orders[deliveries[d].order] # None

CollectionsInv ==
  /\ StockNeverNegative
  /\ OrdersAreBacked
  /\ DeliveriesArePlaced
  /\ PaymentFitsOrder
  /\ LedgerIsBacked
  /\ AvailableIsLocated

Inv ==
  /\ TypeOK
  /\ \A s \in Slots : RequestInv(req[s])
  /\ CollectionsInv

-----------------------------------------------------------------------------
(* Requests about one order that do not overlap.  Nobody else writes what a *)
(* request about the order has read, so the copy it holds is still what is  *)
(* stored, and a document it found missing is still missing.                *)

Users == CourierIds \cup {"platform", "seller"}
Unbooked(o) == \A user \in Users : Credited(o, user) = 0
Approved(o) == \E p \in PaymentsOf(o) : payments[p].status = "approved"
Follows(o, status) == status \in OnItsWay => \E d \in DeliveriesOf(o) : Reached(d, status)

\* Nothing is booked for an order before a payment of it was approved.
OrderInv(o) ==
  /\ \A d, e \in DeliveriesOf(o) : d = e
  /\ \A p, q \in PaymentsOf(o) : p = q
  /\ \A user \in Users : Credited(o, user) <= 1
  /\ Unbooked(o) \/ Approved(o)
  /\ Placed(o) => Follows(o, orders[o].status)

OrderSaves == {"save_order", "save_assigned", "save_synced", "check_payment",
               "insert_payment", "save_paid"}
DeliverySaves == {"save_delivery", "load_synced", "save_location", "save_proof"}

Undisturbed(r) ==
  /\ r.pc \in DeliverySaves \cup {"save_payment", "load_paid"} => r.oid = None
  /\ r.pc \in {"pick", "insert_delivery"} => DeliveriesOf(r.oid) = {}
  /\ r.pc \in {"insert_intent", "insert_payment"} => PaymentsOf(r.oid) = {}
  /\ r.pc = "save_delivery" =>
       /\ deliveries[r.did].status \in DOMAIN DeliveryAdvance
       /\ r.delivery.status = DeliveryAdvance[deliveries[r.did].status]
  /\ r.pc \in DeliverySaves \ {"save_delivery"} =>
       r.delivery.status = deliveries[r.did].status
  /\ r.pc \in OrderSaves => Follows(r.oid, r.order.status)
  /\ r.pc \in {"save_payment", "load_paid"} =>
       r.delivery = None /\ Unbooked(r.payment.order)
  /\ r.pc = "load_paid" => Approved(r.payment.order)
  /\ r.pc = "save_paid" => Unbooked(r.oid) /\ Approved(r.oid)
  /\ r.pc = "ledger" =>
       /\ r.oid \in OrderIds /\ Approved(r.oid)
       /\ \A i \in DOMAIN r.todo : /\ r.todo[i].order = r.oid
                                   /\ Credited(r.oid, r.todo[i].user) = 0
       /\ \A i, j \in DOMAIN r.todo : r.todo[i].user = r.todo[j].user => i = j

IsolatedInv ==
  /\ Inv
  /\ Isolated
  /\ \A o \in OrderIds : OrderInv(o)
  /\ \A s \in Slots : Undisturbed(req[s])

-----------------------------------------------------------------------------
(* The ledger of overlapping, crashing requests.  A settlement writes the    *)
(* courier's entry, the platform's and the seller's, in this order: one that *)
(* has only the last entry left to write has booked a commission for which   *)
(* the seller is not paid yet.                                               *)

Settling(todo) ==
  /\ Len(todo) <= 3
  /\ Len(todo) > 0 => todo[Len(todo)].user = "seller"
  /\ Len(todo) > 1 => /\ todo[Len(todo) - 1].user = "platform"
                      /\ todo[Len(todo) - 1].order = todo[Len(todo)].order
  /\ Len(todo) > 2 => todo[1].user \in CourierIds

Owing(o) == {s \in Slots : Len(req[s].todo) = 1 /\ req[s].todo[1].order = o}

LedgerInv ==
  /\ TypeOK
  /\ \A s \in Slots : Settling(req[s].todo)
  /\ \A o \in OrderIds :
       Credited(o, "seller") + Cardinality(Owing(o)) <= Credited(o, "platform")

-----------------------------------------------------------------------------
(* Requests that come one at a time and do not crash.  An order is where its *)
(* delivery is, what was paid is booked, and a busy courier has a job,       *)
(* except while the one request in progress is about to make it so.          *)

Serial == ~CanCrash /\ \E s : Slots = {s}

\* Where an order stands while its delivery has this status.
Milestone(status) ==
  CASE status \in {"assigned", "en_route_pickup"}   -> "assigned"
    [] status \in {"picked_up", "en_route_dropoff"} -> "picked_up"
    [] status = "delivered"                         -> "delivered"

Synced(o) ==
  /\ DeliveriesOf(o) = {} => orders[o].status \notin OnItsWay /\ orders[o].collaborator = None
  /\ \A d \in DeliveriesOf(o) : /\ orders[o].status = Milestone(deliveries[d].status)
                                /\ orders[o].collaborator # None

Synchronizes(r, o) ==
  \/ r.pc \in {"load_synced", "save_synced"} /\ r.delivery.order = o
  \/ r.pc = "save_assigned" /\ r.oid = o

\* Who the settlement of an order credits for certain.
Earners(order) ==
  {"platform", "seller"} \cup
    IF order.method = "cash" /\ order.fee THEN {order.collaborator} ELSE {}

PaidOff(o) ==
  /\ orders[o].method = "cash" /\ orders[o].status = "delivered" => Approved(o)
  /\ Approved(o) => /\ orders[o].payment \in PaymentsOf(o)
                    /\ \A user \in Earners(orders[o]) : Credited(o, user) = 1

Settles(r, o) ==
  \/ r.pc \in {"check_payment", "insert_payment", "save_paid", "ledger"} /\ r.oid = o
  \/ r.pc = "load_paid" /\ r.payment.order = o

\* Cash is not paid before the order is delivered.
CashComesLast(o) ==
  orders[o].method = "cash" /\ PaymentsOf(o) # {} => orders[o].status = "delivered"

OrderStands(o, r) ==
  /\ Synced(o) \/ Synchronizes(r, o)
  /\ PaidOff(o) \/ Settles(r, o)
  /\ CashComesLast(o)

Frees(r, c) ==
  \/ /\ r.pc \in {"load_synced", "save_synced", "check_payment", "insert_payment",
                  "save_paid", "ledger", "free"}
     /\ r.did # None
     /\ r.delivery.status = "delivered" /\ r.delivery.collaborator = c
  \/ r.pc = "save_profile" /\ r.cid = c

CourierStands(c, r) ==
  Busy(c) => HasJob(c) \/ Frees(r, c)

\* What a request does not change of the order it holds is as stored.
AsStored(r) ==
  /\ r.pc \in OrderLabels \ {"save_assigned"} =>
       r.order.collaborator = orders[r.oid].collaborator
  /\ r.pc \in OrderLabels \ {"save_paid"} => r.order.payment = orders[r.oid].payment
  /\ r.pc \in OrderLabels \ {"save_order", "save_assigned", "save_synced"} =>
       r.order.status = orders[r.oid].status

AboutStatus(r) ==
  /\ r.pc = "save_order" =>
       \/ orders[r.oid].status = "pending" /\ r.order.status = "accepted"
       \/ /\ orders[r.oid].status \in DOMAIN SellerAdvance
          /\ r.order.status = SellerAdvance[orders[r.oid].status]
  /\ r.pc \in {"cancel", "restock"} => r.order.status \in Cancellable
  /\ r.pc \in {"check_assigned", "pick", "insert_delivery"} => r.order.status = "ready"
  /\ r.pc = "save_assigned" =>
       /\ orders[r.oid].status = "ready" /\ orders[r.oid].collaborator = None
       /\ r.order.status = "assigned" /\ r.order.collaborator = r.cid
       /\ \A d \in DeliveriesOf(r.oid) : deliveries[d].status = "assigned"
  /\ r.pc \in {"load_synced", "save_synced"} =>
       /\ deliveries[r.did].status = r.delivery.status
       /\ orders[r.delivery.order].status =
            IF r.delivery.status = "delivered" THEN "picked_up" ELSE "assigned"
       /\ orders[r.delivery.order].collaborator # None
  /\ r.pc = "save_synced" =>
       /\ r.oid = r.delivery.order
       /\ r.order.status = r.delivery.status /\ r.order.status \in OrderSync

AboutPayment(r) ==
  /\ r.pc \in {"save_payment", "load_paid"} => r.payment.method = "wompi"
  /\ r.pc \in {"check_payment", "insert_payment"} =>
       orders[r.oid].status = "delivered" /\ PaymentsOf(r.oid) = {}
  /\ r.pc = "save_paid" => r.order.payment \in PaymentsOf(r.oid)
  /\ r.pc = "ledger" =>
       /\ orders[r.oid] # None /\ orders[r.oid].payment \in PaymentsOf(r.oid)
       /\ \A user \in Earners(orders[r.oid]) :
            Credited(r.oid, user) = 1 \/ \E i \in DOMAIN r.todo : r.todo[i].user = user

AboutCourier(r) ==
  /\ r.pc = "save_assigned" => HasJob(r.cid)
  /\ r.pc = "save_profile" /\ r.profile.availability = "on_delivery" => HasJob(r.cid)
  /\ r.pc \in {"check_payment", "insert_payment", "save_paid", "ledger", "free"}
       /\ r.did # None => r.delivery.status = "delivered"

Stands(r) ==
  /\ AsStored(r) /\ AboutStatus(r) /\ AboutPayment(r) /\ AboutCourier(r)
  /\ \A o \in OrderIds : Placed(o) => OrderStands(o, r)
  /\ \A c \in CourierIds : CourierStands(c, r)

SerialInv == IsolatedInv /\ \A s \in Slots : Stands(req[s])

-----------------------------------------------------------------------------
(* The stock, while requests come one at a time and do not crash.           *)

\* Lines are what is left of the lines of an order, from some line on.
RestOf(lines, items) ==
  /\ Len(lines) <= Len(items)
  /\ \A i \in DOMAIN lines : lines[i] = items[Len(items) - Len(lines) + i]

\* The lines to come and the copies taken tell what the whole cart will take.
\* Copies of one product are alike, and as stored until the first is saved.
Taking(r) ==
  /\ \A i \in DOMAIN r.taken : Stocked(r.taken[i].product)
  /\ \A i, j \in DOMAIN r.taken :
       r.taken[i].product = r.taken[j].product => r.taken[i].goods = r.taken[j].goods
  /\ r.lines # << >> =>
       \A i \in DOMAIN r.taken : r.taken[i].goods = products[r.taken[i].product]
  /\ \A p \in ProductIds : Stocked(p) =>
       CASE Names(r.lines, p) -> Charged(r.lines, p) = Charged(r.order.items, p)
         [] ~Names(r.lines, p) /\ Names(r.taken, p) ->
              Charged(r.taken, p) = Charged(r.order.items, p)
         [] OTHER -> r.lines # << >> => Charged(r.order.items, p) = 0

Shelving(r) ==
  /\ r.pc = "create" => Taking(r)
  /\ r.pc \in {"cancel", "restock"} => RestOf(r.lines, r.order.items)
  /\ r.pc = "restock" => r.goods = products[Head(r.lines).product]

StockInv == \A s \in Slots : Shelving(req[s])
=============================================================================
