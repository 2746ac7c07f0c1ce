-------------------------- MODULE MarketplaceProofs --------------------------
(***************************************************************************)
(* Type correctness and the safety of overlapping, crashing requests, for  *)
(* every number of slots, orders, products, couriers, payments and         *)
(* deliveries: Inv of module MarketplaceInvariant is inductive.  Then what *)
(* holds only while the requests about one order do not overlap, by its    *)
(* IsolatedInv, the order in which the ledger is written, by LedgerInv,    *)
(* and what one request at a time keeps, by SerialInv and StockInv.        *)
(***************************************************************************)
EXTENDS MarketplaceInvariant, SequenceTheorems, FiniteSetTheorems, TLAPS

Collections == <<orders, products, payments, ledger, deliveries, profiles>>

\* What a step does to the collections, and to the whole state.
GoodWrite ==
  /\ OrdersTypeOK' /\ PaymentsTypeOK' /\ CollaboratorsTypeOK' /\ DeliveriesTypeOK'
  /\ Kept /\ LedgerGrows
  /\ CollectionsInv'

GoodStep == Inv' /\ Kept /\ LedgerGrows

LEMMA IdleIsRequest == Idle \in Request
  BY DEF Idle, Request, Maybe, Labels

\* The labels, one by one: a prover looks them up faster than it searches the set.
LEMMA LabelNames ==
  /\ "idle" \in Labels /\ "create" \in Labels /\ "cancel" \in Labels
  /\ "restock" \in Labels /\ "save_order" \in Labels /\ "save_product" \in Labels
  /\ "check_intent" \in Labels /\ "insert_intent" \in Labels /\ "save_payment" \in Labels
  /\ "load_paid" \in Labels /\ "check_payment" \in Labels /\ "insert_payment" \in Labels
  /\ "save_paid" \in Labels /\ "ledger" \in Labels /\ "save_availability" \in Labels
  /\ "check_assigned" \in Labels /\ "pick" \in Labels /\ "insert_delivery" \in Labels
  /\ "save_assigned" \in Labels /\ "save_profile" \in Labels /\ "save_delivery" \in Labels
  /\ "load_synced" \in Labels /\ "save_synced" \in Labels /\ "free" \in Labels
  /\ "save_location" \in Labels /\ "load_located" \in Labels /\ "save_proof" \in Labels
BY DEF Labels

LEMMA GotoSlot ==
  ASSUME RequestsTypeOK, NEW s \in Slots, NEW r \in Request, Goto(s, r)
  PROVE  /\ RequestsTypeOK'
         /\ req'[s] = r
         /\ \A t \in Slots \ {s} : req'[t] = req[t]
  BY DEF RequestsTypeOK, Goto

LEMMA CarriedIsKept ==
  ASSUME Kept, NEW o, NEW cs, Carried(o, cs)
  PROVE  Carried(o, cs)'
  BY DEF Kept, Carried

LEMMA BackedIsKept ==
  ASSUME Kept, NEW o, NEW doc, Backed(o, doc)
  PROVE  Backed(o, doc)'
  BY CarriedIsKept DEF Backed

LEMMA EntryBackedIsKept ==
  ASSUME OrdersTypeOK, OrdersTypeOK', PaymentsTypeOK, PaymentsTypeOK', Kept,
         NEW e \in LedgerEntry, EntryBacked(e)
  PROVE  EntryBacked(e)'
<1>1. e.order \in OrderIds
  BY DEF LedgerEntry
<1>2. \A cs : Carried(e.order, cs) => Carried(e.order, cs)'
  BY CarriedIsKept
<1> QED
  BY <1>1, <1>2 DEF EntryBacked, Kept

\* What a request holds stays good through every step that keeps the terms.
LEMMA RequestInvIsKept ==
  ASSUME TypeOK, TypeOK', Kept, DeliveriesArePlaced,
         NEW t \in Slots, NEW r \in Request, req'[t] = r, RequestInv(r)
  PROVE  RequestInv(req[t])'
<1>1. r.pc \in OrderLabels => HoldsOrder(req[t])'
  BY BackedIsKept DEF RequestInv, HoldsOrder, SameTerms, Kept
<1>2. r.did # None => HoldsDelivery(req[t])'
  BY DEF RequestInv, HoldsDelivery, Kept
<1>3. r.pc \in PaymentLabels => HoldsPayment(req[t])'
  BY DEF RequestInv, HoldsPayment, Kept, Payment
<1>4. \A i \in DOMAIN r.todo : EntryBacked(req[t].todo[i])'
  BY EntryBackedIsKept DEF RequestInv, Request, TypeOK
<1> QED
  BY <1>1, <1>2, <1>3, <1>4
  DEF RequestInv, Kept, HoldsProfile, HoldsGoods, Request

\* The step of one slot preserves Inv if its writes do and it goes on with a
\* request that was good already.
LEMMA SlotStep ==
  ASSUME Inv, NEW s \in Slots, NEW r \in Request, Goto(s, r), RequestInv(r), GoodWrite
  PROVE  GoodStep
<1> USE DEF GoodWrite
<1>1. TypeOK'
  BY GotoSlot DEF Inv, TypeOK
<1>2. ASSUME NEW t \in Slots PROVE RequestInv(req[t])'
  <2>1. CASE t = s
    BY <1>1, <2>1, GotoSlot, RequestInvIsKept DEF Inv, TypeOK, CollectionsInv
  <2>2. CASE t # s
    <3>1. req'[t] = req[t] /\ req[t] \in Request
      BY <2>2, GotoSlot DEF Inv, TypeOK, RequestsTypeOK
    <3> QED
      BY <1>1, <3>1, RequestInvIsKept DEF Inv, CollectionsInv
  <2> QED
    BY <2>1, <2>2
<1> QED
  BY <1>1, <1>2 DEF Inv, GoodStep

\* Steps that read and decide, but write nothing.
LEMMA ReadStep ==
  ASSUME Inv, NEW s \in Slots, NEW r \in Request, Goto(s, r), RequestInv(r),
         UNCHANGED Collections
  PROVE  GoodStep
<1>1. /\ OrdersTypeOK' /\ PaymentsTypeOK' /\ CollaboratorsTypeOK' /\ DeliveriesTypeOK'
      /\ Kept /\ LedgerGrows
  BY DEF Inv, TypeOK, OrdersTypeOK, PaymentsTypeOK, CollaboratorsTypeOK,
         DeliveriesTypeOK, Kept, LedgerGrows, Collections
<1>2. CollectionsInv'
  BY DEF Inv, CollectionsInv, Collections, StockNeverNegative, OrdersAreBacked,
         DeliveriesArePlaced, PaymentFitsOrder, LedgerIsBacked, AvailableIsLocated,
         Placed, Backed, Carried, EntryBacked
<1> QED
  BY <1>1, <1>2, SlotStep DEF GoodWrite

LEMMA FinishStep ==
  ASSUME Inv, NEW s \in Slots, Finish(s), UNCHANGED Collections
  PROVE  GoodStep
<1>1. RequestInv(Idle)
  BY DEF Idle, RequestInv, OrderLabels, DeliveryLabels, PaymentLabels, ProfileLabels
<1> QED
  BY <1>1, IdleIsRequest, ReadStep DEF Finish
-----------------------------------------------------------------------------
(* One lemma per collection: what a write of one document preserves. *)

LEMMA OrderWrite ==
  ASSUME Inv, NEW o \in OrderIds, NEW doc \in Order,
         orders' = SaveInto(orders, o, doc), Backed(o, doc),
         orders[o] # None => SameTerms(doc, orders[o]),
         UNCHANGED <<products, payments, ledger, deliveries, profiles>>
  PROVE  GoodWrite
<1>1. /\ OrdersTypeOK' /\ PaymentsTypeOK' /\ CollaboratorsTypeOK' /\ DeliveriesTypeOK'
  BY DEF Inv, TypeOK, OrdersTypeOK, PaymentsTypeOK, CollaboratorsTypeOK,
         DeliveriesTypeOK, SaveInto, Maybe
<1>2. Kept
  BY DocumentAssumption
  DEF Inv, TypeOK, OrdersTypeOK, SaveInto, SameTerms, Kept, Maybe
<1>3. OrdersAreBacked'
  <2> SUFFICES ASSUME NEW p \in OrderIds, Placed(p)' PROVE Backed(p, orders[p])'
    BY DEF OrdersAreBacked
  <2>1. \A x \in OrderIds : orders'[x] = IF x = o THEN doc ELSE orders[x]
    BY DEF Inv, TypeOK, OrdersTypeOK, SaveInto
  <2>2. Backed(p, orders'[p])
    BY <2>1 DEF Inv, CollectionsInv, OrdersAreBacked, Placed
  <2> QED
    BY <2>2 DEF Backed, Carried
<1>4. DeliveriesArePlaced'
  BY <1>2 DEF Inv, TypeOK, DeliveriesTypeOK, CollectionsInv, DeliveriesArePlaced, Kept,
              Delivery, Maybe
<1>5. PaymentFitsOrder'
  BY <1>2 DEF Inv, TypeOK, PaymentsTypeOK, CollectionsInv, PaymentFitsOrder, Placed, Kept,
              Payment, Maybe
<1>6. LedgerIsBacked'
  BY <1>1, <1>2, EntryBackedIsKept DEF Inv, TypeOK, CollectionsInv, LedgerIsBacked
<1>9. LedgerGrows
  BY DEF Inv, TypeOK, PaymentsTypeOK, LedgerGrows
<1> QED
  BY <1>9, <1>1, <1>2, <1>3, <1>4, <1>5, <1>6
  DEF GoodWrite, Inv, CollectionsInv, StockNeverNegative, AvailableIsLocated

LEMMA DeliveryWrite ==
  ASSUME Inv, NEW d \in DeliveryIds, NEW doc \in Delivery,
         deliveries' = SaveInto(deliveries, d, doc), orders[doc.order] # None,
         deliveries[d] # None => /\ doc.order = deliveries[d].order
                                 /\ doc.collaborator = deliveries[d].collaborator,
         UNCHANGED <<orders, products, payments, ledger, profiles>>
  PROVE  GoodWrite
<1>1. /\ OrdersTypeOK' /\ PaymentsTypeOK' /\ CollaboratorsTypeOK' /\ DeliveriesTypeOK'
  BY DEF Inv, TypeOK, OrdersTypeOK, PaymentsTypeOK, CollaboratorsTypeOK,
         DeliveriesTypeOK, SaveInto, Maybe
<1>2. \A x \in DeliveryIds : deliveries'[x] = IF x = d THEN doc ELSE deliveries[x]
  BY DEF Inv, TypeOK, DeliveriesTypeOK, SaveInto
<1>3. Kept
  BY <1>2, DocumentAssumption DEF Kept
<1>4. OrdersAreBacked'
  BY <1>3, BackedIsKept DEF Inv, CollectionsInv, OrdersAreBacked, Placed
<1>5. DeliveriesArePlaced'
  BY <1>2 DEF Inv, CollectionsInv, DeliveriesArePlaced
<1>6. LedgerIsBacked'
  BY <1>1, <1>3, EntryBackedIsKept DEF Inv, TypeOK, CollectionsInv, LedgerIsBacked
<1>9. LedgerGrows
  BY DEF Inv, TypeOK, PaymentsTypeOK, LedgerGrows
<1> QED
  BY <1>9, <1>1, <1>3, <1>4, <1>5, <1>6
  DEF GoodWrite, Inv, CollectionsInv, StockNeverNegative, PaymentFitsOrder, AvailableIsLocated, Placed

LEMMA PaymentWrite ==
  ASSUME Inv, NEW p \in PaymentIds, NEW doc \in Payment,
         payments' = SaveInto(payments, p, doc),
         orders[doc.order] # None, doc.method = orders[doc.order].method,
         payments[p] # None => doc.order = payments[p].order,
         UNCHANGED <<orders, products, ledger, deliveries, profiles>>
  PROVE  GoodWrite
<1>1. /\ OrdersTypeOK' /\ PaymentsTypeOK' /\ CollaboratorsTypeOK' /\ DeliveriesTypeOK'
  BY DEF Inv, TypeOK, OrdersTypeOK, PaymentsTypeOK, CollaboratorsTypeOK,
         DeliveriesTypeOK, SaveInto, Maybe
<1>2. \A x \in PaymentIds : payments'[x] = IF x = p THEN doc ELSE payments[x]
  BY DEF Inv, TypeOK, PaymentsTypeOK, SaveInto
<1>3. Kept
  BY <1>2, DocumentAssumption DEF Kept, Inv, CollectionsInv, PaymentFitsOrder
<1>4. PaymentFitsOrder'
  BY <1>2 DEF Inv, CollectionsInv, PaymentFitsOrder, Placed
<1>5. LedgerIsBacked'
  BY <1>1, <1>3, EntryBackedIsKept DEF Inv, TypeOK, CollectionsInv, LedgerIsBacked
<1>9. LedgerGrows
  BY DEF Inv, TypeOK, PaymentsTypeOK, LedgerGrows
<1> QED
  BY <1>9, <1>1, <1>3, <1>4, <1>5
  DEF GoodWrite, Inv, CollectionsInv, StockNeverNegative, OrdersAreBacked, DeliveriesArePlaced,
      AvailableIsLocated, Placed, Backed, Carried

LEMMA ProductWrite ==
  ASSUME Inv, NEW p \in ProductIds, NEW doc \in Maybe(Product),
         products' = SaveInto(products, p, doc),
         doc # None /\ doc.stock # None => doc.stock >= 0,
         UNCHANGED <<orders, payments, ledger, deliveries, profiles>>
  PROVE  GoodWrite
<1>1. /\ OrdersTypeOK' /\ PaymentsTypeOK' /\ CollaboratorsTypeOK' /\ DeliveriesTypeOK'
  BY DEF Inv, TypeOK, OrdersTypeOK, PaymentsTypeOK, CollaboratorsTypeOK,
         DeliveriesTypeOK, SaveInto
<1>2. Kept
  BY DEF Kept
<1>3. StockNeverNegative'
  BY DEF Inv, TypeOK, OrdersTypeOK, CollectionsInv, StockNeverNegative, SaveInto
<1>9. LedgerGrows
  BY DEF Inv, TypeOK, PaymentsTypeOK, LedgerGrows
<1> QED
  BY <1>9, <1>1, <1>2, <1>3
  DEF GoodWrite, Inv, CollectionsInv, OrdersAreBacked, DeliveriesArePlaced, PaymentFitsOrder,
      LedgerIsBacked, AvailableIsLocated, Placed, Backed, Carried, EntryBacked

LEMMA ProfileWrite ==
  ASSUME Inv, NEW c \in CourierIds, NEW doc \in Profile,
         profiles' = SaveInto(profiles, c, doc),
         doc.availability # "offline" => doc.located,
         UNCHANGED <<orders, products, payments, ledger, deliveries>>
  PROVE  GoodWrite
<1>1. /\ OrdersTypeOK' /\ PaymentsTypeOK' /\ CollaboratorsTypeOK' /\ DeliveriesTypeOK'
  BY DEF Inv, TypeOK, OrdersTypeOK, PaymentsTypeOK, CollaboratorsTypeOK,
         DeliveriesTypeOK, SaveInto, Maybe
<1>2. Kept
  BY DEF Kept
<1>3. AvailableIsLocated'
  BY DEF Inv, TypeOK, CollaboratorsTypeOK, CollectionsInv, AvailableIsLocated, SaveInto
<1>9. LedgerGrows
  BY DEF Inv, TypeOK, PaymentsTypeOK, LedgerGrows
<1> QED
  BY <1>9, <1>1, <1>2, <1>3
  DEF GoodWrite, Inv, CollectionsInv, StockNeverNegative, OrdersAreBacked, DeliveriesArePlaced,
      PaymentFitsOrder, LedgerIsBacked, Placed, Backed, Carried, EntryBacked

LEMMA LedgerWrite ==
  ASSUME Inv, NEW e \in LedgerEntry, EntryBacked(e),
         ledger' = [ledger EXCEPT ![e] = @ + 1],
         UNCHANGED <<orders, products, payments, deliveries, profiles>>
  PROVE  GoodWrite
<1>1. /\ OrdersTypeOK' /\ PaymentsTypeOK' /\ CollaboratorsTypeOK' /\ DeliveriesTypeOK'
  BY DEF Inv, TypeOK, OrdersTypeOK, PaymentsTypeOK, CollaboratorsTypeOK, DeliveriesTypeOK
<1>2. Kept
  BY DEF Kept
<1>3. LedgerIsBacked'
  <2> SUFFICES ASSUME NEW f \in LedgerEntry, ledger'[f] > 0 PROVE EntryBacked(f)'
    BY DEF LedgerIsBacked
  <2>1. EntryBacked(f)
    BY DEF Inv, TypeOK, PaymentsTypeOK, CollectionsInv, LedgerIsBacked
  <2> QED
    BY <2>1 DEF EntryBacked, Carried
<1>9. LedgerGrows
  BY DEF Inv, TypeOK, PaymentsTypeOK, LedgerGrows
<1> QED
  BY <1>9, <1>1, <1>2, <1>3
  DEF GoodWrite, Inv, CollectionsInv, StockNeverNegative, OrdersAreBacked, DeliveriesArePlaced,
      PaymentFitsOrder, AvailableIsLocated, Placed, Backed, Carried

-----------------------------------------------------------------------------
(* Orders and catalogue, action by action *)

RestOfOrders == <<payments, ledger, deliveries, profiles>>

LEMMA CreateOrderStep ==
  ASSUME Inv, NEW s \in Slots, NEW cart \in Carts, NEW method \in Methods,
         NEW fee \in BOOLEAN, CreateOrder(s, cart, method, fee), UNCHANGED RestOfOrders
  PROVE  GoodStep
<1>1. PICK doc \in Order :
         /\ doc = [status |-> "pending", items |-> cart, method |-> method,
                   fee |-> fee, collaborator |-> None, payment |-> None]
         /\ doc.status = "pending" /\ doc.collaborator = None
  <2> DEFINE new == [status |-> "pending", items |-> cart, method |-> method,
                     fee |-> fee, collaborator |-> None, payment |-> None]
  <2>1. new \in Order /\ new.status = "pending" /\ new.collaborator = None
    BY DEF Order, OrderStatus, Maybe
  <2> QED
    BY <2>1
<1> DEFINE r == [Idle EXCEPT !.pc = "create", !.lines = cart, !.order = doc]
<1>2. cart \in Seq(Line)
  BY CartsAssumption
<1>3. r \in Request
  BY <1>2, IdleIsRequest, LabelNames DEF Request, Maybe
<1>4. RequestInv(r)
  BY <1>1 DEF RequestInv, Idle, OrderLabels, DeliveryLabels, PaymentLabels, ProfileLabels
<1>5. Goto(s, r)
  BY <1>1 DEF CreateOrder
<1> QED
  BY <1>3, <1>4, <1>5, ReadStep DEF CreateOrder, RestOfOrders, Collections

LEMMA ReadLineStep ==
  ASSUME Inv, NEW s \in Slots, ReadLine(s), UNCHANGED RestOfOrders
  PROVE  GoodStep
<1> DEFINE line  == Head(req[s].lines)
           goods == products[line.product]
           take  == [product |-> line.product, goods |-> goods, qty |-> line.qty]
           taken == IF goods.stock = None THEN req[s].taken ELSE Append(req[s].taken, take)
           r     == [req[s] EXCEPT !.lines = Tail(@), !.taken = taken]
<1>1. req[s] \in Request /\ RequestInv(req[s]) /\ req[s].pc = "create"
  BY DEF Inv, TypeOK, RequestsTypeOK, ReadLine, At
<1>2. CASE ~Sellable(goods, line.qty)
  BY <1>2, FinishStep DEF ReadLine, RestOfOrders, Collections
<1>3. CASE Sellable(goods, line.qty)
  <2>1. line \in Line /\ Tail(req[s].lines) \in Seq(Line) /\ req[s].taken \in Seq(Take)
    BY <1>1, HeadTailProperties DEF ReadLine, Request
  <2>2. goods \in Product /\ take \in Take
    BY <1>3, <2>1 DEF Sellable, Line, Take, Inv, TypeOK, OrdersTypeOK, Maybe
  <2>3. goods.stock # None => take.goods.stock \in Int /\ take.goods.stock >= take.qty
    BY <1>3, <2>1, <2>2 DEF Sellable, Line, Product, Maybe
  <2>4. /\ taken \in Seq(Take)
        /\ \A i \in DOMAIN taken :
             taken[i].goods.stock \in Int /\ taken[i].goods.stock >= taken[i].qty
    <3> HIDE DEF take
    <3>1. \A i \in DOMAIN req[s].taken : /\ req[s].taken[i].goods.stock \in Int
                                         /\ req[s].taken[i].goods.stock >= req[s].taken[i].qty
      BY <1>1 DEF RequestInv
    <3> QED
      BY <2>1, <2>2, <2>3, <3>1
  <2> HIDE DEF taken
  <2>5. r \in Request
    BY <1>1, <2>1, <2>4 DEF Request
  <2>6. RequestInv(r)
    BY <1>1, <2>4
    DEF RequestInv, Request, OrderLabels, DeliveryLabels, PaymentLabels, ProfileLabels,
        HoldsDelivery
  <2>7. Goto(s, r)
    BY <1>3 DEF ReadLine, taken
  <2> QED
    BY <2>5, <2>6, <2>7, ReadStep DEF ReadLine, RestOfOrders, Collections
<1> QED
  BY <1>2, <1>3

LEMMA TakeStockStep ==
  ASSUME Inv, NEW s \in Slots, TakeStock(s), UNCHANGED RestOfOrders
  PROVE  GoodStep
<1> DEFINE take == Head(req[s].taken)
           doc  == [take.goods EXCEPT !.stock = @ - take.qty]
           rest == Tail(req[s].taken)
           r    == [req[s] EXCEPT !.taken = rest]
<1>1. /\ req[s] \in Request /\ RequestInv(req[s]) /\ req[s].pc = "create"
      /\ req[s].taken \in Seq(Take) /\ req[s].taken # << >>
  BY DEF Inv, TypeOK, RequestsTypeOK, Request, TakeStock, At
<1>2. /\ take = req[s].taken[1] /\ 1 \in DOMAIN req[s].taken
      /\ take \in Take
  BY <1>1
<1>3. doc \in Product /\ doc.stock >= 0
  BY <1>1, <1>2 DEF RequestInv, Take, Product, Maybe
<1>4. rest \in Seq(Take) /\ \A i \in DOMAIN rest : /\ i + 1 \in DOMAIN req[s].taken
                                                  /\ rest[i] = req[s].taken[i + 1]
  BY <1>1
<1>5. \A i \in DOMAIN rest : rest[i].goods.stock \in Int /\ rest[i].goods.stock >= rest[i].qty
  BY <1>1, <1>4 DEF RequestInv
<1> HIDE DEF rest
<1>6. r \in Request
  BY <1>1, <1>4 DEF Request
<1>7. RequestInv(r)
  BY <1>1, <1>5
  DEF RequestInv, Request, OrderLabels, DeliveryLabels, PaymentLabels, ProfileLabels,
      HoldsDelivery
<1>8. GoodWrite
  BY <1>2, <1>3, ProductWrite DEF TakeStock, Take, RestOfOrders, Maybe
<1> QED
  BY <1>6, <1>7, <1>8, SlotStep DEF TakeStock, rest

LEMMA IdleIsGood == RequestInv(Idle)
  BY DEF Idle, RequestInv, OrderLabels, DeliveryLabels, PaymentLabels, ProfileLabels

LEMMA InsertOrderStep ==
  ASSUME Inv, NEW s \in Slots, InsertOrder(s), UNCHANGED RestOfOrders
  PROVE  GoodStep
<1>1. RequestInv(req[s])
  BY DEF Inv
<1>2. req[s].order \in Order /\ \A o : Backed(o, req[s].order)
  BY <1>1 DEF InsertOrder, At, RequestInv, Backed, OnItsWay
<1>3. PICK o \in OrderIds : orders[o] = None /\ orders' = SaveInto(orders, o, req[s].order)
  BY DEF InsertOrder
<1>4. GoodWrite
  BY <1>2, <1>3, OrderWrite DEF InsertOrder, RestOfOrders
<1> QED
  BY <1>4, SlotStep, IdleIsRequest, IdleIsGood DEF InsertOrder, Finish

\* The status changes a seller makes keep everything else of the order.
LEMMA LoadedOrder ==
  ASSUME Inv, NEW o \in OrderIds, orders[o] # None, NEW st \in OrderStatus,
         st \in OnItsWay => Carried(o, CourierIds)
  PROVE  LET doc == RecordStatus(orders[o], st)
         IN  /\ doc \in Order
             /\ SameTerms(doc, orders[o])
             /\ Backed(o, doc)
BY DEF Inv, TypeOK, OrdersTypeOK, CollectionsInv, OrdersAreBacked, Placed, Backed,
       RecordStatus, Order, Maybe, SameTerms

LEMMA SaveOrderBegins ==
  ASSUME Inv, NEW s \in Slots, NEW o \in OrderIds, orders[o] # None,
         NEW st \in OrderStatus \ OnItsWay,
         Goto(s, [Idle EXCEPT !.pc = "save_order", !.oid = o,
                              !.order = RecordStatus(orders[o], st)]),
         UNCHANGED Collections
  PROVE  GoodStep
<1> DEFINE doc == RecordStatus(orders[o], st)
           r == [Idle EXCEPT !.pc = "save_order", !.oid = o, !.order = doc]
<1>1. doc \in Order /\ SameTerms(doc, orders[o]) /\ Backed(o, doc)
  BY LoadedOrder
<1> HIDE DEF doc
<1>2. r \in Request
  BY <1>1, IdleIsRequest, LabelNames DEF Request, Maybe
<1>3. RequestInv(r)
  BY <1>1 DEF RequestInv, Idle, OrderLabels, DeliveryLabels, PaymentLabels,
              ProfileLabels, HoldsOrder
<1> QED
  BY <1>2, <1>3, ReadStep DEF doc

LEMMA AcceptOrderStep ==
  ASSUME Inv, NEW s \in Slots, NEW o \in OrderIds, AcceptOrder(s, o), UNCHANGED RestOfOrders
  PROVE  GoodStep
BY SaveOrderBegins DEF AcceptOrder, RestOfOrders, Collections, OrderStatus, OnItsWay

LEMMA AdvanceOrderStep ==
  ASSUME Inv, NEW s \in Slots, NEW o \in OrderIds, AdvanceOrder(s, o), UNCHANGED RestOfOrders
  PROVE  GoodStep
<1>1. SellerAdvance[orders[o].status] \in OrderStatus \ OnItsWay
  BY DEF AdvanceOrder, SellerAdvance, OrderStatus, OnItsWay
<1> QED
  BY <1>1, SaveOrderBegins DEF AdvanceOrder, RestOfOrders, Collections

LEMMA SaveOrderStep ==
  ASSUME Inv, NEW s \in Slots, SaveOrder(s), UNCHANGED RestOfOrders
  PROVE  GoodStep
<1>1. HoldsOrder(req[s])
  BY DEF Inv, RequestInv, SaveOrder, At, OrderLabels
<1>2. GoodWrite
  BY <1>1, OrderWrite DEF HoldsOrder, SaveOrder, RestOfOrders
<1> QED
  BY <1>2, SlotStep, IdleIsRequest, IdleIsGood DEF SaveOrder, Finish

LEMMA CancelOrderStep ==
  ASSUME Inv, NEW s \in Slots, NEW o \in OrderIds, CancelOrder(s, o), UNCHANGED RestOfOrders
  PROVE  GoodStep
<1> DEFINE r == [Idle EXCEPT !.pc = "cancel", !.oid = o, !.order = orders[o],
                             !.lines = orders[o].items]
<1>1. orders[o] \in Order /\ orders[o].items \in Seq(Line) /\ Backed(o, orders[o])
  BY CartsAssumption
  DEF CancelOrder, Inv, TypeOK, OrdersTypeOK, CollectionsInv, OrdersAreBacked, Placed,
      Maybe, Order
<1>2. r \in Request
  BY <1>1, IdleIsRequest, LabelNames DEF Request, Maybe
<1>3. RequestInv(r)
  BY <1>1 DEF CancelOrder, RequestInv, Idle, OrderLabels, DeliveryLabels, PaymentLabels,
              ProfileLabels, HoldsOrder, SameTerms
<1> QED
  BY <1>2, <1>3, ReadStep DEF CancelOrder, RestOfOrders, Collections

LEMMA ReadStockStep ==
  ASSUME Inv, NEW s \in Slots, ReadStock(s), UNCHANGED RestOfOrders
  PROVE  GoodStep
<1> DEFINE goods == products[Head(req[s].lines).product]
           some  == [req[s] EXCEPT !.pc = "restock", !.goods = goods]
           none  == [req[s] EXCEPT !.lines = Tail(@)]
<1>1. req[s] \in Request /\ RequestInv(req[s])
  BY DEF Inv, TypeOK, RequestsTypeOK
<1>2. Head(req[s].lines) \in Line /\ Tail(req[s].lines) \in Seq(Line)
  BY <1>1 DEF ReadStock, Request
<1>3. CASE goods # None /\ goods.stock # None
  <2>1. goods \in Product /\ goods.stock >= 0
    BY <1>2, <1>3 DEF Line, Inv, TypeOK, OrdersTypeOK, CollectionsInv, StockNeverNegative,
                      Maybe
  <2>2. some \in Request
    <3>1. ASSUME NEW r \in Request, NEW g \in Product, NEW label \in Labels
          PROVE  [r EXCEPT !.pc = label, !.goods = g] \in Request
      BY <3>1, ZenonT(60) DEF Request, Maybe
    <3>2. "restock" \in Labels
      BY DEF Labels
    <3> QED
      BY <1>1, <2>1, <3>1, <3>2, Zenon
  <2>3. RequestInv(some)
    BY <1>1, <1>3, <2>1
    DEF RequestInv, Request, ReadStock, At, OrderLabels, DeliveryLabels, PaymentLabels,
        ProfileLabels, HoldsOrder, HoldsDelivery, HoldsGoods
  <2> QED
    BY <1>3, <2>2, <2>3, ReadStep DEF ReadStock, RestOfOrders, Collections
<1>4. CASE ~(goods # None /\ goods.stock # None)
  <2>1. none \in Request
    BY <1>1, <1>2 DEF Request
  <2>2. RequestInv(none)
    BY <1>1
    DEF RequestInv, Request, ReadStock, At, OrderLabels, DeliveryLabels, PaymentLabels,
        ProfileLabels, HoldsOrder, HoldsDelivery
  <2> QED
    BY <1>4, <2>1, <2>2, ReadStep DEF ReadStock, RestOfOrders, Collections
<1> QED
  BY <1>3, <1>4

LEMMA RestoreStockStep ==
  ASSUME Inv, NEW s \in Slots, RestoreStock(s), UNCHANGED RestOfOrders
  PROVE  GoodStep
<1> DEFINE line == Head(req[s].lines)
           doc  == Restocked(req[s].goods, line.qty)
           r    == [req[s] EXCEPT !.pc = "cancel", !.goods = None, !.lines = Tail(@)]
<1>1. req[s] \in Request /\ RequestInv(req[s]) /\ req[s].pc = "restock"
  BY DEF Inv, TypeOK, RequestsTypeOK, RestoreStock, At
<1>2. line \in Line /\ Tail(req[s].lines) \in Seq(Line)
  BY <1>1 DEF RequestInv, Request
<1>3. doc \in Product /\ doc.stock >= 0
  BY <1>1, <1>2, SMTT(30) DEF RequestInv, HoldsGoods, Product, Line, Maybe, Restocked
<1>4. GoodWrite
  BY <1>2, <1>3, ProductWrite DEF RestoreStock, RestOfOrders, Maybe, Line
<1>5. r \in Request
  BY <1>1, <1>2, LabelNames DEF Request, Maybe
<1>6. RequestInv(r)
  BY <1>1 DEF RequestInv, Request, OrderLabels, DeliveryLabels, PaymentLabels,
              ProfileLabels, HoldsOrder, HoldsDelivery
<1> QED
  BY <1>4, <1>5, <1>6, SlotStep DEF RestoreStock

LEMMA SaveCancelledStep ==
  ASSUME Inv, NEW s \in Slots, SaveCancelled(s), UNCHANGED RestOfOrders
  PROVE  GoodStep
<1> DEFINE doc == RecordStatus(req[s].order, "cancelled")
<1>1. HoldsOrder(req[s])
  BY DEF Inv, RequestInv, SaveCancelled, At, OrderLabels
<1>2. doc \in Order /\ SameTerms(doc, orders[req[s].oid]) /\ Backed(req[s].oid, doc)
  BY <1>1 DEF HoldsOrder, RecordStatus, Order, OrderStatus, SameTerms, Backed, OnItsWay
<1>3. GoodWrite
  BY <1>1, <1>2, OrderWrite DEF HoldsOrder, SaveCancelled, RestOfOrders
<1> QED
  BY <1>3, SlotStep, IdleIsRequest, IdleIsGood DEF SaveCancelled, Finish

LEMMA EditProductStep ==
  ASSUME Inv, NEW s \in Slots, NEW p \in ProductIds, EditProduct(s, p), UNCHANGED RestOfOrders
  PROVE  GoodStep
<1>1. PICK doc : /\ doc \in Product
                 /\ doc.stock # None => doc.stock >= 0
                 /\ Goto(s, [Idle EXCEPT !.pc = "save_product", !.product = p, !.goods = doc])
  <2>1. products[p] \in Product /\ (products[p].stock # None => products[p].stock >= 0)
    BY DEF EditProduct, Inv, TypeOK, OrdersTypeOK, CollectionsInv, StockNeverNegative, Maybe
  <2>2. \A n \in NewStocks :
          LET doc == [products[p] EXCEPT !.stock = n]
          IN  doc \in Product /\ (doc.stock # None => doc.stock >= 0)
    BY <2>1, StockAssumption DEF Product, Maybe
  <2>3. LET doc == [products[p] EXCEPT !.available = ~@]
        IN  doc \in Product /\ (doc.stock # None => doc.stock >= 0)
    BY <2>1 DEF Product
  <2> QED
    BY <2>2, <2>3 DEF EditProduct
<1> DEFINE r == [Idle EXCEPT !.pc = "save_product", !.product = p, !.goods = doc]
<1>2. r \in Request
  BY <1>1, IdleIsRequest, LabelNames DEF Request, Maybe
<1>3. RequestInv(r)
  BY <1>1 DEF RequestInv, Idle, OrderLabels, DeliveryLabels, PaymentLabels,
              ProfileLabels, HoldsGoods
<1> QED
  BY <1>1, <1>2, <1>3, ReadStep DEF EditProduct, RestOfOrders, Collections

LEMMA SaveProductStep ==
  ASSUME Inv, NEW s \in Slots, SaveProduct(s), UNCHANGED RestOfOrders
  PROVE  GoodStep
<1>1. req[s].product \in ProductIds /\ HoldsGoods(req[s])
  BY DEF Inv, RequestInv, SaveProduct, At
<1>2. GoodWrite
  BY <1>1, ProductWrite DEF HoldsGoods, SaveProduct, RestOfOrders, Maybe
<1> QED
  BY <1>2, SlotStep, IdleIsRequest, IdleIsGood DEF SaveProduct, Finish

LEMMA DeleteProductStep ==
  ASSUME Inv, NEW s \in Slots, NEW p \in ProductIds, DeleteProduct(s, p),
         UNCHANGED RestOfOrders
  PROVE  GoodStep
<1>1. GoodWrite
  BY ProductWrite DEF DeleteProduct, RestOfOrders, Maybe
<1>2. Goto(s, req[s]) /\ req[s] \in Request /\ RequestInv(req[s])
  BY DEF DeleteProduct, Inv, TypeOK, RequestsTypeOK, Goto
<1> QED
  BY <1>1, <1>2, SlotStep

-----------------------------------------------------------------------------
(* Couriers, action by action *)

RestOfCollaborators == <<orders, products, payments, ledger, deliveries>>

LEMMA BecomeCollaboratorStep ==
  ASSUME Inv, NEW s \in Slots, NEW c \in CourierIds, BecomeCollaborator(s, c),
         UNCHANGED RestOfCollaborators
  PROVE  GoodStep
<1>1. GoodWrite
  <2> DEFINE new == [approved |-> FALSE, availability |-> "offline", located |-> FALSE]
  <2>1. new \in Profile /\ new.availability = "offline"
    BY DEF Profile, Availability
  <2> HIDE DEF new
  <2>2. profiles' = SaveInto(profiles, c, new)
    BY DEF BecomeCollaborator, new
  <2> QED
    BY <2>1, <2>2, ProfileWrite DEF RestOfCollaborators
<1>2. Goto(s, req[s]) /\ req[s] \in Request /\ RequestInv(req[s])
  BY DEF BecomeCollaborator, Inv, TypeOK, RequestsTypeOK, Goto
<1> QED
  BY <1>1, <1>2, SlotStep

LEMMA GoodProfileRequest ==
  ASSUME NEW c \in CourierIds, NEW doc \in Profile,
         doc.availability # "offline" => doc.located
  PROVE  LET r == [Idle EXCEPT !.pc = "save_profile", !.cid = c, !.profile = doc]
         IN  r \in Request /\ RequestInv(r)
<1> DEFINE r == [Idle EXCEPT !.pc = "save_profile", !.cid = c, !.profile = doc]
<1>1. r \in Request
  BY IdleIsRequest, LabelNames DEF Request, Maybe
<1>2. RequestInv(r)
  BY DEF RequestInv, Idle, OrderLabels, DeliveryLabels, PaymentLabels, ProfileLabels,
         HoldsProfile
<1> QED
  BY <1>1, <1>2

LEMMA SaveProfileBegins ==
  ASSUME Inv, NEW s \in Slots, NEW c \in CourierIds, NEW doc \in Profile,
         doc.availability # "offline" => doc.located,
         Goto(s, [Idle EXCEPT !.pc = "save_profile", !.cid = c, !.profile = doc]),
         UNCHANGED Collections
  PROVE  GoodStep
BY GoodProfileRequest, ReadStep

LEMMA LoadedProfile ==
  ASSUME Inv, NEW c \in CourierIds, profiles[c] # None
  PROVE  /\ profiles[c] \in Profile
         /\ profiles[c].availability # "offline" => profiles[c].located
BY DEF Inv, TypeOK, CollaboratorsTypeOK, CollectionsInv, AvailableIsLocated, Maybe

LEMMA SetAvailabilityStep ==
  ASSUME Inv, NEW s \in Slots, NEW c \in CourierIds,
         NEW availability \in {"online", "offline"},
         SetAvailability(s, c, availability), UNCHANGED RestOfCollaborators
  PROVE  GoodStep
<1>1. PICK doc \in Profile :
         /\ doc = [profiles[c] EXCEPT !.availability = availability,
                                      !.located = (availability = "online")]
         /\ doc.availability # "offline" => doc.located
  <2> DEFINE new == [profiles[c] EXCEPT !.availability = availability,
                                        !.located = (availability = "online")]
  <2>1. profiles[c] \in Profile
    BY LoadedProfile DEF SetAvailability
  <2>2. new \in Profile /\ new.availability = availability
        /\ new.located = (availability = "online")
    BY <2>1 DEF Profile, Availability
  <2> QED
    BY <2>2
<1> QED
  BY <1>1, SaveProfileBegins DEF SetAvailability, RestOfCollaborators, Collections

LEMMA VerifyStep ==
  ASSUME Inv, NEW s \in Slots, NEW c \in CourierIds, NEW verdict \in BOOLEAN,
         Verify(s, c, verdict), UNCHANGED RestOfCollaborators
  PROVE  GoodStep
<1>1. PICK doc \in Profile : /\ doc = [profiles[c] EXCEPT !.approved = verdict]
                             /\ doc.availability # "offline" => doc.located
  <2> DEFINE new == [profiles[c] EXCEPT !.approved = verdict]
  <2>1. profiles[c] \in Profile /\ (profiles[c].availability # "offline" => profiles[c].located)
    BY LoadedProfile DEF Verify
  <2>2. new \in Profile /\ new.availability = profiles[c].availability
        /\ new.located = profiles[c].located
    BY <2>1 DEF Profile
  <2> QED
    BY <2>1, <2>2
<1> QED
  BY <1>1, SaveProfileBegins DEF Verify, RestOfCollaborators, Collections

LEMMA SaveProfileStep ==
  ASSUME Inv, NEW s \in Slots, SaveProfile(s), UNCHANGED RestOfCollaborators
  PROVE  GoodStep
<1>1. HoldsProfile(req[s])
  BY DEF Inv, RequestInv, SaveProfile, At, ProfileLabels
<1>2. GoodWrite
  BY <1>1, ProfileWrite DEF HoldsProfile, SaveProfile, RestOfCollaborators
<1> QED
  BY <1>2, SlotStep, IdleIsRequest, IdleIsGood DEF SaveProfile, Finish

-----------------------------------------------------------------------------
(* Payments, action by action *)

RestOfPayments == <<products, deliveries, profiles>>

LEMMA CreateIntentStep ==
  ASSUME Inv, NEW s \in Slots, NEW o \in OrderIds, CreateIntent(s, o), UNCHANGED RestOfPayments
  PROVE  GoodStep
<1> DEFINE r == [Idle EXCEPT !.pc = "check_intent", !.oid = o]
<1>1. r \in Request
  BY IdleIsRequest, LabelNames DEF Request, Maybe
<1>2. RequestInv(r)
  BY DEF CreateIntent, RequestInv, Idle, OrderLabels, DeliveryLabels, PaymentLabels,
         ProfileLabels
<1> QED
  BY <1>1, <1>2, ReadStep DEF CreateIntent, RestOfPayments, Collections

LEMMA CheckIntentStep ==
  ASSUME Inv, NEW s \in Slots, CheckIntent(s), UNCHANGED RestOfPayments
  PROVE  GoodStep
<1> DEFINE r == [req[s] EXCEPT !.pc = "insert_intent"]
<1>1. req[s] \in Request /\ RequestInv(req[s]) /\ req[s].pc = "check_intent"
  BY DEF Inv, TypeOK, RequestsTypeOK, CheckIntent, At
<1>2. r \in Request
  BY <1>1 DEF Request, Labels
<1>3. RequestInv(r)
  BY <1>1 DEF RequestInv, Request, OrderLabels, DeliveryLabels, PaymentLabels,
              ProfileLabels, HoldsDelivery
<1>4. CASE PaymentsOf(req[s].oid) = {}
  BY <1>2, <1>3, <1>4, ReadStep DEF CheckIntent, RestOfPayments, Collections
<1>5. CASE PaymentsOf(req[s].oid) # {}
  BY <1>5, FinishStep DEF CheckIntent, RestOfPayments, Collections
<1> QED
  BY <1>4, <1>5

LEMMA InsertIntentStep ==
  ASSUME Inv, NEW s \in Slots, InsertIntent(s), UNCHANGED RestOfPayments
  PROVE  GoodStep
<1> DEFINE new == [order |-> req[s].oid, method |-> "wompi", status |-> "pending"]
<1>1. req[s].oid \in OrderIds /\ orders[req[s].oid] # None /\ orders[req[s].oid].method = "wompi"
  BY DEF Inv, RequestInv, InsertIntent, At
<1>2. new \in Payment /\ new.order = req[s].oid /\ new.method = "wompi"
  BY <1>1 DEF Payment, Methods, PaymentStatus
<1>3. PICK p \in PaymentIds : payments[p] = None /\ payments' = SaveInto(payments, p, new)
  BY DEF InsertIntent
<1> HIDE DEF new
<1>4. GoodWrite
  BY <1>1, <1>2, <1>3, PaymentWrite DEF InsertIntent, RestOfPayments
<1> QED
  BY <1>4, SlotStep, IdleIsRequest, IdleIsGood DEF InsertIntent, Finish

LEMMA WebhookStep ==
  ASSUME Inv, NEW s \in Slots, NEW p \in PaymentIds, NEW outcome \in {"approved", "declined"},
         Webhook(s, p, outcome), UNCHANGED RestOfPayments
  PROVE  GoodStep
<1>1. payments[p] \in Payment
  BY DEF Webhook, Inv, TypeOK, PaymentsTypeOK, Maybe
<1>2. PICK doc \in Payment : /\ doc = [payments[p] EXCEPT !.status = outcome]
                             /\ doc.order = payments[p].order
                             /\ doc.method = payments[p].method
  <2> DEFINE new == [payments[p] EXCEPT !.status = outcome]
  <2>1. new \in Payment /\ new.order = payments[p].order /\ new.method = payments[p].method
    BY <1>1 DEF Payment, PaymentStatus
  <2> QED
    BY <2>1
<1> DEFINE r == [Idle EXCEPT !.pc = "save_payment", !.pid = p, !.payment = doc]
<1>3. r \in Request
  BY IdleIsRequest, LabelNames DEF Request, Maybe
<1>4. HoldsPayment(r) /\ payments[p] # None
  BY <1>2 DEF Webhook, HoldsPayment, Idle, Inv, CollectionsInv, PaymentFitsOrder, Placed
<1>7. r.pc = "save_payment" /\ r.pid = p /\ r.payment = doc /\ r.did = None
      /\ r.taken = << >> /\ r.todo = << >>
  BY DEF Idle
<1> HIDE DEF r
<1>5. RequestInv(r)
  BY <1>2, <1>4, <1>7 DEF Webhook, RequestInv, Idle, OrderLabels, DeliveryLabels, PaymentLabels,
                    ProfileLabels
<1>6. Goto(s, r)
  BY <1>2 DEF Webhook, r
<1> QED
  BY <1>3, <1>5, <1>6, ReadStep DEF Webhook, RestOfPayments, Collections

LEMMA SavePaymentStep ==
  ASSUME Inv, NEW s \in Slots, SavePayment(s), UNCHANGED RestOfPayments
  PROVE  GoodStep
<1> DEFINE r == [req[s] EXCEPT !.pc = "load_paid"]
<1>1. req[s] \in Request /\ RequestInv(req[s]) /\ req[s].pc = "save_payment"
  BY DEF Inv, TypeOK, RequestsTypeOK, SavePayment, At
<1>2. GoodWrite
  BY <1>1, PaymentWrite DEF RequestInv, HoldsPayment, PaymentLabels, SavePayment, RestOfPayments
<1>3. r \in Request
  BY <1>1 DEF Request, Labels
<1>4. RequestInv(r)
  BY <1>1 DEF RequestInv, Request, OrderLabels, DeliveryLabels, PaymentLabels,
              ProfileLabels, HoldsDelivery, HoldsPayment
<1>5. CASE req[s].payment.status = "approved"
  BY <1>2, <1>3, <1>4, <1>5, SlotStep DEF SavePayment
<1>6. CASE req[s].payment.status # "approved"
  BY <1>2, <1>6, SlotStep, IdleIsRequest, IdleIsGood DEF SavePayment, Finish
<1> QED
  BY <1>5, <1>6

LEMMA LoadPaidOrderStep ==
  ASSUME Inv, NEW s \in Slots, LoadPaidOrder(s), UNCHANGED RestOfPayments
  PROVE  GoodStep
<1> DEFINE o == req[s].payment.order
<1>1. req[s] \in Request /\ RequestInv(req[s]) /\ req[s].pc = "load_paid" /\ HoldsPayment(req[s])
  BY DEF Inv, TypeOK, RequestsTypeOK, LoadPaidOrder, At, RequestInv, PaymentLabels
<1>2. o \in OrderIds /\ orders[o] \in Order /\ Backed(o, orders[o])
  BY <1>1 DEF HoldsPayment, Payment, Inv, TypeOK, OrdersTypeOK, CollectionsInv,
              OrdersAreBacked, Placed, Maybe
<1>3. PICK doc \in Order : /\ doc = [orders[o] EXCEPT !.payment = req[s].pid]
                           /\ SameTerms(doc, orders[o])
                           /\ Backed(o, doc)
  <2> DEFINE new == [orders[o] EXCEPT !.payment = req[s].pid]
  <2>1. new \in Order /\ SameTerms(new, orders[o])
        /\ new.status = orders[o].status /\ new.collaborator = orders[o].collaborator
    BY <1>1, <1>2 DEF RequestInv, Order, SameTerms, Maybe
  <2>2. Backed(o, new)
    BY <1>2, <2>1 DEF Backed
  <2> QED
    BY <2>1, <2>2
<1> DEFINE r == [req[s] EXCEPT !.pc = "save_paid", !.oid = o, !.order = doc]
<1>4. r \in Request
  BY <1>1, <1>2, LabelNames DEF Request, Maybe
<1>5. RequestInv(r)
  BY <1>1, <1>2, <1>3, Zenon
  DEF RequestInv, Request, OrderLabels, DeliveryLabels, PaymentLabels, ProfileLabels,
      HoldsDelivery, HoldsPayment, HoldsOrder
<1>6. Goto(s, r)
  BY <1>3 DEF LoadPaidOrder
<1> QED
  BY <1>4, <1>5, <1>6, ReadStep DEF LoadPaidOrder, RestOfPayments, Collections

LEMMA CheckPaymentStep ==
  ASSUME Inv, NEW s \in Slots, CheckPayment(s), UNCHANGED RestOfPayments
  PROVE  GoodStep
<1> DEFINE pay == [req[s] EXCEPT !.pc = "insert_payment"]
           on  == [req[s] EXCEPT !.pc = "free", !.order = None]
<1>1. req[s] \in Request /\ RequestInv(req[s]) /\ req[s].pc = "check_payment"
  BY DEF Inv, TypeOK, RequestsTypeOK, CheckPayment, At
<1>2. pay \in Request
  BY <1>1 DEF Request, Labels
<1>7. on \in Request
  BY <1>1, LabelNames DEF Request, Maybe
<1>3. RequestInv(pay)
  BY <1>1 DEF RequestInv, Request, OrderLabels, DeliveryLabels, PaymentLabels,
              ProfileLabels, HoldsDelivery, HoldsOrder
<1>4. RequestInv(on)
  BY <1>1 DEF RequestInv, Request, OrderLabels, DeliveryLabels, PaymentLabels,
              ProfileLabels, HoldsDelivery
<1>5. CASE PaymentsOf(req[s].oid) = {}
  BY <1>2, <1>3, <1>5, ReadStep DEF CheckPayment, RestOfPayments, Collections
<1>6. CASE PaymentsOf(req[s].oid) # {}
  BY <1>7, <1>4, <1>6, ReadStep DEF CheckPayment, RestOfPayments, Collections
<1> QED
  BY <1>5, <1>6

LEMMA InsertPaymentStep ==
  ASSUME Inv, NEW s \in Slots, InsertPayment(s), UNCHANGED RestOfPayments
  PROVE  GoodStep
<1>1. /\ req[s] \in Request /\ RequestInv(req[s]) /\ req[s].pc = "insert_payment"
      /\ HoldsOrder(req[s]) /\ req[s].order.method = "cash"
  BY DEF Inv, TypeOK, RequestsTypeOK, InsertPayment, At, RequestInv, OrderLabels
<1>2. PICK new \in Payment :
         /\ new = [order |-> req[s].oid, method |-> "cash", status |-> "approved"]
         /\ new.order = req[s].oid /\ new.method = "cash"
  <2> DEFINE cash == [order |-> req[s].oid, method |-> "cash", status |-> "approved"]
  <2>1. cash \in Payment /\ cash.order = req[s].oid /\ cash.method = "cash"
    BY <1>1 DEF HoldsOrder, Payment, Methods, PaymentStatus
  <2> QED
    BY <2>1
<1>3. PICK p \in PaymentIds :
         /\ payments[p] = None
         /\ payments' = SaveInto(payments, p, new)
         /\ Goto(s, [req[s] EXCEPT !.pc = "save_paid", !.payment = new,
                       !.order = [@ EXCEPT !.payment = p]])
  BY <1>2 DEF InsertPayment
<1>4. PICK doc \in Order : /\ doc = [req[s].order EXCEPT !.payment = p]
                           /\ SameTerms(doc, req[s].order)
                           /\ doc.status = req[s].order.status
                           /\ doc.collaborator = req[s].order.collaborator
  <2> DEFINE paid == [req[s].order EXCEPT !.payment = p]
  <2>1. paid \in Order /\ SameTerms(paid, req[s].order)
        /\ paid.status = req[s].order.status
        /\ paid.collaborator = req[s].order.collaborator
    BY <1>1 DEF HoldsOrder, Order, SameTerms, Maybe
  <2> QED
    BY <2>1
<1>5. GoodWrite
  BY <1>1, <1>2, <1>3, PaymentWrite DEF HoldsOrder, SameTerms, InsertPayment, RestOfPayments
<1>20. /\ OrdersTypeOK' /\ PaymentsTypeOK' /\ CollaboratorsTypeOK' /\ DeliveriesTypeOK'
       /\ Kept /\ LedgerGrows /\ CollectionsInv'
  BY <1>5 DEF GoodWrite
<1> DEFINE r == [req[s] EXCEPT !.pc = "save_paid", !.payment = new, !.order = doc]
<1>6. r \in Request /\ Goto(s, r)
  <2>1. r \in Request
    BY <1>1, LabelNames DEF Request, Maybe
  <2>2. Goto(s, r)
    BY <1>3, <1>4 DEF Goto
  <2> QED
    BY <2>1, <2>2
<1>7. payments'[p] = new /\ p \in PaymentIds /\ new # None
  BY <1>2, <1>3, DocumentAssumption DEF SaveInto, Inv, TypeOK, PaymentsTypeOK
<1>8. TypeOK' /\ req'[s] = r /\ \A t \in Slots \ {s} : req'[t] = req[t]
  BY <1>20, <1>6, GotoSlot DEF Inv, TypeOK
<1>9. /\ req'[s].oid = req[s].oid /\ req'[s].order = doc /\ req'[s].payment = new
      /\ req[s].oid \in OrderIds /\ orders' = orders
  BY <1>1, <1>8 DEF HoldsOrder, Request, InsertPayment
<1>10. HoldsOrder(req[s])'
  <2>1. PICK o \in OrderIds : o = req[s].oid
    BY <1>9
  <2>2. Backed(o, doc)
    BY <1>1, <1>4, <2>1 DEF HoldsOrder, Backed
  <2>3. Backed(o, doc)'
    BY <1>20, <2>2, BackedIsKept
  <2> QED
    BY <1>1, <1>4, <1>9, <2>1, <2>3 DEF HoldsOrder, SameTerms
<1>15. HoldsPayment(req[s])'
  BY <1>1, <1>2, <1>7, <1>9 DEF HoldsPayment, HoldsOrder, SameTerms
<1>11. r.did # None => HoldsDelivery(req[s])'
  BY <1>1, <1>8 DEF RequestInv, HoldsDelivery, RestOfPayments
<1>12. \A i \in DOMAIN r.todo : EntryBacked(req[s].todo[i])'
  BY <1>1, <1>20, <1>8, EntryBackedIsKept DEF RequestInv, Request, Inv, TypeOK
<1>13. RequestInv(req[s])'
  BY <1>1, <1>2, <1>8, <1>9, <1>10, <1>11, <1>12, <1>15
  DEF RequestInv, Request, OrderLabels, DeliveryLabels, PaymentLabels, ProfileLabels
<1>14. ASSUME NEW t \in Slots, t # s PROVE RequestInv(req[t])'
  BY <1>20, <1>8, <1>14, RequestInvIsKept DEF Inv, TypeOK, RequestsTypeOK, CollectionsInv
<1> QED
  BY <1>20, <1>8, <1>13, <1>14 DEF Inv, GoodStep

LEMMA LedgerLinesAreBacked ==
  ASSUME NEW o \in OrderIds, orders[o] # None, NEW order \in Order, NEW settled \in BOOLEAN,
         Backed(o, order), settled = (orders[o].method = "wompi"),
         \E p \in PaymentIds : payments[p] # None /\ payments[p].order = o
  PROVE  LET lines == LedgerLines(o, order, settled)
         IN  /\ lines \in Seq(LedgerEntry)
             /\ \A i \in DOMAIN lines : EntryBacked(lines[i])
<1> DEFINE line(user, paid) == [order |-> o, user |-> user, settled |-> paid]
           platform == line("platform", settled)
           seller   == line("seller", settled)
           fee      == line(order.collaborator, TRUE)
<1>1. platform \in LedgerEntry /\ seller \in LedgerEntry
  BY DEF LedgerEntry
<1>2. EntryBacked(platform) /\ EntryBacked(seller)
  BY CourierAssumption DEF EntryBacked
<1>3. order.collaborator # None => fee \in LedgerEntry /\ EntryBacked(fee)
  BY DEF Order, LedgerEntry, EntryBacked, Backed, Maybe
<1> HIDE DEF platform, seller, fee
<1>4. CASE order.collaborator # None /\ order.fee
  <2>1. LedgerLines(o, order, settled) = << fee, platform, seller >>
    BY <1>4 DEF LedgerLines, platform, seller, fee
  <2>2. fee \in LedgerEntry /\ EntryBacked(fee)
    BY <1>3, <1>4
  <2>3. << fee, platform, seller >> \in Seq(LedgerEntry)
    BY <1>1, <2>2
  <2>4. \A i \in 1..3 : EntryBacked(<< fee, platform, seller >>[i])
    BY <1>2, <2>2
  <2>5. DOMAIN << fee, platform, seller >> = 1..3
    OBVIOUS
  <2> QED
    BY <2>1, <2>3, <2>4, <2>5
<1>5. CASE ~(order.collaborator # None /\ order.fee)
  <2>1. LedgerLines(o, order, settled) = << platform, seller >>
    BY <1>5 DEF LedgerLines, platform, seller
  <2> QED
    BY <1>1, <1>2, <2>1
<1> QED
  BY <1>4, <1>5

LEMMA SavePaidOrderStep ==
  ASSUME Inv, NEW s \in Slots, SavePaidOrder(s), UNCHANGED RestOfPayments
  PROVE  GoodStep
<1> DEFINE lines == LedgerLines(req[s].oid, req[s].order, req[s].payment.method = "wompi")
           r == [req[s] EXCEPT !.pc = "ledger", !.order = None, !.payment = None,
                               !.todo = lines]
<1>1. /\ req[s] \in Request /\ RequestInv(req[s]) /\ req[s].pc = "save_paid"
      /\ HoldsOrder(req[s]) /\ HoldsPayment(req[s]) /\ req[s].payment.order = req[s].oid
  BY DEF Inv, TypeOK, RequestsTypeOK, SavePaidOrder, At, RequestInv, OrderLabels, PaymentLabels
<1>2. GoodWrite
  BY <1>1, OrderWrite DEF HoldsOrder, SavePaidOrder, RestOfPayments
<1>3. lines \in Seq(LedgerEntry) /\ \A i \in DOMAIN lines : EntryBacked(lines[i])
  <2> DEFINE settled == (req[s].payment.method = "wompi")
  <2>1. settled \in BOOLEAN /\ settled = (orders[req[s].oid].method = "wompi")
    BY <1>1 DEF HoldsPayment
  <2> HIDE DEF settled
  <2>2. LET ls == LedgerLines(req[s].oid, req[s].order, settled)
        IN  /\ ls \in Seq(LedgerEntry)
            /\ \A i \in DOMAIN ls : EntryBacked(ls[i])
    BY <1>1, <2>1, LedgerLinesAreBacked DEF HoldsOrder, HoldsPayment
  <2> QED
    BY <2>2 DEF settled
<1> HIDE DEF lines
<1>4. r \in Request
  BY <1>1, <1>3, LabelNames DEF Request, Maybe
<1>5. RequestInv(r)
  BY <1>1, <1>3 DEF RequestInv, Request, OrderLabels, DeliveryLabels, PaymentLabels,
                    ProfileLabels, HoldsDelivery
<1> QED
  BY <1>2, <1>4, <1>5, SlotStep DEF SavePaidOrder, lines

LEMMA WriteEntryStep ==
  ASSUME Inv, NEW s \in Slots, WriteEntry(s), UNCHANGED RestOfPayments
  PROVE  GoodStep
<1> DEFINE e    == Head(req[s].todo)
           rest == Tail(req[s].todo)
           r    == [req[s] EXCEPT !.todo = rest]
<1>1. /\ req[s] \in Request /\ RequestInv(req[s]) /\ req[s].pc = "ledger"
      /\ req[s].todo \in Seq(LedgerEntry) /\ req[s].todo # << >>
  BY DEF Inv, TypeOK, RequestsTypeOK, Request, WriteEntry, At
<1>2. e = req[s].todo[1] /\ 1 \in DOMAIN req[s].todo /\ e \in LedgerEntry
  BY <1>1
<1>3. EntryBacked(e)
  BY <1>1, <1>2 DEF RequestInv
<1>4. rest \in Seq(LedgerEntry)
      /\ \A i \in DOMAIN rest : i + 1 \in DOMAIN req[s].todo /\ rest[i] = req[s].todo[i + 1]
  BY <1>1
<1>5. \A i \in DOMAIN rest : EntryBacked(rest[i])
  BY <1>1, <1>4 DEF RequestInv
<1>6. GoodWrite
  BY <1>2, <1>3, LedgerWrite DEF WriteEntry, RestOfPayments
<1> HIDE DEF rest
<1>7. r \in Request
  BY <1>1, <1>4 DEF Request
<1>8. RequestInv(r)
  BY <1>1, <1>5 DEF RequestInv, Request, OrderLabels, DeliveryLabels, PaymentLabels,
                    ProfileLabels, HoldsDelivery
<1> QED
  BY <1>6, <1>7, <1>8, SlotStep DEF WriteEntry, rest

LEMMA LedgerWrittenStep ==
  ASSUME Inv, NEW s \in Slots, LedgerWritten(s), UNCHANGED RestOfPayments
  PROVE  GoodStep
<1> DEFINE r == [req[s] EXCEPT !.pc = "free"]
<1>1. req[s] \in Request /\ RequestInv(req[s]) /\ req[s].pc = "ledger"
  BY DEF Inv, TypeOK, RequestsTypeOK, LedgerWritten, At
<1>2. r \in Request
  BY <1>1 DEF Request, Labels
<1>3. req[s].did # None => RequestInv(r)
  BY <1>1 DEF RequestInv, Request, OrderLabels, DeliveryLabels, PaymentLabels,
              ProfileLabels, HoldsDelivery
<1>4. CASE req[s].did = None
  BY <1>4, FinishStep DEF LedgerWritten, RestOfPayments, Collections
<1>5. CASE req[s].did # None
  BY <1>2, <1>3, <1>5, ReadStep DEF LedgerWritten, RestOfPayments, Collections
<1> QED
  BY <1>4, <1>5

-----------------------------------------------------------------------------
(* Deliveries, action by action *)

RestOfDeliveries == <<products, payments, ledger>>

LEMMA AssignOrderStep ==
  ASSUME Inv, NEW s \in Slots, NEW o \in OrderIds, AssignOrder(s, o),
         UNCHANGED RestOfDeliveries
  PROVE  GoodStep
<1> DEFINE r == [Idle EXCEPT !.pc = "check_assigned", !.oid = o, !.order = orders[o]]
<1>1. orders[o] \in Order /\ Backed(o, orders[o]) /\ orders[o] # None
  BY DEF AssignOrder, Inv, TypeOK, OrdersTypeOK, CollectionsInv, OrdersAreBacked, Placed,
         Maybe
<1>2. r \in Request
  BY <1>1, IdleIsRequest, LabelNames DEF Request, Maybe
<1>3. RequestInv(r)
  BY <1>1 DEF RequestInv, Idle, OrderLabels, DeliveryLabels, PaymentLabels,
              ProfileLabels, HoldsOrder, SameTerms
<1> QED
  BY <1>2, <1>3, ReadStep DEF AssignOrder, RestOfDeliveries, Collections

LEMMA CheckUnassignedStep ==
  ASSUME Inv, NEW s \in Slots, CheckUnassigned(s), UNCHANGED RestOfDeliveries
  PROVE  GoodStep
<1> DEFINE r == [req[s] EXCEPT !.pc = "pick"]
<1>1. req[s] \in Request /\ RequestInv(req[s]) /\ req[s].pc = "check_assigned"
  BY DEF Inv, TypeOK, RequestsTypeOK, CheckUnassigned, At
<1>2. r \in Request
  BY <1>1 DEF Request, Labels
<1>3. RequestInv(r)
  BY <1>1 DEF RequestInv, Request, OrderLabels, DeliveryLabels, PaymentLabels,
              ProfileLabels, HoldsDelivery, HoldsOrder
<1>4. CASE DeliveriesOf(req[s].oid) = {}
  BY <1>2, <1>3, <1>4, ReadStep DEF CheckUnassigned, RestOfDeliveries, Collections
<1>5. CASE DeliveriesOf(req[s].oid) # {}
  BY <1>5, FinishStep DEF CheckUnassigned, RestOfDeliveries, Collections
<1> QED
  BY <1>4, <1>5

LEMMA PickCourierStep ==
  ASSUME Inv, NEW s \in Slots, PickCourier(s), UNCHANGED RestOfDeliveries
  PROVE  GoodStep
<1>1. req[s] \in Request /\ RequestInv(req[s]) /\ req[s].pc = "pick"
  BY DEF Inv, TypeOK, RequestsTypeOK, PickCourier, At
<1>2. CASE Finish(s)
  BY <1>2, FinishStep DEF PickCourier, RestOfDeliveries, Collections
<1>3. ASSUME NEW c \in Candidates,
             Goto(s, [req[s] EXCEPT !.pc = "insert_delivery", !.cid = c,
                                    !.profile = profiles[c]])
      PROVE  GoodStep
  <2> DEFINE r == [req[s] EXCEPT !.pc = "insert_delivery", !.cid = c,
                                 !.profile = profiles[c]]
  <2>1. /\ c \in CourierIds /\ profiles[c] \in Profile
        /\ profiles[c].availability # "offline" => profiles[c].located
    BY LoadedProfile DEF Candidates
  <2>2. r \in Request
    BY <1>1, <2>1, LabelNames DEF Request, Maybe
  <2>3. RequestInv(r)
    BY <1>1, <2>1
    DEF RequestInv, Request, OrderLabels, DeliveryLabels, PaymentLabels, ProfileLabels,
        HoldsDelivery, HoldsOrder, HoldsProfile, Candidates
  <2> QED
    BY <1>3, <2>2, <2>3, ReadStep DEF PickCourier, RestOfDeliveries, Collections
<1> QED
  BY <1>2, <1>3 DEF PickCourier

LEMMA InsertDeliveryStep ==
  ASSUME Inv, NEW s \in Slots, InsertDelivery(s), UNCHANGED RestOfDeliveries
  PROVE  GoodStep
<1>1. /\ req[s] \in Request /\ RequestInv(req[s]) /\ req[s].pc = "insert_delivery"
      /\ HoldsOrder(req[s]) /\ HoldsProfile(req[s])
  BY DEF Inv, TypeOK, RequestsTypeOK, InsertDelivery, At, RequestInv, OrderLabels,
         ProfileLabels
<1>2. PICK o \in OrderIds, c \in CourierIds : o = req[s].oid /\ c = req[s].cid
  BY <1>1 DEF HoldsOrder, HoldsProfile
<1>3. PICK new \in Delivery :
         /\ new = [order |-> req[s].oid, collaborator |-> req[s].cid,
                   status |-> "assigned", proof |-> FALSE]
         /\ new.order = o /\ new.collaborator = c
  <2> DEFINE doc == [order |-> req[s].oid, collaborator |-> req[s].cid,
                     status |-> "assigned", proof |-> FALSE]
  <2>1. doc \in Delivery /\ doc.order = o /\ doc.collaborator = c
    BY <1>2 DEF Delivery, DeliveryStatus
  <2> QED
    BY <2>1
<1>4. PICK d \in DeliveryIds :
         deliveries[d] = None /\ deliveries' = SaveInto(deliveries, d, new)
  BY <1>3 DEF InsertDelivery
<1>5. PICK doc \in Order :
         /\ doc = RecordStatus([req[s].order EXCEPT !.collaborator = req[s].cid], "assigned")
         /\ SameTerms(doc, req[s].order)
         /\ doc.status = "assigned" /\ doc.collaborator = c
  <2> DEFINE assigned ==
        RecordStatus([req[s].order EXCEPT !.collaborator = req[s].cid], "assigned")
  <2>1. /\ assigned \in Order /\ SameTerms(assigned, req[s].order)
        /\ assigned.status = "assigned" /\ assigned.collaborator = c
    BY <1>1, <1>2 DEF HoldsOrder, Order, OrderStatus, RecordStatus, SameTerms, Maybe
  <2> QED
    BY <2>1
<1>6. GoodWrite
  BY <1>1, <1>2, <1>3, <1>4, DeliveryWrite DEF HoldsOrder, InsertDelivery, RestOfDeliveries
<1>20. /\ OrdersTypeOK' /\ PaymentsTypeOK' /\ CollaboratorsTypeOK' /\ DeliveriesTypeOK'
       /\ Kept /\ LedgerGrows /\ CollectionsInv'
  BY <1>6 DEF GoodWrite
<1> DEFINE r == [req[s] EXCEPT !.pc = "save_assigned", !.order = doc]
<1>7. r \in Request /\ Goto(s, r)
  <2>1. r \in Request
    BY <1>1, LabelNames DEF Request, Maybe
  <2>2. Goto(s, r)
    BY <1>5 DEF InsertDelivery
  <2> QED
    BY <2>1, <2>2
<1>8. TypeOK' /\ req'[s] = r /\ \A t \in Slots \ {s} : req'[t] = req[t]
  BY <1>20, <1>7, GotoSlot DEF Inv, TypeOK
<1>9. /\ r.pc = "save_assigned" /\ r.oid = o /\ r.order = doc /\ r.did = req[s].did
      /\ r.delivery = req[s].delivery /\ r.cid = c /\ r.profile = req[s].profile
      /\ r.taken = req[s].taken /\ r.todo = req[s].todo
  BY <1>1, <1>2 DEF Request
<1> HIDE DEF r
<1>10. HoldsOrder(req[s])'
  <2>1. deliveries'[d] = new /\ new # None
    BY <1>4, DocumentAssumption DEF SaveInto, Inv, TypeOK, DeliveriesTypeOK
  <2>2. Backed(o, doc)'
    BY <1>3, <1>5, <2>1 DEF Backed, Carried
  <2>3. SameTerms(doc, orders[o]) /\ orders[o] # None
    BY <1>1, <1>2, <1>5 DEF HoldsOrder, SameTerms
  <2> QED
    BY <1>8, <1>9, <2>2, <2>3 DEF HoldsOrder, InsertDelivery
<1>11. HoldsProfile(req[s])'
  BY <1>1, <1>2, <1>8, <1>9 DEF HoldsProfile
<1>12. r.did # None => HoldsDelivery(req[s])'
  BY <1>1, <1>20, <1>8, <1>9 DEF RequestInv, HoldsDelivery, Kept
<1>13. \A i \in DOMAIN r.todo : EntryBacked(req[s].todo[i])'
  BY <1>1, <1>20, <1>8, <1>9, EntryBackedIsKept DEF RequestInv, Request, Inv, TypeOK
<1>14. RequestInv(req[s])'
  BY <1>1, <1>8, <1>9, <1>10, <1>11, <1>12, <1>13
  DEF RequestInv, OrderLabels, DeliveryLabels, PaymentLabels, ProfileLabels
<1>15. ASSUME NEW t \in Slots, t # s PROVE RequestInv(req[t])'
  BY <1>20, <1>8, <1>15, RequestInvIsKept DEF Inv, TypeOK, RequestsTypeOK, CollectionsInv
<1> QED
  BY <1>20, <1>8, <1>14, <1>15 DEF Inv, GoodStep

LEMMA SaveAssignedStep ==
  ASSUME Inv, NEW s \in Slots, SaveAssigned(s), UNCHANGED RestOfDeliveries
  PROVE  GoodStep
<1>1. /\ req[s] \in Request /\ RequestInv(req[s]) /\ req[s].profile.located
      /\ HoldsOrder(req[s]) /\ HoldsProfile(req[s])
  BY DEF Inv, TypeOK, RequestsTypeOK, RequestInv, SaveAssigned, At, OrderLabels,
         ProfileLabels
<1>2. GoodWrite
  BY <1>1, OrderWrite DEF HoldsOrder, SaveAssigned, RestOfDeliveries
<1>3. PICK doc \in Profile :
         /\ doc = [req[s].profile EXCEPT !.availability = "on_delivery"]
         /\ doc.located
  <2> DEFINE busy == [req[s].profile EXCEPT !.availability = "on_delivery"]
  <2>1. busy \in Profile /\ busy.located
    BY <1>1 DEF HoldsProfile, Profile, Availability
  <2> QED
    BY <2>1
<1>4. PICK c \in CourierIds : c = req[s].cid
  BY <1>1 DEF HoldsProfile
<1> DEFINE r == [Idle EXCEPT !.pc = "save_profile", !.cid = c, !.profile = doc]
<1>5. r \in Request /\ RequestInv(r)
  BY <1>3, GoodProfileRequest
<1>6. Goto(s, r)
  BY <1>3, <1>4 DEF SaveAssigned
<1> QED
  BY <1>2, <1>5, <1>6, SlotStep

LEMMA LoadedDelivery ==
  ASSUME Inv, NEW d \in DeliveryIds, deliveries[d] # None
  PROVE  /\ deliveries[d] \in Delivery
         /\ orders[deliveries[d].order] # None
BY DEF Inv, TypeOK, DeliveriesTypeOK, CollectionsInv, DeliveriesArePlaced, Maybe

\* A handler has read a delivery, changed fields of its own, and will save it.
LEMMA SaveDeliveryBegins ==
  ASSUME Inv, NEW s \in Slots, NEW d \in DeliveryIds, deliveries[d] # None,
         NEW doc \in Delivery, doc.order = deliveries[d].order,
         doc.collaborator = deliveries[d].collaborator,
         NEW label \in {"save_delivery", "save_location", "save_proof"},
         Goto(s, [Idle EXCEPT !.pc = label, !.did = d, !.delivery = doc]),
         UNCHANGED Collections
  PROVE  GoodStep
<1> DEFINE r == [Idle EXCEPT !.pc = label, !.did = d, !.delivery = doc]
<1>1. r \in Request
  <2>1. label \in Labels
    BY DEF Labels
  <2> QED
    BY <2>1, IdleIsRequest DEF Request, Maybe
<1>2. HoldsDelivery(r) /\ d # None
  BY NoneAssumption DEF HoldsDelivery, Idle
<1>3. RequestInv(r)
  BY <1>2 DEF RequestInv, Idle, OrderLabels, DeliveryLabels, PaymentLabels, ProfileLabels
<1> QED
  BY <1>1, <1>3, ReadStep

LEMMA AdvanceDeliveryStep ==
  ASSUME Inv, NEW s \in Slots, NEW d \in DeliveryIds, AdvanceDelivery(s, d),
         UNCHANGED RestOfDeliveries
  PROVE  GoodStep
<1>1. PICK doc \in Delivery :
         /\ doc = [deliveries[d] EXCEPT !.status = DeliveryAdvance[@]]
         /\ doc.order = deliveries[d].order
         /\ doc.collaborator = deliveries[d].collaborator
  <2> DEFINE new == [deliveries[d] EXCEPT !.status = DeliveryAdvance[@]]
  <2>1. deliveries[d] \in Delivery
    BY LoadedDelivery DEF AdvanceDelivery
  <2>2. DeliveryAdvance[deliveries[d].status] \in DeliveryStatus
    BY DEF AdvanceDelivery, DeliveryAdvance, DeliveryStatus
  <2>3. /\ new \in Delivery /\ new.order = deliveries[d].order
        /\ new.collaborator = deliveries[d].collaborator
    BY <2>1, <2>2, SMTT(30) DEF Delivery
  <2> QED
    BY <2>3
<1> QED
  BY <1>1, SaveDeliveryBegins, Zenon DEF AdvanceDelivery, RestOfDeliveries, Collections

LEMMA UpdateLocationStep ==
  ASSUME Inv, NEW s \in Slots, NEW d \in DeliveryIds, UpdateLocation(s, d),
         UNCHANGED RestOfDeliveries
  PROVE  GoodStep
BY LoadedDelivery, SaveDeliveryBegins, ZenonT(60) DEF UpdateLocation, RestOfDeliveries, Collections

LEMMA UploadProofStep ==
  ASSUME Inv, NEW s \in Slots, NEW d \in DeliveryIds, UploadProof(s, d),
         UNCHANGED RestOfDeliveries
  PROVE  GoodStep
<1>1. PICK doc \in Delivery :
         /\ doc = [deliveries[d] EXCEPT !.proof = TRUE]
         /\ doc.order = deliveries[d].order
         /\ doc.collaborator = deliveries[d].collaborator
  <2> DEFINE new == [deliveries[d] EXCEPT !.proof = TRUE]
  <2>1. deliveries[d] \in Delivery
    BY LoadedDelivery DEF UploadProof
  <2>2. /\ new \in Delivery /\ new.order = deliveries[d].order
        /\ new.collaborator = deliveries[d].collaborator
    BY <2>1 DEF Delivery
  <2> QED
    BY <2>2
<1> QED
  BY <1>1, SaveDeliveryBegins, Zenon DEF UploadProof, RestOfDeliveries, Collections

\* The three saves of a delivery write the same way.
LEMMA HeldDeliveryWrite ==
  ASSUME Inv, NEW s \in Slots, HoldsDelivery(req[s]),
         deliveries' = SaveInto(deliveries, req[s].did, req[s].delivery),
         UNCHANGED <<orders, products, payments, ledger, profiles>>
  PROVE  GoodWrite
BY DeliveryWrite DEF HoldsDelivery, Inv, CollectionsInv, DeliveriesArePlaced

LEMMA SaveDeliveryStep ==
  ASSUME Inv, NEW s \in Slots, SaveDelivery(s), UNCHANGED RestOfDeliveries
  PROVE  GoodStep
<1> DEFINE r == [req[s] EXCEPT !.pc = "load_synced"]
<1>1. /\ req[s] \in Request /\ RequestInv(req[s]) /\ req[s].pc = "save_delivery"
      /\ HoldsDelivery(req[s])
  BY DEF Inv, TypeOK, RequestsTypeOK, RequestInv, SaveDelivery, At, DeliveryLabels
<1>2. GoodWrite
  BY <1>1, HeldDeliveryWrite DEF SaveDelivery, RestOfDeliveries
<1>3. r \in Request
  BY <1>1 DEF Request, Labels
<1>4. req[s].delivery.status \in OrderSync => RequestInv(r)
  BY <1>1 DEF RequestInv, Request, OrderLabels, DeliveryLabels, PaymentLabels,
              ProfileLabels, HoldsDelivery
<1>5. CASE req[s].delivery.status \in OrderSync
  BY <1>2, <1>3, <1>4, <1>5, SlotStep DEF SaveDelivery
<1>6. CASE req[s].delivery.status \notin OrderSync
  BY <1>2, <1>6, SlotStep, IdleIsRequest, IdleIsGood DEF SaveDelivery, Finish
<1> QED
  BY <1>5, <1>6

LEMMA SaveLocationStep ==
  ASSUME Inv, NEW s \in Slots, SaveLocation(s), UNCHANGED RestOfDeliveries
  PROVE  GoodStep
<1> DEFINE r == [req[s] EXCEPT !.pc = "load_located"]
<1>1. /\ req[s] \in Request /\ RequestInv(req[s]) /\ req[s].pc = "save_location"
      /\ HoldsDelivery(req[s])
  BY DEF Inv, TypeOK, RequestsTypeOK, RequestInv, SaveLocation, At, DeliveryLabels
<1>2. GoodWrite
  BY <1>1, HeldDeliveryWrite DEF SaveLocation, RestOfDeliveries
<1>3. r \in Request
  BY <1>1 DEF Request, Labels
<1>4. RequestInv(r)
  BY <1>1 DEF RequestInv, Request, OrderLabels, DeliveryLabels, PaymentLabels,
              ProfileLabels, HoldsDelivery
<1> QED
  BY <1>2, <1>3, <1>4, SlotStep DEF SaveLocation

LEMMA SaveProofStep ==
  ASSUME Inv, NEW s \in Slots, SaveProof(s), UNCHANGED RestOfDeliveries
  PROVE  GoodStep
<1>1. HoldsDelivery(req[s])
  BY DEF Inv, RequestInv, SaveProof, At, DeliveryLabels
<1>2. GoodWrite
  BY <1>1, HeldDeliveryWrite DEF SaveProof, RestOfDeliveries
<1> QED
  BY <1>2, SlotStep, IdleIsRequest, IdleIsGood DEF SaveProof, Finish

LEMMA LoadSyncedStep ==
  ASSUME Inv, NEW s \in Slots, LoadSynced(s), UNCHANGED RestOfDeliveries
  PROVE  GoodStep
<1>1. /\ req[s] \in Request /\ RequestInv(req[s]) /\ req[s].pc = "load_synced"
      /\ HoldsDelivery(req[s])
  BY DEF Inv, TypeOK, RequestsTypeOK, RequestInv, LoadSynced, At, DeliveryLabels
<1>2. PICK o \in OrderIds : o = req[s].delivery.order
  BY <1>1 DEF HoldsDelivery, Delivery
<1>3. orders[o] # None /\ Carried(o, CourierIds)
  BY <1>1, <1>2, LoadedDelivery DEF HoldsDelivery, Carried, Delivery
<1>4. PICK doc \in Order :
         /\ doc = RecordStatus(orders[o], req[s].delivery.status)
         /\ SameTerms(doc, orders[o]) /\ Backed(o, doc)
  <2>1. PICK st \in OrderStatus : st = req[s].delivery.status
    BY <1>1 DEF RequestInv, OrderSync, OrderStatus
  <2> QED
    BY <1>3, <2>1, LoadedOrder
<1> DEFINE r == [req[s] EXCEPT !.pc = "save_synced", !.oid = o, !.order = doc]
<1>5. r \in Request
  BY <1>1, LabelNames DEF Request, Maybe
<1>6. RequestInv(r)
  BY <1>1, <1>3, <1>4
  DEF RequestInv, Request, OrderLabels, DeliveryLabels, PaymentLabels, ProfileLabels,
      HoldsDelivery, HoldsOrder
<1>7. Goto(s, r)
  BY <1>2, <1>4 DEF LoadSynced
<1> QED
  BY <1>5, <1>6, <1>7, ReadStep DEF LoadSynced, RestOfDeliveries, Collections

LEMMA SaveSyncedStep ==
  ASSUME Inv, NEW s \in Slots, SaveSynced(s), UNCHANGED RestOfDeliveries
  PROVE  GoodStep
<1> DEFINE pay == [req[s] EXCEPT !.pc = "check_payment"]
           on  == [req[s] EXCEPT !.pc = "free"]
<1>1. /\ req[s] \in Request /\ RequestInv(req[s]) /\ req[s].pc = "save_synced"
      /\ HoldsOrder(req[s])
  BY DEF Inv, TypeOK, RequestsTypeOK, RequestInv, SaveSynced, At, OrderLabels
<1>2. GoodWrite
  BY <1>1, OrderWrite DEF HoldsOrder, SaveSynced, RestOfDeliveries
<1>3. pay \in Request
  BY <1>1 DEF Request, Labels
<1>4. on \in Request
  BY <1>1 DEF Request, Labels
<1>5. req[s].order.method = "cash" => RequestInv(pay)
  BY <1>1 DEF RequestInv, Request, OrderLabels, DeliveryLabels, PaymentLabels,
              ProfileLabels, HoldsDelivery, HoldsOrder
<1>6. RequestInv(on)
  BY <1>1 DEF RequestInv, Request, OrderLabels, DeliveryLabels, PaymentLabels,
              ProfileLabels, HoldsDelivery
<1>7. CASE Finish(s)
  BY <1>2, <1>7, SlotStep, IdleIsRequest, IdleIsGood DEF Finish
<1>8. CASE req[s].order.method = "cash" /\ Goto(s, pay)
  BY <1>2, <1>3, <1>5, <1>8, SlotStep
<1>9. CASE Goto(s, on)
  BY <1>2, <1>4, <1>6, <1>9, SlotStep
<1> QED
  BY <1>7, <1>8, <1>9 DEF SaveSynced

LEMMA FreeCourierStep ==
  ASSUME Inv, NEW s \in Slots, FreeCourier(s), UNCHANGED RestOfDeliveries
  PROVE  GoodStep
<1>1. HoldsDelivery(req[s])
  BY DEF Inv, RequestInv, FreeCourier, At, DeliveryLabels
<1>2. PICK c \in CourierIds : c = req[s].delivery.collaborator
  BY <1>1 DEF HoldsDelivery, Delivery
<1>3. CASE Finish(s)
  BY <1>3, FinishStep, SMTT(30) DEF FreeCourier, RestOfDeliveries, Collections
<1>4. CASE ~Finish(s)
  <2>1. profiles[c] # None /\ profiles[c].availability = "on_delivery"
    BY <1>2, <1>4 DEF FreeCourier
  <2>2. PICK doc \in Profile : /\ doc = [profiles[c] EXCEPT !.availability = "online"]
                               /\ doc.located
    <3> DEFINE new == [profiles[c] EXCEPT !.availability = "online"]
    <3>1. profiles[c] \in Profile /\ profiles[c].located
      BY <2>1, LoadedProfile
    <3>2. new \in Profile /\ new.located
      BY <3>1 DEF Profile, Availability
    <3> QED
      BY <3>2
  <2> QED
    BY <1>2, <2>1, <2>2, SaveProfileBegins DEF FreeCourier, RestOfDeliveries, Collections
<1> QED
  BY <1>3, <1>4

LEMMA LoadLocatedStep ==
  ASSUME Inv, NEW s \in Slots, LoadLocated(s), UNCHANGED RestOfDeliveries
  PROVE  GoodStep
<1>1. HoldsDelivery(req[s])
  BY DEF Inv, RequestInv, LoadLocated, At, DeliveryLabels
<1>2. PICK c \in CourierIds : c = req[s].delivery.collaborator
  BY <1>1 DEF HoldsDelivery, Delivery
<1>3. CASE profiles[c] = None
  BY <1>2, <1>3, FinishStep, SMTT(30) DEF LoadLocated, RestOfDeliveries, Collections
<1>4. CASE profiles[c] # None
  <2>1. PICK doc \in Profile : doc = [profiles[c] EXCEPT !.located = TRUE] /\ doc.located
    <3> DEFINE new == [profiles[c] EXCEPT !.located = TRUE]
    <3>1. profiles[c] \in Profile
      BY <1>4, LoadedProfile
    <3>2. new \in Profile /\ new.located
      BY <3>1 DEF Profile
    <3> QED
      BY <3>2
  <2> QED
    BY <1>2, <1>4, <2>1, SaveProfileBegins DEF LoadLocated, RestOfDeliveries, Collections
<1> QED
  BY <1>3, <1>4

-----------------------------------------------------------------------------
(* Every step of the marketplace *)

LEMMA InitIsGood == Init => Inv
<1> SUFFICES ASSUME Init PROVE Inv
  OBVIOUS
<1>1. RequestsTypeOK
  BY IdleIsRequest DEF Init, RequestsInit, RequestsTypeOK
<1>2. OrdersTypeOK /\ StockNeverNegative
  BY StockAssumption, NoneAssumption
  DEF Init, OrdersInit, OrdersTypeOK, StockNeverNegative, Product, Maybe
<1>3. PaymentsTypeOK /\ LedgerIsBacked
  BY DEF Init, PaymentsInit, PaymentsTypeOK, LedgerIsBacked, Maybe
<1>4. CollaboratorsTypeOK /\ AvailableIsLocated
  BY DEF Init, CollaboratorsInit, CollaboratorsTypeOK, AvailableIsLocated, Profile,
         Availability, Maybe
<1>5. DeliveriesTypeOK /\ DeliveriesArePlaced
  BY DEF Init, DeliveriesInit, DeliveriesTypeOK, DeliveriesArePlaced, Maybe
<1>6. OrdersAreBacked /\ PaymentFitsOrder
  BY DEF Init, OrdersInit, PaymentsInit, OrdersAreBacked, PaymentFitsOrder, Placed
<1>7. \A s \in Slots : RequestInv(req[s])
  BY IdleIsGood DEF Init, RequestsInit
<1> QED
  BY <1>1, <1>2, <1>3, <1>4, <1>5, <1>6, <1>7 DEF Inv, TypeOK, CollectionsInv

LEMMA BeginIsGood ==
  ASSUME Inv, NEW s \in Slots, Begin(s)
  PROVE  GoodStep
<1>1. CASE OrdersBegin(s) /\ UNCHANGED <<payments, ledger, deliveries, profiles>>
  BY <1>1, StockAssumption, CreateOrderStep, AcceptOrderStep, AdvanceOrderStep,
     CancelOrderStep, EditProductStep, DeleteProductStep
  DEF OrdersBegin, RestOfOrders
<1>2. CASE PaymentsBegin(s) /\ UNCHANGED <<products, deliveries, profiles>>
  BY <1>2, CreateIntentStep, WebhookStep DEF PaymentsBegin, RestOfPayments
<1>3. CASE CollaboratorsBegin(s) /\ UNCHANGED <<orders, products, payments, ledger, deliveries>>
  BY <1>3, BecomeCollaboratorStep, SetAvailabilityStep, VerifyStep
  DEF CollaboratorsBegin, RestOfCollaborators
<1>4. CASE DeliveriesBegin(s) /\ UNCHANGED <<products, payments, ledger>>
  BY <1>4, AssignOrderStep, AdvanceDeliveryStep, UpdateLocationStep, UploadProofStep
  DEF DeliveriesBegin, RestOfDeliveries
<1> QED
  BY <1>1, <1>2, <1>3, <1>4 DEF Begin

LEMMA ServeIsGood ==
  ASSUME Inv, NEW s \in Slots, Serve(s)
  PROVE  GoodStep
<1>1. CASE OrdersStep(s) /\ UNCHANGED <<payments, ledger, deliveries, profiles>>
  BY <1>1, ReadLineStep, TakeStockStep, InsertOrderStep, SaveOrderStep, ReadStockStep,
     RestoreStockStep, SaveCancelledStep, SaveProductStep
  DEF OrdersStep, RestOfOrders
<1>2. CASE PaymentsStep(s) /\ UNCHANGED <<products, deliveries, profiles>>
  BY <1>2, CheckIntentStep, InsertIntentStep, SavePaymentStep, LoadPaidOrderStep,
     CheckPaymentStep, InsertPaymentStep, SavePaidOrderStep, WriteEntryStep,
     LedgerWrittenStep
  DEF PaymentsStep, RestOfPayments
<1>3. CASE CollaboratorsStep(s) /\ UNCHANGED <<orders, products, payments, ledger, deliveries>>
  BY <1>3, SaveProfileStep DEF CollaboratorsStep, RestOfCollaborators
<1>4. CASE DeliveriesStep(s) /\ UNCHANGED <<products, payments, ledger>>
  BY <1>4, CheckUnassignedStep, PickCourierStep, InsertDeliveryStep, SaveAssignedStep,
     SaveDeliveryStep, LoadSyncedStep, SaveSyncedStep, FreeCourierStep, SaveLocationStep,
     LoadLocatedStep, SaveProofStep
  DEF DeliveriesStep, RestOfDeliveries
<1> QED
  BY <1>1, <1>2, <1>3, <1>4 DEF Serve

LEMMA NextIsGood == Inv /\ Next => GoodStep
<1> SUFFICES ASSUME Inv, NEW s \in Slots, Begin(s) \/ Serve(s) \/ Fail(s) PROVE GoodStep
  BY DEF Next
<1>1. CASE Fail(s)
  BY <1>1, FinishStep, SMTT(30) DEF Fail, Crash, Collections
<1> QED
  BY <1>1, BeginIsGood, ServeIsGood

LEMMA StutterIsGood == Inv /\ UNCHANGED vars => Inv'
BY DEF vars, Inv, TypeOK, RequestsTypeOK, OrdersTypeOK, PaymentsTypeOK,
       CollaboratorsTypeOK, DeliveriesTypeOK, RequestInv, HoldsOrder, HoldsDelivery,
       HoldsPayment, HoldsProfile, HoldsGoods, CollectionsInv, StockNeverNegative,
       OrdersAreBacked, DeliveriesArePlaced, PaymentFitsOrder, LedgerIsBacked,
       AvailableIsLocated, Placed, Backed, Carried, EntryBacked

\* The invariant holds in every behaviour of every environment: however many
\* requests overlap, and wherever they crash.
THEOREM InvIsInvariant == Spec => []Inv
<1>1. Inv /\ [Next]_vars => Inv'
  BY NextIsGood, StutterIsGood DEF GoodStep
<1> QED
  BY <1>1, InitIsGood, PTL DEF Spec

\* Every variable keeps its type: every document written is a whole document.
THEOREM TypeIsCorrect == Spec => []TypeOK
BY InvIsInvariant, PTL DEF Inv

\* create_order and cancel_order never take stock on sale below zero, whatever
\* overlaps: the decrement is of the very document that passed the check.
THEOREM StockStaysNonNegative == Spec => []StockNeverNegative
BY InvIsInvariant, PTL DEF Inv, CollectionsInv

\* No order is on its way, or names a courier, without a delivery document.
THEOREM OrdersStayBacked == Spec => []OrdersAreBacked
BY InvIsInvariant, PTL DEF Inv, CollectionsInv

\* Every ledger entry belongs to an order that has a payment, is settled as that
\* order is paid, and pays a delivery fee only to a courier of the order.
THEOREM LedgerStaysBacked == Spec => []LedgerIsBacked
BY InvIsInvariant, PTL DEF Inv, CollectionsInv

\* Payments are made the way their order says.
THEOREM PaymentsFitOrders == Spec => []PaymentFitsOrder
BY InvIsInvariant, PTL DEF Inv, CollectionsInv

\* A courier who is not offline has a location matching can find.
THEOREM CouriersStayLocated == Spec => []AvailableIsLocated
BY InvIsInvariant, PTL DEF Inv, CollectionsInv

\* Saves of whole documents read earlier never change the terms of an order, a
\* delivery or a payment, lose one, or take an entry from the ledger.
THEOREM TermsStayKept == Spec => TermsAreKept
<1>1. Inv /\ [Next]_vars => [Kept /\ LedgerGrows]_vars
  BY NextIsGood DEF GoodStep
<1> QED
  BY <1>1, InvIsInvariant, PTL DEF Spec, TermsAreKept

-----------------------------------------------------------------------------
(* Requests about one order that do not overlap (IsolatedSpec) *)

\* What is stored about order o, its own document aside, does not change.
Untouched(o) ==
  /\ \A d \in DeliveryIds : deliveries[d] # None /\ deliveries[d].order = o =>
       deliveries'[d] = deliveries[d]
  /\ \A d \in DeliveryIds : deliveries'[d] # None /\ deliveries'[d].order = o =>
       deliveries'[d] = deliveries[d]
  /\ \A p \in PaymentIds : payments[p] # None /\ payments[p].order = o =>
       payments'[p] = payments[p]
  /\ \A p \in PaymentIds : payments'[p] # None /\ payments'[p].order = o =>
       payments'[p] = payments[p]
  /\ \A user \in Users : Credited(o, user)' = Credited(o, user)

\* The subject of a request that holds r.
SubjectOf(r) ==
  CASE r.oid # None                        -> r.oid
    [] r.oid = None /\ r.delivery # None   -> r.delivery.order
    [] r.oid = None /\ r.delivery = None /\ r.payment # None -> r.payment.order
    [] OTHER                               -> None

\* The statuses of a delivery follow each other.
Forward ==
  \A d \in DeliveryIds : deliveries[d] # None /\ deliveries'[d] # deliveries[d] =>
    \/ deliveries'[d].status = deliveries[d].status
    \/ /\ deliveries[d].status \in DOMAIN DeliveryAdvance
       /\ deliveries'[d].status = DeliveryAdvance[deliveries[d].status]

LEMMA SubjectIsHeld == \A s \in Slots : Subject(s) = SubjectOf(req[s])
  BY DEF Subject, SubjectOf

LEMMA UntouchedSets ==
  ASSUME NEW o, Untouched(o)
  PROVE  /\ DeliveriesOf(o)' = DeliveriesOf(o)
         /\ \A d \in DeliveriesOf(o) : deliveries'[d] = deliveries[d]
         /\ PaymentsOf(o)' = PaymentsOf(o)
         /\ \A p \in PaymentsOf(o) : payments'[p] = payments[p]
         /\ Unbooked(o) => Unbooked(o)'
         /\ Approved(o) => Approved(o)'
         /\ \A st : Follows(o, st) => Follows(o, st)'
<1>1. DeliveriesOf(o)' = DeliveriesOf(o) /\ \A d \in DeliveriesOf(o) : deliveries'[d] = deliveries[d]
  BY DEF Untouched, DeliveriesOf
<1>2. PaymentsOf(o)' = PaymentsOf(o) /\ \A p \in PaymentsOf(o) : payments'[p] = payments[p]
  BY DEF Untouched, PaymentsOf
<1>3. Unbooked(o) => Unbooked(o)'
  BY DEF Untouched, Unbooked
<1>4. Approved(o) => Approved(o)'
  BY <1>2 DEF Approved
<1>5. \A st : Follows(o, st) => Follows(o, st)'
  BY <1>1 DEF Follows, Reached
<1> QED
  BY <1>1, <1>2, <1>3, <1>4, <1>5

LEMMA UntouchedOrder ==
  ASSUME NEW o, Untouched(o), OrderInv(o), orders'[o] = orders[o]
  PROVE  OrderInv(o)'
<1>1. /\ DeliveriesOf(o)' = DeliveriesOf(o)
      /\ PaymentsOf(o)' = PaymentsOf(o)
      /\ Unbooked(o) => Unbooked(o)'
      /\ Approved(o) => Approved(o)'
      /\ \A st : Follows(o, st) => Follows(o, st)'
  BY UntouchedSets
<1>2. \A user \in Users : Credited(o, user)' <= 1
  BY DEF OrderInv, Untouched
<1>3. Placed(o)' => Follows(o, orders[o].status)'
  BY <1>1 DEF OrderInv, Placed
<1> QED
  BY <1>1, <1>2, <1>3 DEF OrderInv

LEMMA IdleIsUndisturbed == Undisturbed(Idle)
  BY DEF Undisturbed, Idle, DeliverySaves, OrderSaves

\* What a request holds stays what is stored as long as nobody touches its order.
LEMMA UndisturbedIsKept ==
  ASSUME NEW t \in Slots, NEW r \in Request, req'[t] = r, RequestInv(r), Undisturbed(r),
         SubjectOf(r) # None => Untouched(SubjectOf(r))
  PROVE  Undisturbed(req[t])'
<1> DEFINE o == SubjectOf(r)
<1>1. \A x \in OrderIds : x # None
  BY NoneAssumption
<1>2. o # None => /\ DeliveriesOf(o)' = DeliveriesOf(o)
                  /\ \A d \in DeliveriesOf(o) : deliveries'[d] = deliveries[d]
                  /\ PaymentsOf(o)' = PaymentsOf(o)
                  /\ Unbooked(o) => Unbooked(o)'
                  /\ Approved(o) => Approved(o)'
                  /\ \A st : Follows(o, st) => Follows(o, st)'
                  /\ \A user \in Users : Credited(o, user)' = Credited(o, user)
  BY UntouchedSets DEF Untouched
<1>3. r.oid # None => o = r.oid
  BY DEF SubjectOf
<1>4. r.oid = None /\ r.did # None =>
        /\ o = r.delivery.order /\ o # None
        /\ r.did \in DeliveriesOf(o)
  <2> SUFFICES ASSUME r.oid = None, r.did # None
               PROVE  o = r.delivery.order /\ o # None /\ r.did \in DeliveriesOf(o)
    OBVIOUS
  <2>1. /\ r.did \in DeliveryIds /\ r.delivery \in Delivery /\ deliveries[r.did] # None
        /\ r.delivery.order = deliveries[r.did].order
    BY DEF RequestInv, HoldsDelivery
  <2>2. r.delivery # None /\ r.delivery.order \in OrderIds
    BY <2>1, DocumentAssumption DEF Delivery
  <2>3. o = r.delivery.order
    BY <2>2 DEF SubjectOf
  <2> HIDE DEF o
  <2> QED
    BY <1>1, <2>1, <2>2, <2>3 DEF DeliveriesOf
<1>5. r.pc \in OrderLabels => r.oid # None
  BY <1>1 DEF RequestInv, HoldsOrder
<1>6. r.pc \in PaymentLabels /\ r.oid = None /\ r.delivery = None =>
        o = r.payment.order /\ o # None
  BY <1>1, DocumentAssumption DEF SubjectOf, RequestInv, HoldsPayment, Payment
<1> HIDE DEF o
<1>7. r.pc \in DeliverySaves => r.did \in DeliveriesOf(o) /\ deliveries'[r.did] = deliveries[r.did]
  BY <1>2, <1>4 DEF Undisturbed, DeliverySaves, RequestInv, DeliveryLabels
<1>8. r.pc \in {"save_payment", "load_paid"} =>
        /\ r.delivery = None /\ Unbooked(r.payment.order)'
        /\ r.pc = "load_paid" => Approved(r.payment.order)'
  BY <1>2, <1>6 DEF Undisturbed, PaymentLabels
<1>9. r.pc = "save_paid" => Unbooked(r.oid)' /\ Approved(r.oid)'
  BY <1>2, <1>3, <1>5 DEF Undisturbed, OrderLabels
<1>10. r.pc \in OrderSaves => Follows(r.oid, r.order.status)'
  BY <1>2, <1>3, <1>5 DEF Undisturbed, OrderLabels, OrderSaves
<1>11. /\ r.pc \in {"pick", "insert_delivery"} => DeliveriesOf(r.oid)' = {}
       /\ r.pc \in {"insert_intent", "insert_payment"} => PaymentsOf(r.oid)' = {}
  BY <1>1, <1>2, <1>3, <1>5 DEF Undisturbed, OrderLabels, RequestInv
<1>12. r.pc = "ledger" => /\ Approved(r.oid)'
                          /\ \A i \in DOMAIN r.todo : Credited(r.oid, r.todo[i].user)' = 0
  <2>1. \A i \in DOMAIN r.todo : r.todo[i].user \in Users
    <3>1. \A i \in DOMAIN r.todo : r.todo[i] \in LedgerEntry
      BY DEF Request
    <3> QED
      BY <3>1 DEF LedgerEntry, Users
  <2> QED
    BY <1>1, <1>2, <1>3, <2>1 DEF Undisturbed
<1> QED
  BY <1>7, <1>8, <1>9, <1>10, <1>11, <1>12 DEF Undisturbed, DeliverySaves

LEMMA GotoHolds ==
  ASSUME Inv, NEW s \in Slots, NEW r, Goto(s, r)
  PROVE  req'[s] = r /\ \A t \in Slots \ {s} : req'[t] = req[t]
  BY DEF Goto, Inv, TypeOK, RequestsTypeOK

\* Undisturbed does not speak of the orders, nor of the other slots.
LEMMA UndisturbedNext ==
  ASSUME Inv, NEW s \in Slots, NEW r, Goto(s, r), Undisturbed(r),
         UNCHANGED <<payments, ledger, deliveries>>
  PROVE  Undisturbed(req[s])'
<1>1. req'[s] = r
  BY GotoHolds
<1>2. \A o : /\ DeliveriesOf(o)' = DeliveriesOf(o) /\ PaymentsOf(o)' = PaymentsOf(o)
             /\ \A user : Credited(o, user)' = Credited(o, user)
  BY DEF DeliveriesOf, PaymentsOf, Credited
<1>3. \A o : /\ Approved(o)' = Approved(o) /\ Unbooked(o)' = Unbooked(o)
             /\ \A st : Follows(o, st)' = Follows(o, st)
  BY <1>2 DEF Approved, Unbooked, Follows, Reached
<1> QED
  BY <1>1, <1>2, <1>3 DEF Undisturbed

\* The step of one slot keeps the invariant if it touches no other order.
LEMMA IsolatedStep ==
  ASSUME IsolatedInv, Inv', Isolated', NEW s \in Slots, NEW r, Goto(s, r),
         Undisturbed(req[s])',
         \A o \in OrderIds : o # Subject(s) => Untouched(o),
         \A o \in OrderIds : OrderInv(o)'
  PROVE  IsolatedInv'
<1> SUFFICES ASSUME NEW t \in Slots, t # s PROVE Undisturbed(req[t])'
  BY DEF IsolatedInv
<1>1. req'[t] = req[t] /\ req[t] \in Request /\ RequestInv(req[t]) /\ Undisturbed(req[t])
  BY GotoHolds DEF IsolatedInv, Inv, TypeOK, RequestsTypeOK
<1>2. Subject(t) # None => Subject(t) # Subject(s)
  BY DEF IsolatedInv, Isolated
<1>3. Subject(t) # None => Subject(t) \in OrderIds
  BY <1>1, SubjectIsHeld DEF SubjectOf, Request, Maybe, Delivery, Payment
<1> QED
  BY <1>1, <1>2, <1>3, SubjectIsHeld, UndisturbedIsKept

IsolatedGood == IsolatedInv' /\ Forward

\* Steps that write no document of an order.
LEMMA IsolatedRead ==
  ASSUME IsolatedInv, Inv', Isolated', NEW s \in Slots, NEW r, Goto(s, r),
         Undisturbed(r), UNCHANGED <<orders, payments, ledger, deliveries>>
  PROVE  IsolatedGood
<1>1. \A o \in OrderIds : Untouched(o)
  BY DEF Untouched, Credited
<1>2. \A o \in OrderIds : OrderInv(o)'
  BY <1>1, UntouchedOrder DEF IsolatedInv
<1>3. Undisturbed(req[s])'
  BY UndisturbedNext DEF IsolatedInv
<1> QED
  BY <1>1, <1>2, <1>3, IsolatedStep DEF IsolatedGood, Forward

\* Steps that save one order, whose status its delivery has reached.
LEMMA IsolatedOrderWrite ==
  ASSUME IsolatedInv, Inv', Isolated', NEW s \in Slots, NEW r, Goto(s, r),
         Undisturbed(r), NEW x \in OrderIds, NEW doc \in Order,
         orders' = SaveInto(orders, x, doc), Follows(x, doc.status),
         UNCHANGED <<payments, ledger, deliveries>>
  PROVE  IsolatedGood
<1>1. \A o \in OrderIds : Untouched(o)
  BY DEF Untouched, Credited
<1>2. ASSUME NEW o \in OrderIds PROVE OrderInv(o)'
  <2>1. CASE o # x
    <3>1. orders'[o] = orders[o]
      BY <2>1 DEF SaveInto, IsolatedInv, Inv, TypeOK, OrdersTypeOK
    <3> QED
      BY <1>1, <3>1, UntouchedOrder DEF IsolatedInv
  <2>2. CASE o = x
    <3>1. orders'[o] = doc
      BY <2>2 DEF SaveInto, IsolatedInv, Inv, TypeOK, OrdersTypeOK
    <3>2. /\ DeliveriesOf(o)' = DeliveriesOf(o)
          /\ PaymentsOf(o)' = PaymentsOf(o)
          /\ Unbooked(o) => Unbooked(o)'
          /\ Approved(o) => Approved(o)'
          /\ Follows(o, doc.status)'
      BY <1>1, <2>2, UntouchedSets
    <3>3. \A user \in Users : Credited(o, user)' <= 1
      BY <1>1 DEF IsolatedInv, OrderInv, Untouched
    <3> QED
      BY <3>1, <3>2, <3>3 DEF IsolatedInv, OrderInv
  <2> QED
    BY <2>1, <2>2
<1>3. Undisturbed(req[s])'
  BY UndisturbedNext DEF IsolatedInv
<1> QED
  BY <1>1, <1>2, <1>3, IsolatedStep DEF IsolatedGood, Forward

\* Steps that save the delivery of the subject, as read or one status further.
LEMMA IsolatedDeliverySave ==
  ASSUME IsolatedInv, Inv', Isolated', NEW s \in Slots, NEW r, Goto(s, r),
         HoldsDelivery(req[s]), req[s].oid = None,
         deliveries' = SaveInto(deliveries, req[s].did, req[s].delivery),
         \/ req[s].delivery.status = deliveries[req[s].did].status
         \/ /\ deliveries[req[s].did].status \in DOMAIN DeliveryAdvance
            /\ req[s].delivery.status = DeliveryAdvance[deliveries[req[s].did].status],
         Undisturbed(req[s])',
         UNCHANGED <<orders, payments, ledger>>
  PROVE  IsolatedGood
<1> DEFINE did == req[s].did
           doc == req[s].delivery
<1>1. /\ did \in DeliveryIds /\ doc \in Delivery /\ deliveries[did] # None /\ doc # None
      /\ doc.order = deliveries[did].order /\ doc.order \in OrderIds
  BY DocumentAssumption DEF HoldsDelivery, Delivery
<1>2. Subject(s) = doc.order
  BY <1>1 DEF Subject
<1>3. \A d \in DeliveryIds : deliveries'[d] = IF d = did THEN doc ELSE deliveries[d]
  BY DEF SaveInto, IsolatedInv, Inv, TypeOK, DeliveriesTypeOK
<1>4. deliveries[did] \in Delivery
  BY <1>1 DEF IsolatedInv, Inv, TypeOK, DeliveriesTypeOK, Maybe
<1> HIDE DEF did, doc
<1>5. \A o \in OrderIds : o # Subject(s) => Untouched(o)
  BY <1>1, <1>2, <1>3 DEF Untouched, Credited
<1>6. Forward
  BY <1>3 DEF Forward, did, doc
<1>7. \A d \in DeliveryIds, st \in OnItsWay :
        deliveries[d] # None /\ Reached(d, st) => Reached(d, st)'
  <2> SUFFICES ASSUME NEW d \in DeliveryIds, NEW st \in OnItsWay, deliveries[d] # None,
                      Reached(d, st), d = did
               PROVE  Reached(d, st)'
    BY <1>3 DEF Reached
  <2>1. deliveries'[d] = doc
    BY <1>3
  <2>2. \/ doc.status = deliveries[d].status
        \/ /\ deliveries[d].status \in DeliveryStatus \ {"delivered"}
           /\ doc.status = DeliveryAdvance[deliveries[d].status]
    BY DEF did, doc, DeliveryAdvance
  <2>3. CASE doc.status = deliveries[d].status
    BY <2>1, <2>3 DEF Reached
  <2>4. CASE deliveries[d].status = "picked_up" /\ doc.status = "en_route_dropoff"
    BY <2>1, <2>4 DEF Reached, OnItsWay
  <2>5. CASE deliveries[d].status = "en_route_dropoff" /\ doc.status = "delivered"
    BY <2>1, <2>5 DEF Reached, OnItsWay
  <2>6. CASE deliveries[d].status \in {"assigned", "en_route_pickup"}
    BY <2>1, <2>6 DEF Reached, OnItsWay
  <2> QED
    BY <2>2, <2>3, <2>4, <2>5, <2>6 DEF DeliveryAdvance, DeliveryStatus
<1>8. ASSUME NEW o \in OrderIds PROVE OrderInv(o)'
  <2>1. DeliveriesOf(o)' = DeliveriesOf(o) /\ PaymentsOf(o)' = PaymentsOf(o)
    BY <1>1, <1>3 DEF DeliveriesOf, PaymentsOf
  <2>2. \A st : Follows(o, st) => Follows(o, st)'
    BY <1>7, <2>1 DEF Follows, DeliveriesOf
  <2>3. /\ Unbooked(o) => Unbooked(o)'
        /\ Approved(o) => Approved(o)'
        /\ \A user \in Users : Credited(o, user)' = Credited(o, user)
    BY <2>1 DEF Unbooked, Approved, Credited
  <2> QED
    BY <2>1, <2>2, <2>3 DEF IsolatedInv, OrderInv, Placed
<1> QED
  BY <1>5, <1>6, <1>8, IsolatedStep DEF IsolatedGood

\* Steps that save or insert a payment of the subject: there is none, or it is
\* this one, and nothing is booked yet or the payment is approved.
LEMMA IsolatedPaymentWrite ==
  ASSUME IsolatedInv, Inv', Isolated', NEW s \in Slots, NEW r, Goto(s, r),
         NEW x \in PaymentIds, NEW doc \in Payment,
         payments' = SaveInto(payments, x, doc),
         Subject(s) = doc.order, Unbooked(doc.order),
         PaymentsOf(doc.order) \subseteq {x},
         payments[x] # None => payments[x].order = doc.order,
         Undisturbed(req[s])',
         UNCHANGED <<orders, deliveries, ledger>>
  PROVE  IsolatedGood
<1>1. \A p \in PaymentIds : payments'[p] = IF p = x THEN doc ELSE payments[p]
  BY DEF SaveInto, IsolatedInv, Inv, TypeOK, PaymentsTypeOK
<1>2. doc # None
  BY DocumentAssumption
<1>3. \A o \in OrderIds : o # Subject(s) => Untouched(o)
  BY <1>1, <1>2 DEF Untouched, Credited
<1>4. ASSUME NEW o \in OrderIds PROVE OrderInv(o)'
  <2>1. CASE o # doc.order
    BY <1>3, <2>1, UntouchedOrder DEF IsolatedInv
  <2>2. CASE o = doc.order
    <3>1. PaymentsOf(o)' = {x}
      BY <1>1, <1>2, <2>2 DEF PaymentsOf
    <3>2. /\ DeliveriesOf(o)' = DeliveriesOf(o)
          /\ \A st : Follows(o, st) => Follows(o, st)'
          /\ Unbooked(o)'
          /\ \A user \in Users : Credited(o, user)' = Credited(o, user)
      BY <2>2 DEF DeliveriesOf, Follows, Reached, Unbooked, Credited
    <3> QED
      BY <3>1, <3>2 DEF IsolatedInv, OrderInv, Placed
  <2> QED
    BY <2>1, <2>2
<1> QED
  BY <1>3, <1>4, IsolatedStep DEF IsolatedGood, Forward


\* An order that was not there is inserted: nothing refers to it yet.
LEMMA InsertOrderIsolated ==
  ASSUME IsolatedInv, Inv', Isolated', NEW s \in Slots, InsertOrder(s), UNCHANGED RestOfOrders
  PROVE  IsolatedGood
<1>1. PICK o \in OrderIds : orders[o] = None /\ orders' = SaveInto(orders, o, req[s].order)
  BY DEF InsertOrder
<1>2. req[s].order \in Order /\ req[s].order.status = "pending"
  BY DEF IsolatedInv, Inv, RequestInv, InsertOrder, At
<1>3. Follows(o, req[s].order.status)
  BY <1>2 DEF Follows, OnItsWay
<1> QED
  BY <1>1, <1>2, <1>3, IdleIsUndisturbed, IsolatedOrderWrite
  DEF InsertOrder, Finish, RestOfOrders

LEMMA FinishIsolated ==
  ASSUME IsolatedInv, Inv', Isolated', NEW s \in Slots, Finish(s),
         UNCHANGED <<orders, payments, ledger, deliveries>>
  PROVE  IsolatedGood
BY IdleIsUndisturbed, IsolatedRead DEF Finish

\* Labels whose request says nothing about the documents of an order.
LEMMA PlainRequest ==
  ASSUME NEW r,
         r.pc \notin DeliverySaves \cup OrderSaves
           \cup {"save_payment", "load_paid", "pick", "insert_delivery",
                 "insert_intent", "ledger"}
  PROVE  Undisturbed(r)
BY DEF Undisturbed, DeliverySaves, OrderSaves

LEMMA OrdersBeginIsolated ==
  ASSUME IsolatedInv, Inv', Isolated', NEW s \in Slots, OrdersBegin(s), UNCHANGED RestOfOrders
  PROVE  IsolatedGood
<1> USE DEF RestOfOrders
<1>1. ASSUME NEW cart \in Carts, NEW method \in Methods, NEW fee \in FeeChoices,
             CreateOrder(s, cart, method, fee)
      PROVE  IsolatedGood
  <2> DEFINE r == [Idle EXCEPT !.pc = "create", !.lines = cart,
                !.order = [status |-> "pending", items |-> cart, method |-> method,
                           fee |-> fee, collaborator |-> None, payment |-> None]]
  <2>1. r.pc = "create"
    BY DEF Idle
  <2>2. Undisturbed(r)
    BY <2>1, PlainRequest DEF DeliverySaves, OrderSaves
  <2> HIDE DEF r
  <2> QED
    BY <1>1, <2>2, IsolatedRead DEF CreateOrder, r
<1>2. ASSUME NEW o \in OrderIds, NEW doc, doc.status \notin OnItsWay,
             Goto(s, [Idle EXCEPT !.pc = "save_order", !.oid = o, !.order = doc]),
             UNCHANGED <<orders, products>>
      PROVE  IsolatedGood
  <2> DEFINE r == [Idle EXCEPT !.pc = "save_order", !.oid = o, !.order = doc]
  <2>1. r.pc = "save_order" /\ r.order = doc
    BY DEF Idle
  <2>2. Undisturbed(r)
    BY <1>2, <2>1 DEF Undisturbed, DeliverySaves, OrderSaves, Follows
  <2> HIDE DEF r
  <2> QED
    BY <1>2, <2>2, IsolatedRead DEF r
<1>3. ASSUME NEW o \in OrderIds, AcceptOrder(s, o) PROVE IsolatedGood
  <2>1. RecordStatus(orders[o], "accepted").status = "accepted"
    BY <1>3 DEF AcceptOrder, RecordStatus, IsolatedInv, Inv, TypeOK, OrdersTypeOK, Maybe, Order
  <2> QED
    BY <1>2, <1>3, <2>1 DEF AcceptOrder, OnItsWay
<1>4. ASSUME NEW o \in OrderIds, AdvanceOrder(s, o) PROVE IsolatedGood
  <2>1. RecordStatus(orders[o], SellerAdvance[orders[o].status]).status \in {"preparing", "ready"}
    BY <1>4 DEF AdvanceOrder, SellerAdvance, RecordStatus, IsolatedInv, Inv, TypeOK,
                OrdersTypeOK, Maybe, Order
  <2> QED
    BY <1>2, <1>4, <2>1 DEF AdvanceOrder, OnItsWay
<1>5. ASSUME NEW o \in OrderIds, CancelOrder(s, o) PROVE IsolatedGood
  <2> DEFINE r == [Idle EXCEPT !.pc = "cancel", !.oid = o, !.order = orders[o],
                               !.lines = orders[o].items]
  <2>1. r.pc = "cancel"
    BY DEF Idle
  <2>2. Undisturbed(r)
    BY <2>1, PlainRequest DEF DeliverySaves, OrderSaves
  <2> HIDE DEF r
  <2> QED
    BY <1>5, <2>2, IsolatedRead DEF CancelOrder, r
<1>6. ASSUME NEW p \in ProductIds, EditProduct(s, p) PROVE IsolatedGood
  <2>1. ASSUME NEW goods PROVE Undisturbed([Idle EXCEPT !.pc = "save_product", !.product = p,
                                                        !.goods = goods])
    <3> DEFINE r == [Idle EXCEPT !.pc = "save_product", !.product = p, !.goods = goods]
    <3>1. r.pc = "save_product"
      BY DEF Idle
    <3> QED
      BY <3>1, PlainRequest DEF DeliverySaves, OrderSaves
  <2>2. PICK goods : Goto(s, [Idle EXCEPT !.pc = "save_product", !.product = p, !.goods = goods])
    BY <1>6 DEF EditProduct
  <2> QED
    BY <1>6, <2>1, <2>2, IsolatedRead DEF EditProduct
<1>7. ASSUME NEW p \in ProductIds, DeleteProduct(s, p) PROVE IsolatedGood
  <2>1. Goto(s, req[s])
    BY <1>7 DEF DeleteProduct, Goto, IsolatedInv, Inv, TypeOK, RequestsTypeOK
  <2> QED
    BY <1>7, <2>1, IsolatedRead DEF DeleteProduct, IsolatedInv
<1> QED
  BY <1>1, <1>3, <1>4, <1>5, <1>6, <1>7 DEF OrdersBegin

\* A request that goes on to a label where it claims nothing.
LEMMA PlainStep ==
  ASSUME IsolatedInv, Inv', Isolated', NEW s \in Slots, NEW r, Goto(s, r),
         r.pc \notin DeliverySaves \cup OrderSaves
           \cup {"save_payment", "load_paid", "pick", "insert_delivery",
                 "insert_intent", "ledger"},
         UNCHANGED <<orders, payments, ledger, deliveries>>
  PROVE  IsolatedGood
BY PlainRequest, IsolatedRead

LEMMA HeldOrderWrite ==
  ASSUME IsolatedInv, Inv', Isolated', NEW s \in Slots, NEW r, Goto(s, r), Undisturbed(r),
         req[s].pc \in OrderSaves, orders' = SaveInto(orders, req[s].oid, req[s].order),
         UNCHANGED <<payments, ledger, deliveries>>
  PROVE  IsolatedGood
<1>1. HoldsOrder(req[s]) /\ Follows(req[s].oid, req[s].order.status)
  BY DEF IsolatedInv, Inv, RequestInv, Undisturbed, OrderSaves, OrderLabels
<1> QED
  BY <1>1, IsolatedOrderWrite DEF HoldsOrder

LEMMA OrdersStepIsolated ==
  ASSUME IsolatedInv, Inv', Isolated', NEW s \in Slots, OrdersStep(s), UNCHANGED RestOfOrders
  PROVE  IsolatedGood
<1> USE DEF RestOfOrders
<1>0. req[s] \in Request
  BY DEF IsolatedInv, Inv, TypeOK, RequestsTypeOK
<1>1. CASE ReadLine(s)
  <2>1. PICK lines, taken : \/ Finish(s)
                            \/ Goto(s, [req[s] EXCEPT !.lines = lines, !.taken = taken])
    BY <1>1 DEF ReadLine
  <2>2. [req[s] EXCEPT !.lines = lines, !.taken = taken].pc = "create"
    BY <1>0, <1>1 DEF ReadLine, At, Request
  <2> QED
    BY <1>1, <2>1, <2>2, FinishIsolated, PlainStep DEF ReadLine, DeliverySaves, OrderSaves
<1>2. CASE TakeStock(s)
  <2>1. [req[s] EXCEPT !.taken = Tail(@)].pc = "create"
    BY <1>0, <1>2 DEF TakeStock, At, Request
  <2> QED
    BY <1>2, <2>1, PlainStep DEF TakeStock, DeliverySaves, OrderSaves
<1>3. CASE InsertOrder(s)
  BY <1>3, InsertOrderIsolated
<1>4. CASE SaveOrder(s)
  BY <1>4, HeldOrderWrite, IdleIsUndisturbed DEF SaveOrder, Finish, At, OrderSaves
<1>5. CASE ReadStock(s)
  <2>1. PICK pc \in {"restock", "cancel"} : \E goods, lines :
          Goto(s, [req[s] EXCEPT !.pc = pc, !.goods = goods, !.lines = lines])
    <3> DEFINE goods == products[Head(req[s].lines).product]
    <3>1. CASE goods # None /\ goods.stock # None
      <4>1. [req[s] EXCEPT !.pc = "restock", !.goods = goods]
              = [req[s] EXCEPT !.pc = "restock", !.goods = goods, !.lines = req[s].lines]
        BY <1>0 DEF Request
      <4> QED
        BY <1>5, <3>1, <4>1 DEF ReadStock
    <3>2. CASE ~(goods # None /\ goods.stock # None)
      <4>1. [req[s] EXCEPT !.lines = Tail(@)]
              = [req[s] EXCEPT !.pc = "cancel", !.goods = req[s].goods, !.lines = Tail(req[s].lines)]
        BY <1>0, <1>5 DEF Request, ReadStock, At
      <4> QED
        BY <1>5, <3>2, <4>1 DEF ReadStock
    <3> QED
      BY <3>1, <3>2
  <2>2. \A goods, lines :
          [req[s] EXCEPT !.pc = pc, !.goods = goods, !.lines = lines].pc \in {"restock", "cancel"}
    BY <1>0 DEF Request
  <2> QED
    BY <1>5, <2>1, <2>2, PlainStep, ZenonT(30) DEF ReadStock, DeliverySaves, OrderSaves
<1>6. CASE RestoreStock(s)
  <2>1. [req[s] EXCEPT !.pc = "cancel", !.goods = None, !.lines = Tail(@)].pc = "cancel"
    BY <1>0 DEF Request
  <2> QED
    BY <1>6, <2>1, PlainStep DEF RestoreStock, DeliverySaves, OrderSaves
<1>7. CASE SaveCancelled(s)
  <2>1. HoldsOrder(req[s])
    BY <1>7 DEF IsolatedInv, Inv, RequestInv, SaveCancelled, At, OrderLabels
  <2>2. /\ RecordStatus(req[s].order, "cancelled") \in Order
        /\ RecordStatus(req[s].order, "cancelled").status = "cancelled"
    BY <2>1 DEF HoldsOrder, RecordStatus, Order, OrderStatus
  <2>3. Follows(req[s].oid, RecordStatus(req[s].order, "cancelled").status)
    BY <2>2 DEF Follows, OnItsWay
  <2> QED
    BY <1>7, <2>1, <2>2, <2>3, IsolatedOrderWrite, IdleIsUndisturbed
    DEF SaveCancelled, Finish, HoldsOrder
<1>8. CASE SaveProduct(s)
  BY <1>8, FinishIsolated, SMTT(30) DEF SaveProduct
<1> QED
  BY <1>1, <1>2, <1>3, <1>4, <1>5, <1>6, <1>7, <1>8 DEF OrdersStep

LEMMA CollaboratorsIsolated ==
  ASSUME IsolatedInv, Inv', Isolated', NEW s \in Slots,
         CollaboratorsBegin(s) \/ CollaboratorsStep(s),
         UNCHANGED <<orders, products, payments, ledger, deliveries>>
  PROVE  IsolatedGood
<1>1. ASSUME NEW c, BecomeCollaborator(s, c) PROVE IsolatedGood
  <2>1. Goto(s, req[s])
    BY <1>1 DEF BecomeCollaborator, Goto, IsolatedInv, Inv, TypeOK, RequestsTypeOK
  <2> QED
    BY <2>1, IsolatedRead DEF IsolatedInv
<1>2. ASSUME NEW c, NEW doc, Goto(s, [Idle EXCEPT !.pc = "save_profile", !.cid = c, !.profile = doc])
      PROVE  IsolatedGood
  <2>1. [Idle EXCEPT !.pc = "save_profile", !.cid = c, !.profile = doc].pc = "save_profile"
    BY DEF Idle
  <2> QED
    BY <1>2, <2>1, PlainStep DEF DeliverySaves, OrderSaves
<1>3. CASE SaveProfile(s)
  BY <1>3, FinishIsolated DEF SaveProfile
<1> QED
  BY <1>1, <1>2, <1>3, Zenon DEF CollaboratorsBegin, CollaboratorsStep, SetAvailability, Verify

LEMMA PaymentsBeginIsolated ==
  ASSUME IsolatedInv, Inv', Isolated', NEW s \in Slots, PaymentsBegin(s), UNCHANGED RestOfPayments
  PROVE  IsolatedGood
<1> USE DEF RestOfPayments
<1>1. ASSUME NEW o \in OrderIds, CreateIntent(s, o) PROVE IsolatedGood
  <2>1. [Idle EXCEPT !.pc = "check_intent", !.oid = o].pc = "check_intent"
    BY DEF Idle
  <2> QED
    BY <1>1, <2>1, PlainStep DEF CreateIntent, DeliverySaves, OrderSaves
<1>2. ASSUME NEW p \in PaymentIds, NEW outcome \in {"approved", "declined"},
             Webhook(s, p, outcome)
      PROVE  IsolatedGood
  <2> DEFINE doc == [payments[p] EXCEPT !.status = outcome]
             r   == [Idle EXCEPT !.pc = "save_payment", !.pid = p, !.payment = doc]
             o   == payments[p].order
  <2>1. payments[p] \in Payment /\ payments[p] # None /\ payments[p].status # "approved"
    BY <1>2 DEF Webhook, IsOpen, IsolatedInv, Inv, TypeOK, PaymentsTypeOK, Maybe
  <2>2. o \in OrderIds /\ doc.order = o /\ p \in PaymentsOf(o)
    BY <2>1 DEF Payment, PaymentsOf
  <2>3. Unbooked(o)
    BY <2>1, <2>2 DEF IsolatedInv, OrderInv, Approved
  <2>4. r.pc = "save_payment" /\ r.oid = None /\ r.delivery = None /\ r.payment = doc
    BY DEF Idle
  <2> HIDE DEF doc, o, r
  <2>5. Undisturbed(r)
    BY <2>2, <2>3, <2>4 DEF Undisturbed, DeliverySaves, OrderSaves
  <2> QED
    BY <1>2, <2>5, IsolatedRead DEF Webhook, doc, r
<1> QED
  BY <1>1, <1>2 DEF PaymentsBegin

LEMMA DeliveriesBeginIsolated ==
  ASSUME IsolatedInv, Inv', Isolated', NEW s \in Slots, DeliveriesBegin(s),
         UNCHANGED RestOfDeliveries
  PROVE  IsolatedGood
<1> USE DEF RestOfDeliveries
<1>1. ASSUME NEW o \in OrderIds, AssignOrder(s, o) PROVE IsolatedGood
  <2>1. [Idle EXCEPT !.pc = "check_assigned", !.oid = o, !.order = orders[o]].pc = "check_assigned"
    BY DEF Idle
  <2> QED
    BY <1>1, <2>1, PlainStep DEF AssignOrder, DeliverySaves, OrderSaves
<1>2. ASSUME NEW d \in DeliveryIds, NEW doc, NEW pc \in {"save_location", "save_proof"},
             doc.status = deliveries[d].status,
             Goto(s, [Idle EXCEPT !.pc = pc, !.did = d, !.delivery = doc]),
             UNCHANGED <<orders, deliveries>>
      PROVE  IsolatedGood
  <2> DEFINE r == [Idle EXCEPT !.pc = pc, !.did = d, !.delivery = doc]
  <2>1. r.pc = pc /\ r.did = d /\ r.delivery = doc /\ r.oid = None
    BY DEF Idle
  <2> HIDE DEF r
  <2>2. Undisturbed(r)
    BY <1>2, <2>1 DEF Undisturbed, DeliverySaves, OrderSaves
  <2> QED
    BY <1>2, <2>2, IsolatedRead DEF r
<1>3. ASSUME NEW d \in DeliveryIds, AdvanceDelivery(s, d) PROVE IsolatedGood
  <2> DEFINE doc == [deliveries[d] EXCEPT !.status = DeliveryAdvance[@]]
             r   == [Idle EXCEPT !.pc = "save_delivery", !.did = d, !.delivery = doc]
  <2>1. deliveries[d] \in Delivery
    BY <1>3 DEF AdvanceDelivery, IsolatedInv, Inv, TypeOK, DeliveriesTypeOK, Maybe
  <2>2. doc.status = DeliveryAdvance[deliveries[d].status]
    BY <2>1 DEF Delivery
  <2>3. r.pc = "save_delivery" /\ r.did = d /\ r.delivery = doc /\ r.oid = None
    BY DEF Idle
  <2> HIDE DEF doc, r
  <2>4. Undisturbed(r)
    BY <1>3, <2>2, <2>3, SMTT(30) DEF Undisturbed, DeliverySaves, OrderSaves, AdvanceDelivery
  <2> QED
    BY <1>3, <2>4, IsolatedRead DEF AdvanceDelivery, doc, r
<1>4. ASSUME NEW d \in DeliveryIds, UpdateLocation(s, d) PROVE IsolatedGood
  BY <1>2, <1>4 DEF UpdateLocation
<1>5. ASSUME NEW d \in DeliveryIds, UploadProof(s, d) PROVE IsolatedGood
  <2>1. [deliveries[d] EXCEPT !.proof = TRUE].status = deliveries[d].status
    BY <1>5 DEF UploadProof, IsolatedInv, Inv, TypeOK, DeliveriesTypeOK, Maybe, Delivery
  <2> QED
    BY <1>2, <1>5, <2>1 DEF UploadProof
<1> QED
  BY <1>1, <1>3, <1>4, <1>5 DEF DeliveriesBegin

\* A ledger entry of the subject's that nobody was credited for is written.
LEMMA IsolatedLedgerWrite ==
  ASSUME IsolatedInv, Inv', Isolated', NEW s \in Slots, NEW r, Goto(s, r),
         NEW e \in LedgerEntry, ledger' = [ledger EXCEPT ![e] = @ + 1],
         Subject(s) = e.order, Credited(e.order, e.user) = 0, Approved(e.order),
         Undisturbed(req[s])',
         UNCHANGED <<orders, payments, deliveries>>
  PROVE  IsolatedGood
<1>1. ledger \in [LedgerEntry -> Nat]
  BY DEF IsolatedInv, Inv, TypeOK, PaymentsTypeOK
<1>2. ASSUME NEW o \in OrderIds, NEW user \in Users
      PROVE  Credited(o, user)' = IF o = e.order /\ user = e.user THEN 1 ELSE Credited(o, user)
  <2> DEFINE paid == [order |-> o, user |-> user, settled |-> TRUE]
             owed == [order |-> o, user |-> user, settled |-> FALSE]
  <2>1. paid \in LedgerEntry /\ owed \in LedgerEntry /\ paid # owed
    BY DEF LedgerEntry, Users
  <2>2. e = [order |-> e.order, user |-> e.user, settled |-> e.settled] /\ e.settled \in BOOLEAN
    BY DEF LedgerEntry
  <2>3. CASE o = e.order /\ user = e.user
    <3>1. ledger[paid] + ledger[owed] = 0
      BY <2>3 DEF Credited
    <3>2. e = paid \/ e = owed
      BY <2>2, <2>3
    <3> HIDE DEF paid, owed
    <3>3. ledger'[paid] + ledger'[owed] = 1
      <4>1. ledger[paid] = 0 /\ ledger[owed] = 0
        BY <1>1, <2>1, <3>1
      <4>2. CASE e = paid
        BY <1>1, <2>1, <4>1, <4>2
      <4>3. CASE e = owed
        BY <1>1, <2>1, <4>1, <4>3
      <4> QED
        BY <3>2, <4>2, <4>3
    <3> QED
      BY <2>3, <3>3 DEF Credited, paid, owed
  <2>4. CASE ~(o = e.order /\ user = e.user)
    <3>1. e # paid /\ e # owed
      BY <2>4
    <3> HIDE DEF paid, owed
    <3>2. ledger'[paid] = ledger[paid] /\ ledger'[owed] = ledger[owed]
      BY <1>1, <2>1, <3>1
    <3> QED
      BY <2>4, <3>2 DEF Credited, paid, owed
  <2> QED
    BY <2>3, <2>4
<1>3. \A o \in OrderIds : o # Subject(s) => Untouched(o)
  BY <1>2 DEF Untouched
<1>4. ASSUME NEW o \in OrderIds PROVE OrderInv(o)'
  <2>1. CASE o # e.order
    BY <1>3, <2>1, UntouchedOrder DEF IsolatedInv
  <2>2. CASE o = e.order
    <3>1. /\ DeliveriesOf(o)' = DeliveriesOf(o)
          /\ PaymentsOf(o)' = PaymentsOf(o)
          /\ \A st : Follows(o, st) => Follows(o, st)'
          /\ Approved(o)'
      BY <2>2 DEF DeliveriesOf, PaymentsOf, Follows, Reached, Approved
    <3>2. \A user \in Users : Credited(o, user)' <= 1
      BY <1>2 DEF IsolatedInv, OrderInv
    <3> QED
      BY <3>1, <3>2 DEF IsolatedInv, OrderInv, Placed
  <2> QED
    BY <2>1, <2>2
<1> QED
  BY <1>3, <1>4, IsolatedStep DEF IsolatedGood, Forward

LEMMA WriteEntryIsolated ==
  ASSUME IsolatedInv, Inv', Isolated', NEW s \in Slots, WriteEntry(s), UNCHANGED RestOfPayments
  PROVE  IsolatedGood
<1> DEFINE todo == req[s].todo
           rest == Tail(todo)
           e    == Head(todo)
           r    == [req[s] EXCEPT !.todo = rest]
<1>1. /\ req[s] \in Request /\ req[s].pc = "ledger" /\ todo \in Seq(LedgerEntry) /\ todo # << >>
      /\ Undisturbed(req[s])
  BY DEF IsolatedInv, Inv, TypeOK, RequestsTypeOK, Request, WriteEntry, At
<1>2. e = todo[1] /\ 1 \in DOMAIN todo /\ e \in LedgerEntry
  BY <1>1
<1>3. /\ req[s].oid \in OrderIds /\ Approved(req[s].oid)
      /\ \A i \in DOMAIN todo : todo[i].order = req[s].oid /\ Credited(req[s].oid, todo[i].user) = 0
      /\ \A i, j \in DOMAIN todo : todo[i].user = todo[j].user => i = j
  BY <1>1 DEF Undisturbed
<1>4. \A i \in DOMAIN rest : i + 1 \in DOMAIN todo /\ rest[i] = todo[i + 1] /\ i + 1 # 1
  BY <1>1
<1>5. \A i, j \in DOMAIN rest : i + 1 = j + 1 => i = j
  BY <1>1
<1>6. Subject(s) = e.order /\ e.order = req[s].oid
  BY <1>2, <1>3, NoneAssumption DEF Subject
<1>7. req'[s] = r
  BY GotoHolds DEF WriteEntry, IsolatedInv
<1>8. r.pc = "ledger" /\ r.oid = req[s].oid /\ r.todo = rest
  BY <1>1 DEF Request
<1>9. ledger' = [ledger EXCEPT ![e] = @ + 1] /\ UNCHANGED <<orders, payments, deliveries>>
  BY DEF WriteEntry, RestOfPayments
<1> HIDE DEF todo, rest, e, r
<1>10. PICK o \in OrderIds : o = req[s].oid
  BY <1>3
<1>11. \A i \in DOMAIN rest : /\ rest[i].order = o
                              /\ rest[i].user # e.user /\ rest[i].user \in Users
                              /\ Credited(o, rest[i].user) = 0
  <2>1. \A i \in DOMAIN todo : todo[i] \in LedgerEntry
    BY <1>1
  <2>2. \A i \in DOMAIN todo : todo[i].user \in Users
    BY <2>1 DEF LedgerEntry, Users
  <2> QED
    BY <1>2, <1>3, <1>4, <1>10, <2>2
<1>12. \A i, j \in DOMAIN rest : rest[i].user = rest[j].user => i = j
  BY <1>3, <1>4, <1>5
<1>13. ASSUME NEW user \in Users, user # e.user
       PROVE  Credited(o, user)' = Credited(o, user)
  <2> DEFINE line(paid) == [order |-> o, user |-> user, settled |-> paid]
  <2>1. line(TRUE) \in LedgerEntry /\ line(FALSE) \in LedgerEntry
    BY DEF LedgerEntry, Users
  <2>2. e # line(TRUE) /\ e # line(FALSE)
    BY <1>13
  <2> HIDE DEF line
  <2>3. ledger'[line(TRUE)] = ledger[line(TRUE)] /\ ledger'[line(FALSE)] = ledger[line(FALSE)]
    BY <1>9, <2>1, <2>2 DEF IsolatedInv, Inv, TypeOK, PaymentsTypeOK
  <2> QED
    BY <2>3 DEF Credited, line
<1>14. Approved(o)'
  BY <1>3, <1>9, <1>10 DEF Approved, PaymentsOf
<1>15. Undisturbed(req[s])'
  BY <1>3, <1>7, <1>8, <1>10, <1>11, <1>12, <1>13, <1>14 DEF Undisturbed, DeliverySaves, OrderSaves
<1> QED
  BY <1>2, <1>3, <1>6, <1>9, <1>15, IsolatedLedgerWrite DEF WriteEntry, r, rest, todo

\* An order without a payment has nothing booked.
LEMMA UnpaidIsUnbooked ==
  ASSUME IsolatedInv, NEW o \in OrderIds, PaymentsOf(o) = {}
  PROVE  Unbooked(o)
BY DEF IsolatedInv, OrderInv, Approved

LEMMA SaveIsIn ==
  ASSUME IsolatedInv, NEW p \in PaymentIds, NEW doc \in Payment,
         payments' = SaveInto(payments, p, doc), doc.status = "approved"
  PROVE  Approved(doc.order)'
<1>1. payments'[p] = doc /\ doc # None
  BY DocumentAssumption DEF SaveInto, IsolatedInv, Inv, TypeOK, PaymentsTypeOK
<1> QED
  BY <1>1 DEF Approved, PaymentsOf

LEMMA InsertIntentIsolated ==
  ASSUME IsolatedInv, Inv', Isolated', NEW s \in Slots, InsertIntent(s), UNCHANGED RestOfPayments
  PROVE  IsolatedGood
<1>1. req[s].oid \in OrderIds /\ PaymentsOf(req[s].oid) = {}
  BY DEF IsolatedInv, Inv, RequestInv, Undisturbed, InsertIntent, At
<1>2. Subject(s) = req[s].oid
  BY <1>1, NoneAssumption DEF Subject
<1>3. PICK p \in PaymentIds, doc \in Payment :
        payments[p] = None /\ payments' = SaveInto(payments, p, doc) /\ doc.order = req[s].oid
  <2> DEFINE new == [order |-> req[s].oid, method |-> "wompi", status |-> "pending"]
  <2>1. new \in Payment /\ new.order = req[s].oid
    BY <1>1 DEF Payment, Methods, PaymentStatus
  <2> QED
    BY <2>1 DEF InsertIntent
<1>4. req'[s] = Idle
  BY GotoHolds DEF InsertIntent, Finish, IsolatedInv
<1>5. Undisturbed(req[s])'
  BY <1>4 DEF Undisturbed, Idle, DeliverySaves, OrderSaves
<1>6. UNCHANGED <<orders, deliveries, ledger>> /\ Goto(s, Idle)
  BY DEF InsertIntent, RestOfPayments, Finish
<1> QED
  BY <1>1, <1>2, <1>3, <1>5, <1>6, UnpaidIsUnbooked, IsolatedPaymentWrite

LEMMA SavePaymentIsolated ==
  ASSUME IsolatedInv, Inv', Isolated', NEW s \in Slots, SavePayment(s), UNCHANGED RestOfPayments
  PROVE  IsolatedGood
<1> DEFINE p == req[s].pid
<1>1. PICK doc \in Payment : doc = req[s].payment
  BY DEF IsolatedInv, Inv, RequestInv, HoldsPayment, PaymentLabels, SavePayment, At
<1>2. /\ req[s] \in Request /\ req[s].pc = "save_payment"
      /\ p \in PaymentIds /\ payments[p] # None /\ payments[p].order = doc.order
      /\ req[s].oid = None /\ req[s].delivery = None /\ Unbooked(doc.order)
      /\ doc # None /\ doc.order \in OrderIds
  BY <1>1, DocumentAssumption
  DEF IsolatedInv, Inv, TypeOK, RequestsTypeOK, RequestInv, Undisturbed, SavePayment, At, Payment
<1>3. Subject(s) = doc.order
  BY <1>1, <1>2 DEF Subject
<1>4. PaymentsOf(doc.order) \subseteq {p}
  BY <1>2 DEF IsolatedInv, OrderInv, PaymentsOf
<1>5. payments' = SaveInto(payments, p, doc) /\ UNCHANGED <<orders, deliveries, ledger>>
  BY <1>1 DEF SavePayment, RestOfPayments
<1>6. Unbooked(doc.order)'
  BY <1>2, <1>5 DEF Unbooked, Credited
<1>7. doc.status = "approved" => Approved(doc.order)'
  BY <1>2, <1>5, SaveIsIn
<1>8. CASE doc.status # "approved"
  <2>1. Goto(s, Idle)
    BY <1>1, <1>8 DEF SavePayment, Finish
  <2>2. req'[s] = Idle
    BY <2>1, GotoHolds DEF IsolatedInv
  <2>3. Undisturbed(req[s])'
    BY <2>2 DEF Undisturbed, Idle, DeliverySaves, OrderSaves
  <2> QED
    BY <1>2, <1>3, <1>4, <1>5, <2>1, <2>3, IsolatedPaymentWrite
<1>9. CASE doc.status = "approved"
  <2> DEFINE r == [req[s] EXCEPT !.pc = "load_paid"]
  <2>1. Goto(s, r)
    BY <1>1, <1>9 DEF SavePayment
  <2>2. req'[s] = r
    BY <2>1, GotoHolds DEF IsolatedInv
  <2>3. r.pc = "load_paid" /\ r.oid = None /\ r.delivery = None /\ r.payment = doc
    BY <1>1, <1>2 DEF Request
  <2> HIDE DEF r
  <2>4. Undisturbed(req[s])'
    BY <1>6, <1>7, <1>9, <2>2, <2>3 DEF Undisturbed, DeliverySaves, OrderSaves
  <2> QED
    BY <1>2, <1>3, <1>4, <1>5, <2>1, <2>4, IsolatedPaymentWrite
<1> QED
  BY <1>8, <1>9

LEMMA LoadPaidOrderIsolated ==
  ASSUME IsolatedInv, Inv', Isolated', NEW s \in Slots, LoadPaidOrder(s), UNCHANGED RestOfPayments
  PROVE  IsolatedGood
<1> DEFINE o == req[s].payment.order
           doc == [orders[o] EXCEPT !.payment = req[s].pid]
           r == [req[s] EXCEPT !.pc = "save_paid", !.oid = o, !.order = doc]
<1>1. /\ req[s] \in Request /\ req[s].pc = "load_paid" /\ Undisturbed(req[s])
      /\ o \in OrderIds /\ orders[o] # None
  BY DEF IsolatedInv, Inv, TypeOK, RequestsTypeOK, RequestInv, HoldsPayment, PaymentLabels,
         LoadPaidOrder, At, Payment
<1>2. Unbooked(o) /\ Approved(o)
  BY <1>1 DEF Undisturbed
<1>3. orders[o] \in Order
  BY <1>1 DEF IsolatedInv, Inv, TypeOK, OrdersTypeOK, Maybe
<1>4. Follows(o, doc.status)
  BY <1>1, <1>3 DEF IsolatedInv, OrderInv, Placed, Order
<1>5. r.pc = "save_paid" /\ r.oid = o /\ r.order = doc
  BY <1>1 DEF Request
<1>6. Goto(s, r) /\ UNCHANGED <<orders, payments, ledger, deliveries>>
  BY DEF LoadPaidOrder, RestOfPayments
<1> HIDE DEF o, doc, r
<1>7. Undisturbed(r)
  BY <1>2, <1>4, <1>5 DEF Undisturbed, DeliverySaves, OrderSaves
<1> QED
  BY <1>6, <1>7, IsolatedRead

LEMMA InsertPaymentIsolated ==
  ASSUME IsolatedInv, Inv', Isolated', NEW s \in Slots, InsertPayment(s), UNCHANGED RestOfPayments
  PROVE  IsolatedGood
<1>1. /\ req[s] \in Request /\ Undisturbed(req[s]) /\ req[s].pc = "insert_payment"
      /\ HoldsOrder(req[s])
  BY DEF IsolatedInv, Inv, TypeOK, RequestsTypeOK, RequestInv, InsertPayment, At, OrderLabels
<1>2. PICK o \in OrderIds, st \in OrderStatus : o = req[s].oid /\ st = req[s].order.status
  BY <1>1 DEF HoldsOrder, Order
<1>3. PaymentsOf(o) = {} /\ Follows(o, st)
  BY <1>1, <1>2 DEF Undisturbed, OrderSaves
<1>4. Unbooked(o)
  BY <1>3, UnpaidIsUnbooked
<1>5. Subject(s) = o
  BY <1>2, NoneAssumption DEF Subject
<1>6. PICK p \in PaymentIds, doc \in Payment :
        /\ payments[p] = None /\ payments' = SaveInto(payments, p, doc)
        /\ doc.order = o /\ doc.status = "approved"
        /\ Goto(s, [req[s] EXCEPT !.pc = "save_paid", !.payment = doc,
                                  !.order = [@ EXCEPT !.payment = p]])
  <2> DEFINE new == [order |-> o, method |-> "cash", status |-> "approved"]
  <2>1. new \in Payment /\ new.order = o /\ new.status = "approved"
    BY DEF Payment, Methods, PaymentStatus
  <2> QED
    BY <1>2, <2>1 DEF InsertPayment
<1> DEFINE r == [req[s] EXCEPT !.pc = "save_paid", !.payment = doc,
                               !.order = [@ EXCEPT !.payment = p]]
<1>7. r.pc = "save_paid" /\ r.oid = o /\ r.order.status = st
  BY <1>1, <1>2 DEF Request, HoldsOrder, Order
<1>8. req'[s] = r
  BY <1>6, GotoHolds DEF IsolatedInv
<1>9. UNCHANGED <<orders, deliveries, ledger>>
  BY DEF InsertPayment, RestOfPayments
<1>10. Unbooked(o)' /\ Approved(o)' /\ Follows(o, st)'
  BY <1>3, <1>4, <1>6, <1>9, SaveIsIn DEF Unbooked, Credited, Follows, DeliveriesOf, Reached
<1> HIDE DEF r
<1>11. Undisturbed(req[s])'
  BY <1>7, <1>8, <1>10 DEF Undisturbed, DeliverySaves, OrderSaves
<1> QED
  BY <1>3, <1>4, <1>5, <1>6, <1>9, <1>11, IsolatedPaymentWrite DEF r

\* The entries of one settlement are about its order, each for someone else.
LEMMA LedgerLinesDiffer ==
  ASSUME NEW o \in OrderIds, NEW doc \in Order, NEW settled \in BOOLEAN
  PROVE  LET lines == LedgerLines(o, doc, settled)
         IN  /\ \A i \in DOMAIN lines : lines[i].order = o /\ lines[i].user \in Users
             /\ \A i, j \in DOMAIN lines : lines[i].user = lines[j].user => i = j
<1>1. doc.collaborator # None => doc.collaborator \in CourierIds
  BY DEF Order, Maybe
<1>2. doc.collaborator # None => doc.collaborator \notin {"platform", "seller"}
  BY <1>1, CourierAssumption
<1> DEFINE c == [order |-> o, user |-> doc.collaborator, settled |-> TRUE]
           p == [order |-> o, user |-> "platform", settled |-> settled]
           v == [order |-> o, user |-> "seller", settled |-> settled]
<1>3. /\ c.order = o /\ p.order = o /\ v.order = o
      /\ c.user = doc.collaborator /\ p.user = "platform" /\ v.user = "seller"
  OBVIOUS
<1>4. LedgerLines(o, doc, settled)
        = IF doc.collaborator # None /\ doc.fee THEN <<c, p, v>> ELSE <<p, v>>
  BY DEF LedgerLines
<1> HIDE DEF c, p, v
<1> QED
  BY <1>1, <1>2, <1>3, <1>4 DEF Users

LEMMA SavePaidOrderIsolated ==
  ASSUME IsolatedInv, Inv', Isolated', NEW s \in Slots, SavePaidOrder(s), UNCHANGED RestOfPayments
  PROVE  IsolatedGood
<1> DEFINE o == req[s].oid
           doc == req[s].order
           settled == req[s].payment.method = "wompi"
           lines == LedgerLines(o, doc, settled)
           r == [req[s] EXCEPT !.pc = "ledger", !.order = None, !.payment = None, !.todo = lines]
<1>1. /\ req[s] \in Request /\ Undisturbed(req[s]) /\ req[s].pc = "save_paid"
      /\ o \in OrderIds /\ doc \in Order
  BY DEF IsolatedInv, Inv, TypeOK, RequestsTypeOK, RequestInv, HoldsOrder, OrderLabels,
         SavePaidOrder, At
<1>2. Unbooked(o) /\ Approved(o)
  BY <1>1 DEF Undisturbed
<1>3. /\ \A i \in DOMAIN lines : lines[i].order = o /\ lines[i].user \in Users
      /\ \A i, j \in DOMAIN lines : lines[i].user = lines[j].user => i = j
  <2>1. settled \in BOOLEAN
    OBVIOUS
  <2> HIDE DEF o, doc, settled
  <2> QED
    BY <1>1, <2>1, LedgerLinesDiffer, Zenon
<1>4. r.pc = "ledger" /\ r.oid = o /\ r.todo = lines
  BY <1>1 DEF Request
<1>5. /\ Goto(s, r) /\ orders' = SaveInto(orders, req[s].oid, req[s].order)
      /\ UNCHANGED <<payments, ledger, deliveries>>
  BY DEF SavePaidOrder, RestOfPayments
<1> HIDE DEF o, doc, lines, r
<1>6. Undisturbed(r)
  BY <1>1, <1>2, <1>3, <1>4 DEF Undisturbed, Unbooked, DeliverySaves, OrderSaves
<1> QED
  BY <1>1, <1>5, <1>6, HeldOrderWrite DEF OrderSaves

LEMMA PaymentsStepIsolated ==
  ASSUME IsolatedInv, Inv', Isolated', NEW s \in Slots, PaymentsStep(s), UNCHANGED RestOfPayments
  PROVE  IsolatedGood
<1> USE DEF RestOfPayments
<1>0. req[s] \in Request /\ Undisturbed(req[s])
  BY DEF IsolatedInv, Inv, TypeOK, RequestsTypeOK
<1>1. CASE CheckIntent(s)
  <2> DEFINE r == [req[s] EXCEPT !.pc = "insert_intent"]
  <2>1. r.pc = "insert_intent" /\ r.oid = req[s].oid
    BY <1>0 DEF Request
  <2> HIDE DEF r
  <2>2. PaymentsOf(req[s].oid) = {} => Undisturbed(r)
    BY <2>1 DEF Undisturbed, DeliverySaves, OrderSaves
  <2> QED
    BY <1>1, <2>2, FinishIsolated, IsolatedRead DEF CheckIntent, r
<1>2. CASE CheckPayment(s)
  <2> DEFINE r == [req[s] EXCEPT !.pc = "insert_payment"]
             f == [req[s] EXCEPT !.pc = "free", !.order = None]
  <2>1. r.pc = "insert_payment" /\ r.oid = req[s].oid /\ r.order = req[s].order /\ f.pc = "free"
    BY <1>0 DEF Request
  <2>2. Follows(req[s].oid, req[s].order.status)
    BY <1>0, <1>2 DEF CheckPayment, At, Undisturbed, OrderSaves
  <2> HIDE DEF r, f
  <2>3. PaymentsOf(req[s].oid) = {} => Undisturbed(r)
    BY <2>1, <2>2 DEF Undisturbed, DeliverySaves, OrderSaves
  <2> QED
    BY <1>2, <2>1, <2>3, PlainStep, IsolatedRead DEF CheckPayment, DeliverySaves, OrderSaves, r, f
<1>3. CASE LedgerWritten(s)
  <2>1. [req[s] EXCEPT !.pc = "free"].pc = "free"
    BY <1>0 DEF Request
  <2> QED
    BY <1>3, <2>1, FinishIsolated, PlainStep DEF LedgerWritten, DeliverySaves, OrderSaves
<1> QED
  BY <1>1, <1>2, <1>3, InsertIntentIsolated, SavePaymentIsolated, LoadPaidOrderIsolated,
     InsertPaymentIsolated, SavePaidOrderIsolated, WriteEntryIsolated DEF PaymentsStep

LEMMA InsertDeliveryIsolated ==
  ASSUME IsolatedInv, Inv', Isolated', NEW s \in Slots, InsertDelivery(s),
         UNCHANGED RestOfDeliveries
  PROVE  IsolatedGood
<1>1. /\ req[s] \in Request /\ Undisturbed(req[s]) /\ req[s].pc = "insert_delivery"
      /\ HoldsOrder(req[s]) /\ req[s].cid \in CourierIds
  BY DEF IsolatedInv, Inv, TypeOK, RequestsTypeOK, RequestInv, InsertDelivery, At,
         OrderLabels, ProfileLabels, HoldsProfile
<1>2. PICK o \in OrderIds : o = req[s].oid
  BY <1>1 DEF HoldsOrder
<1>3. DeliveriesOf(o) = {}
  BY <1>1, <1>2 DEF Undisturbed
<1>4. Subject(s) = o
  BY <1>2, NoneAssumption DEF Subject
<1>5. PICK x \in DeliveryIds, doc \in Delivery :
        /\ deliveries[x] = None /\ deliveries' = SaveInto(deliveries, x, doc)
        /\ doc.order = o /\ doc # None
  <2> DEFINE new == [order |-> o, collaborator |-> req[s].cid,
                     status |-> "assigned", proof |-> FALSE]
  <2>1. new \in Delivery /\ new.order = o
    BY <1>1 DEF Delivery, DeliveryStatus
  <2> QED
    BY <1>2, <2>1, DocumentAssumption DEF InsertDelivery
<1>6. UNCHANGED <<orders, payments, ledger>>
  BY DEF InsertDelivery, RestOfDeliveries
<1>7. \A d \in DeliveryIds : deliveries'[d] = IF d = x THEN doc ELSE deliveries[d]
  BY <1>5 DEF SaveInto, IsolatedInv, Inv, TypeOK, DeliveriesTypeOK
<1>8. DeliveriesOf(o)' = {x}
  BY <1>3, <1>5, <1>7 DEF DeliveriesOf
<1>9. \A y \in OrderIds : y # Subject(s) => Untouched(y)
  BY <1>4, <1>5, <1>6, <1>7 DEF Untouched, Credited
<1>10. ASSUME NEW y \in OrderIds PROVE OrderInv(y)'
  <2>1. CASE y # o
    BY <1>4, <1>6, <1>9, <2>1, UntouchedOrder DEF IsolatedInv
  <2>2. CASE y = o
    <3>1. /\ PaymentsOf(y)' = PaymentsOf(y)
          /\ Unbooked(y) => Unbooked(y)'
          /\ Approved(y) => Approved(y)'
          /\ \A user \in Users : Credited(y, user)' = Credited(y, user)
      BY <1>6 DEF PaymentsOf, Unbooked, Approved, Credited
    <3>2. \A st : Follows(y, st) => Follows(y, st)'
      BY <1>3, <2>2 DEF Follows
    <3> QED
      BY <1>6, <1>8, <2>2, <3>1, <3>2 DEF IsolatedInv, OrderInv, Placed
  <2> QED
    BY <2>1, <2>2
<1> DEFINE r == [req[s] EXCEPT !.pc = "save_assigned",
                   !.order = RecordStatus([@ EXCEPT !.collaborator = req[s].cid], "assigned")]
<1>11. Goto(s, r)
  BY DEF InsertDelivery
<1>12. req'[s] = r
  BY <1>11, GotoHolds DEF IsolatedInv
<1>13. r.pc = "save_assigned" /\ r.oid = o /\ r.order.status = "assigned"
  BY <1>1, <1>2 DEF Request, RecordStatus, HoldsOrder, Order
<1>14. Follows(o, "assigned")'
  BY <1>8 DEF Follows, Reached
<1> HIDE DEF r
<1>15. Undisturbed(req[s])'
  BY <1>12, <1>13, <1>14 DEF Undisturbed, DeliverySaves, OrderSaves
<1>16. Forward
  BY <1>5, <1>7 DEF Forward
<1> QED
  BY <1>9, <1>10, <1>11, <1>15, <1>16, IsolatedStep DEF IsolatedGood

\* The delivery a request is about to save, and what it leaves there.
LEMMA SavedDelivery ==
  ASSUME IsolatedInv, NEW s \in Slots, req[s].pc \in DeliverySaves,
         deliveries' = SaveInto(deliveries, req[s].did, req[s].delivery)
  PROVE  /\ HoldsDelivery(req[s]) /\ req[s].oid = None
         /\ deliveries'[req[s].did] = req[s].delivery
<1>1. HoldsDelivery(req[s]) /\ req[s].oid = None
  BY DEF IsolatedInv, Inv, RequestInv, Undisturbed, DeliverySaves, DeliveryLabels
<1> QED
  BY <1>1 DEF HoldsDelivery, SaveInto, IsolatedInv, Inv, TypeOK, DeliveriesTypeOK

LEMMA DeliverySavesIsolated ==
  ASSUME IsolatedInv, Inv', Isolated', NEW s \in Slots,
         SaveDelivery(s) \/ SaveLocation(s) \/ SaveProof(s), UNCHANGED RestOfDeliveries
  PROVE  IsolatedGood
<1>1. /\ req[s].pc \in {"save_delivery", "save_location", "save_proof"}
      /\ deliveries' = SaveInto(deliveries, req[s].did, req[s].delivery)
      /\ UNCHANGED <<orders, payments, ledger>>
  BY DEF SaveDelivery, SaveLocation, SaveProof, At, RestOfDeliveries
<1>2. /\ HoldsDelivery(req[s]) /\ req[s].oid = None
      /\ deliveries'[req[s].did] = req[s].delivery
  BY <1>1, SavedDelivery DEF DeliverySaves
<1>3. /\ req[s] \in Request
      /\ \/ req[s].delivery.status = deliveries[req[s].did].status
         \/ /\ deliveries[req[s].did].status \in DOMAIN DeliveryAdvance
            /\ req[s].delivery.status = DeliveryAdvance[deliveries[req[s].did].status]
  BY <1>1 DEF IsolatedInv, Inv, TypeOK, RequestsTypeOK, Undisturbed, DeliverySaves
<1> DEFINE next(pc) == [req[s] EXCEPT !.pc = pc]
<1>4. ASSUME NEW pc \in {"load_synced", "load_located"}, Goto(s, next(pc)) PROVE IsolatedGood
  <2>1. req'[s] = next(pc)
    BY <1>4, GotoHolds DEF IsolatedInv
  <2>2. /\ next(pc).pc = pc /\ next(pc).oid = None
        /\ next(pc).did = req[s].did /\ next(pc).delivery = req[s].delivery
    BY <1>2, <1>3 DEF Request
  <2> HIDE DEF next
  <2>3. Undisturbed(req[s])'
    BY <1>2, <2>1, <2>2 DEF Undisturbed, DeliverySaves, OrderSaves
  <2> QED
    BY <1>1, <1>2, <1>3, <1>4, <2>3, IsolatedDeliverySave
<1>5. ASSUME Finish(s) PROVE IsolatedGood
  <2>1. req'[s] = Idle
    BY <1>5, GotoHolds DEF IsolatedInv, Finish
  <2>2. Undisturbed(req[s])'
    BY <2>1 DEF Undisturbed, Idle, DeliverySaves, OrderSaves
  <2> QED
    BY <1>1, <1>2, <1>3, <1>5, <2>2, IsolatedDeliverySave DEF Finish
<1> QED
  BY <1>4, <1>5 DEF SaveDelivery, SaveLocation, SaveProof

LEMMA LoadSyncedIsolated ==
  ASSUME IsolatedInv, Inv', Isolated', NEW s \in Slots, LoadSynced(s), UNCHANGED RestOfDeliveries
  PROVE  IsolatedGood
<1> DEFINE d == req[s].did
           o == req[s].delivery.order
           st == req[s].delivery.status
           doc == RecordStatus(orders[o], st)
           r == [req[s] EXCEPT !.pc = "save_synced", !.oid = o, !.order = doc]
<1>1. /\ req[s] \in Request /\ Undisturbed(req[s]) /\ req[s].pc = "load_synced"
      /\ HoldsDelivery(req[s]) /\ st \in OrderSync
  BY DEF IsolatedInv, Inv, TypeOK, RequestsTypeOK, RequestInv, LoadSynced, At, DeliveryLabels
<1>2. deliveries[d].status = st
  BY <1>1 DEF Undisturbed, DeliverySaves
<1>3. d \in DeliveriesOf(o) /\ orders[o] \in Order
  BY <1>1 DEF HoldsDelivery, DeliveriesOf, IsolatedInv, Inv, CollectionsInv,
              DeliveriesArePlaced, TypeOK, OrdersTypeOK, Maybe, Delivery
<1>4. doc.status = st
  BY <1>3 DEF RecordStatus, Order
<1>5. Follows(o, st)
  BY <1>1, <1>2, <1>3 DEF Follows, Reached, OrderSync
<1>6. r.pc = "save_synced" /\ r.oid = o /\ r.order = doc
  BY <1>1 DEF Request
<1>7. Goto(s, r) /\ UNCHANGED <<orders, payments, ledger, deliveries>>
  BY DEF LoadSynced, RestOfDeliveries
<1> HIDE DEF o, doc, st, r
<1>8. Undisturbed(r)
  BY <1>4, <1>5, <1>6 DEF Undisturbed, DeliverySaves, OrderSaves
<1> QED
  BY <1>7, <1>8, IsolatedRead

LEMMA SaveSyncedIsolated ==
  ASSUME IsolatedInv, Inv', Isolated', NEW s \in Slots, SaveSynced(s), UNCHANGED RestOfDeliveries
  PROVE  IsolatedGood
<1> DEFINE next(pc) == [req[s] EXCEPT !.pc = pc]
<1>1. /\ req[s] \in Request /\ Undisturbed(req[s]) /\ req[s].pc \in OrderSaves
  BY DEF IsolatedInv, Inv, TypeOK, RequestsTypeOK, SaveSynced, At, OrderSaves
<1>2. \A pc : next(pc).pc = pc /\ next(pc).oid = req[s].oid /\ next(pc).order = req[s].order
  BY <1>1 DEF Request
<1>3. Finish(s) \/ \E pc \in {"check_payment", "free"} : Goto(s, next(pc))
  BY DEF SaveSynced
<1>4. Follows(req[s].oid, req[s].order.status)
  BY <1>1 DEF Undisturbed
<1> HIDE DEF next
<1>5. \A pc \in {"check_payment", "free"} : Undisturbed(next(pc))
  BY <1>2, <1>4 DEF Undisturbed, DeliverySaves, OrderSaves
<1> QED
  BY <1>1, <1>3, <1>5, IdleIsUndisturbed, HeldOrderWrite DEF SaveSynced, Finish, RestOfDeliveries

LEMMA DeliveriesStepIsolated ==
  ASSUME IsolatedInv, Inv', Isolated', NEW s \in Slots, DeliveriesStep(s),
         UNCHANGED RestOfDeliveries
  PROVE  IsolatedGood
<1> USE DEF RestOfDeliveries
<1>0. req[s] \in Request /\ Undisturbed(req[s])
  BY DEF IsolatedInv, Inv, TypeOK, RequestsTypeOK
<1>1. CASE CheckUnassigned(s)
  <2> DEFINE r == [req[s] EXCEPT !.pc = "pick"]
  <2>1. r.pc = "pick" /\ r.oid = req[s].oid
    BY <1>0 DEF Request
  <2> HIDE DEF r
  <2>2. DeliveriesOf(req[s].oid) = {} => Undisturbed(r)
    BY <2>1 DEF Undisturbed, DeliverySaves, OrderSaves
  <2> QED
    BY <1>1, <2>2, FinishIsolated, IsolatedRead DEF CheckUnassigned, r
<1>2. CASE PickCourier(s)
  <2>1. ASSUME NEW c, NEW doc,
               Goto(s, [req[s] EXCEPT !.pc = "insert_delivery", !.cid = c, !.profile = doc])
        PROVE  IsolatedGood
    <3> DEFINE r == [req[s] EXCEPT !.pc = "insert_delivery", !.cid = c, !.profile = doc]
    <3>1. r.pc = "insert_delivery" /\ r.oid = req[s].oid
      BY <1>0 DEF Request
    <3>2. DeliveriesOf(req[s].oid) = {}
      BY <1>0, <1>2 DEF PickCourier, At, Undisturbed
    <3> HIDE DEF r
    <3>3. Undisturbed(r)
      BY <3>1, <3>2 DEF Undisturbed, DeliverySaves, OrderSaves
    <3> QED
      BY <1>2, <2>1, <3>3, IsolatedRead DEF PickCourier, r
  <2> QED
    BY <1>2, <2>1, FinishIsolated DEF PickCourier
<1>3. CASE SaveAssigned(s)
  <2> DEFINE r == [Idle EXCEPT !.pc = "save_profile", !.cid = req[s].cid,
                     !.profile = [req[s].profile EXCEPT !.availability = "on_delivery"]]
  <2>1. r.pc = "save_profile"
    BY DEF Idle
  <2>2. Undisturbed(r)
    BY <2>1, PlainRequest DEF DeliverySaves, OrderSaves
  <2> HIDE DEF r
  <2> QED
    BY <1>3, <2>2, HeldOrderWrite DEF SaveAssigned, At, OrderSaves, r
<1>4. ASSUME NEW c, NEW doc,
             Goto(s, [Idle EXCEPT !.pc = "save_profile", !.cid = c, !.profile = doc]),
             UNCHANGED <<orders, deliveries>>
      PROVE  IsolatedGood
  <2>1. [Idle EXCEPT !.pc = "save_profile", !.cid = c, !.profile = doc].pc = "save_profile"
    BY DEF Idle
  <2> QED
    BY <1>4, <2>1, PlainStep DEF DeliverySaves, OrderSaves
<1>5. CASE FreeCourier(s)
  BY <1>4, <1>5, FinishIsolated DEF FreeCourier
<1>6. CASE LoadLocated(s)
  BY <1>4, <1>6, FinishIsolated DEF LoadLocated
<1> QED
  BY <1>1, <1>2, <1>3, <1>5, <1>6, InsertDeliveryIsolated, DeliverySavesIsolated,
     LoadSyncedIsolated, SaveSyncedIsolated DEF DeliveriesStep

-----------------------------------------------------------------------------
LEMMA InitIsIsolated == Init => IsolatedInv
<1> SUFFICES ASSUME Init PROVE IsolatedInv
  OBVIOUS
<1>1. \A s \in Slots : Undisturbed(req[s]) /\ Subject(s) = None
  BY IdleIsUndisturbed DEF Init, RequestsInit, Subject, Idle
<1>2. ASSUME NEW o \in OrderIds PROVE OrderInv(o)
  <2>1. DeliveriesOf(o) = {} /\ PaymentsOf(o) = {} /\ ~Placed(o)
    BY DEF Init, DeliveriesInit, PaymentsInit, OrdersInit, DeliveriesOf, PaymentsOf, Placed
  <2>2. ASSUME NEW user \in Users PROVE Credited(o, user) = 0
    <3>1. /\ [order |-> o, user |-> user, settled |-> TRUE] \in LedgerEntry
          /\ [order |-> o, user |-> user, settled |-> FALSE] \in LedgerEntry
      BY DEF LedgerEntry, Users
    <3> QED
      BY <3>1 DEF Init, PaymentsInit, Credited
  <2> QED
    BY <2>1, <2>2 DEF OrderInv, Unbooked
<1> QED
  BY <1>1, <1>2, InitIsGood DEF IsolatedInv, Isolated

LEMMA NextIsIsolated == IsolatedInv /\ Next /\ Isolated' => IsolatedGood
<1> SUFFICES ASSUME IsolatedInv, Isolated', NEW s \in Slots, Begin(s) \/ Serve(s) \/ Fail(s)
             PROVE  IsolatedGood
  BY DEF Next
<1>1. Inv'
  BY NextIsGood DEF IsolatedInv, GoodStep, Next
<1>2. CASE Fail(s)
  BY <1>1, <1>2, FinishIsolated DEF Fail, Crash
<1>3. CASE Begin(s)
  BY <1>1, <1>3, OrdersBeginIsolated, PaymentsBeginIsolated, CollaboratorsIsolated,
     DeliveriesBeginIsolated
  DEF Begin, RestOfOrders, RestOfPayments, RestOfDeliveries
<1>4. CASE Serve(s)
  BY <1>1, <1>4, OrdersStepIsolated, PaymentsStepIsolated, CollaboratorsIsolated,
     DeliveriesStepIsolated
  DEF Serve, RestOfOrders, RestOfPayments, RestOfDeliveries
<1> QED
  BY <1>2, <1>3, <1>4

LEMMA StutterIsIsolated == IsolatedInv /\ UNCHANGED vars => IsolatedInv'
<1> SUFFICES ASSUME IsolatedInv, UNCHANGED vars PROVE IsolatedInv'
  OBVIOUS
<1>1. Inv'
  BY StutterIsGood DEF IsolatedInv
<1>2. \A o \in OrderIds : Untouched(o) /\ orders'[o] = orders[o]
  BY DEF vars, Untouched, Credited
<1>3. \A o \in OrderIds : OrderInv(o)'
  BY <1>2, UntouchedOrder DEF IsolatedInv
<1>4. ASSUME NEW s \in Slots PROVE Undisturbed(req[s])'
  <2>1. Goto(s, req[s])
    BY DEF vars, Goto, IsolatedInv, Inv, TypeOK, RequestsTypeOK
  <2> QED
    BY <2>1, UndisturbedNext DEF vars, IsolatedInv
<1>5. Isolated'
  BY DEF vars, IsolatedInv, Isolated, Subject
<1> QED
  BY <1>1, <1>3, <1>4, <1>5 DEF IsolatedInv

\* Two documents are one if the set of them has at most one member.
LEMMA AtMostOne ==
  ASSUME NEW S, \A x, y \in S : x = y
  PROVE  Cardinality(S) <= 1
<1>1. CASE S = {}
  BY <1>1, FS_EmptySet
<1>2. ASSUME NEW x \in S PROVE Cardinality(S) <= 1
  <2>1. S = {x}
    OBVIOUS
  <2> QED
    BY <2>1, FS_Singleton
<1> QED
  BY <1>1, <1>2

\* As long as no two requests about one order overlap, what each of them read
\* stays what is stored, wherever they crash and whatever other orders do.
THEOREM IsolatedInvIsInvariant == IsolatedSpec => []IsolatedInv
<1>1. IsolatedInv /\ [Next /\ Isolated']_vars => IsolatedInv'
  BY NextIsIsolated, StutterIsIsolated DEF IsolatedGood
<1> QED
  BY <1>1, InitIsIsolated, PTL DEF IsolatedSpec

\* assign_order gives an order to one courier, once.
THEOREM OneDeliveryEach == IsolatedSpec => []AtMostOneDelivery
<1>1. IsolatedInv => AtMostOneDelivery
  BY AtMostOne DEF IsolatedInv, OrderInv, AtMostOneDelivery
<1> QED
  BY <1>1, IsolatedInvIsInvariant, PTL

\* The webhook and the settlement of a delivered order pay it once: one payment
\* document, and one credit for everyone, through every crash and retry.
THEOREM EveryOrderPaidOnce == IsolatedSpec => []PaidOnce
<1>1. IsolatedInv => PaidOnce
  BY AtMostOne DEF IsolatedInv, OrderInv, PaidOnce, Users
<1> QED
  BY <1>1, IsolatedInvIsInvariant, PTL

\* advance_status never shows an order further than its delivery is.
THEOREM OrdersFollowDeliveries == IsolatedSpec => []OrderFollowsDelivery
<1>1. IsolatedInv => OrderFollowsDelivery
  BY DEF IsolatedInv, OrderInv, OrderFollowsDelivery, Follows, OnItsWay
<1> QED
  BY <1>1, IsolatedInvIsInvariant, PTL

\* No save of a delivery, of its location or of its proof takes it back.
THEOREM DeliveriesGoForward == IsolatedSpec => DeliveryForwardOnly
<1>1. IsolatedInv /\ [Next /\ Isolated']_vars => [Forward]_vars
  BY NextIsIsolated DEF IsolatedGood
<1> QED
  BY <1>1, IsolatedInvIsInvariant, PTL DEF IsolatedSpec, DeliveryForwardOnly, Forward

-----------------------------------------------------------------------------
(* The order of the ledger's entries, whatever overlaps or crashes *)

\* The request of slot s has the same entries to write, or none any more.
KeepsTodo(s) ==
  /\ req'[s].todo = req[s].todo \/ req'[s].todo = << >>
  /\ \A t \in Slots \ {s} : req'[t].todo = req[t].todo

LEMMA BeginKeepsTodo ==
  ASSUME TypeOK, NEW s \in Slots, Begin(s)
  PROVE  KeepsTodo(s) /\ ledger' = ledger
<1> USE DEF TypeOK, RequestsTypeOK, Goto, Idle, KeepsTodo
<1>1. CASE OrdersBegin(s) /\ UNCHANGED <<payments, ledger, deliveries, profiles>>
  BY <1>1, ZenonT(60) DEF OrdersBegin, CreateOrder, AcceptOrder, AdvanceOrder, CancelOrder,
                          EditProduct, DeleteProduct
<1>2. CASE PaymentsBegin(s) /\ UNCHANGED <<products, deliveries, profiles>>
  BY <1>2, Zenon DEF PaymentsBegin, CreateIntent, Webhook
<1>3. CASE CollaboratorsBegin(s) /\ UNCHANGED <<orders, products, payments, ledger, deliveries>>
  <2>1. ASSUME NEW c, BecomeCollaborator(s, c) PROVE KeepsTodo(s)
    BY <2>1 DEF BecomeCollaborator
  <2>2. ASSUME NEW c, NEW availability, SetAvailability(s, c, availability) PROVE KeepsTodo(s)
    BY <2>2 DEF SetAvailability
  <2>3. ASSUME NEW c, NEW verdict, Verify(s, c, verdict) PROVE KeepsTodo(s)
    BY <2>3, SMTT(30) DEF Verify
  <2> HIDE DEF KeepsTodo
  <2> QED
    BY <1>3, <2>1, <2>2, <2>3 DEF CollaboratorsBegin
<1>4. CASE DeliveriesBegin(s) /\ UNCHANGED <<products, payments, ledger>>
  BY <1>4, ZenonT(60) DEF DeliveriesBegin, AssignOrder, AdvanceDelivery, UpdateLocation, UploadProof
<1> QED
  BY <1>1, <1>2, <1>3, <1>4, SMTT(30) DEF Begin

LEMMA ServeKeepsTodo ==
  ASSUME TypeOK, NEW s \in Slots, Serve(s), ~SavePaidOrder(s), ~WriteEntry(s)
  PROVE  KeepsTodo(s) /\ ledger' = ledger
<1>0. req[s] \in Request /\ req \in [Slots -> Request]
  BY DEF TypeOK, RequestsTypeOK
<1>5. \A lines, taken :
        Goto(s, [req[s] EXCEPT !.lines = lines, !.taken = taken]) => KeepsTodo(s)
  BY <1>0 DEF Goto, KeepsTodo, Request
<1>6. \A pc, c, doc : Goto(s, [req[s] EXCEPT !.pc = pc, !.cid = c, !.profile = doc]) => KeepsTodo(s)
  BY <1>0 DEF Goto, KeepsTodo, Request
<1>7. \A pc, c, doc : Goto(s, [Idle EXCEPT !.pc = pc, !.cid = c, !.profile = doc]) => KeepsTodo(s)
  BY <1>0 DEF Goto, KeepsTodo, Idle
<1>8. Finish(s) => KeepsTodo(s)
  BY <1>0 DEF Finish, Goto, KeepsTodo, Idle
<1>1. CASE OrdersStep(s) /\ UNCHANGED <<payments, ledger, deliveries, profiles>>
  <2>1. CASE ReadLine(s)
    BY <1>1, <2>1, <1>5, <1>8 DEF ReadLine
  <2>2. CASE TakeStock(s)
    BY <1>0, <1>1, <2>2 DEF TakeStock, Goto, Finish, Idle, KeepsTodo, Request
  <2>3. CASE InsertOrder(s)
    BY <1>0, <1>1, <2>3 DEF InsertOrder, Goto, Finish, Idle, KeepsTodo, Request
  <2>4. CASE SaveOrder(s)
    BY <1>0, <1>1, <2>4 DEF SaveOrder, Goto, Finish, Idle, KeepsTodo, Request
  <2>5. CASE ReadStock(s)
    BY <1>0, <1>1, <2>5, ZenonT(60) DEF ReadStock, Goto, Finish, Idle, KeepsTodo, Request
  <2>6. CASE RestoreStock(s)
    BY <1>0, <1>1, <2>6 DEF RestoreStock, Goto, Finish, Idle, KeepsTodo, Request
  <2>7. CASE SaveCancelled(s)
    BY <1>0, <1>1, <2>7 DEF SaveCancelled, Goto, Finish, Idle, KeepsTodo, Request
  <2>8. CASE SaveProduct(s)
    BY <1>0, <1>1, <2>8 DEF SaveProduct, Goto, Finish, Idle, KeepsTodo, Request
  <2> QED
    BY <1>1, <2>1, <2>2, <2>3, <2>4, <2>5, <2>6, <2>7, <2>8 DEF OrdersStep
<1>2. CASE PaymentsStep(s) /\ UNCHANGED <<products, deliveries, profiles>>
  <2>1. CASE CheckIntent(s)
    BY <1>0, <1>2, <2>1 DEF CheckIntent, Goto, Finish, Idle, KeepsTodo, Request
  <2>2. CASE InsertIntent(s)
    BY <1>0, <1>2, <2>2 DEF InsertIntent, Goto, Finish, Idle, KeepsTodo, Request
  <2>3. CASE SavePayment(s)
    BY <1>0, <1>2, <2>3 DEF SavePayment, Goto, Finish, Idle, KeepsTodo, Request
  <2>4. CASE LoadPaidOrder(s)
    BY <1>0, <1>2, <2>4 DEF LoadPaidOrder, Goto, Finish, Idle, KeepsTodo, Request
  <2>5. CASE CheckPayment(s)
    BY <1>0, <1>2, <2>5 DEF CheckPayment, Goto, Finish, Idle, KeepsTodo, Request
  <2>6. CASE InsertPayment(s)
    BY <1>0, <1>2, <2>6 DEF InsertPayment, Goto, Finish, Idle, KeepsTodo, Request
  <2>7. CASE LedgerWritten(s)
    BY <1>0, <1>2, <2>7 DEF LedgerWritten, Goto, Finish, Idle, KeepsTodo, Request
  <2> QED
    BY <1>2, <2>1, <2>2, <2>3, <2>4, <2>5, <2>6, <2>7 DEF PaymentsStep
<1>3. CASE CollaboratorsStep(s) /\ UNCHANGED <<orders, products, payments, ledger, deliveries>>
  <2>1. CASE SaveProfile(s)
    BY <1>0, <1>3, <2>1 DEF SaveProfile, Goto, Finish, Idle, KeepsTodo, Request
  <2> QED
    BY <1>3, <2>1 DEF CollaboratorsStep
<1>4. CASE DeliveriesStep(s) /\ UNCHANGED <<products, payments, ledger>>
  <2>1. CASE CheckUnassigned(s)
    BY <1>0, <1>4, <2>1 DEF CheckUnassigned, Goto, Finish, Idle, KeepsTodo, Request
  <2>2. CASE PickCourier(s)
    BY <1>4, <2>2, <1>6, <1>8 DEF PickCourier
  <2>3. CASE InsertDelivery(s)
    BY <1>0, <1>4, <2>3 DEF InsertDelivery, Goto, Finish, Idle, KeepsTodo, Request
  <2>4. CASE SaveAssigned(s)
    BY <1>0, <1>4, <2>4 DEF SaveAssigned, Goto, Finish, Idle, KeepsTodo, Request
  <2>5. CASE SaveDelivery(s)
    BY <1>0, <1>4, <2>5 DEF SaveDelivery, Goto, Finish, Idle, KeepsTodo, Request
  <2>6. CASE LoadSynced(s)
    BY <1>0, <1>4, <2>6 DEF LoadSynced, Goto, Finish, Idle, KeepsTodo, Request
  <2>7. CASE SaveSynced(s)
    BY <1>0, <1>4, <2>7 DEF SaveSynced, Goto, Finish, Idle, KeepsTodo, Request
  <2>8. CASE FreeCourier(s)
    BY <1>4, <2>8, <1>7, <1>8 DEF FreeCourier
  <2>9. CASE SaveLocation(s)
    BY <1>0, <1>4, <2>9 DEF SaveLocation, Goto, Finish, Idle, KeepsTodo, Request
  <2>10. CASE LoadLocated(s)
    BY <1>4, <2>10, <1>7, <1>8 DEF LoadLocated
  <2>11. CASE SaveProof(s)
    BY <1>0, <1>4, <2>11 DEF SaveProof, Goto, Finish, Idle, KeepsTodo, Request
  <2> QED
    BY <1>4, <2>1, <2>2, <2>3, <2>4, <2>5, <2>6, <2>7, <2>8, <2>9, <2>10, <2>11 DEF DeliveriesStep
<1> QED
  BY <1>1, <1>2, <1>3, <1>4 DEF Serve

\* Requests that give up, or go on, owe no more than they did.
LEMMA KeptTodoKeepsLedger ==
  ASSUME LedgerInv, TypeOK', NEW s \in Slots, KeepsTodo(s), ledger' = ledger
  PROVE  LedgerInv'
<1>1. ASSUME NEW t \in Slots
      PROVE  Settling(req[t].todo)'
  <2>1. Settling(req[t].todo)
    BY DEF LedgerInv
  <2>2. CASE req'[t].todo = req[t].todo
    BY <2>1, <2>2 DEF Settling
  <2>3. CASE req'[t].todo = << >>
    <3>1. Len(req'[t].todo) = 0
      BY <2>3
    <3> QED
      BY <3>1 DEF Settling
  <2> QED
    BY <2>2, <2>3 DEF KeepsTodo
<1>2. ASSUME NEW o \in OrderIds
      PROVE  (Credited(o, "seller") + Cardinality(Owing(o)) <= Credited(o, "platform"))'
  <2>1. Owing(o)' \subseteq Owing(o)
    BY DEF Owing, KeepsTodo
  <2>2. IsFiniteSet(Owing(o))
    BY SlotsAssumption, FS_Subset DEF Owing
  <2>3. /\ Cardinality(Owing(o)') \in Nat /\ Cardinality(Owing(o)) \in Nat
        /\ Cardinality(Owing(o)') <= Cardinality(Owing(o))
    BY <2>1, <2>2, FS_Subset, FS_CardinalityType
  <2>4. \A user \in Users : Credited(o, user) \in Nat /\ Credited(o, user)' = Credited(o, user)
    <3>1. ASSUME NEW user \in Users
          PROVE  /\ [order |-> o, user |-> user, settled |-> TRUE] \in LedgerEntry
                 /\ [order |-> o, user |-> user, settled |-> FALSE] \in LedgerEntry
      BY <3>1 DEF LedgerEntry, Users
    <3> QED
      BY <3>1 DEF Credited, LedgerInv, TypeOK, PaymentsTypeOK
  <2>5. "seller" \in Users /\ "platform" \in Users
    BY DEF Users
  <2> QED
    BY <2>3, <2>4, <2>5 DEF LedgerInv
<1> QED
  BY <1>1, <1>2 DEF LedgerInv

LEMMA CreditIsCounted ==
  ASSUME TypeOK, NEW o \in OrderIds, NEW user \in Users
  PROVE  /\ Credited(o, user) \in Nat
         /\ [order |-> o, user |-> user, settled |-> TRUE] \in LedgerEntry
         /\ [order |-> o, user |-> user, settled |-> FALSE] \in LedgerEntry
<1>1. /\ [order |-> o, user |-> user, settled |-> TRUE] \in LedgerEntry
      /\ [order |-> o, user |-> user, settled |-> FALSE] \in LedgerEntry
  BY DEF LedgerEntry, Users
<1> QED
  BY <1>1 DEF Credited, TypeOK, PaymentsTypeOK

\* An entry credits its user for its order, and nobody else.
LEMMA EntryCredits ==
  ASSUME TypeOK, NEW e \in LedgerEntry, ledger' = [ledger EXCEPT ![e] = @ + 1],
         NEW o \in OrderIds, NEW user \in Users
  PROVE  Credited(o, user)' = IF o = e.order /\ user = e.user THEN Credited(o, user) + 1
                                                             ELSE Credited(o, user)
<1> DEFINE paid == [order |-> o, user |-> user, settled |-> TRUE]
           owed == [order |-> o, user |-> user, settled |-> FALSE]
<1>1. paid \in LedgerEntry /\ owed \in LedgerEntry /\ paid # owed
  BY DEF LedgerEntry, Users
<1>2. e = [order |-> e.order, user |-> e.user, settled |-> e.settled] /\ e.settled \in BOOLEAN
  BY DEF LedgerEntry
<1>3. (o = e.order /\ user = e.user) <=> (e = paid \/ e = owed)
  BY <1>2
<1>4. ledger \in [LedgerEntry -> Nat]
  BY DEF TypeOK, PaymentsTypeOK
<1> HIDE DEF paid, owed
<1>5. ledger'[paid] + ledger'[owed] = IF e = paid \/ e = owed THEN ledger[paid] + ledger[owed] + 1
                                                            ELSE ledger[paid] + ledger[owed]
  BY <1>1, <1>4
<1> QED
  BY <1>3, <1>5 DEF Credited, paid, owed

LEMMA OwingIsFinite ==
  ASSUME NEW o
  PROVE  /\ IsFiniteSet(Owing(o)) /\ Cardinality(Owing(o)) \in Nat
<1>1. IsFiniteSet(Owing(o))
  BY SlotsAssumption, FS_Subset DEF Owing
<1> QED
  BY <1>1, FS_CardinalityType

LEMMA SettlementBegins ==
  ASSUME LedgerInv, TypeOK', NEW s \in Slots, SavePaidOrder(s), req[s].order \in Order,
         req[s].oid \in OrderIds
  PROVE  LedgerInv'
<1> DEFINE lines == LedgerLines(req[s].oid, req[s].order, req[s].payment.method = "wompi")
           r == [req[s] EXCEPT !.pc = "ledger", !.order = None, !.payment = None, !.todo = lines]
<1>1. req[s] \in Request /\ req \in [Slots -> Request]
  BY DEF LedgerInv, TypeOK, RequestsTypeOK
<1>2. r.todo = lines
  BY <1>1 DEF Request
<1>3. Settling(lines) /\ Len(lines) # 1
  BY DEF LedgerLines, Settling, Order, Maybe
<1>4. req' = [req EXCEPT ![s] = r] /\ ledger' = ledger
  BY DEF SavePaidOrder, Goto
<1> HIDE DEF lines, r
<1>5. req'[s] = r /\ \A t \in Slots \ {s} : req'[t] = req[t]
  BY <1>1, <1>4
<1>6. ASSUME NEW t \in Slots
      PROVE  Settling(req[t].todo)'
  <2>1. Settling(req[t].todo)
    BY DEF LedgerInv
  <2>2. req'[t].todo = lines \/ req'[t].todo = req[t].todo
    BY <1>2, <1>5
  <2> QED
    BY <1>3, <2>1, <2>2 DEF Settling
<1>7. ASSUME NEW o \in OrderIds
      PROVE  (Credited(o, "seller") + Cardinality(Owing(o)) <= Credited(o, "platform"))'
  <2>1. Owing(o)' \subseteq Owing(o)
    BY <1>2, <1>3, <1>5 DEF Owing
  <2>2. /\ Cardinality(Owing(o)') \in Nat /\ Cardinality(Owing(o)) \in Nat
        /\ Cardinality(Owing(o)') <= Cardinality(Owing(o))
    BY <2>1, OwingIsFinite, FS_Subset, FS_CardinalityType
  <2>3. /\ Credited(o, "seller") \in Nat /\ Credited(o, "seller")' = Credited(o, "seller")
        /\ Credited(o, "platform") \in Nat /\ Credited(o, "platform")' = Credited(o, "platform")
    BY <1>4, CreditIsCounted DEF LedgerInv, Users, Credited
  <2> QED
    BY <2>2, <2>3 DEF LedgerInv
<1> QED
  BY <1>6, <1>7 DEF LedgerInv

LEMMA EntryKeepsLedger ==
  ASSUME LedgerInv, TypeOK', NEW s \in Slots, WriteEntry(s)
  PROVE  LedgerInv'
<1> DEFINE todo == req[s].todo
           e == Head(todo)
           rest == Tail(todo)
           r == [req[s] EXCEPT !.todo = rest]
<1>1. /\ req[s] \in Request /\ req \in [Slots -> Request] /\ TypeOK
      /\ todo \in Seq(LedgerEntry) /\ todo # << >> /\ Settling(todo)
  BY DEF LedgerInv, TypeOK, RequestsTypeOK, Request, WriteEntry
<1>2. /\ e = todo[1] /\ e \in LedgerEntry /\ Len(rest) = Len(todo) - 1 /\ Len(todo) \in 1 .. 3
      /\ \A i \in 1 .. Len(rest) : rest[i] = todo[i + 1]
  <2>1. Len(todo) <= 3
    BY <1>1 DEF Settling
  <2>2. e = todo[1] /\ e \in LedgerEntry /\ Len(todo) \in Nat /\ Len(todo) # 0
    BY <1>1
  <2>3. /\ Len(rest) = Len(todo) - 1
        /\ \A i \in 1 .. Len(rest) : rest[i] = todo[i + 1]
    BY <1>1
  <2> HIDE DEF todo, e, rest
  <2>4. PICK n \in Nat : n = Len(todo)
    BY <2>2
  <2>5. n \in 1 .. 3
    BY <2>1, <2>2, <2>4
  <2> QED
    BY <2>2, <2>3, <2>4, <2>5
<1>3. e.order \in OrderIds /\ e.user \in Users
  BY <1>2 DEF LedgerEntry, Users
<1>4. r.todo = rest
  BY <1>1 DEF Request
<1>5. req' = [req EXCEPT ![s] = r] /\ ledger' = [ledger EXCEPT ![e] = @ + 1]
  BY DEF WriteEntry, Goto
<1>6. /\ Len(todo) = 1 => e.user = "seller"
      /\ Len(todo) = 2 => e.user = "platform"
  <2>1. /\ Len(todo) > 0 => todo[Len(todo)].user = "seller"
        /\ Len(todo) > 1 => todo[Len(todo) - 1].user = "platform"
    BY <1>1 DEF Settling
  <2> HIDE DEF todo, e
  <2>2. ASSUME Len(todo) = 1 PROVE e.user = "seller"
    BY <1>2, <2>1, <2>2
  <2>3. ASSUME Len(todo) = 2 PROVE e.user = "platform"
    BY <1>2, <2>1, <2>3
  <2> QED
    BY <2>2, <2>3
<1>7. Len(todo) = 3 => e.user \notin {"platform", "seller"}
  BY <1>1, <1>2, CourierAssumption DEF Settling
<1>8. Len(todo) = 2 => rest[1].order = e.order
  BY <1>1, <1>2 DEF Settling
<1>9. Settling(rest)
  BY <1>1, <1>2 DEF Settling
<1> HIDE DEF todo, e, rest, r
<1>10. req'[s] = r /\ \A t \in Slots \ {s} : req'[t] = req[t]
  BY <1>1, <1>5
<1>11. \A t \in Slots : Settling(req[t].todo)'
  <2>1. \A t \in Slots : Settling(req'[t].todo)
    BY <1>4, <1>9, <1>10 DEF LedgerInv
  <2> QED
    BY <2>1 DEF Settling
<1>12. ASSUME NEW o \in OrderIds
       PROVE  (Credited(o, "seller") + Cardinality(Owing(o)) <= Credited(o, "platform"))'
  <2>1. /\ Credited(o, "seller") \in Nat /\ Credited(o, "platform") \in Nat
        /\ Cardinality(Owing(o)) \in Nat /\ Cardinality(Owing(o)') \in Nat
        /\ Credited(o, "seller") + Cardinality(Owing(o)) <= Credited(o, "platform")
    <3>1. Owing(o)' \subseteq Slots
      BY DEF Owing
    <3>2. Cardinality(Owing(o)') \in Nat
      BY <3>1, SlotsAssumption, FS_Subset, FS_CardinalityType
    <3> QED
      BY <1>1, <3>2, CreditIsCounted, OwingIsFinite DEF LedgerInv, Users
  <2>2. \A user \in Users : Credited(o, user)' = IF o = e.order /\ user = e.user
                                                   THEN Credited(o, user) + 1
                                                   ELSE Credited(o, user)
    BY <1>1, <1>2, <1>5, EntryCredits
  <2>3. "seller" \in Users /\ "platform" \in Users
    BY DEF Users
  <2>4. \A t \in Slots \ {s} : t \in Owing(o)' <=> t \in Owing(o)
    BY <1>10 DEF Owing
  <2>5. /\ s \in Owing(o) <=> Len(todo) = 1 /\ e.order = o
        /\ s \in Owing(o)' <=> Len(todo) = 2 /\ e.order = o
    <3>1. s \in Owing(o) <=> Len(todo) = 1 /\ todo[1].order = o
      BY DEF Owing, todo
    <3>2. s \in Owing(o)' <=> Len(rest) = 1 /\ rest[1].order = o
      BY <1>4, <1>10 DEF Owing
    <3> QED
      BY <1>2, <1>8, <3>1, <3>2
  <2>6. Owing(o) \subseteq Slots /\ Owing(o)' \subseteq Slots
    BY DEF Owing
  <2>7. CASE o # e.order \/ Len(todo) = 3
    <3>1. s \notin Owing(o) /\ s \notin Owing(o)'
      BY <1>2, <2>5, <2>7
    <3>2. Owing(o)' = Owing(o)
      BY <2>4, <2>6, <3>1
    <3>3. Credited(o, "seller")' = Credited(o, "seller") /\ Credited(o, "platform")' = Credited(o, "platform")
      BY <1>7, <2>2, <2>3, <2>7
    <3> QED
      BY <2>1, <3>2, <3>3
  <2>8. CASE o = e.order /\ Len(todo) = 2
    <3>1. Owing(o)' = Owing(o) \cup {s} /\ s \notin Owing(o)
      BY <2>4, <2>5, <2>6, <2>8
    <3>2. Cardinality(Owing(o)') = Cardinality(Owing(o)) + 1
      BY <3>1, OwingIsFinite, FS_AddElement
    <3>3. e.user = "platform"
      BY <1>6, <2>8
    <3>4. Credited(o, "seller")' = Credited(o, "seller") /\ Credited(o, "platform")' = Credited(o, "platform") + 1
      BY <2>2, <2>3, <2>8, <3>3
    <3> QED
      BY <2>1, <3>2, <3>4
  <2>9. CASE o = e.order /\ Len(todo) = 1
    <3>1. Owing(o)' = Owing(o) \ {s} /\ s \in Owing(o)
      BY <2>4, <2>5, <2>6, <2>9
    <3>2. Cardinality(Owing(o)') = Cardinality(Owing(o)) - 1
      BY <3>1, OwingIsFinite, FS_RemoveElement
    <3>3. e.user = "seller"
      BY <1>6, <2>9
    <3>4. Credited(o, "seller")' = Credited(o, "seller") + 1 /\ Credited(o, "platform")' = Credited(o, "platform")
      BY <2>2, <2>3, <2>9, <3>3
    <3> QED
      BY <2>1, <3>2, <3>4
  <2> QED
    BY <1>2, <2>7, <2>8, <2>9
<1> QED
  BY <1>11, <1>12 DEF LedgerInv

LEMMA InitIsBooked == Init => LedgerInv
<1> SUFFICES ASSUME Init PROVE LedgerInv
  OBVIOUS
<1>1. TypeOK
  BY InitIsGood DEF Inv
<1>2. \A s \in Slots : req[s].todo = << >>
  BY DEF Init, RequestsInit, Idle
<1>3. ASSUME NEW o \in OrderIds
      PROVE  Credited(o, "seller") + Cardinality(Owing(o)) <= Credited(o, "platform")
  <2>1. Owing(o) = {}
    BY <1>2 DEF Owing
  <2>2. \A user \in Users : Credited(o, user) = 0
    BY <1>1, CreditIsCounted DEF Init, PaymentsInit, Credited
  <2> QED
    BY <2>1, <2>2, FS_EmptySet DEF Users
<1> QED
  BY <1>1, <1>2, <1>3 DEF LedgerInv, Settling

LEMMA NextIsBooked == Inv /\ LedgerInv /\ [Next]_vars => LedgerInv'
<1> SUFFICES ASSUME Inv, LedgerInv, [Next]_vars PROVE LedgerInv'
  OBVIOUS
<1>1. TypeOK'
  BY NextIsGood, StutterIsGood DEF GoodStep, Inv
<1>2. CASE UNCHANGED vars
  BY <1>2 DEF vars, LedgerInv, TypeOK, RequestsTypeOK, OrdersTypeOK, PaymentsTypeOK,
              CollaboratorsTypeOK, DeliveriesTypeOK, Owing, Credited
<1>3. ASSUME NEW s \in Slots, Begin(s) \/ Serve(s) \/ Fail(s) PROVE LedgerInv'
  <2>1. CASE SavePaidOrder(s)
    <3>1. HoldsOrder(req[s])
      BY <2>1 DEF Inv, RequestInv, SavePaidOrder, At, OrderLabels
    <3> QED
      BY <1>1, <2>1, <3>1, SettlementBegins DEF HoldsOrder
  <2>2. CASE WriteEntry(s)
    BY <1>1, <2>2, EntryKeepsLedger
  <2>3. CASE Fail(s)
    <3>1. KeepsTodo(s) /\ ledger' = ledger
      BY <2>3 DEF Fail, Crash, Finish, Goto, Idle, KeepsTodo, LedgerInv, TypeOK, RequestsTypeOK
    <3> QED
      BY <1>1, <3>1, KeptTodoKeepsLedger
  <2> QED
    BY <1>1, <1>3, <2>1, <2>2, <2>3, BeginKeepsTodo, ServeKeepsTodo, KeptTodoKeepsLedger
    DEF LedgerInv
<1> QED
  BY <1>2, <1>3 DEF Next

\* settle_order_payment and the webhook write the commission before the seller's
\* earning: no crash between the two, and no overlap, pays a seller more often.
THEOREM SellersComeAfterPlatform == Spec => []SellerAfterPlatform
<1>1. ASSUME LedgerInv, NEW o \in OrderIds
      PROVE  Credited(o, "seller") <= Credited(o, "platform")
  <2>1. /\ Credited(o, "seller") \in Nat /\ Credited(o, "platform") \in Nat
        /\ Cardinality(Owing(o)) \in Nat
    BY <1>1, OwingIsFinite, CreditIsCounted DEF LedgerInv, Users
  <2> QED
    BY <1>1, <2>1 DEF LedgerInv
<1>2. LedgerInv => SellerAfterPlatform
  BY <1>1 DEF SellerAfterPlatform
<1> QED
  BY <1>2, InitIsBooked, NextIsBooked, InvIsInvariant, PTL DEF Spec

-----------------------------------------------------------------------------
(* Requests that come one at a time and do not crash *)

ContractStep == [Contract!Next]_(Contract!vars)

\* No request is at work on any order or courier.
OrderRests(o) == Synced(o) /\ PaidOff(o) /\ CashComesLast(o)
Resting ==
  /\ \A o \in OrderIds : Placed(o) => OrderRests(o)
  /\ \A c \in CourierIds : Busy(c) => HasJob(c)

SyncLabels == {"load_synced", "save_synced", "save_assigned"}
SettleLabels == {"check_payment", "insert_payment", "save_paid", "ledger", "load_paid"}
FreeLabels == {"load_synced", "save_synced", "check_payment", "insert_payment",
               "save_paid", "ledger", "free", "save_profile"}

LEMMA OrdersRest ==
  ASSUME NEW r, Stands(r), NEW o \in OrderIds, Placed(o)
  PROVE  /\ r.pc \notin SyncLabels => Synced(o)
         /\ r.pc \notin SettleLabels => PaidOff(o)
         /\ CashComesLast(o)
BY DEF Stands, OrderStands, Synchronizes, Settles, SyncLabels, SettleLabels

LEMMA RequestRests ==
  ASSUME NEW r, Stands(r), r.pc \notin SyncLabels \cup SettleLabels \cup FreeLabels
  PROVE  Resting
<1>1. \A o \in OrderIds : Placed(o) => OrderRests(o)
  BY OrdersRest DEF OrderRests
<1>2. \A c \in CourierIds : Busy(c) => HasJob(c)
  BY DEF Stands, CourierStands, Frees, Busy, FreeLabels
<1> QED
  BY <1>1, <1>2 DEF Resting

LEMMA RestStands ==
  ASSUME Resting, NEW r
  PROVE  /\ \A o \in OrderIds : Placed(o) => OrderStands(o, r)
         /\ \A c \in CourierIds : CourierStands(c, r)
BY DEF Resting, OrderRests, OrderStands, CourierStands, Busy

\* Labels of which Stands asks nothing.
PlainLabels == {"idle", "create", "save_product", "check_intent", "insert_intent",
                "save_delivery", "save_location", "load_located", "save_proof"}

LEMMA PlainStands ==
  ASSUME Resting, NEW r, r.pc \in PlainLabels
  PROVE  Stands(r)
<1>1. AsStored(r)
  BY DEF AsStored, PlainLabels, OrderLabels
<1>2. AboutStatus(r)
  BY DEF AboutStatus, PlainLabels
<1>3. AboutPayment(r)
  BY DEF AboutPayment, PlainLabels
<1>4. AboutCourier(r)
  BY DEF AboutCourier, PlainLabels
<1> QED
  BY <1>1, <1>2, <1>3, <1>4, RestStands DEF Stands

LEMMA SerialStep ==
  ASSUME Serial, IsolatedInv', NEW s \in Slots, NEW r, req'[s] = r, Stands(r)'
  PROVE  SerialInv'
BY DEF Serial, SerialInv

LEMMA OneSlot == ASSUME Serial PROVE Isolated /\ Isolated'
BY DEF Serial, Isolated

\* Nothing of an order and of a courier changes.
LEMMA SameDocuments ==
  ASSUME UNCHANGED <<payments, ledger, deliveries>>, NEW o, orders'[o] = orders[o]
  PROVE  /\ Placed(o)' = Placed(o) /\ OrderRests(o)' = OrderRests(o)
         /\ Synced(o)' = Synced(o) /\ PaidOff(o)' = PaidOff(o)
         /\ CashComesLast(o)' = CashComesLast(o)
<1>1. /\ DeliveriesOf(o)' = DeliveriesOf(o) /\ PaymentsOf(o)' = PaymentsOf(o)
      /\ \A user : Credited(o, user)' = Credited(o, user)
  BY DEF DeliveriesOf, PaymentsOf, Credited
<1>2. Approved(o)' = Approved(o)
  BY <1>1 DEF Approved
<1>3. Synced(o)' = Synced(o)
  BY <1>1 DEF Synced
<1>4. PaidOff(o)' = PaidOff(o)
  BY <1>1, <1>2 DEF PaidOff
<1>5. CashComesLast(o)' = CashComesLast(o)
  BY <1>1 DEF CashComesLast
<1> QED
  BY <1>3, <1>4, <1>5 DEF Placed, OrderRests

LEMMA SameStands ==
  ASSUME UNCHANGED <<orders, payments, ledger, deliveries, profiles>>, NEW r, Stands(r)
  PROVE  Stands(r)'
<1>1. \A o : /\ DeliveriesOf(o)' = DeliveriesOf(o) /\ PaymentsOf(o)' = PaymentsOf(o)
             /\ \A user : Credited(o, user)' = Credited(o, user)
  BY DEF DeliveriesOf, PaymentsOf, Credited
<1>2. \A c : HasJob(c)' = HasJob(c)
  BY DEF HasJob
<1>3. AsStored(r)' /\ AboutStatus(r)'
  BY <1>1 DEF Stands, AsStored, AboutStatus
<1>4. AboutPayment(r)' /\ AboutCourier(r)'
  BY <1>1, <1>2 DEF Stands, AboutPayment, AboutCourier
<1>5. ASSUME NEW o \in OrderIds, Placed(o)' PROVE OrderStands(o, r)'
  BY <1>5, SameDocuments DEF Stands, OrderStands
<1>6. ASSUME NEW c \in CourierIds PROVE CourierStands(c, r)'
  BY <1>2 DEF Stands, CourierStands, Busy
<1> QED
  BY <1>3, <1>4, <1>5, <1>6 DEF Stands

-----------------------------------------------------------------------------
(* The steps of the contract *)

LEMMA ContractRests ==
  ASSUME UNCHANGED <<orders, ledger>>
  PROVE  ContractStep
BY DEF ContractStep, Contract!vars, Placed, Credited

SerialGood == SerialInv' /\ ContractStep

LEMMA SerialRead ==
  ASSUME Serial, IsolatedInv, IsolatedInv', NEW s \in Slots, NEW r, Goto(s, r), Stands(r),
         UNCHANGED <<orders, payments, ledger, deliveries, profiles>>
  PROVE  SerialGood
<1>1. req'[s] = r
  BY GotoHolds DEF IsolatedInv
<1> QED
  BY <1>1, SameStands, SerialStep, ContractRests DEF SerialGood

\* Where an order may go from its status.
Later(status) ==
  CASE status = "pending"   -> {"accepted", "cancelled"}
    [] status = "accepted"  -> {"preparing", "cancelled"}
    [] status = "preparing" -> {"ready", "cancelled"}
    [] status = "ready"     -> {"cancelled"}
    [] status = "assigned"  -> {"picked_up"}
    [] status = "picked_up" -> {"delivered"}
    [] OTHER                -> {}

\* One order is written, and goes where the contract lets it go.
LEMMA OrderMoves ==
  ASSUME IsolatedInv, IsolatedInv', UNCHANGED ledger, NEW x \in OrderIds, NEW doc \in Order,
         orders' = SaveInto(orders, x, doc),
         \/ orders[x] = None /\ doc.status = "pending" /\ doc.collaborator = None
         \/ /\ orders[x] # None /\ doc.method = orders[x].method
            /\ \/ /\ doc.collaborator = orders[x].collaborator
                  /\ doc.status \in Later(orders[x].status) \cup {orders[x].status}
               \/ /\ orders[x].status = "ready" /\ doc.status = "assigned"
                  /\ doc.collaborator \in CourierIds
  PROVE  ContractStep
<1>0. orders \in [OrderIds -> Maybe(Order)] /\ doc # None
  BY DocumentAssumption DEF IsolatedInv, Inv, TypeOK, OrdersTypeOK
<1>1. PICK st : st = [o \in OrderIds |-> IF Placed(o) THEN orders[o].status ELSE "none"]
  OBVIOUS
<1>2. PICK ca : ca = [o \in OrderIds |-> Placed(o) /\ orders[o].method = "cash"]
  OBVIOUS
<1>3. PICK co : co = [o \in OrderIds |-> IF Placed(o) THEN orders[o].collaborator ELSE None]
  OBVIOUS
<1>4. [o \in OrderIds |-> IF Placed(o) THEN orders[o].status ELSE "none"]'
        = [st EXCEPT ![x] = doc.status]
  BY <1>0, <1>1 DEF Placed, SaveInto
<1>5. [o \in OrderIds |-> Placed(o) /\ orders[o].method = "cash"]'
        = [ca EXCEPT ![x] = (doc.method = "cash")]
  BY <1>0, <1>2 DEF Placed, SaveInto
<1>6. [o \in OrderIds |-> IF Placed(o) THEN orders[o].collaborator ELSE None]'
        = [co EXCEPT ![x] = doc.collaborator]
  BY <1>0, <1>3 DEF Placed, SaveInto
<1>7. [o \in OrderIds |-> Credited(o, "seller") > 0]' = [o \in OrderIds |-> Credited(o, "seller") > 0]
  BY DEF Credited
<1>8. CASE orders[x] = None
  <2>1. st[x] = "none" /\ co[x] = None /\ (doc.method = "cash") \in BOOLEAN
    BY <1>1, <1>3, <1>8 DEF Placed
  <2>2. [co EXCEPT ![x] = doc.collaborator] = co
    BY <1>3, <1>8, <2>1
  <2>3. Contract!Place(x)
    BY <1>1, <1>2, <1>3, <1>4, <1>5, <1>6, <1>7, <1>8, <2>1, <2>2
    DEF Contract!Place, Contract!Move
  <2> QED
    BY <2>3 DEF ContractStep, Contract!Next
<1>9. CASE orders[x] # None
  <2>1. /\ st[x] = orders[x].status /\ co[x] = orders[x].collaborator
        /\ ca[x] = (orders[x].method = "cash")
    BY <1>1, <1>2, <1>3, <1>9 DEF Placed
  <2>2. [ca EXCEPT ![x] = (doc.method = "cash")] = ca
    BY <1>2, <1>9, <2>1
  <2>3. CASE /\ doc.collaborator = orders[x].collaborator
            /\ doc.status \in Later(orders[x].status) \cup {orders[x].status}
    <3>1. [co EXCEPT ![x] = doc.collaborator] = co
      BY <1>3, <2>1, <2>3
    <3>2. CASE doc.status = orders[x].status
      <4>1. [st EXCEPT ![x] = doc.status] = st
        BY <1>1, <2>1, <3>2
      <4> QED
        BY <1>1, <1>2, <1>3, <1>4, <1>5, <1>6, <1>7, <2>2, <3>1, <4>1
        DEF ContractStep, Contract!vars
    <3>3. CASE doc.status \in {"accepted", "preparing", "ready"} /\ doc.status \in Later(orders[x].status)
      <4>1. Contract!Prepare(x)
        BY <1>1, <1>2, <1>3, <1>4, <1>5, <1>6, <1>7, <2>1, <2>2, <3>1, <3>3
        DEF Contract!Prepare, Contract!Move, Later
      <4> QED
        BY <4>1 DEF ContractStep, Contract!Next
    <3>4. CASE doc.status \in {"picked_up", "delivered"} /\ doc.status \in Later(orders[x].status)
      <4>1. Contract!Carry(x)
        BY <1>1, <1>2, <1>3, <1>4, <1>5, <1>6, <1>7, <2>1, <2>2, <3>1, <3>4
        DEF Contract!Carry, Contract!Move, Later
      <4> QED
        BY <4>1 DEF ContractStep, Contract!Next
    <3>5. CASE doc.status = "cancelled" /\ doc.status \in Later(orders[x].status)
      <4>0. orders[x].status \in {"pending", "accepted", "preparing", "ready"}
        BY <3>5 DEF Later
      <4>1. Contract!Cancel(x)
        BY <1>1, <1>2, <1>3, <1>4, <1>5, <1>6, <1>7, <2>1, <2>2, <3>1, <3>5, <4>0
        DEF Contract!Cancel, Contract!Move, Contract!InStore
      <4> QED
        BY <4>1 DEF ContractStep, Contract!Next
    <3> QED
      BY <2>3, <3>2, <3>3, <3>4, <3>5 DEF Later
  <2>4. CASE orders[x].status = "ready" /\ doc.status = "assigned" /\ doc.collaborator \in CourierIds
    <3>1. Contract!Assign(x, doc.collaborator)
      BY <1>1, <1>2, <1>3, <1>4, <1>5, <1>6, <1>7, <2>1, <2>2, <2>4
      DEF Contract!Assign, Contract!Move
    <3> QED
      BY <2>4, <3>1 DEF ContractStep, Contract!Next
  <2> QED
    BY <1>9, <2>3, <2>4
<1> QED
  BY <1>8, <1>9

\* One order is written; the others rest.
LEMMA SerialOrderWrite ==
  ASSUME Serial, IsolatedInv, IsolatedInv', NEW s \in Slots, NEW r, Goto(s, r),
         NEW x \in OrderIds, NEW doc, orders' = SaveInto(orders, x, doc),
         UNCHANGED <<payments, ledger, deliveries, profiles>>,
         \A o \in OrderIds : o # x /\ Placed(o) => OrderRests(o),
         OrderStands(x, r)',
         \A c \in CourierIds : Busy(c) => HasJob(c) \/ Frees(r, c),
         (AsStored(r) /\ AboutStatus(r) /\ AboutPayment(r) /\ AboutCourier(r))',
         ContractStep
  PROVE  SerialGood
<1>1. req'[s] = r
  BY GotoHolds DEF IsolatedInv
<1>2. \A c : HasJob(c)' = HasJob(c)
  BY DEF HasJob
<1>3. ASSUME NEW o \in OrderIds, Placed(o)' PROVE OrderStands(o, r)'
  <2>1. CASE o = x
    BY <2>1
  <2>2. CASE o # x
    <3>1. orders'[o] = orders[o]
      BY <2>2 DEF SaveInto, IsolatedInv, Inv, TypeOK, OrdersTypeOK
    <3>2. OrderRests(o)'
      BY <1>3, <2>2, <3>1, SameDocuments
    <3> QED
      BY <3>2 DEF OrderRests, OrderStands
  <2> QED
    BY <2>1, <2>2
<1>4. ASSUME NEW c \in CourierIds PROVE CourierStands(c, r)'
  BY <1>2 DEF CourierStands, Busy
<1>5. Stands(r)'
  BY <1>3, <1>4 DEF Stands
<1> QED
  BY <1>1, <1>5, SerialStep DEF SerialGood

\* The request ends, and everything rests.
LEMMA SerialOrderEnds ==
  ASSUME Serial, IsolatedInv, IsolatedInv', NEW s \in Slots, Finish(s),
         NEW x \in OrderIds, NEW doc, orders' = SaveInto(orders, x, doc),
         UNCHANGED <<payments, ledger, deliveries, profiles>>,
         \A o \in OrderIds : o # x /\ Placed(o) => OrderRests(o),
         OrderRests(x)',
         \A c \in CourierIds : Busy(c) => HasJob(c),
         ContractStep
  PROVE  SerialGood
<1>1. (AsStored(Idle) /\ AboutStatus(Idle) /\ AboutPayment(Idle) /\ AboutCourier(Idle))'
  BY DEF Idle, AsStored, AboutStatus, AboutPayment, AboutCourier, OrderLabels
<1>2. OrderStands(x, Idle)'
  BY DEF OrderRests, OrderStands
<1> QED
  BY <1>1, <1>2, SerialOrderWrite DEF Finish

-----------------------------------------------------------------------------
(* Orders and catalogue *)

LEMMA SlotStands ==
  ASSUME SerialInv, NEW s \in Slots
  PROVE  /\ Stands(req[s]) /\ IsolatedInv /\ Inv
         /\ req[s] \in Request /\ RequestInv(req[s]) /\ Undisturbed(req[s])
         /\ orders \in [OrderIds -> Maybe(Order)]
BY DEF SerialInv, IsolatedInv, Inv, TypeOK, RequestsTypeOK, OrdersTypeOK

LEMMA StoredOrder ==
  ASSUME Inv, NEW o \in OrderIds, orders[o] # None
  PROVE  orders[o] \in Order
BY DEF Inv, TypeOK, OrdersTypeOK, Maybe

\* An order that is not on its way has no delivery.
LEMMA InStoreIsAlone ==
  ASSUME Inv, NEW o, Synced(o), orders[o].status \notin OnItsWay
  PROVE  DeliveriesOf(o) = {}
BY DEF Synced, Milestone, OnItsWay, DeliveriesOf, Inv, TypeOK, DeliveriesTypeOK, Maybe,
       Delivery, DeliveryStatus

\* A document that differs in its status only, within the store.
LEMMA RestsInStore ==
  ASSUME Inv, NEW o \in OrderIds, Placed(o), OrderRests(o), NEW doc \in Order,
         orders' = SaveInto(orders, o, doc), UNCHANGED <<payments, ledger, deliveries>>,
         SameTerms(doc, orders[o]), doc.collaborator = orders[o].collaborator,
         doc.payment = orders[o].payment,
         orders[o].status \notin OnItsWay, doc.status \notin OnItsWay
  PROVE  OrderRests(o)'
<1>1. /\ DeliveriesOf(o)' = DeliveriesOf(o) /\ PaymentsOf(o)' = PaymentsOf(o)
      /\ \A user : Credited(o, user)' = Credited(o, user)
  BY DEF DeliveriesOf, PaymentsOf, Credited
<1>2. Approved(o)' = Approved(o)
  BY <1>1 DEF Approved
<1>3. orders'[o] = doc
  BY DEF SaveInto, Inv, TypeOK, OrdersTypeOK
<1>4. Synced(o)'
  BY <1>1, <1>3, InStoreIsAlone DEF Synced, OrderRests
<1>5. PaidOff(o)'
  <2>1. Earners(doc) = Earners(orders[o])
    BY DEF Earners, SameTerms
  <2> QED
    BY <1>1, <1>2, <1>3, <2>1 DEF PaidOff, OrderRests, OnItsWay, SameTerms
<1>6. CashComesLast(o)'
  BY <1>1, <1>3 DEF CashComesLast, OrderRests, OnItsWay, SameTerms
<1> QED
  BY <1>4, <1>5, <1>6 DEF OrderRests

LEMMA InsertOrderSerial ==
  ASSUME Serial, SerialInv, IsolatedInv', NEW s \in Slots, InsertOrder(s), UNCHANGED RestOfOrders
  PROVE  SerialGood
<1>1. PICK x \in OrderIds : orders[x] = None /\ orders' = SaveInto(orders, x, req[s].order)
  BY DEF InsertOrder
<1>2. /\ req[s].order \in Order /\ req[s].order.status = "pending"
      /\ req[s].order.collaborator = None
  BY SlotStands DEF InsertOrder, At, RequestInv
<1>3. orders'[x] = req[s].order
  BY <1>1, SlotStands DEF SaveInto
<1>4. DeliveriesOf(x)' = {} /\ PaymentsOf(x)' = {}
  BY <1>1, SlotStands
  DEF DeliveriesOf, PaymentsOf, Inv, CollectionsInv, DeliveriesArePlaced, PaymentFitsOrder,
      Placed, RestOfOrders
<1>5. OrderRests(x)'
  BY <1>2, <1>3, <1>4 DEF OrderRests, Synced, PaidOff, Approved, CashComesLast, OnItsWay
<1>6. Resting
  BY SlotStands, RequestRests DEF InsertOrder, At, SyncLabels, SettleLabels, FreeLabels
<1>7. ContractStep
  BY <1>1, <1>2, SlotStands, OrderMoves DEF RestOfOrders
<1> QED
  BY <1>1, <1>5, <1>6, <1>7, SlotStands, SerialOrderEnds DEF Resting, InsertOrder, RestOfOrders

\* A request saves its order, which stays in the store.
LEMMA SaveInStore ==
  ASSUME Serial, SerialInv, IsolatedInv', NEW s \in Slots, req[s].pc \in {"save_order", "cancel"},
         NEW doc, doc = RecordStatus(req[s].order, doc.status),
         orders' = SaveInto(orders, req[s].oid, doc), Finish(s),
         UNCHANGED <<payments, ledger, deliveries, profiles>>,
         orders[req[s].oid].status \notin OnItsWay,
         doc.status \in Later(orders[req[s].oid].status), doc.status \notin OnItsWay,
         doc.status \in OrderStatus
  PROVE  SerialGood
<1>0. PICK x : x = req[s].oid
  OBVIOUS
<1>1. x \in OrderIds /\ req[s].order \in Order /\ Placed(x) /\ SameTerms(req[s].order, orders[x])
  BY <1>0, SlotStands DEF RequestInv, HoldsOrder, OrderLabels, Placed
<1>2. /\ doc \in Order /\ SameTerms(doc, orders[x])
      /\ doc.collaborator = req[s].order.collaborator /\ doc.payment = req[s].order.payment
  BY <1>1 DEF RecordStatus, Order, SameTerms
<1>3. /\ doc.collaborator = orders[x].collaborator
      /\ doc.payment = orders[x].payment
  BY <1>0, <1>2, SlotStands DEF Stands, AsStored, OrderLabels
<1>4. Resting
  BY SlotStands, RequestRests DEF SyncLabels, SettleLabels, FreeLabels
<1>5. OrderRests(x)'
  BY <1>0, <1>1, <1>2, <1>3, <1>4, SlotStands, RestsInStore DEF Resting
<1>6. ContractStep
  BY <1>0, <1>1, <1>2, <1>3, SlotStands, OrderMoves DEF SameTerms, Placed
<1> QED
  BY <1>0, <1>1, <1>4, <1>5, <1>6, SlotStands, SerialOrderEnds DEF Resting

LEMMA IdleRests ==
  ASSUME SerialInv, NEW s \in Slots, req[s].pc \in PlainLabels \/ req[s].pc \in {"save_order", "cancel",
           "restock", "check_assigned", "pick", "insert_delivery", "save_payment"}
  PROVE  Resting
BY SlotStands, RequestRests DEF PlainLabels, SyncLabels, SettleLabels, FreeLabels

\* Steps to a label of which Stands asks nothing, that write no document it is about.
LEMMA SerialPlain ==
  ASSUME Serial, SerialInv, IsolatedInv', NEW s \in Slots, NEW r, Goto(s, r),
         r.pc \in PlainLabels, Resting,
         UNCHANGED <<orders, payments, ledger, deliveries, profiles>>
  PROVE  SerialGood
BY SlotStands, PlainStands, SerialRead

LEMMA SerialFinish ==
  ASSUME Serial, SerialInv, IsolatedInv', NEW s \in Slots, Finish(s), Resting,
         UNCHANGED <<orders, payments, ledger, deliveries, profiles>>
  PROVE  SerialGood
BY SerialPlain DEF Finish, Idle, PlainLabels

\* A request that holds the order as it is stored, its status aside.
HoldLabels == {"save_order", "cancel", "restock", "check_assigned", "pick", "insert_delivery"}

LEMMA HolderStands ==
  ASSUME Resting, NEW r, r.pc \in HoldLabels,
         r.order.collaborator = orders[r.oid].collaborator,
         r.order.payment = orders[r.oid].payment,
         r.pc # "save_order" => r.order.status = orders[r.oid].status,
         AboutStatus(r)
  PROVE  Stands(r)
<1>1. AsStored(r)
  BY DEF AsStored, HoldLabels
<1>2. AboutPayment(r)
  BY DEF AboutPayment, HoldLabels
<1>3. AboutCourier(r)
  BY DEF AboutCourier, HoldLabels
<1> QED
  BY <1>1, <1>2, <1>3, RestStands DEF Stands

LEMMA OrdersBeginSerial ==
  ASSUME Serial, SerialInv, IsolatedInv', NEW s \in Slots, OrdersBegin(s), UNCHANGED RestOfOrders
  PROVE  SerialGood
<1> USE DEF RestOfOrders
<1>0. req[s].pc = "idle" => Resting
  BY IdleRests DEF PlainLabels
<1>1. ASSUME NEW cart \in Carts, NEW method \in Methods, NEW fee \in FeeChoices,
             CreateOrder(s, cart, method, fee)
      PROVE  SerialGood
  <2> DEFINE r == [Idle EXCEPT !.pc = "create", !.lines = cart,
                !.order = [status |-> "pending", items |-> cart, method |-> method,
                           fee |-> fee, collaborator |-> None, payment |-> None]]
  <2>1. r.pc = "create"
    BY DEF Idle
  <2> HIDE DEF r
  <2> QED
    BY <1>0, <1>1, <2>1, SerialPlain DEF CreateOrder, Free, PlainLabels, r
<1>2. ASSUME NEW o \in OrderIds, NEW doc, NEW pc \in HoldLabels, NEW lines,
             Free(s, "accept") \/ Free(s, "advance") \/ Free(s, "cancel"), Placed(o),
             doc.collaborator = orders[o].collaborator, doc.payment = orders[o].payment,
             pc # "save_order" => doc.status = orders[o].status,
             pc = "save_order" =>
               \/ orders[o].status = "pending" /\ doc.status = "accepted"
               \/ /\ orders[o].status \in DOMAIN SellerAdvance
                  /\ doc.status = SellerAdvance[orders[o].status],
             pc = "cancel" => doc.status \in Cancellable,
             pc \in {"save_order", "cancel"},
             Goto(s, [Idle EXCEPT !.pc = pc, !.oid = o, !.order = doc, !.lines = lines]),
             UNCHANGED orders
      PROVE  SerialGood
  <2> DEFINE r == [Idle EXCEPT !.pc = pc, !.oid = o, !.order = doc, !.lines = lines]
  <2>1. r.pc = pc /\ r.oid = o /\ r.order = doc
    BY DEF Idle
  <2> HIDE DEF r
  <2>2. AboutStatus(r)
    BY <1>2, <2>1 DEF AboutStatus
  <2>3. Stands(r)
    BY <1>0, <1>2, <2>1, <2>2, HolderStands DEF Free
  <2> QED
    BY <1>2, <2>3, SlotStands, SerialRead DEF r
<1>3. ASSUME NEW o \in OrderIds, AcceptOrder(s, o) PROVE SerialGood
  <2>1. orders[o] \in Order
    BY <1>3, SlotStands, StoredOrder DEF AcceptOrder
  <2>2. PICK doc : doc = RecordStatus(orders[o], "accepted")
    OBVIOUS
  <2>3. /\ doc.status = "accepted" /\ doc.collaborator = orders[o].collaborator
        /\ doc.payment = orders[o].payment
    BY <2>1, <2>2 DEF RecordStatus, Order
  <2>4. [Idle EXCEPT !.pc = "save_order", !.oid = o, !.order = doc]
          = [Idle EXCEPT !.pc = "save_order", !.oid = o, !.order = doc, !.lines = Idle.lines]
    BY IdleIsRequest DEF Request
  <2>5. /\ Free(s, "accept") /\ Placed(o) /\ orders[o].status = "pending"
        /\ Goto(s, [Idle EXCEPT !.pc = "save_order", !.oid = o, !.order = doc, !.lines = Idle.lines])
        /\ UNCHANGED orders
    BY <1>3, <2>2, <2>4 DEF AcceptOrder, Placed
  <2> QED
    BY <1>2, <2>3, <2>5 DEF HoldLabels
<1>4. ASSUME NEW o \in OrderIds, AdvanceOrder(s, o) PROVE SerialGood
  <2>1. orders[o] \in Order
    BY <1>4, SlotStands, StoredOrder DEF AdvanceOrder
  <2>2. PICK doc : doc = RecordStatus(orders[o], SellerAdvance[orders[o].status])
    OBVIOUS
  <2>3. /\ doc.status = SellerAdvance[orders[o].status]
        /\ doc.collaborator = orders[o].collaborator
        /\ doc.payment = orders[o].payment
    BY <2>1, <2>2 DEF RecordStatus, Order
  <2>4. [Idle EXCEPT !.pc = "save_order", !.oid = o, !.order = doc]
          = [Idle EXCEPT !.pc = "save_order", !.oid = o, !.order = doc, !.lines = Idle.lines]
    BY IdleIsRequest DEF Request
  <2>5. /\ Free(s, "advance") /\ Placed(o) /\ orders[o].status \in DOMAIN SellerAdvance
        /\ Goto(s, [Idle EXCEPT !.pc = "save_order", !.oid = o, !.order = doc, !.lines = Idle.lines])
        /\ UNCHANGED orders
    BY <1>4, <2>2, <2>4 DEF AdvanceOrder, Placed
  <2> QED
    BY <1>2, <2>3, <2>5 DEF HoldLabels
<1>5. ASSUME NEW o \in OrderIds, CancelOrder(s, o) PROVE SerialGood
  BY <1>2, <1>5 DEF CancelOrder, HoldLabels, Placed
<1>6. ASSUME NEW p \in ProductIds, EditProduct(s, p) PROVE SerialGood
  <2>1. PICK goods : Goto(s, [Idle EXCEPT !.pc = "save_product", !.product = p, !.goods = goods])
    BY <1>6 DEF EditProduct
  <2>2. [Idle EXCEPT !.pc = "save_product", !.product = p, !.goods = goods].pc = "save_product"
    BY DEF Idle
  <2> QED
    BY <1>0, <1>6, <2>1, <2>2, SerialPlain DEF EditProduct, Free, PlainLabels
<1>7. ASSUME NEW p \in ProductIds, DeleteProduct(s, p) PROVE SerialGood
  <2>1. Goto(s, req[s])
    BY <1>7, SlotStands DEF DeleteProduct, Goto, Inv, TypeOK, RequestsTypeOK
  <2> QED
    BY <1>0, <1>7, <2>1, SerialPlain DEF DeleteProduct, Free, PlainLabels
<1> QED
  BY <1>1, <1>3, <1>4, <1>5, <1>6, <1>7 DEF OrdersBegin

LEMMA OrdersStepSerial ==
  ASSUME Serial, SerialInv, IsolatedInv', NEW s \in Slots, OrdersStep(s), UNCHANGED RestOfOrders
  PROVE  SerialGood
<1> USE DEF RestOfOrders
<1>0. req[s] \in Request
  BY SlotStands
<1>1. CASE ReadLine(s)
  <2>1. PICK lines, taken : \/ Finish(s)
                            \/ Goto(s, [req[s] EXCEPT !.lines = lines, !.taken = taken])
    BY <1>1 DEF ReadLine
  <2>2. [req[s] EXCEPT !.lines = lines, !.taken = taken].pc = "create"
    BY <1>0, <1>1 DEF ReadLine, At, Request
  <2>3. Resting
    BY <1>1, IdleRests DEF ReadLine, At, PlainLabels
  <2> QED
    BY <1>1, <2>1, <2>2, <2>3, SerialFinish, SerialPlain DEF ReadLine, PlainLabels
<1>2. CASE TakeStock(s)
  <2>1. [req[s] EXCEPT !.taken = Tail(@)].pc = "create"
    BY <1>0, <1>2 DEF TakeStock, At, Request
  <2>2. Resting
    BY <1>2, IdleRests DEF TakeStock, At, PlainLabels
  <2> QED
    BY <1>2, <2>1, <2>2, SerialPlain DEF TakeStock, PlainLabels
<1>3. CASE InsertOrder(s)
  BY <1>3, InsertOrderSerial
<1>4. CASE SaveOrder(s)
  <2>1. PICK doc : doc = req[s].order
    OBVIOUS
  <2>2. req[s].pc = "save_order" /\ doc \in Order
    BY <1>4, <2>1, SlotStands DEF SaveOrder, At, RequestInv, HoldsOrder, OrderLabels
  <2>3. doc = RecordStatus(req[s].order, doc.status)
    BY <2>1, <2>2 DEF RecordStatus, Order
  <2>4. /\ orders[req[s].oid].status \notin OnItsWay /\ doc.status \notin OnItsWay
        /\ doc.status \in Later(orders[req[s].oid].status)
        /\ doc.status \in OrderStatus
    BY <2>1, <2>2, SlotStands
    DEF Stands, AboutStatus, SellerAdvance, OnItsWay, Later, OrderStatus
  <2> QED
    BY <1>4, <2>1, <2>2, <2>3, <2>4, SaveInStore DEF SaveOrder
<1>5. CASE ReadStock(s) \/ RestoreStock(s)
  <2>0. PICK pc \in {"restock", "cancel"} : \E goods, lines :
          Goto(s, [req[s] EXCEPT !.pc = pc, !.goods = goods, !.lines = lines])
    <3> DEFINE stored == products[Head(req[s].lines).product]
    <3>0. CASE RestoreStock(s)
      BY <3>0 DEF RestoreStock
    <3>1. CASE ReadStock(s) /\ stored # None /\ stored.stock # None
      <4>1. [req[s] EXCEPT !.pc = "restock", !.goods = stored]
              = [req[s] EXCEPT !.pc = "restock", !.goods = stored, !.lines = req[s].lines]
        BY <1>0 DEF Request
      <4> QED
        BY <3>1, <4>1 DEF ReadStock
    <3>2. CASE ReadStock(s) /\ ~(stored # None /\ stored.stock # None)
      <4>1. [req[s] EXCEPT !.lines = Tail(@)]
              = [req[s] EXCEPT !.pc = "cancel", !.goods = req[s].goods, !.lines = Tail(req[s].lines)]
        BY <1>0, <3>2 DEF Request, ReadStock, At
      <4> QED
        BY <3>2, <4>1 DEF ReadStock
    <3> QED
      BY <1>5, <3>0, <3>1, <3>2, Zenon
  <2>1. PICK goods, lines :
          Goto(s, [req[s] EXCEPT !.pc = pc, !.goods = goods, !.lines = lines])
    BY <2>0
  <2>2. PICK r : r = [req[s] EXCEPT !.pc = pc, !.goods = goods, !.lines = lines]
    OBVIOUS
  <2>3. r.pc \in {"restock", "cancel"} /\ r.oid = req[s].oid /\ r.order = req[s].order
    BY <1>0, <2>2 DEF Request
  <2>4. req[s].pc \in {"restock", "cancel"}
    BY <1>5 DEF ReadStock, RestoreStock, At
  <2>5. /\ r.order.collaborator = orders[r.oid].collaborator
        /\ r.order.payment = orders[r.oid].payment
        /\ r.order.status = orders[r.oid].status
        /\ r.order.status \in Cancellable
    BY <2>3, <2>4, SlotStands DEF Stands, AsStored, AboutStatus, OrderLabels
  <2>6. AboutStatus(r)
    BY <2>3, <2>5 DEF AboutStatus
  <2>7. Stands(r)
    BY <2>3, <2>4, <2>5, <2>6, IdleRests, HolderStands DEF HoldLabels
  <2> QED
    BY <1>5, <2>1, <2>2, <2>7, SlotStands, SerialRead DEF ReadStock, RestoreStock
<1>6. CASE SaveCancelled(s)
  <2>1. PICK doc : doc = RecordStatus(req[s].order, "cancelled")
    OBVIOUS
  <2>2. req[s].pc = "cancel" /\ req[s].order \in Order
    BY <1>6, SlotStands DEF SaveCancelled, At, RequestInv, HoldsOrder, OrderLabels
  <2>3. doc.status = "cancelled"
    BY <2>1, <2>2 DEF RecordStatus, Order
  <2>4. orders[req[s].oid].status \in Cancellable
    BY <2>2, SlotStands DEF Stands, AsStored, AboutStatus, OrderLabels
  <2>5. /\ orders[req[s].oid].status \notin OnItsWay /\ doc.status \notin OnItsWay
        /\ doc.status \in Later(orders[req[s].oid].status)
        /\ doc.status \in OrderStatus
    BY <2>3, <2>4 DEF Cancellable, OnItsWay, Later, OrderStatus
  <2> QED
    BY <1>6, <2>1, <2>2, <2>3, <2>5, SaveInStore DEF SaveCancelled
<1>7. CASE SaveProduct(s)
  BY <1>7, IdleRests, SerialFinish DEF SaveProduct, At, PlainLabels
<1> QED
  BY <1>1, <1>2, <1>3, <1>4, <1>5, <1>6, <1>7 DEF OrdersStep

-----------------------------------------------------------------------------
(* Couriers *)

\* A profile is saved: a courier who is on a delivery has a job.
LEMMA SerialProfileWrite ==
  ASSUME Serial, SerialInv, IsolatedInv', NEW s \in Slots, NEW r, Goto(s, r), r.pc = "idle",
         NEW c \in CourierIds, NEW doc, profiles' = SaveInto(profiles, c, doc),
         doc.availability = "on_delivery" => HasJob(c),
         \A o \in OrderIds : Placed(o) => OrderRests(o),
         \A d \in CourierIds : d # c /\ Busy(d) => HasJob(d),
         UNCHANGED <<orders, payments, ledger, deliveries>>
  PROVE  SerialGood
<1>1. req'[s] = r
  BY SlotStands, GotoHolds
<1>2. \A d \in CourierIds : HasJob(d)' = HasJob(d)
  BY DEF HasJob
<1>3. ASSUME NEW d \in CourierIds, Busy(d)' PROVE HasJob(d)'
  <2>1. profiles \in [CourierIds -> Maybe(Profile)]
    BY SlotStands DEF Inv, TypeOK, CollaboratorsTypeOK
  <2>2. d # c => profiles'[d] = profiles[d]
    BY <2>1 DEF SaveInto
  <2>3. profiles'[c] = doc
    BY <2>1 DEF SaveInto
  <2> QED
    BY <1>2, <1>3, <2>2, <2>3 DEF Busy
<1>4. ASSUME NEW o \in OrderIds, Placed(o)' PROVE OrderRests(o)'
  BY <1>4, SameDocuments
<1>5. Resting'
  BY <1>3, <1>4 DEF Resting
<1>6. (AsStored(r) /\ AboutStatus(r) /\ AboutPayment(r) /\ AboutCourier(r))'
  BY DEF AsStored, AboutStatus, AboutPayment, AboutCourier, OrderLabels
<1>7. (\A o \in OrderIds : Placed(o) => OrderStands(o, r))'
  BY <1>5 DEF Resting, OrderRests, OrderStands
<1>8. (\A d \in CourierIds : CourierStands(d, r))'
  BY <1>5 DEF Resting, CourierStands, Busy
<1>9. Stands(r)'
  BY <1>6, <1>7, <1>8 DEF Stands
<1> QED
  BY <1>1, <1>9, SerialStep, ContractRests DEF SerialGood

\* A request that is about to save a profile.
LEMMA ProfileStands ==
  ASSUME NEW r, r.pc = "save_profile", r.profile.availability = "on_delivery" => HasJob(r.cid),
         \A o \in OrderIds : Placed(o) => OrderRests(o),
         \A c \in CourierIds : c # r.cid /\ Busy(c) => HasJob(c)
  PROVE  Stands(r)
<1>1. AsStored(r) /\ AboutStatus(r) /\ AboutPayment(r) /\ AboutCourier(r)
  BY DEF AsStored, AboutStatus, AboutPayment, AboutCourier, OrderLabels
<1>2. \A o \in OrderIds : Placed(o) => OrderStands(o, r)
  BY DEF OrderRests, OrderStands
<1>3. \A c \in CourierIds : CourierStands(c, r)
  BY DEF CourierStands, Frees, Busy
<1> QED
  BY <1>1, <1>2, <1>3 DEF Stands

\* A profile was read, and is saved next.
LEMMA ProfileRead ==
  ASSUME Serial, SerialInv, IsolatedInv', NEW s \in Slots, NEW c \in CourierIds, NEW doc,
         Goto(s, [Idle EXCEPT !.pc = "save_profile", !.cid = c, !.profile = doc]),
         doc.availability = "on_delivery" => HasJob(c),
         \A o \in OrderIds : Placed(o) => OrderRests(o),
         \A d \in CourierIds : d # c /\ Busy(d) => HasJob(d),
         UNCHANGED <<orders, payments, ledger, deliveries, profiles>>
  PROVE  SerialGood
<1>1. PICK r : r = [Idle EXCEPT !.pc = "save_profile", !.cid = c, !.profile = doc]
  OBVIOUS
<1>2. r.pc = "save_profile" /\ r.cid = c /\ r.profile = doc
  BY <1>1 DEF Idle
<1>3. Stands(r)
  BY <1>2, ProfileStands
<1> QED
  BY <1>1, <1>3, SlotStands, SerialRead

LEMMA CollaboratorsSerial ==
  ASSUME Serial, SerialInv, IsolatedInv', NEW s \in Slots,
         CollaboratorsBegin(s) \/ CollaboratorsStep(s),
         UNCHANGED <<orders, products, payments, ledger, deliveries>>
  PROVE  SerialGood
<1>0. req[s].pc = "idle" => Resting
  BY IdleRests DEF PlainLabels
<1>1. ASSUME NEW c \in CourierIds, BecomeCollaborator(s, c) PROVE SerialGood
  <2>1. Goto(s, req[s])
    BY <1>1, SlotStands DEF BecomeCollaborator, Goto, Inv, TypeOK, RequestsTypeOK
  <2>2. req[s].pc = "idle"
    BY <1>1 DEF BecomeCollaborator, Free
  <2>3. PICK doc : /\ doc.availability = "offline"
                   /\ profiles' = SaveInto(profiles, c, doc)
    BY <1>1 DEF BecomeCollaborator
  <2> QED
    BY <1>0, <2>1, <2>2, <2>3, SerialProfileWrite DEF Resting
<1>2. ASSUME NEW c \in CourierIds, NEW availability \in {"online", "offline"},
             SetAvailability(s, c, availability)
      PROVE  SerialGood
  <2>1. PICK doc : doc = [profiles[c] EXCEPT !.availability = availability,
                                             !.located = (availability = "online")]
    OBVIOUS
  <2>2. profiles[c] \in Profile
    BY <1>2, SlotStands DEF SetAvailability, Inv, TypeOK, CollaboratorsTypeOK, Maybe
  <2>3. doc.availability = availability
    BY <2>1, <2>2 DEF Profile
  <2>4. Resting
    BY <1>0, <1>2 DEF SetAvailability, Free
  <2> QED
    BY <1>2, <2>1, <2>3, <2>4, ProfileRead DEF SetAvailability, Resting
<1>3. ASSUME NEW c \in CourierIds, NEW verdict \in BOOLEAN, Verify(s, c, verdict)
      PROVE  SerialGood
  <2>1. PICK doc : doc = [profiles[c] EXCEPT !.approved = verdict]
    OBVIOUS
  <2>2. profiles[c] \in Profile /\ profiles[c] # None
    BY <1>3, SlotStands DEF Verify, Inv, TypeOK, CollaboratorsTypeOK, Maybe
  <2>3. doc.availability = profiles[c].availability
    BY <2>1, <2>2 DEF Profile
  <2>4. Resting
    BY <1>0, <1>3 DEF Verify, Free
  <2>5. doc.availability = "on_delivery" => HasJob(c)
    BY <2>2, <2>3, <2>4 DEF Resting, Busy
  <2> QED
    BY <1>3, <2>1, <2>4, <2>5, ProfileRead DEF Verify, Resting
<1>4. CASE SaveProfile(s)
  <2>1. PICK c, doc : c = req[s].cid /\ doc = req[s].profile
    OBVIOUS
  <2>2. req[s].pc = "save_profile" /\ c \in CourierIds
    BY <1>4, <2>1, SlotStands DEF SaveProfile, At, RequestInv, HoldsProfile, ProfileLabels
  <2>3. doc.availability = "on_delivery" => HasJob(c)
    BY <2>1, <2>2, SlotStands DEF Stands, AboutCourier
  <2>4. \A o \in OrderIds : Placed(o) => OrderRests(o)
    BY <2>2, SlotStands, OrdersRest DEF OrderRests, SyncLabels, SettleLabels
  <2>5. \A d \in CourierIds : d # c /\ Busy(d) => HasJob(d)
    BY <2>1, <2>2, SlotStands DEF Stands, CourierStands, Frees, Busy
  <2>6. Idle.pc = "idle"
    BY DEF Idle
  <2> QED
    BY <1>4, <2>1, <2>2, <2>3, <2>4, <2>5, <2>6, SerialProfileWrite DEF SaveProfile, Finish
<1> QED
  BY <1>1, <1>2, <1>3, <1>4 DEF CollaboratorsBegin, CollaboratorsStep

-----------------------------------------------------------------------------
(* Payments *)

LEMMA PaymentsAreTyped ==
  ASSUME Inv
  PROVE  payments \in [PaymentIds -> Maybe(Payment)]
BY DEF Inv, TypeOK, PaymentsTypeOK

\* A payment of order x is written: nothing changes for the others.
LEMMA OtherPayments ==
  ASSUME Inv, NEW p \in PaymentIds, NEW x, NEW doc \in Payment, doc.order = x,
         payments' = SaveInto(payments, p, doc), payments[p] = None \/ payments[p].order = x,
         UNCHANGED <<orders, ledger, deliveries>>, NEW o, o # x
  PROVE  Placed(o)' = Placed(o) /\ OrderRests(o)' = OrderRests(o)
<1>1. /\ DeliveriesOf(o)' = DeliveriesOf(o)
      /\ \A user : Credited(o, user)' = Credited(o, user)
  BY DEF DeliveriesOf, Credited
<1>2. /\ payments'[p] = doc
      /\ \A q \in PaymentIds : q # p => payments'[q] = payments[q]
  BY PaymentsAreTyped DEF SaveInto
<1>3. PaymentsOf(o)' = PaymentsOf(o) /\ p \notin PaymentsOf(o)
  BY <1>2 DEF PaymentsOf
<1>4. Approved(o)' = Approved(o)
  BY <1>2, <1>3 DEF Approved, PaymentsOf
<1>5. Synced(o)' = Synced(o)
  BY <1>1 DEF Synced
<1>6. PaidOff(o)' = PaidOff(o) /\ CashComesLast(o)' = CashComesLast(o)
  BY <1>1, <1>3, <1>4 DEF PaidOff, CashComesLast
<1> QED
  BY <1>5, <1>6 DEF Placed, OrderRests

LEMMA SerialPaymentWrite ==
  ASSUME Serial, SerialInv, IsolatedInv', NEW s \in Slots, NEW r, Goto(s, r),
         NEW p \in PaymentIds, NEW x \in OrderIds, NEW doc \in Payment, doc.order = x,
         payments' = SaveInto(payments, p, doc), payments[p] = None \/ payments[p].order = x,
         UNCHANGED <<orders, ledger, deliveries, profiles>>,
         \A o \in OrderIds : o # x /\ Placed(o) => OrderRests(o),
         OrderStands(x, r)',
         \A c \in CourierIds : Busy(c) => HasJob(c) \/ Frees(r, c),
         (AsStored(r) /\ AboutStatus(r) /\ AboutPayment(r) /\ AboutCourier(r))'
  PROVE  SerialGood
<1>1. req'[s] = r
  BY SlotStands, GotoHolds
<1>2. \A c : HasJob(c)' = HasJob(c)
  BY DEF HasJob
<1>3. ASSUME NEW o \in OrderIds, Placed(o)' PROVE OrderStands(o, r)'
  <2>1. CASE o # x
    BY <1>3, <2>1, SlotStands, OtherPayments DEF OrderRests, OrderStands
  <2> QED
    BY <2>1
<1>4. ASSUME NEW c \in CourierIds PROVE CourierStands(c, r)'
  BY <1>2 DEF CourierStands, Busy
<1>5. Stands(r)'
  BY <1>3, <1>4 DEF Stands
<1> QED
  BY <1>1, <1>5, SerialStep, ContractRests DEF SerialGood

LEMMA EndStands ==
  ASSUME NEW r, r.pc = "idle"
  PROVE  (AsStored(r) /\ AboutStatus(r) /\ AboutPayment(r) /\ AboutCourier(r))'
BY DEF AsStored, AboutStatus, AboutPayment, AboutCourier, OrderLabels

LEMMA SyncedIsKept ==
  ASSUME UNCHANGED <<orders, deliveries>>, NEW o
  PROVE  Synced(o)' = Synced(o)
BY DEF Synced, DeliveriesOf

LEMMA PaymentsBeginSerial ==
  ASSUME Serial, SerialInv, IsolatedInv', NEW s \in Slots, PaymentsBegin(s), UNCHANGED RestOfPayments
  PROVE  SerialGood
<1> USE DEF RestOfPayments
<1>0. req[s].pc = "idle" => Resting
  BY IdleRests DEF PlainLabels
<1>1. ASSUME NEW o \in OrderIds, CreateIntent(s, o) PROVE SerialGood
  <2>1. [Idle EXCEPT !.pc = "check_intent", !.oid = o].pc = "check_intent"
    BY DEF Idle
  <2> QED
    BY <1>0, <1>1, <2>1, SerialPlain DEF CreateIntent, Free, PlainLabels
<1>2. ASSUME NEW p \in PaymentIds, NEW outcome \in {"approved", "declined"}, Webhook(s, p, outcome)
      PROVE  SerialGood
  <2>1. PICK r : r = [Idle EXCEPT !.pc = "save_payment", !.pid = p,
                                  !.payment = [payments[p] EXCEPT !.status = outcome]]
    OBVIOUS
  <2>2. payments[p] \in Payment /\ payments[p].method = "wompi"
    BY <1>2, SlotStands, PaymentsAreTyped DEF Webhook, Maybe
  <2>3. r.pc = "save_payment" /\ r.payment.method = "wompi"
    BY <2>1, <2>2 DEF Idle, Payment
  <2>4. AsStored(r) /\ AboutStatus(r) /\ AboutPayment(r) /\ AboutCourier(r)
    BY <2>3 DEF AsStored, AboutStatus, AboutPayment, AboutCourier, OrderLabels
  <2>5. Stands(r)
    BY <1>0, <1>2, <2>4, RestStands DEF Stands, Webhook, Free
  <2> QED
    BY <1>2, <2>1, <2>5, SlotStands, SerialRead DEF Webhook
<1> QED
  BY <1>1, <1>2 DEF PaymentsBegin

LEMMA InsertIntentSerial ==
  ASSUME Serial, SerialInv, IsolatedInv', NEW s \in Slots, InsertIntent(s), UNCHANGED RestOfPayments
  PROVE  SerialGood
<1>1. PICK x : x = req[s].oid
  OBVIOUS
<1>2. /\ x \in OrderIds /\ orders[x] # None /\ orders[x].method = "wompi"
      /\ PaymentsOf(x) = {}
  BY <1>1, SlotStands DEF InsertIntent, At, RequestInv, Undisturbed
<1>3. PICK p, doc :
        /\ p \in PaymentIds
        /\ doc = [order |-> x, method |-> "wompi", status |-> "pending"]
        /\ payments[p] = None /\ payments' = SaveInto(payments, p, doc)
  BY <1>1 DEF InsertIntent
<1>4. doc \in Payment /\ doc.order = x /\ doc.status = "pending"
  BY <1>2, <1>3 DEF Payment, Methods, PaymentStatus
<1>5. Resting
  BY IdleRests DEF InsertIntent, At, PlainLabels
<1>6. UNCHANGED <<orders, ledger, deliveries, profiles>>
  BY DEF InsertIntent, RestOfPayments
<1>7. ~Approved(x)'
  <2>1. \A q \in PaymentsOf(x)' : q = p
    BY <1>2, <1>3, SlotStands, PaymentsAreTyped DEF PaymentsOf, SaveInto
  <2>2. payments'[p] = doc
    BY <1>3, SlotStands, PaymentsAreTyped DEF SaveInto
  <2> QED
    BY <1>4, <2>1, <2>2 DEF Approved
<1>8. OrderStands(x, Idle)'
  BY <1>2, <1>5, <1>6, <1>7, SyncedIsKept
  DEF OrderStands, PaidOff, CashComesLast, Resting, OrderRests, Placed
<1>9. Idle.pc = "idle"
  BY DEF Idle
<1> QED
  BY <1>2, <1>3, <1>4, <1>5, <1>6, <1>8, <1>9, EndStands, SerialPaymentWrite
  DEF InsertIntent, Finish, Resting

LEMMA SavePaymentSerial ==
  ASSUME Serial, SerialInv, IsolatedInv', NEW s \in Slots, SavePayment(s), UNCHANGED RestOfPayments
  PROVE  SerialGood
<1>1. PICK p, doc, x : p = req[s].pid /\ doc = req[s].payment /\ x = doc.order
  OBVIOUS
<1>2. /\ p \in PaymentIds /\ doc \in Payment /\ x \in OrderIds
      /\ payments[p] # None /\ payments[p].order = x
      /\ orders[x] # None /\ doc.method = "wompi" /\ orders[x].method = "wompi"
      /\ req[s].pc = "save_payment"
  BY <1>1, SlotStands
  DEF SavePayment, At, RequestInv, HoldsPayment, PaymentLabels, Stands, AboutPayment, Payment
<1>3. payments' = SaveInto(payments, p, doc)
  BY <1>1 DEF SavePayment
<1>4. Resting
  BY <1>2, IdleRests
<1>5. UNCHANGED <<orders, ledger, deliveries, profiles>>
  BY DEF SavePayment, RestOfPayments
<1>6. CASE doc.status = "approved"
  <2>1. PICK r : r = [req[s] EXCEPT !.pc = "load_paid"]
    OBVIOUS
  <2>2. r.pc = "load_paid" /\ r.payment = doc /\ Goto(s, r)
    BY <1>1, <1>6, <2>1, SlotStands DEF SavePayment, Request
  <2>3. (AsStored(r) /\ AboutStatus(r) /\ AboutPayment(r) /\ AboutCourier(r))'
    BY <1>2, <2>2 DEF AsStored, AboutStatus, AboutPayment, AboutCourier, OrderLabels
  <2>4. OrderStands(x, r)'
    BY <1>1, <1>2, <1>4, <1>5, <2>2, SyncedIsKept
    DEF OrderStands, Settles, CashComesLast, Resting, OrderRests, Placed
  <2> QED
    BY <1>1, <1>2, <1>3, <1>4, <1>5, <2>2, <2>3, <2>4, SerialPaymentWrite DEF Resting
<1>7. CASE doc.status # "approved"
  <2>1. \A q \in PaymentsOf(x)' : q = p
    <3>1. OrderInv(x) /\ p \in PaymentsOf(x)
      BY <1>2, SlotStands DEF IsolatedInv, PaymentsOf
    <3> QED
      BY <1>3, <3>1, SlotStands, PaymentsAreTyped DEF OrderInv, PaymentsOf, SaveInto
  <2>2. payments'[p] = doc
    BY <1>2, <1>3, SlotStands, PaymentsAreTyped DEF SaveInto
  <2>3. ~Approved(x)'
    BY <1>7, <2>1, <2>2 DEF Approved
  <2>4. OrderStands(x, Idle)'
    BY <1>2, <1>4, <1>5, <2>3, SyncedIsKept
    DEF OrderStands, PaidOff, CashComesLast, Resting, OrderRests, Placed
  <2>5. Idle.pc = "idle" /\ Goto(s, Idle)
    BY <1>1, <1>7 DEF Idle, SavePayment, Finish
  <2> QED
    BY <1>1, <1>2, <1>3, <1>4, <1>5, <2>4, <2>5, EndStands, SerialPaymentWrite DEF Resting
<1> QED
  BY <1>6, <1>7

\* While an order is settled every order is where its delivery is, and the
\* others are settled.
LEMMA SettlementStands ==
  ASSUME SerialInv, NEW s \in Slots, req[s].pc \in SettleLabels,
         NEW x, x = IF req[s].pc = "load_paid" THEN req[s].payment.order ELSE req[s].oid
  PROVE  /\ \A o \in OrderIds : Placed(o) => Synced(o) /\ CashComesLast(o)
         /\ \A o \in OrderIds : o # x /\ Placed(o) => OrderRests(o)
         /\ \A c \in CourierIds : Busy(c) => HasJob(c) \/ Frees(req[s], c)
<1>1. Stands(req[s])
  BY SlotStands
<1>2. \A o \in OrderIds : Placed(o) => Synced(o) /\ CashComesLast(o)
  BY <1>1, OrdersRest DEF SyncLabels, SettleLabels
<1>3. \A o \in OrderIds : o # x /\ Placed(o) => PaidOff(o)
  BY <1>1 DEF Stands, OrderStands, Settles, SettleLabels
<1>4. \A c \in CourierIds : Busy(c) => HasJob(c) \/ Frees(req[s], c)
  BY <1>1 DEF Stands, CourierStands, Busy
<1> QED
  BY <1>2, <1>3, <1>4 DEF OrderRests

LEMMA LoadPaidOrderSerial ==
  ASSUME Serial, SerialInv, IsolatedInv', NEW s \in Slots, LoadPaidOrder(s), UNCHANGED RestOfPayments
  PROVE  SerialGood
<1>1. PICK p, x, doc, r :
        /\ p = req[s].pid /\ x = req[s].payment.order
        /\ doc = [orders[x] EXCEPT !.payment = p]
        /\ r = [req[s] EXCEPT !.pc = "save_paid", !.oid = x, !.order = doc]
  OBVIOUS
<1>2. /\ req[s].pc = "load_paid" /\ req[s] \in Request
      /\ p \in PaymentIds /\ payments[p] # None /\ payments[p].order = x
      /\ x \in OrderIds /\ orders[x] \in Order
      /\ req[s].payment.method = "wompi" /\ req[s].delivery = None
  BY <1>1, SlotStands, StoredOrder, Zenon
  DEF LoadPaidOrder, At, RequestInv, HoldsPayment, PaymentLabels, Stands, AboutPayment,
      Undisturbed, Payment
<1>3. req[s].did = None
  BY <1>2, SlotStands, DocumentAssumption DEF RequestInv, HoldsDelivery
<1>4. /\ doc.status = orders[x].status /\ doc.collaborator = orders[x].collaborator
      /\ doc.payment = p
  BY <1>1, <1>2 DEF Order
<1>5. /\ r.pc = "save_paid" /\ r.oid = x /\ r.order = doc /\ r.did = None
      /\ Goto(s, r)
  BY <1>1, <1>2, <1>3 DEF Request, LoadPaidOrder
<1>6. AsStored(r) /\ AboutStatus(r) /\ AboutCourier(r)
  BY <1>4, <1>5 DEF AsStored, AboutStatus, AboutCourier, OrderLabels
<1>7. AboutPayment(r)
  BY <1>2, <1>4, <1>5 DEF AboutPayment, PaymentsOf
<1>8. \A o \in OrderIds : Placed(o) => OrderStands(o, r)
  BY <1>1, <1>2, <1>5, SettlementStands DEF OrderStands, Settles, SettleLabels, OrderRests
<1>9. \A c \in CourierIds : CourierStands(c, r)
  BY <1>2, SlotStands DEF Stands, CourierStands, Frees
<1>10. Stands(r)
  BY <1>6, <1>7, <1>8, <1>9 DEF Stands
<1> QED
  BY <1>5, <1>10, SlotStands, SerialRead DEF LoadPaidOrder, RestOfPayments

LEMMA CheckPaymentSerial ==
  ASSUME Serial, SerialInv, IsolatedInv', NEW s \in Slots, CheckPayment(s), UNCHANGED RestOfPayments
  PROVE  SerialGood
<1>1. /\ req[s].pc = "check_payment" /\ req[s] \in Request
      /\ PaymentsOf(req[s].oid) = {}
  BY SlotStands DEF CheckPayment, At, Stands, AboutPayment
<1>2. PICK r : r = [req[s] EXCEPT !.pc = "insert_payment"]
  OBVIOUS
<1>3. /\ r.pc = "insert_payment" /\ r.oid = req[s].oid /\ r.order = req[s].order
      /\ r.did = req[s].did /\ r.delivery = req[s].delivery /\ Goto(s, r)
  BY <1>1, <1>2 DEF Request, CheckPayment
<1>4. AsStored(r) /\ AboutStatus(r) /\ AboutPayment(r) /\ AboutCourier(r)
  BY <1>1, <1>3, SlotStands
  DEF Stands, AsStored, AboutStatus, AboutPayment, AboutCourier, OrderLabels
<1>5. \A o \in OrderIds : Placed(o) => OrderStands(o, r)
  BY <1>1, <1>3, SettlementStands DEF OrderStands, Settles, SettleLabels, OrderRests
<1>6. \A c \in CourierIds : CourierStands(c, r)
  BY <1>1, <1>3, SlotStands DEF Stands, CourierStands, Frees
<1>7. Stands(r)
  BY <1>4, <1>5, <1>6 DEF Stands
<1> QED
  BY <1>3, <1>7, SlotStands, SerialRead DEF CheckPayment, RestOfPayments

LEMMA InsertPaymentSerial ==
  ASSUME Serial, SerialInv, IsolatedInv', NEW s \in Slots, InsertPayment(s), UNCHANGED RestOfPayments
  PROVE  SerialGood
<1>1. PICK x : x = req[s].oid
  OBVIOUS
<1>2. /\ req[s].pc = "insert_payment" /\ req[s] \in Request
      /\ x \in OrderIds /\ req[s].order \in Order /\ orders[x] # None
      /\ PaymentsOf(x) = {} /\ orders[x].status = "delivered"
      /\ req[s].order.collaborator = orders[x].collaborator
      /\ req[s].order.status = orders[x].status
  BY <1>1, SlotStands
  DEF InsertPayment, At, RequestInv, HoldsOrder, OrderLabels, Stands, AsStored, AboutPayment
<1>3. PICK p, doc, r :
        /\ p \in PaymentIds
        /\ doc = [order |-> x, method |-> "cash", status |-> "approved"]
        /\ payments[p] = None /\ payments' = SaveInto(payments, p, doc)
        /\ r = [req[s] EXCEPT !.pc = "save_paid", !.payment = doc, !.order = [@ EXCEPT !.payment = p]]
        /\ Goto(s, r)
  BY <1>1 DEF InsertPayment
<1>4. doc \in Payment /\ doc.order = x /\ doc # None
  BY <1>2, <1>3, DocumentAssumption DEF Payment, Methods, PaymentStatus
<1>5. /\ r.pc = "save_paid" /\ r.oid = x
      /\ r.did = req[s].did /\ r.delivery = req[s].delivery
      /\ r.order.payment = p /\ r.order.status = req[s].order.status
      /\ r.order.collaborator = req[s].order.collaborator
  BY <1>1, <1>2, <1>3 DEF Request, Order
<1>6. UNCHANGED <<orders, ledger, deliveries, profiles>>
  BY DEF InsertPayment, RestOfPayments
<1>7. p \in PaymentsOf(x)'
  BY <1>3, <1>4, SlotStands, PaymentsAreTyped DEF PaymentsOf, SaveInto
<1>8. (AsStored(r) /\ AboutStatus(r))'
  BY <1>2, <1>5, <1>6 DEF AsStored, AboutStatus, OrderLabels
<1>9. (AboutPayment(r) /\ AboutCourier(r))'
  BY <1>2, <1>5, <1>7, SlotStands DEF Stands, AboutPayment, AboutCourier
<1>10. OrderStands(x, r)'
  BY <1>1, <1>2, <1>5, <1>6, SettlementStands, SyncedIsKept
  DEF OrderStands, Settles, CashComesLast, SettleLabels, Placed
<1>11. \A o \in OrderIds : o # x /\ Placed(o) => OrderRests(o)
  BY <1>1, <1>2, SettlementStands DEF SettleLabels
<1>12. \A c \in CourierIds : Busy(c) => HasJob(c) \/ Frees(r, c)
  BY <1>1, <1>2, <1>5, SettlementStands DEF SettleLabels, Frees
<1> QED
  BY <1>2, <1>3, <1>4, <1>6, <1>8, <1>9, <1>10, <1>11, <1>12, SerialPaymentWrite

\* Whoever earns is in the lines the settlement writes.
LEMMA EarnersAreListed ==
  ASSUME NEW o, NEW order, NEW settled,
         order.method = "cash" => order.collaborator # None,
         NEW user \in Earners(order)
  PROVE  \E i \in DOMAIN LedgerLines(o, order, settled) :
           LedgerLines(o, order, settled)[i].user = user
<1> DEFINE c == [order |-> o, user |-> order.collaborator, settled |-> TRUE]
           p == [order |-> o, user |-> "platform", settled |-> settled]
           v == [order |-> o, user |-> "seller", settled |-> settled]
<1>1. c.user = order.collaborator /\ p.user = "platform" /\ v.user = "seller"
  OBVIOUS
<1>2. LedgerLines(o, order, settled)
        = IF order.collaborator # None /\ order.fee THEN <<c, p, v>> ELSE <<p, v>>
  BY DEF LedgerLines
<1>3. \/ user \in {"platform", "seller"}
      \/ order.method = "cash" /\ order.fee /\ user = order.collaborator
  BY DEF Earners
<1> HIDE DEF c, p, v
<1> QED
  BY <1>1, <1>2, <1>3

LEMMA SavePaidOrderSerial ==
  ASSUME Serial, SerialInv, IsolatedInv', NEW s \in Slots, SavePaidOrder(s), UNCHANGED RestOfPayments
  PROVE  SerialGood
<1>1. PICK x, doc, lines, r :
        /\ x = req[s].oid /\ doc = req[s].order
        /\ lines = LedgerLines(x, doc, req[s].payment.method = "wompi")
        /\ r = [req[s] EXCEPT !.pc = "ledger", !.order = None, !.payment = None, !.todo = lines]
        /\ Goto(s, r)
  BY DEF SavePaidOrder
<1>2. /\ req[s].pc = "save_paid" /\ req[s] \in Request
      /\ x \in OrderIds /\ doc \in Order /\ orders[x] # None
      /\ SameTerms(doc, orders[x])
      /\ doc.payment \in PaymentsOf(x)
      /\ doc.collaborator = orders[x].collaborator /\ doc.status = orders[x].status
  BY <1>1, SlotStands
  DEF SavePaidOrder, At, RequestInv, HoldsOrder, OrderLabels, Stands, AsStored, AboutPayment
<1>3. /\ r.pc = "ledger" /\ r.oid = x /\ r.todo = lines
      /\ r.did = req[s].did /\ r.delivery = req[s].delivery
  BY <1>1, <1>2 DEF Request
<1>4. /\ orders' = SaveInto(orders, x, doc)
      /\ UNCHANGED <<payments, ledger, deliveries, profiles>>
  BY <1>1 DEF SavePaidOrder, RestOfPayments
<1>5. orders'[x] = doc /\ doc # None
  BY <1>2, <1>4, SlotStands, DocumentAssumption DEF SaveInto
<1>6. /\ DeliveriesOf(x)' = DeliveriesOf(x) /\ PaymentsOf(x)' = PaymentsOf(x)
      /\ \A user : Credited(x, user)' = Credited(x, user)
  BY <1>4 DEF DeliveriesOf, PaymentsOf, Credited
<1>7. Synced(x) /\ CashComesLast(x)
  BY <1>1, <1>2, SettlementStands DEF SettleLabels, Placed
<1>8. Synced(x)' /\ CashComesLast(x)'
  <2>1. Synced(x)'
    BY <1>2, <1>4, <1>5, <1>6, <1>7 DEF Synced
  <2>2. CashComesLast(x)'
    BY <1>2, <1>5, <1>6, <1>7 DEF CashComesLast, SameTerms
  <2> QED
    BY <2>1, <2>2
<1>9. OrderStands(x, r)'
  BY <1>3, <1>8 DEF OrderStands, Settles
<1>10. doc.method = "cash" => doc.collaborator # None
  <2>1. doc.method = "cash" => doc.status = "delivered"
    BY <1>2, <1>7 DEF CashComesLast, SameTerms
  <2> QED
    BY <1>2, <1>7, <2>1 DEF Synced, OnItsWay
<1>11. \A user \in Earners(doc) : \E i \in DOMAIN lines : lines[i].user = user
  BY <1>1, <1>10, EarnersAreListed
<1>12. (AsStored(r) /\ AboutStatus(r) /\ AboutCourier(r))'
  BY <1>2, <1>3, SlotStands DEF Stands, AsStored, AboutStatus, AboutCourier, OrderLabels
<1>13. AboutPayment(r)'
  BY <1>2, <1>3, <1>5, <1>6, <1>11 DEF AboutPayment
<1>14. \A o \in OrderIds : o # x /\ Placed(o) => OrderRests(o)
  BY <1>1, <1>2, SettlementStands DEF SettleLabels
<1>15. \A c \in CourierIds : Busy(c) => HasJob(c) \/ Frees(r, c)
  BY <1>1, <1>2, <1>3, SettlementStands DEF SettleLabels, Frees
<1>16. ContractStep
  BY <1>2, <1>4, SlotStands, OrderMoves DEF SameTerms
<1> QED
  BY <1>1, <1>2, <1>4, <1>9, <1>12, <1>13, <1>14, <1>15, <1>16, SlotStands, SerialOrderWrite

\* Only known users earn.
LEMMA EarnersAreUsers ==
  ASSUME Inv, NEW o \in OrderIds, Placed(o), Synced(o), CashComesLast(o), PaymentsOf(o) # {}
  PROVE  Earners(orders[o]) \subseteq Users
<1>1. orders[o] \in Order
  BY StoredOrder DEF Placed
<1>2. orders[o].method = "cash" => orders[o].collaborator # None
  BY DEF CashComesLast, Synced, OnItsWay
<1> QED
  BY <1>1, <1>2 DEF Earners, Users, Order, Maybe

\* An entry is written: the orders it is not about rest.
LEMMA EntryRests ==
  ASSUME Inv, NEW e \in LedgerEntry, ledger' = [ledger EXCEPT ![e] = @ + 1],
         UNCHANGED <<orders, payments, deliveries>>,
         NEW o \in OrderIds, Placed(o), OrderRests(o), o # e.order
  PROVE  OrderRests(o)'
<1>1. DeliveriesOf(o)' = DeliveriesOf(o) /\ PaymentsOf(o)' = PaymentsOf(o)
  BY DEF DeliveriesOf, PaymentsOf
<1>2. Approved(o)' = Approved(o)
  BY <1>1 DEF Approved
<1>3. Synced(o)' /\ CashComesLast(o)'
  BY <1>1 DEF OrderRests, Synced, CashComesLast
<1>4. ASSUME Approved(o), NEW user \in Earners(orders[o]) PROVE Credited(o, user)' = 1
  <2>1. user \in Users
    BY <1>4, EarnersAreUsers DEF OrderRests, Approved
  <2>2. Credited(o, user)' = Credited(o, user)
    BY <2>1, EntryCredits DEF Inv
  <2> QED
    BY <1>4, <2>2 DEF OrderRests, PaidOff
<1>5. PaidOff(o)'
  BY <1>1, <1>2, <1>4 DEF OrderRests, PaidOff
<1> QED
  BY <1>3, <1>5 DEF OrderRests

\* The seller's first entry books the order; the other entries are not told.
LEMMA EntryBooks ==
  ASSUME Inv, NEW e \in LedgerEntry, ledger' = [ledger EXCEPT ![e] = @ + 1], UNCHANGED orders,
         Credited(e.order, e.user) = 0, Placed(e.order),
         orders[e.order].method = "cash" => orders[e.order].status = "delivered"
  PROVE  ContractStep
<1>1. PICK bk : bk = [o \in OrderIds |-> Credited(o, "seller") > 0]
  OBVIOUS
<1>2. e.order \in OrderIds /\ e.user \in Users /\ "seller" \in Users /\ TypeOK
  BY DEF LedgerEntry, Users, Inv
<1>3. \A o \in OrderIds : Credited(o, "seller") \in Nat
  BY <1>2, CreditIsCounted
<1>4. \A o \in OrderIds :
        Credited(o, "seller")' = IF o = e.order /\ e.user = "seller" THEN Credited(o, "seller") + 1
                                                                     ELSE Credited(o, "seller")
  BY <1>2, EntryCredits
<1>5. /\ [o \in OrderIds |-> IF Placed(o) THEN orders[o].status ELSE "none"]'
           = [o \in OrderIds |-> IF Placed(o) THEN orders[o].status ELSE "none"]
      /\ [o \in OrderIds |-> Placed(o) /\ orders[o].method = "cash"]'
           = [o \in OrderIds |-> Placed(o) /\ orders[o].method = "cash"]
      /\ [o \in OrderIds |-> IF Placed(o) THEN orders[o].collaborator ELSE None]'
           = [o \in OrderIds |-> IF Placed(o) THEN orders[o].collaborator ELSE None]
  BY DEF Placed
<1>6. CASE e.user = "seller"
  <2>1. PICK x \in OrderIds : x = e.order
    BY <1>2
  <2>2. \A o \in OrderIds : (Credited(o, "seller") > 0)' = IF o = x THEN TRUE ELSE Credited(o, "seller") > 0
    <3> SUFFICES ASSUME NEW o \in OrderIds
                 PROVE  (Credited(o, "seller") > 0)'
                          = IF o = x THEN TRUE ELSE Credited(o, "seller") > 0
      OBVIOUS
    <3>1. PICK n \in Nat : n = Credited(o, "seller")
      BY <1>3
    <3>2. Credited(o, "seller")' = IF o = x THEN n + 1 ELSE n
      BY <1>4, <1>6, <2>1, <3>1
    <3>3. n + 1 > 0
      OBVIOUS
    <3> QED
      BY <3>1, <3>2, <3>3
  <2>3. [o \in OrderIds |-> Credited(o, "seller") > 0]' = [bk EXCEPT ![x] = TRUE]
    BY <1>1, <2>1, <2>2
  <2>4. ~bk[x]
    <3>1. ~ (0 > 0)
      OBVIOUS
    <3> QED
      BY <1>1, <1>6, <2>1, <3>1
  <2>5. orders[x].status # "none"
    BY <2>1, StoredOrder DEF Placed, Order, OrderStatus
  <2>6. Contract!Book(x)
    BY <1>1, <1>5, <2>1, <2>3, <2>4, <2>5 DEF Contract!Book, Placed
  <2> QED
    BY <2>1, <2>6 DEF ContractStep, Contract!Next
<1>7. CASE e.user # "seller"
  <2>1. \A o \in OrderIds : Credited(o, "seller")' = Credited(o, "seller")
    BY <1>4, <1>7
  <2>2. [o \in OrderIds |-> Credited(o, "seller") > 0]' = [o \in OrderIds |-> Credited(o, "seller") > 0]
    BY <2>1
  <2> QED
    BY <1>5, <2>2 DEF ContractStep, Contract!vars
<1> QED
  BY <1>6, <1>7

LEMMA WriteEntrySerial ==
  ASSUME Serial, SerialInv, IsolatedInv', NEW s \in Slots, WriteEntry(s), UNCHANGED RestOfPayments
  PROVE  SerialGood
<1>1. PICK x, todo, e, r :
        /\ x = req[s].oid /\ todo = req[s].todo /\ e = Head(todo)
        /\ r = [req[s] EXCEPT !.todo = Tail(todo)]
        /\ Goto(s, r) /\ ledger' = [ledger EXCEPT ![e] = @ + 1]
  BY DEF WriteEntry
<1>2. /\ req[s].pc = "ledger" /\ req[s] \in Request /\ todo \in Seq(LedgerEntry) /\ todo # << >>
      /\ x \in OrderIds /\ orders[x] # None /\ Approved(x)
      /\ orders[x].payment \in PaymentsOf(x)
      /\ \A i \in DOMAIN todo : todo[i].order = x /\ Credited(x, todo[i].user) = 0
      /\ \A user \in Earners(orders[x]) :
           Credited(x, user) = 1 \/ \E i \in DOMAIN todo : todo[i].user = user
  <2>1. req[s].pc = "ledger" /\ req[s] \in Request /\ todo # << >>
    BY <1>1, SlotStands DEF WriteEntry, At
  <2>2. todo \in Seq(LedgerEntry)
    BY <1>1, <2>1 DEF Request
  <2>3. /\ x \in OrderIds /\ Approved(x)
        /\ \A i \in DOMAIN todo : todo[i].order = x /\ Credited(x, todo[i].user) = 0
    BY <1>1, <2>1, SlotStands DEF Undisturbed
  <2>4. /\ orders[x] # None /\ orders[x].payment \in PaymentsOf(x)
        /\ \A user \in Earners(orders[x]) :
             Credited(x, user) = 1 \/ \E i \in DOMAIN todo : todo[i].user = user
    BY <1>1, <2>1, SlotStands DEF Stands, AboutPayment
  <2> QED
    BY <2>1, <2>2, <2>3, <2>4
<1>3. e = todo[1] /\ 1 \in DOMAIN todo /\ e \in LedgerEntry
  BY <1>1, <1>2
<1>4. e.order = x /\ Credited(x, e.user) = 0 /\ e.user \in Users
  BY <1>2, <1>3 DEF LedgerEntry, Users
<1>5. UNCHANGED <<orders, payments, deliveries, profiles>>
  BY DEF WriteEntry, RestOfPayments
<1>6. /\ r.pc = "ledger" /\ r.oid = x /\ r.todo = Tail(todo)
      /\ r.did = req[s].did /\ r.delivery = req[s].delivery
  BY <1>1, <1>2 DEF Request
<1>7. Synced(x) /\ CashComesLast(x)
  BY <1>1, <1>2, SettlementStands DEF SettleLabels, Placed
<1>8. Earners(orders[x]) \subseteq Users
  BY <1>2, <1>7, SlotStands, EarnersAreUsers DEF Placed
<1>9. DeliveriesOf(x)' = DeliveriesOf(x) /\ PaymentsOf(x)' = PaymentsOf(x)
  BY <1>5 DEF DeliveriesOf, PaymentsOf
<1>10. ASSUME NEW user \in Earners(orders[x])
       PROVE  Credited(x, user)' = 1 \/ \E i \in DOMAIN r.todo : r.todo[i].user = user
  <2>0. TypeOK /\ user \in Users
    BY <1>8, <1>10, SlotStands DEF Inv
  <2>1. Credited(x, user)' = IF user = e.user THEN Credited(x, user) + 1 ELSE Credited(x, user)
    <3>1. ledger' = [ledger EXCEPT ![e] = @ + 1] /\ e \in LedgerEntry /\ x \in OrderIds
      BY <1>1, <1>2, <1>3
    <3>2. Credited(x, user)' = IF x = e.order /\ user = e.user THEN Credited(x, user) + 1
                                                              ELSE Credited(x, user)
      BY <2>0, <3>1, EntryCredits, Zenon
    <3> QED
      BY <1>4, <3>2
  <2>2. CASE user = e.user
    BY <1>4, <2>1, <2>2
  <2>3. CASE user # e.user /\ Credited(x, user) = 1
    BY <2>1, <2>3
  <2>4. CASE user # e.user /\ \E i \in DOMAIN todo : todo[i].user = user
    <3>1. PICK i \in DOMAIN todo : todo[i].user = user
      BY <2>4
    <3>2. i # 1
      BY <1>3, <2>4, <3>1
    <3>3. i - 1 \in DOMAIN Tail(todo) /\ Tail(todo)[i - 1] = todo[i]
      BY <1>2, <3>2
    <3> QED
      BY <1>6, <3>1, <3>3
  <2> QED
    BY <1>2, <2>2, <2>3, <2>4
<1>11. AboutPayment(r)'
  BY <1>2, <1>5, <1>6, <1>9, <1>10 DEF AboutPayment
<1>12. (AsStored(r) /\ AboutStatus(r) /\ AboutCourier(r))'
  BY <1>2, <1>6, SlotStands DEF Stands, AsStored, AboutStatus, AboutCourier, OrderLabels
<1>13. ASSUME NEW o \in OrderIds, Placed(o)' PROVE OrderStands(o, r)'
  <2>1. Placed(o)
    BY <1>5, <1>13 DEF Placed
  <2>2. CASE o = x
    <3>1. Synced(x)' /\ CashComesLast(x)'
      BY <1>5, <1>7, <1>9 DEF Synced, CashComesLast
    <3> QED
      BY <1>6, <2>2, <3>1 DEF OrderStands, Settles
  <2>3. CASE o # x
    <3>1. OrderRests(o)
      BY <1>1, <1>2, <2>1, <2>3, SettlementStands DEF SettleLabels
    <3>2. OrderRests(o)'
      BY <1>1, <1>3, <1>4, <1>5, <2>1, <2>3, <3>1, SlotStands, EntryRests
    <3> QED
      BY <3>2 DEF OrderRests, OrderStands
  <2> QED
    BY <2>2, <2>3
<1>14. ASSUME NEW c \in CourierIds PROVE CourierStands(c, r)'
  <2>1. HasJob(c)' = HasJob(c)
    BY <1>5 DEF HasJob
  <2> QED
    BY <1>2, <1>5, <1>6, <2>1, SlotStands DEF Stands, CourierStands, Busy, Frees
<1>15. Stands(r)'
  BY <1>11, <1>12, <1>13, <1>14 DEF Stands
<1>16. ContractStep
  <2>1. Placed(x) /\ (orders[x].method = "cash" => orders[x].status = "delivered")
    BY <1>2, <1>7 DEF CashComesLast, Placed
  <2>2. Inv /\ UNCHANGED orders
    BY <1>5, SlotStands
  <2> QED
    BY <1>1, <1>3, <1>4, <2>1, <2>2, EntryBooks
<1>17. req'[s] = r
  BY <1>1, SlotStands, GotoHolds
<1> QED
  BY <1>15, <1>16, <1>17, SerialStep DEF SerialGood

LEMMA LedgerWrittenSerial ==
  ASSUME Serial, SerialInv, IsolatedInv', NEW s \in Slots, LedgerWritten(s), UNCHANGED RestOfPayments
  PROVE  SerialGood
<1>1. PICK x : x = req[s].oid
  OBVIOUS
<1>2. /\ req[s].pc = "ledger" /\ req[s] \in Request /\ req[s].todo = << >>
      /\ x \in OrderIds /\ orders[x] # None /\ Approved(x)
      /\ orders[x].payment \in PaymentsOf(x)
      /\ \A user \in Earners(orders[x]) : Credited(x, user) = 1
  <2>1. req[s].pc = "ledger" /\ req[s] \in Request /\ req[s].todo = << >>
    BY SlotStands DEF LedgerWritten, At
  <2>2. x \in OrderIds /\ Approved(x)
    BY <1>1, <2>1, SlotStands DEF Undisturbed
  <2>3. /\ orders[x] # None /\ orders[x].payment \in PaymentsOf(x)
        /\ \A user \in Earners(orders[x]) :
             Credited(x, user) = 1 \/ \E i \in DOMAIN req[s].todo : req[s].todo[i].user = user
    BY <1>1, <2>1, SlotStands DEF Stands, AboutPayment
  <2>4. DOMAIN req[s].todo = {}
    BY <2>1
  <2> QED
    BY <2>1, <2>2, <2>3, <2>4
<1>3. \A o \in OrderIds : Placed(o) => OrderRests(o)
  BY <1>1, <1>2, SettlementStands DEF SettleLabels, OrderRests, PaidOff
<1>4. UNCHANGED <<orders, payments, ledger, deliveries, profiles>>
  BY DEF LedgerWritten, RestOfPayments
<1>5. CASE req[s].did = None
  <2>1. Resting
    BY <1>2, <1>3, <1>5, SlotStands DEF Resting, Stands, CourierStands, Frees, Busy
  <2> QED
    BY <1>4, <1>5, <2>1, SerialFinish DEF LedgerWritten
<1>6. CASE req[s].did # None
  <2>1. PICK r : r = [req[s] EXCEPT !.pc = "free"] /\ Goto(s, r)
    BY <1>6 DEF LedgerWritten
  <2>2. r.pc = "free" /\ r.did = req[s].did /\ r.delivery = req[s].delivery
    BY <1>2, <2>1 DEF Request
  <2>3. AsStored(r) /\ AboutStatus(r) /\ AboutPayment(r) /\ AboutCourier(r)
    BY <1>2, <2>2, SlotStands
    DEF Stands, AsStored, AboutStatus, AboutPayment, AboutCourier, OrderLabels
  <2>4. \A o \in OrderIds : Placed(o) => OrderStands(o, r)
    BY <1>3 DEF OrderRests, OrderStands
  <2>5. \A c \in CourierIds : CourierStands(c, r)
    BY <1>2, <2>2, SlotStands DEF Stands, CourierStands, Frees
  <2>6. Stands(r)
    BY <2>3, <2>4, <2>5 DEF Stands
  <2> QED
    BY <1>4, <2>1, <2>6, SlotStands, SerialRead
<1> QED
  BY <1>5, <1>6

LEMMA PaymentsStepSerial ==
  ASSUME Serial, SerialInv, IsolatedInv', NEW s \in Slots, PaymentsStep(s), UNCHANGED RestOfPayments
  PROVE  SerialGood
<1>1. CASE CheckIntent(s)
  <2>1. UNCHANGED <<orders, payments, ledger, deliveries, profiles>> /\ req[s] \in Request
    BY <1>1, SlotStands DEF CheckIntent, RestOfPayments
  <2>2. Resting
    BY <1>1, IdleRests DEF CheckIntent, At, PlainLabels
  <2>3. [req[s] EXCEPT !.pc = "insert_intent"].pc = "insert_intent"
    BY <2>1 DEF Request
  <2> QED
    BY <1>1, <2>1, <2>2, <2>3, SerialFinish, SerialPlain DEF CheckIntent, PlainLabels
<1> QED
  BY <1>1, InsertIntentSerial, SavePaymentSerial, LoadPaidOrderSerial, CheckPaymentSerial,
     InsertPaymentSerial, SavePaidOrderSerial, WriteEntrySerial, LedgerWrittenSerial
  DEF PaymentsStep

-----------------------------------------------------------------------------
(* Deliveries *)

LEMMA DeliveriesAreTyped ==
  ASSUME Inv
  PROVE  deliveries \in [DeliveryIds -> Maybe(Delivery)]
BY DEF Inv, TypeOK, DeliveriesTypeOK

\* A delivery of order x is written: nothing changes for the others, nor for
\* the payments.
LEMMA OtherDeliveries ==
  ASSUME Inv, NEW d \in DeliveryIds, NEW x, NEW doc \in Delivery, doc.order = x,
         deliveries' = SaveInto(deliveries, d, doc),
         deliveries[d] = None \/ deliveries[d].order = x,
         UNCHANGED <<orders, payments, ledger>>, NEW o
  PROVE  /\ Placed(o)' = Placed(o) /\ PaidOff(o)' = PaidOff(o)
         /\ CashComesLast(o)' = CashComesLast(o)
         /\ o # x => Synced(o)' = Synced(o)
<1>1. /\ PaymentsOf(o)' = PaymentsOf(o)
      /\ \A user : Credited(o, user)' = Credited(o, user)
  BY DEF PaymentsOf, Credited
<1>2. Approved(o)' = Approved(o)
  BY <1>1 DEF Approved
<1>3. PaidOff(o)' = PaidOff(o) /\ CashComesLast(o)' = CashComesLast(o)
  BY <1>1, <1>2 DEF PaidOff, CashComesLast
<1>4. ASSUME o # x PROVE Synced(o)' = Synced(o)
  <2>1. /\ deliveries'[d] = doc
        /\ \A e \in DeliveryIds : e # d => deliveries'[e] = deliveries[e]
    BY DeliveriesAreTyped DEF SaveInto
  <2>2. DeliveriesOf(o)' = DeliveriesOf(o) /\ d \notin DeliveriesOf(o)
    BY <1>4, <2>1 DEF DeliveriesOf
  <2>3. \A e \in DeliveriesOf(o) : deliveries'[e] = deliveries[e]
    BY <2>1, <2>2 DEF DeliveriesOf
  <2> QED
    BY <2>2, <2>3 DEF Synced
<1> QED
  BY <1>3, <1>4 DEF Placed

LEMMA SerialDeliveryWrite ==
  ASSUME Serial, SerialInv, IsolatedInv', NEW s \in Slots, NEW r, Goto(s, r),
         NEW d \in DeliveryIds, NEW x \in OrderIds, NEW doc \in Delivery, doc.order = x,
         deliveries' = SaveInto(deliveries, d, doc),
         deliveries[d] = None \/ deliveries[d].order = x,
         UNCHANGED <<orders, payments, ledger, profiles>>,
         \A o \in OrderIds : Placed(o) => OrderRests(o),
         Synced(x)' \/ Synchronizes(r, x),
         \A c \in CourierIds : Busy(c) => HasJob(c)' \/ Frees(r, c),
         (AsStored(r) /\ AboutStatus(r) /\ AboutPayment(r) /\ AboutCourier(r))'
  PROVE  SerialGood
<1>1. req'[s] = r
  BY SlotStands, GotoHolds
<1>2. ASSUME NEW o \in OrderIds, Placed(o)' PROVE OrderStands(o, r)'
  <2>1. /\ Placed(o) /\ PaidOff(o)' = PaidOff(o) /\ CashComesLast(o)' = CashComesLast(o)
        /\ o # x => Synced(o)' = Synced(o)
    BY <1>2, SlotStands, OtherDeliveries
  <2> QED
    BY <2>1 DEF OrderRests, OrderStands
<1>3. ASSUME NEW c \in CourierIds PROVE CourierStands(c, r)'
  BY DEF CourierStands, Busy
<1>4. Stands(r)'
  BY <1>2, <1>3 DEF Stands
<1> QED
  BY <1>1, <1>4, SerialStep, ContractRests DEF SerialGood

LEMMA InsertDeliverySerial ==
  ASSUME Serial, SerialInv, IsolatedInv', NEW s \in Slots, InsertDelivery(s), UNCHANGED RestOfDeliveries
  PROVE  SerialGood
<1>1. PICK x, c : x = req[s].oid /\ c = req[s].cid
  OBVIOUS
<1>2. /\ req[s].pc = "insert_delivery" /\ req[s] \in Request
      /\ x \in OrderIds /\ orders[x] # None /\ req[s].order \in Order
      /\ c \in CourierIds /\ DeliveriesOf(x) = {}
  BY <1>1, SlotStands
  DEF InsertDelivery, At, RequestInv, HoldsOrder, HoldsProfile, OrderLabels, ProfileLabels,
      Undisturbed
<1>3. /\ orders[x].status = "ready"
      /\ req[s].order.payment = orders[x].payment
  BY <1>1, <1>2, SlotStands DEF Stands, AsStored, AboutStatus, OrderLabels
<1>4. PICK d, doc, r :
        /\ d \in DeliveryIds
        /\ doc = [order |-> x, collaborator |-> c, status |-> "assigned", proof |-> FALSE]
        /\ deliveries[d] = None /\ deliveries' = SaveInto(deliveries, d, doc)
        /\ r = [req[s] EXCEPT !.pc = "save_assigned",
                  !.order = RecordStatus([@ EXCEPT !.collaborator = c], "assigned")]
        /\ Goto(s, r)
  BY <1>1 DEF InsertDelivery
<1>5. /\ doc \in Delivery /\ doc.order = x /\ doc.status = "assigned" /\ doc.collaborator = c
      /\ doc # None
  <2>1. /\ doc \in Delivery /\ doc.order = x /\ doc.status = "assigned" /\ doc.collaborator = c
    BY <1>2, <1>4 DEF Delivery, DeliveryStatus
  <2> QED
    BY <2>1, DocumentAssumption
<1>6. /\ r.pc = "save_assigned" /\ r.oid = x /\ r.cid = c
      /\ r.order.status = "assigned" /\ r.order.collaborator = c
      /\ r.order.payment = req[s].order.payment
  BY <1>1, <1>2, <1>4 DEF Request, RecordStatus, Order
<1>7. UNCHANGED <<orders, payments, ledger, profiles>>
  BY DEF InsertDelivery, RestOfDeliveries
<1>8. Resting
  BY <1>2, IdleRests
<1>9. /\ deliveries'[d] = doc
      /\ \A e \in DeliveryIds : e # d => deliveries'[e] = deliveries[e]
  BY <1>4, SlotStands, DeliveriesAreTyped DEF SaveInto
<1>10. HasJob(c)' /\ \A b \in CourierIds : HasJob(b) => HasJob(b)'
  BY <1>4, <1>5, <1>9 DEF HasJob
<1>11. \A e \in DeliveriesOf(x)' : deliveries'[e].status = "assigned"
  BY <1>2, <1>5, <1>9 DEF DeliveriesOf
<1>12. orders[x].collaborator = None
  BY <1>2, <1>8 DEF Resting, OrderRests, Synced, Placed
<1>13. (AsStored(r) /\ AboutPayment(r) /\ AboutCourier(r))'
  BY <1>3, <1>6, <1>7, <1>10 DEF AsStored, AboutPayment, AboutCourier, OrderLabels
<1>14. AboutStatus(r)'
  BY <1>3, <1>6, <1>7, <1>11, <1>12 DEF AboutStatus
<1>15. Synchronizes(r, x)
  BY <1>6 DEF Synchronizes
<1>16. /\ \A o \in OrderIds : Placed(o) => OrderRests(o)
       /\ \A b \in CourierIds : Busy(b) => HasJob(b)'
  BY <1>8, <1>10 DEF Resting
<1> HIDE DEF Synchronizes
<1> QED
  BY <1>2, <1>4, <1>5, <1>7, <1>13, <1>14, <1>15, <1>16, SerialDeliveryWrite

\* What a request that saves a delivery holds.
LEMMA HeldDelivery ==
  ASSUME SerialInv, NEW s \in Slots, req[s].pc \in DeliveryLabels
  PROVE  /\ req[s].did \in DeliveryIds /\ req[s].delivery \in Delivery /\ req[s].did # None
         /\ deliveries[req[s].did] \in Delivery /\ deliveries[req[s].did] # None
         /\ req[s].delivery.order = deliveries[req[s].did].order
         /\ req[s].delivery.collaborator = deliveries[req[s].did].collaborator
         /\ req[s].delivery.order \in OrderIds /\ Placed(req[s].delivery.order)
         /\ req[s].did \in DeliveriesOf(req[s].delivery.order)
<1>1. /\ req[s].did \in DeliveryIds /\ req[s].delivery \in Delivery /\ req[s].did # None
      /\ deliveries[req[s].did] # None
      /\ req[s].delivery.order = deliveries[req[s].did].order
      /\ req[s].delivery.collaborator = deliveries[req[s].did].collaborator
  BY SlotStands DEF RequestInv, HoldsDelivery
<1>2. deliveries[req[s].did] \in Delivery
  BY <1>1, SlotStands, DeliveriesAreTyped DEF Maybe
<1>3. Placed(req[s].delivery.order)
  BY <1>1, SlotStands DEF Inv, CollectionsInv, DeliveriesArePlaced, Placed
<1> QED
  BY <1>1, <1>2, <1>3 DEF Delivery, DeliveriesOf

\* A delivery is saved at the status it has.
LEMMA SaveSameStatus ==
  ASSUME Serial, SerialInv, IsolatedInv', NEW s \in Slots, NEW r, Goto(s, r), r.pc \in PlainLabels,
         req[s].pc \in {"save_location", "save_proof"},
         deliveries' = SaveInto(deliveries, req[s].did, req[s].delivery),
         UNCHANGED <<orders, payments, ledger, profiles>>
  PROVE  SerialGood
<1>1. PICK d, doc, x : d = req[s].did /\ doc = req[s].delivery /\ x = doc.order
  OBVIOUS
<1>2. /\ d \in DeliveryIds /\ doc \in Delivery /\ x \in OrderIds /\ Placed(x)
      /\ deliveries[d] # None /\ deliveries[d].order = x
      /\ deliveries[d].collaborator = doc.collaborator /\ doc # None
  BY <1>1, HeldDelivery, DocumentAssumption DEF DeliveryLabels
<1>3. deliveries[d].status = doc.status
  BY <1>1, SlotStands DEF Undisturbed, DeliverySaves
<1>4. Resting
  BY IdleRests DEF PlainLabels
<1>5. /\ deliveries'[d] = doc
      /\ \A e \in DeliveryIds : e # d => deliveries'[e] = deliveries[e]
  BY <1>1, <1>2, SlotStands, DeliveriesAreTyped DEF SaveInto
<1>6. \A c \in CourierIds : HasJob(c) => HasJob(c)'
  BY <1>2, <1>3, <1>5 DEF HasJob
<1>7. DeliveriesOf(x)' = DeliveriesOf(x) /\ \A e \in DeliveriesOf(x) : deliveries'[e].status = deliveries[e].status
  BY <1>1, <1>2, <1>3, <1>5 DEF DeliveriesOf
<1>8. Synced(x)'
  BY <1>2, <1>4, <1>7 DEF Resting, OrderRests, Synced
<1>9. (AsStored(r) /\ AboutStatus(r) /\ AboutPayment(r) /\ AboutCourier(r))'
  BY DEF PlainLabels, AsStored, AboutStatus, AboutPayment, AboutCourier, OrderLabels
<1>10. /\ \A o \in OrderIds : Placed(o) => OrderRests(o)
       /\ \A c \in CourierIds : Busy(c) => HasJob(c)'
  BY <1>4, <1>6 DEF Resting
<1>11. deliveries' = SaveInto(deliveries, d, doc)
  BY <1>1
<1> QED
  BY <1>1, <1>2, <1>8, <1>9, <1>10, <1>11, SerialDeliveryWrite

LEMMA SaveDeliverySerial ==
  ASSUME Serial, SerialInv, IsolatedInv', NEW s \in Slots, SaveDelivery(s), UNCHANGED RestOfDeliveries
  PROVE  SerialGood
<1>1. PICK d, doc, x, r :
        /\ d = req[s].did /\ doc = req[s].delivery /\ x = doc.order
        /\ r = IF doc.status \in OrderSync THEN [req[s] EXCEPT !.pc = "load_synced"] ELSE Idle
  OBVIOUS
<1>2. /\ d \in DeliveryIds /\ doc \in Delivery /\ x \in OrderIds /\ Placed(x) /\ d # None
      /\ deliveries[d] # None /\ deliveries[d].order = x /\ deliveries[d].status \in DeliveryStatus
      /\ deliveries[d].collaborator = doc.collaborator /\ doc # None
      /\ d \in DeliveriesOf(x)
      /\ req[s].pc = "save_delivery" /\ req[s] \in Request
  <2>1. req[s].pc = "save_delivery"
    BY DEF SaveDelivery, At
  <2> QED
    BY <1>1, <2>1, SlotStands, HeldDelivery, DocumentAssumption DEF DeliveryLabels, Delivery
<1>3. /\ deliveries[d].status \in DOMAIN DeliveryAdvance
      /\ doc.status = DeliveryAdvance[deliveries[d].status]
  BY <1>1, <1>2, SlotStands DEF Undisturbed
<1>4. Resting
  BY <1>2, IdleRests DEF PlainLabels
<1>5. /\ Goto(s, r) /\ deliveries' = SaveInto(deliveries, d, doc)
      /\ UNCHANGED <<orders, payments, ledger, profiles>>
  BY <1>1 DEF SaveDelivery, RestOfDeliveries, Finish
<1>6. /\ deliveries'[d] = doc
      /\ \A e \in DeliveryIds : e # d => deliveries'[e] = deliveries[e]
  BY <1>2, <1>5, SlotStands, DeliveriesAreTyped DEF SaveInto
<1>7. /\ DeliveriesOf(x)' = DeliveriesOf(x)
      /\ \A e \in DeliveriesOf(x) : e = d
  <2>1. \A e \in DeliveriesOf(x) : e = d
    BY <1>2, SlotStands DEF IsolatedInv, OrderInv
  <2> QED
    BY <1>1, <1>2, <1>6, <2>1 DEF DeliveriesOf
<1>8. /\ orders[x].status = Milestone(deliveries[d].status)
      /\ orders[x].collaborator # None
  BY <1>2, <1>4 DEF Resting, OrderRests, Synced
<1>9. \A c \in CourierIds : HasJob(c) => HasJob(c)' \/ (doc.status = "delivered" /\ c = doc.collaborator)
  BY <1>2, <1>6 DEF HasJob
<1>10. \A o \in OrderIds : Placed(o) => OrderRests(o)
  BY <1>4 DEF Resting
<1>11. CASE doc.status \in OrderSync
  <2>1. /\ r.pc = "load_synced" /\ r.did = d /\ r.delivery = doc
    BY <1>1, <1>2, <1>11 DEF Request
  <2>2. orders[x].status = IF doc.status = "delivered" THEN "picked_up" ELSE "assigned"
    BY <1>2, <1>3, <1>8, <1>11 DEF DeliveryAdvance, DeliveryStatus, Milestone, OrderSync
  <2>3. AboutStatus(r)'
    BY <1>1, <1>5, <1>6, <1>8, <2>1, <2>2 DEF AboutStatus
  <2>4. (AsStored(r) /\ AboutPayment(r) /\ AboutCourier(r))'
    BY <2>1 DEF AsStored, AboutPayment, AboutCourier, OrderLabels
  <2>5. Synchronizes(r, x)
    BY <1>1, <2>1 DEF Synchronizes
  <2>6. \A c \in CourierIds : Busy(c) => HasJob(c)' \/ Frees(r, c)
    BY <1>2, <1>4, <1>9, <2>1 DEF Resting, Frees
  <2> HIDE DEF Synchronizes, Frees
  <2> QED
    BY <1>1, <1>2, <1>5, <1>10, <2>3, <2>4, <2>5, <2>6, SerialDeliveryWrite
<1>12. CASE doc.status \notin OrderSync
  <2>1. r.pc = "idle"
    BY <1>1, <1>12 DEF Idle
  <2>2. Milestone(doc.status) = Milestone(deliveries[d].status)
    BY <1>2, <1>3, <1>12 DEF DeliveryAdvance, DeliveryStatus, Milestone, OrderSync
  <2>3. Synced(x)'
    BY <1>2, <1>5, <1>6, <1>7, <1>8, <2>2 DEF Synced
  <2>4. \A c \in CourierIds : Busy(c) => HasJob(c)'
    BY <1>4, <1>9, <1>12 DEF Resting, OrderSync
  <2> QED
    BY <1>1, <1>2, <1>5, <1>10, <2>1, <2>3, <2>4, EndStands, SerialDeliveryWrite
<1> QED
  BY <1>11, <1>12

\* While an order is brought where its delivery is the others rest.
LEMMA SynchronizationStands ==
  ASSUME SerialInv, NEW s \in Slots, req[s].pc \in SyncLabels,
         NEW x, x = IF req[s].pc = "save_assigned" THEN req[s].oid ELSE req[s].delivery.order
  PROVE  /\ \A o \in OrderIds : Placed(o) => PaidOff(o) /\ CashComesLast(o)
         /\ \A o \in OrderIds : o # x /\ Placed(o) => OrderRests(o)
         /\ \A c \in CourierIds : Busy(c) => HasJob(c) \/ Frees(req[s], c)
<1>1. Stands(req[s])
  BY SlotStands
<1>2. \A o \in OrderIds : Placed(o) => PaidOff(o) /\ CashComesLast(o)
  BY <1>1, OrdersRest DEF SyncLabels, SettleLabels
<1>3. \A o \in OrderIds : o # x /\ Placed(o) => Synced(o)
  BY <1>1 DEF Stands, OrderStands, Synchronizes, SyncLabels
<1>4. \A c \in CourierIds : Busy(c) => HasJob(c) \/ Frees(req[s], c)
  BY <1>1 DEF Stands, CourierStands, Busy
<1> QED
  BY <1>2, <1>3, <1>4 DEF OrderRests

LEMMA LoadSyncedSerial ==
  ASSUME Serial, SerialInv, IsolatedInv', NEW s \in Slots, LoadSynced(s), UNCHANGED RestOfDeliveries
  PROVE  SerialGood
<1>1. PICK doc, x, r :
        /\ doc = req[s].delivery /\ x = doc.order
        /\ r = [req[s] EXCEPT !.pc = "save_synced", !.oid = x,
                              !.order = RecordStatus(orders[x], doc.status)]
  OBVIOUS
<1>2. /\ req[s].pc = "load_synced" /\ req[s] \in Request
      /\ x \in OrderIds /\ Placed(x) /\ orders[x] \in Order
  BY <1>1, SlotStands, HeldDelivery, StoredOrder DEF LoadSynced, At, DeliveryLabels, Placed
<1>3. /\ Goto(s, r) /\ UNCHANGED <<orders, payments, ledger, deliveries, profiles>>
  BY <1>1 DEF LoadSynced, RestOfDeliveries
<1>4. /\ r.pc = "save_synced" /\ r.oid = x /\ r.did = req[s].did /\ r.delivery = doc
      /\ r.order.status = doc.status /\ r.order.collaborator = orders[x].collaborator
      /\ r.order.payment = orders[x].payment
  BY <1>1, <1>2 DEF Request, RecordStatus, Order
<1>5. AsStored(r) /\ AboutPayment(r) /\ AboutCourier(r)
  BY <1>4 DEF AsStored, AboutPayment, AboutCourier, OrderLabels
<1>6. AboutStatus(r)
  <2>1. doc.status \in OrderSync
    BY <1>1, <1>2, SlotStands DEF RequestInv
  <2>2. /\ deliveries[r.did].status = doc.status
        /\ orders[x].status = IF doc.status = "delivered" THEN "picked_up" ELSE "assigned"
        /\ orders[x].collaborator # None
    <3>1. AboutStatus(req[s]) /\ r.did = req[s].did
      BY <1>4, SlotStands DEF Stands
    <3> QED
      BY <1>1, <1>2, <3>1 DEF AboutStatus
  <2> QED
    BY <1>1, <1>4, <2>1, <2>2 DEF AboutStatus
<1>7. \A o \in OrderIds : Placed(o) => OrderStands(o, r)
  BY <1>1, <1>2, <1>4, SynchronizationStands
  DEF OrderStands, Synchronizes, SyncLabels, OrderRests
<1>8. \A c \in CourierIds : CourierStands(c, r)
  BY <1>1, <1>2, <1>4, SlotStands DEF Stands, CourierStands, Frees
<1>9. Stands(r)
  BY <1>5, <1>6, <1>7, <1>8 DEF Stands
<1> QED
  BY <1>3, <1>9, SlotStands, SerialRead

\* The order is saved where its delivery is.
LEMMA SaveSyncedSerial ==
  ASSUME Serial, SerialInv, IsolatedInv', NEW s \in Slots, SaveSynced(s), UNCHANGED RestOfDeliveries
  PROVE  SerialGood
<1>1. PICK d, held, x, doc :
        d = req[s].did /\ held = req[s].delivery /\ x = req[s].oid /\ doc = req[s].order
  OBVIOUS
<1>2. /\ req[s].pc = "save_synced" /\ req[s] \in Request
      /\ x \in OrderIds /\ orders[x] # None /\ doc \in Order /\ SameTerms(doc, orders[x])
  BY <1>1, SlotStands DEF SaveSynced, At, RequestInv, HoldsOrder, OrderLabels
<1>3. /\ x = held.order /\ held \in Delivery /\ d # None /\ d \in DeliveriesOf(x)
      /\ deliveries[d].collaborator = held.collaborator
      /\ deliveries[d].status = held.status /\ doc.status = held.status
      /\ held.status \in OrderSync
      /\ orders[x].status = IF held.status = "delivered" THEN "picked_up" ELSE "assigned"
      /\ orders[x].collaborator # None
      /\ doc.collaborator = orders[x].collaborator /\ doc.payment = orders[x].payment
  BY <1>1, <1>2, SlotStands, HeldDelivery
  DEF Stands, AsStored, AboutStatus, OrderLabels, DeliveryLabels
<1>4. /\ orders' = SaveInto(orders, x, doc)
      /\ UNCHANGED <<payments, ledger, deliveries, profiles>>
  BY <1>1 DEF SaveSynced, RestOfDeliveries
<1>5. orders'[x] = doc /\ doc # None
  BY <1>2, <1>4, SlotStands, DocumentAssumption DEF SaveInto
<1>6. /\ DeliveriesOf(x)' = DeliveriesOf(x) /\ PaymentsOf(x)' = PaymentsOf(x)
      /\ \A user : Credited(x, user)' = Credited(x, user)
  BY <1>4 DEF DeliveriesOf, PaymentsOf, Credited
<1>7. \A e \in DeliveriesOf(x) : e = d
  BY <1>2, <1>3, SlotStands DEF IsolatedInv, OrderInv
<1>8. Synced(x)'
  <2>1. Milestone(held.status) = held.status
    BY <1>3 DEF Milestone, OrderSync
  <2> QED
    BY <1>3, <1>4, <1>5, <1>6, <1>7, <2>1 DEF Synced
<1>9. PaidOff(x) /\ CashComesLast(x)
  BY <1>2, <1>3, SynchronizationStands DEF SyncLabels, Placed
<1>10. orders[x].method = "cash" => PaymentsOf(x) = {}
  BY <1>3, <1>9 DEF CashComesLast
<1>11. CashComesLast(x)'
  BY <1>2, <1>5, <1>6, <1>10 DEF CashComesLast, SameTerms
<1>12. doc.method # "cash" \/ doc.status # "delivered" => PaidOff(x)'
  <2>1. Approved(x)' = Approved(x)
    BY <1>4, <1>6 DEF Approved
  <2>2. CASE doc.method = "cash"
    <3>1. ~Approved(x)
      BY <1>2, <1>10, <2>2 DEF Approved, SameTerms
    <3> QED
      BY <1>5, <2>1, <3>1 DEF PaidOff
  <2>3. CASE doc.method # "cash"
    <3>1. Earners(doc) = Earners(orders[x])
      BY <1>2, <2>3 DEF Earners, SameTerms
    <3> QED
      BY <1>3, <1>5, <1>6, <1>9, <2>1, <2>3, <3>1 DEF PaidOff
  <2> QED
    BY <2>2, <2>3
<1>13. \A o \in OrderIds : o # x /\ Placed(o) => OrderRests(o)
  BY <1>2, <1>3, <1>1, SynchronizationStands DEF SyncLabels
<1>14. ContractStep
  <2>1. doc.status \in Later(orders[x].status)
    BY <1>3 DEF OrderSync, Later
  <2> QED
    BY <1>2, <1>3, <1>4, <2>1, SlotStands, OrderMoves DEF SameTerms
<1>15. CASE held.status # "delivered"
  <2>1. Finish(s)
    BY <1>1, <1>15 DEF SaveSynced
  <2>2. OrderRests(x)'
    BY <1>3, <1>8, <1>11, <1>12, <1>15 DEF OrderRests
  <2>3. \A c \in CourierIds : Busy(c) => HasJob(c)
    BY <1>1, <1>2, <1>15, SynchronizationStands DEF SyncLabels, Frees
  <2> QED
    BY <1>2, <1>4, <1>13, <1>14, <2>1, <2>2, <2>3, SlotStands, SerialOrderEnds
<1>16. CASE held.status = "delivered"
  <2>1. PICK pc, r : /\ pc = IF doc.method = "cash" THEN "check_payment" ELSE "free"
                     /\ r = [req[s] EXCEPT !.pc = pc]
    OBVIOUS
  <2>2. Goto(s, r)
    BY <1>1, <1>16, <2>1 DEF SaveSynced
  <2>3. /\ r.pc = pc /\ r.oid = x /\ r.order = doc /\ r.did = d /\ r.delivery = held
    BY <1>1, <1>2, <2>1 DEF Request
  <2>4. (AsStored(r) /\ AboutStatus(r) /\ AboutCourier(r))'
    BY <1>5, <1>16, <2>1, <2>3 DEF AsStored, AboutStatus, AboutCourier, OrderLabels
  <2>5. AboutPayment(r)'
    BY <1>2, <1>3, <1>5, <1>6, <1>10, <1>16, <2>1, <2>3 DEF AboutPayment, SameTerms
  <2>6. OrderStands(x, r)'
    BY <1>8, <1>11, <1>12, <2>1, <2>3 DEF OrderStands, Settles
  <2>7. \A c \in CourierIds : Busy(c) => HasJob(c) \/ Frees(r, c)
    BY <1>1, <1>2, <1>3, <1>16, <2>1, <2>3, SynchronizationStands DEF SyncLabels, Frees
  <2> QED
    BY <1>2, <1>4, <1>13, <1>14, <2>2, <2>4, <2>5, <2>6, <2>7, SlotStands, SerialOrderWrite
<1> QED
  BY <1>15, <1>16

\* The courier is set free: nobody else is busy without a job.
LEMMA FreeCourierSerial ==
  ASSUME Serial, SerialInv, IsolatedInv', NEW s \in Slots, FreeCourier(s), UNCHANGED RestOfDeliveries
  PROVE  SerialGood
<1>1. PICK c : c = req[s].delivery.collaborator
  OBVIOUS
<1>2. req[s].pc = "free" /\ c \in CourierIds
  BY <1>1, SlotStands, HeldDelivery DEF FreeCourier, At, DeliveryLabels, Delivery
<1>3. UNCHANGED <<orders, payments, ledger, deliveries, profiles>>
  BY DEF FreeCourier, RestOfDeliveries
<1>4. \A o \in OrderIds : Placed(o) => OrderRests(o)
  BY <1>2, SlotStands, OrdersRest DEF OrderRests, SyncLabels, SettleLabels
<1>5. \A b \in CourierIds : b # c /\ Busy(b) => HasJob(b)
  BY <1>1, <1>2, SlotStands DEF Stands, CourierStands, Frees, Busy
<1>6. CASE Busy(c)
  <2>1. PICK doc : doc = [profiles[c] EXCEPT !.availability = "online"]
    OBVIOUS
  <2>2. profiles[c] \in Profile
    BY <1>2, <1>6, SlotStands DEF Busy, Inv, TypeOK, CollaboratorsTypeOK, Maybe
  <2>3. doc.availability = "online"
    BY <2>1, <2>2 DEF Profile
  <2>4. Goto(s, [Idle EXCEPT !.pc = "save_profile", !.cid = c, !.profile = doc])
    BY <1>1, <1>6, <2>1 DEF FreeCourier, Busy
  <2> QED
    BY <1>2, <1>3, <1>4, <1>5, <2>3, <2>4, ProfileRead
<1>7. CASE ~Busy(c)
  <2>1. Finish(s)
    BY <1>1, <1>7 DEF FreeCourier, Busy
  <2>2. Resting
    BY <1>4, <1>5, <1>7 DEF Resting
  <2> QED
    BY <1>3, <2>1, <2>2, SerialFinish
<1> QED
  BY <1>6, <1>7

LEMMA SaveAssignedSerial ==
  ASSUME Serial, SerialInv, IsolatedInv', NEW s \in Slots, SaveAssigned(s), UNCHANGED RestOfDeliveries
  PROVE  SerialGood
<1>1. PICK x, c, doc, r :
        /\ x = req[s].oid /\ c = req[s].cid /\ doc = req[s].order
        /\ r = [Idle EXCEPT !.pc = "save_profile", !.cid = c,
                  !.profile = [req[s].profile EXCEPT !.availability = "on_delivery"]]
  OBVIOUS
<1>2. /\ req[s].pc = "save_assigned" /\ req[s] \in Request /\ c \in CourierIds
      /\ x \in OrderIds /\ orders[x] # None /\ doc \in Order /\ SameTerms(doc, orders[x])
      /\ Backed(x, doc)
  BY <1>1, SlotStands
  DEF SaveAssigned, At, RequestInv, HoldsOrder, HoldsProfile, OrderLabels, ProfileLabels
<1>3. /\ orders[x].status = "ready" /\ orders[x].collaborator = None
      /\ doc.status = "assigned" /\ doc.collaborator = c
      /\ \A d \in DeliveriesOf(x) : deliveries[d].status = "assigned"
      /\ doc.payment = orders[x].payment /\ HasJob(c)
  BY <1>1, <1>2, SlotStands DEF Stands, AsStored, AboutStatus, AboutCourier, OrderLabels
<1>4. /\ orders' = SaveInto(orders, x, doc) /\ Goto(s, r)
      /\ UNCHANGED <<payments, ledger, deliveries, profiles>>
  BY <1>1 DEF SaveAssigned, RestOfDeliveries
<1>5. orders'[x] = doc /\ doc # None
  BY <1>2, <1>4, SlotStands, DocumentAssumption DEF SaveInto
<1>6. /\ DeliveriesOf(x)' = DeliveriesOf(x) /\ PaymentsOf(x)' = PaymentsOf(x)
      /\ \A user : Credited(x, user)' = Credited(x, user)
  BY <1>4 DEF DeliveriesOf, PaymentsOf, Credited
<1>7. DeliveriesOf(x) # {}
  BY <1>2, <1>3 DEF Backed, OnItsWay, Carried, DeliveriesOf
<1>8. Synced(x)'
  <2>1. Milestone("assigned") = "assigned" /\ c # None
    BY <1>2, NoneAssumption DEF Milestone
  <2> QED
    BY <1>3, <1>4, <1>5, <1>6, <1>7, <2>1 DEF Synced
<1>9. PaidOff(x) /\ CashComesLast(x)
  BY <1>2, SynchronizationStands DEF SyncLabels, Placed
<1>10. orders[x].method = "cash" => PaymentsOf(x) = {}
  BY <1>3, <1>9 DEF CashComesLast
<1>11. CashComesLast(x)'
  BY <1>2, <1>5, <1>6, <1>10 DEF CashComesLast, SameTerms
<1>12. PaidOff(x)'
  <2>1. Approved(x)' = Approved(x)
    BY <1>4, <1>6 DEF Approved
  <2>2. CASE doc.method = "cash"
    <3>1. ~Approved(x)
      BY <1>2, <1>10, <2>2 DEF Approved, SameTerms
    <3> QED
      BY <1>3, <1>5, <2>1, <3>1 DEF PaidOff
  <2>3. CASE doc.method # "cash"
    <3>1. Earners(doc) = Earners(orders[x])
      BY <1>2, <2>3 DEF Earners, SameTerms
    <3> QED
      BY <1>3, <1>5, <1>6, <1>9, <2>1, <2>3, <3>1 DEF PaidOff
  <2> QED
    BY <2>2, <2>3
<1>13. \A o \in OrderIds : o # x /\ Placed(o) => OrderRests(o)
  BY <1>1, <1>2, SynchronizationStands DEF SyncLabels
<1>14. ContractStep
  BY <1>2, <1>3, <1>4, SlotStands, OrderMoves DEF SameTerms
<1>15. \A b \in CourierIds : Busy(b) => HasJob(b) \/ Frees(r, b)
  BY <1>1, <1>2, SynchronizationStands DEF SyncLabels, Frees
<1>16. r.pc = "save_profile" /\ r.cid = c
  BY <1>1 DEF Idle
<1>17. (AsStored(r) /\ AboutStatus(r) /\ AboutPayment(r))'
  BY <1>16 DEF AsStored, AboutStatus, AboutPayment, OrderLabels
<1>18. AboutCourier(r)'
  <2>1. HasJob(c)'
    BY <1>3, <1>4 DEF HasJob
  <2> QED
    BY <1>16, <2>1 DEF AboutCourier
<1>19. OrderStands(x, r)'
  BY <1>8, <1>11, <1>12 DEF OrderStands
<1> QED
  BY <1>2, <1>4, <1>13, <1>14, <1>15, <1>17, <1>18, <1>19, SlotStands, SerialOrderWrite

LEMMA LoadLocatedSerial ==
  ASSUME Serial, SerialInv, IsolatedInv', NEW s \in Slots, LoadLocated(s), UNCHANGED RestOfDeliveries
  PROVE  SerialGood
<1>1. PICK c : c = req[s].delivery.collaborator
  OBVIOUS
<1>2. req[s].pc = "load_located" /\ c \in CourierIds
  BY <1>1, SlotStands, HeldDelivery DEF LoadLocated, At, DeliveryLabels, Delivery
<1>3. UNCHANGED <<orders, payments, ledger, deliveries, profiles>>
  BY DEF LoadLocated, RestOfDeliveries
<1>4. Resting
  BY <1>2, IdleRests DEF PlainLabels
<1>5. CASE profiles[c] # None
  <2>1. PICK doc : doc = [profiles[c] EXCEPT !.located = TRUE]
    OBVIOUS
  <2>2. profiles[c] \in Profile
    BY <1>2, <1>5, SlotStands DEF Inv, TypeOK, CollaboratorsTypeOK, Maybe
  <2>3. doc.availability = "on_delivery" => HasJob(c)
    BY <1>2, <1>4, <1>5, <2>1, <2>2 DEF Profile, Resting, Busy
  <2>4. Goto(s, [Idle EXCEPT !.pc = "save_profile", !.cid = c, !.profile = doc])
    BY <1>1, <1>5, <2>1 DEF LoadLocated
  <2> QED
    BY <1>2, <1>3, <1>4, <2>3, <2>4, ProfileRead DEF Resting
<1>6. CASE profiles[c] = None
  <2>1. Finish(s)
    BY <1>1, <1>6 DEF LoadLocated
  <2> QED
    BY <1>3, <1>4, <2>1, SerialFinish
<1> QED
  BY <1>5, <1>6

\* Before a delivery is inserted the request holds the order as it is stored.
LEMMA AssignSerial ==
  ASSUME Serial, SerialInv, IsolatedInv', NEW s \in Slots, CheckUnassigned(s) \/ PickCourier(s),
         UNCHANGED RestOfDeliveries
  PROVE  SerialGood
<1>1. req[s].pc \in {"check_assigned", "pick"} /\ req[s] \in Request
  BY SlotStands DEF CheckUnassigned, PickCourier, At
<1>2. UNCHANGED <<orders, payments, ledger, deliveries, profiles>>
  BY DEF CheckUnassigned, PickCourier, RestOfDeliveries
<1>3. Resting
  BY <1>1, IdleRests
<1>4. \/ Finish(s)
      \/ \E pc \in {"pick", "insert_delivery"} : \E c, doc :
           Goto(s, [req[s] EXCEPT !.pc = pc, !.cid = c, !.profile = doc])
  <2>1. [req[s] EXCEPT !.pc = "pick"]
          = [req[s] EXCEPT !.pc = "pick", !.cid = req[s].cid, !.profile = req[s].profile]
    BY <1>1 DEF Request
  <2>2. CASE CheckUnassigned(s)
    BY <2>1, <2>2 DEF CheckUnassigned
  <2>3. CASE PickCourier(s)
    BY <2>3 DEF PickCourier
  <2> QED
    BY <2>2, <2>3
<1>5. ASSUME NEW pc \in {"pick", "insert_delivery"}, NEW c, NEW doc,
             Goto(s, [req[s] EXCEPT !.pc = pc, !.cid = c, !.profile = doc])
      PROVE  SerialGood
  <2>1. PICK r : r = [req[s] EXCEPT !.pc = pc, !.cid = c, !.profile = doc]
    OBVIOUS
  <2>2. r.pc = pc /\ r.oid = req[s].oid /\ r.order = req[s].order
    BY <1>1, <2>1 DEF Request
  <2>3. /\ r.order.collaborator = orders[r.oid].collaborator
        /\ r.order.payment = orders[r.oid].payment
        /\ r.order.status = orders[r.oid].status
        /\ r.order.status = "ready"
    BY <1>1, <2>2, SlotStands DEF Stands, AsStored, AboutStatus, OrderLabels
  <2>4. AboutStatus(r)
    BY <2>2, <2>3 DEF AboutStatus
  <2>5. r.pc \in HoldLabels
    BY <2>2 DEF HoldLabels
  <2>6. Stands(r)
    BY <1>3, <2>3, <2>4, <2>5, HolderStands
  <2> QED
    BY <1>2, <1>5, <2>1, <2>6, SlotStands, SerialRead
<1> QED
  BY <1>2, <1>3, <1>4, <1>5, SerialFinish

LEMMA DeliveriesBeginSerial ==
  ASSUME Serial, SerialInv, IsolatedInv', NEW s \in Slots, DeliveriesBegin(s),
         UNCHANGED RestOfDeliveries
  PROVE  SerialGood
<1>0. req[s].pc = "idle" => Resting
  BY IdleRests DEF PlainLabels
<1>1. ASSUME NEW o \in OrderIds, AssignOrder(s, o) PROVE SerialGood
  <2>1. PICK r : r = [Idle EXCEPT !.pc = "check_assigned", !.oid = o, !.order = orders[o]]
    OBVIOUS
  <2>2. r.pc = "check_assigned" /\ r.oid = o /\ r.order = orders[o]
    BY <2>1 DEF Idle
  <2>3. AboutStatus(r)
    BY <1>1, <2>2 DEF AboutStatus, AssignOrder
  <2>4. Stands(r)
    BY <1>0, <1>1, <2>2, <2>3, HolderStands DEF AssignOrder, Free, HoldLabels
  <2> QED
    BY <1>1, <2>1, <2>4, SlotStands, SerialRead DEF AssignOrder, RestOfDeliveries
<1>2. ASSUME NEW d \in DeliveryIds, NEW doc, NEW pc \in {"save_delivery", "save_location", "save_proof"},
             req[s].pc = "idle",
             Goto(s, [Idle EXCEPT !.pc = pc, !.did = d, !.delivery = doc]),
             UNCHANGED <<orders, payments, ledger, deliveries, profiles>>
      PROVE  SerialGood
  <2>1. PICK r : r = [Idle EXCEPT !.pc = pc, !.did = d, !.delivery = doc]
    OBVIOUS
  <2>2. r.pc \in PlainLabels
    BY <2>1 DEF Idle, PlainLabels
  <2> QED
    BY <1>0, <1>2, <2>1, <2>2, SerialPlain
<1>3. ASSUME NEW d \in DeliveryIds, AdvanceDelivery(s, d) PROVE SerialGood
  BY <1>2, <1>3, ZenonT(60) DEF AdvanceDelivery, Free, RestOfDeliveries
<1>4. ASSUME NEW d \in DeliveryIds, UpdateLocation(s, d) PROVE SerialGood
  BY <1>2, <1>4, ZenonT(60) DEF UpdateLocation, Free, RestOfDeliveries
<1>5. ASSUME NEW d \in DeliveryIds, UploadProof(s, d) PROVE SerialGood
  BY <1>2, <1>5, Zenon DEF UploadProof, Free, RestOfDeliveries
<1> QED
  BY <1>1, <1>3, <1>4, <1>5 DEF DeliveriesBegin

LEMMA DeliveriesStepSerial ==
  ASSUME Serial, SerialInv, IsolatedInv', NEW s \in Slots, DeliveriesStep(s),
         UNCHANGED RestOfDeliveries
  PROVE  SerialGood
<1>1. CASE SaveLocation(s)
  <2>1. req[s].pc = "save_location" /\ req[s] \in Request
    BY <1>1, SlotStands DEF SaveLocation, At
  <2>2. PICK r : r = [req[s] EXCEPT !.pc = "load_located"]
    OBVIOUS
  <2>3. r.pc \in PlainLabels
    BY <2>1, <2>2 DEF Request, PlainLabels
  <2> QED
    BY <1>1, <2>1, <2>2, <2>3, SaveSameStatus DEF SaveLocation, RestOfDeliveries
<1>2. CASE SaveProof(s)
  <2>1. Idle.pc \in PlainLabels
    BY DEF Idle, PlainLabels
  <2> QED
    BY <1>2, <2>1, SaveSameStatus DEF SaveProof, At, Finish, RestOfDeliveries
<1> QED
  BY <1>1, <1>2, AssignSerial, InsertDeliverySerial, SaveAssignedSerial, SaveDeliverySerial,
     LoadSyncedSerial, SaveSyncedSerial, FreeCourierSerial, LoadLocatedSerial
  DEF DeliveriesStep

-----------------------------------------------------------------------------
(* Every step, and the theorems *)

LEMMA BeginIsSerial ==
  ASSUME Serial, SerialInv, IsolatedInv', NEW s \in Slots, Begin(s)
  PROVE  SerialGood
BY OrdersBeginSerial, PaymentsBeginSerial, CollaboratorsSerial, DeliveriesBeginSerial
DEF Begin, RestOfOrders, RestOfPayments, RestOfDeliveries

LEMMA ServeIsSerial ==
  ASSUME Serial, SerialInv, IsolatedInv', NEW s \in Slots, Serve(s)
  PROVE  SerialGood
BY OrdersStepSerial, PaymentsStepSerial, CollaboratorsSerial, DeliveriesStepSerial
DEF Serve, RestOfOrders, RestOfPayments, RestOfDeliveries

LEMMA NextIsSerial == ASSUME Serial PROVE SerialInv /\ [Next]_vars => SerialGood
<1>1. ASSUME SerialInv, Next PROVE SerialGood
  <2>1. IsolatedInv'
    BY <1>1, OneSlot, NextIsIsolated DEF SerialInv, IsolatedGood
  <2>2. ASSUME NEW s \in Slots PROVE ~Fail(s)
    BY DEF Serial, Fail, Crash
  <2> QED
    BY <1>1, <2>1, <2>2, BeginIsSerial, ServeIsSerial DEF Next
<1>2. ASSUME SerialInv, UNCHANGED vars PROVE SerialGood
  <2>1. IsolatedInv'
    BY <1>2, StutterIsIsolated DEF SerialInv
  <2>2. UNCHANGED <<req, orders, payments, ledger, deliveries, profiles>>
    BY <1>2 DEF vars
  <2>3. \A s \in Slots : Stands(req[s])'
    <3> SUFFICES ASSUME NEW s \in Slots PROVE Stands(req[s])'
      OBVIOUS
    <3>1. PICK r : r = req[s]
      OBVIOUS
    <3>2. Stands(r)'
      BY <1>2, <2>2, <3>1, SameStands DEF SerialInv
    <3> QED
      BY <2>2, <3>1, <3>2
  <2> QED
    BY <2>1, <2>2, <2>3, ContractRests DEF SerialGood, SerialInv
<1> QED
  BY <1>1, <1>2

LEMMA InitIsSerial == Init => SerialInv /\ Contract!Init
<1> SUFFICES ASSUME Init PROVE SerialInv /\ Contract!Init
  OBVIOUS
<1>1. IsolatedInv
  BY InitIsIsolated
<1>2. /\ \A o \in OrderIds : ~Placed(o) /\ \A user \in Users : Credited(o, user) = 0
      /\ \A c \in CourierIds : ~Busy(c)
  BY DEF Init, OrdersInit, PaymentsInit, CollaboratorsInit, Placed, Credited, Busy, Users,
         LedgerEntry
<1>3. \A s \in Slots : Stands(req[s])
  BY <1>2, PlainStands DEF Init, RequestsInit, Idle, PlainLabels, Resting
<1>4. Contract!Init
  <2>1. \A o \in OrderIds : (Credited(o, "seller") > 0) = FALSE
    <3>1. (0 > 0) = FALSE
      OBVIOUS
    <3>2. \A o \in OrderIds : Credited(o, "seller") = 0
      BY <1>2 DEF Users
    <3> QED
      BY <3>1, <3>2, Zenon
  <2>2. [o \in OrderIds |-> Credited(o, "seller") > 0] = [o \in OrderIds |-> FALSE]
    BY <2>1, Zenon
  <2>3. [o \in OrderIds |-> Placed(o) /\ orders[o].method = "cash"] = [o \in OrderIds |-> FALSE]
    BY <1>2
  <2>4. /\ [o \in OrderIds |-> IF Placed(o) THEN orders[o].status ELSE "none"]
             = [o \in OrderIds |-> "none"]
        /\ [o \in OrderIds |-> IF Placed(o) THEN orders[o].collaborator ELSE None]
             = [o \in OrderIds |-> None]
    BY <1>2
  <2> QED
    BY <2>2, <2>3, <2>4 DEF Contract!Init
<1> QED
  BY <1>1, <1>3, <1>4 DEF SerialInv

\* While requests come one at a time and do not crash an order is where its
\* delivery is, what was paid is booked, and a busy courier has a job, except
\* as far as the request in progress is about to make it so.
THEOREM SerialInvIsInvariant == ASSUME Serial PROVE Spec => []SerialInv
<1>1. Init => SerialInv
  BY InitIsSerial
<1>2. SerialInv /\ [Next]_vars => SerialInv'
  BY NextIsSerial DEF SerialGood
<1> QED
  BY <1>1, <1>2, PTL DEF Spec

LEMMA QuietIsResting == ASSUME Serial, SerialInv, Quiet PROVE Resting
<1>1. PICK s \in Slots : req[s].pc = "idle"
  BY DEF Serial, Quiet, At
<1> QED
  BY <1>1, IdleRests DEF PlainLabels

LEMMA RestIsPaidInFull == ASSUME Serial, SerialInv PROVE PaidInFull
<1> SUFFICES ASSUME Quiet PROVE
      /\ \A o \in OrderIds :
           Placed(o) /\ orders[o].method = "cash" /\ orders[o].status = "delivered" =>
             /\ orders[o].payment # None
             /\ payments[orders[o].payment].status = "approved"
             /\ \A user \in {"platform", "seller"} : Credited(o, user) = 1
             /\ orders[o].fee => Credited(o, orders[o].collaborator) = 1
      /\ \A p \in PaymentIds :
           payments[p] # None /\ payments[p].method = "wompi" /\ payments[p].status = "approved" =>
             /\ orders[payments[p].order].payment = p
             /\ \A user \in {"platform", "seller"} : Credited(payments[p].order, user) = 1
  BY DEF PaidInFull
<1>1. Resting
  BY QuietIsResting
<1>2. IsolatedInv /\ Inv
  BY DEF SerialInv, IsolatedInv
<1>3. ASSUME NEW o \in OrderIds, Placed(o), Approved(o)
      PROVE  /\ orders[o].payment \in PaymentsOf(o)
             /\ payments[orders[o].payment].status = "approved"
             /\ \A user \in Earners(orders[o]) : Credited(o, user) = 1
  <2>1. /\ orders[o].payment \in PaymentsOf(o)
        /\ \A user \in Earners(orders[o]) : Credited(o, user) = 1
    BY <1>1, <1>3 DEF Resting, OrderRests, PaidOff
  <2> QED
    BY <1>2, <1>3, <2>1 DEF IsolatedInv, OrderInv, Approved
<1>4. ASSUME NEW o \in OrderIds, Placed(o), orders[o].method = "cash",
             orders[o].status = "delivered"
      PROVE  /\ orders[o].payment # None
             /\ payments[orders[o].payment].status = "approved"
             /\ \A user \in {"platform", "seller"} : Credited(o, user) = 1
             /\ orders[o].fee => Credited(o, orders[o].collaborator) = 1
  <2>1. Approved(o)
    BY <1>1, <1>4 DEF Resting, OrderRests, PaidOff
  <2>2. orders[o].payment # None
    BY <1>3, <1>4, <2>1, NoneAssumption DEF PaymentsOf
  <2> QED
    BY <1>3, <1>4, <2>1, <2>2 DEF Earners
<1>5. ASSUME NEW p \in PaymentIds, payments[p] # None, payments[p].method = "wompi",
             payments[p].status = "approved"
      PROVE  /\ orders[payments[p].order].payment = p
             /\ \A user \in {"platform", "seller"} : Credited(payments[p].order, user) = 1
  <2>1. PICK o : o = payments[p].order
    OBVIOUS
  <2>2. o \in OrderIds /\ Placed(o)
    BY <1>2, <1>5, <2>1, PaymentsAreTyped
    DEF Inv, CollectionsInv, PaymentFitsOrder, Maybe, Payment
  <2>3. p \in PaymentsOf(o) /\ Approved(o)
    BY <1>5, <2>1 DEF PaymentsOf, Approved
  <2>4. orders[o].payment = p
    BY <1>2, <1>3, <2>2, <2>3 DEF IsolatedInv, OrderInv
  <2> QED
    BY <1>3, <2>1, <2>2, <2>3, <2>4 DEF Earners
<1> QED
  BY <1>4, <1>5

\* Requests that come one at a time and do not crash book what is paid: a
\* delivered cash order has one approved payment and one entry for everyone
\* who earns, and an approved gateway payment is the one its order refers to
\* (settle_order_payment, handle_wompi_webhook).
THEOREM PaidOrdersAreBooked == ASSUME Serial PROVE Spec => []PaidInFull
<1>1. SerialInv => PaidInFull
  BY RestIsPaidInFull
<1> QED
  BY <1>1, SerialInvIsInvariant, PTL

\* Requests that come one at a time and do not crash leave no courier shown as
\* on a delivery who has none to finish (assign_order, advance_status).
THEOREM BusyCouriersHaveJobs == ASSUME Serial PROVE Spec => []BusyCourierHasJob
<1>1. SerialInv => BusyCourierHasJob
  <2>1. ASSUME SerialInv, Quiet PROVE \A c \in CourierIds : Busy(c) => HasJob(c)
    BY <2>1, QuietIsResting DEF Resting
  <2> QED
    BY <2>1 DEF BusyCourierHasJob, Busy, HasJob
<1> QED
  BY <1>1, SerialInvIsInvariant, PTL

\* Requests that come one at a time and do not crash implement the safety part
\* of OrderContract: every write of a handler is a step of the contract, or
\* changes nothing it speaks of.
THEOREM TradeKeepsContract ==
  ASSUME Serial PROVE Spec => Contract!Init /\ [][Contract!Next]_(Contract!vars)
<1>1. Init => SerialInv /\ Contract!Init
  BY InitIsSerial
<1>2. SerialInv /\ [Next]_vars => SerialInv' /\ [Contract!Next]_(Contract!vars)
  BY NextIsSerial DEF SerialGood, ContractStep
<1> QED
  BY <1>1, <1>2, PTL DEF Spec

-----------------------------------------------------------------------------
(* The account of the stock, while requests come one at a time.  Its sums   *)
(* are those of CoroutineProofs, whose lemmas on them speak of no variable   *)
(* and of no key.                                                            *)

FiniteSum == INSTANCE CoroutineProofs WITH Keys <- {}, overlapped <- {}, dropped <- {}

SumOver(g, S) == FiniteSum!SumOver(g, S)

LEMMA SameFiniteness == \A S : FiniteSum!IsFiniteSet(S) <=> IsFiniteSet(S)
BY DEF IsFiniteSet, FiniteSum!IsFiniteSet

LEMMA SumIsInt ==
  ASSUME NEW g, NEW S, IsFiniteSet(S), \A x \in S : g[x] \in Int
  PROVE  SumOver(g, S) \in Int
BY SameFiniteness, CanCrashAssumption, FiniteSum!SumIsInt DEF SumOver

LEMMA SumOfNone == ASSUME NEW g PROVE SumOver(g, {}) = 0
BY CanCrashAssumption, FiniteSum!SumOfNone DEF SumOver

LEMMA SumPutIn ==
  ASSUME NEW g, NEW S, IsFiniteSet(S), NEW y, y \notin S, \A x \in S \cup {y} : g[x] \in Int
  PROVE  SumOver(g, S \cup {y}) = g[y] + SumOver(g, S)
BY SameFiniteness, CanCrashAssumption, FiniteSum!SumPutIn DEF SumOver

LEMMA SumChange ==
  ASSUME NEW f, NEW g, NEW S, IsFiniteSet(S), NEW y \in S,
         \A x \in S : f[x] \in Int /\ g[x] \in Int,
         \A x \in S \ {y} : g[x] = f[x]
  PROVE  SumOver(g, S) = SumOver(f, S) + (g[y] - f[y])
BY SameFiniteness, CanCrashAssumption, FiniteSum!SumChange DEF SumOver

LEMMA SumOfOne ==
  ASSUME NEW g, NEW S, IsFiniteSet(S), NEW y \in S, g[y] \in Int, \A x \in S \ {y} : g[x] = 0
  PROVE  SumOver(g, S) = g[y]
<1>1. IsFiniteSet(S \ {y}) /\ \A x \in S : g[x] \in Int
  BY FS_Subset
<1>2. SumOver(g, S \ {y}) = 0
  BY <1>1, SameFiniteness, CanCrashAssumption, FiniteSum!SumOfZeros DEF SumOver
<1>3. SumOver(g, S) = g[y] + SumOver(g, S \ {y})
  BY <1>1, SameFiniteness, CanCrashAssumption, FiniteSum!SumTakeOut DEF SumOver
<1> QED
  BY <1>2, <1>3

LEMMA SumIsFolded ==
  ASSUME NEW g, NEW S
  PROVE  SumOver(g, S) = (CHOOSE h : FiniteSum!Sums(g, h, S))[S]
BY CanCrashAssumption, FiniteSum!SumIsChosen DEF SumOver

-----------------------------------------------------------------------------
(* Lines of a cart *)

\* A cart holds finitely many lines, each of some pieces.
LEMMA LinesAreFinite ==
  ASSUME NEW items \in Seq(Line)
  PROVE  /\ DOMAIN items = 1..Len(items) /\ Len(items) \in Nat
         /\ \A i \in DOMAIN items : items[i].product \in ProductIds /\ items[i].qty \in Nat
<1>1. \A i \in DOMAIN items : items[i] \in Line
  BY SMT
<1> QED
  BY <1>1 DEF Line

Pieces(items, p) ==
  [i \in DOMAIN items |-> IF items[i].product = p THEN items[i].qty ELSE 0]

LEMMA QuantityIsSum ==
  ASSUME NEW items \in Seq(Line), NEW n \in Nat, n <= Len(items), NEW p
  PROVE  Quantity(items, n, p) = SumOver(Pieces(items, p), 1..n)
<1> DEFINE g == Pieces(items, p)
           D == 1..n
           P(T) == CHOOSE x \in T : TRUE
           piece(i) == IF items[i].product = p THEN items[i].qty ELSE 0
           L(h) == h = [T \in SUBSET D |-> IF T = {} THEN 0 ELSE piece(P(T)) + h[T \ {P(T)}]]
<1>1. Quantity(items, n, p) = (CHOOSE h : L(h))[D]
  BY Zenon DEF Quantity, MapThenSumSet, MapThenFoldSet
<1>2. ASSUME NEW h PROVE L(h) <=> FiniteSum!Sums(g, h, D)
  <2>1. ASSUME NEW T \in SUBSET D
        PROVE  (IF T = {} THEN 0 ELSE piece(P(T)) + h[T \ {P(T)}])
                 = FiniteSum!Adding(g, h, T)
    <3>1. T # {} => P(T) \in D
      OBVIOUS
    <3>2. T # {} => g[P(T)] = piece(P(T))
      BY <3>1, LinesAreFinite DEF Pieces
    <3> HIDE DEF g, P, piece
    <3>3. FiniteSum!Pick(T) = P(T)
      BY DEF P, FiniteSum!Pick
    <3> QED
      BY <3>2, <3>3 DEF FiniteSum!Adding
  <2> HIDE DEF piece, P
  <2> QED
    BY <2>1 DEF FiniteSum!Sums
<1> HIDE DEF L, g, D
<1>3. (CHOOSE h : L(h)) = (CHOOSE h : FiniteSum!Sums(g, h, D))
  BY <1>2, Zenon
<1> QED
  BY <1>1, <1>3, SumIsFolded DEF g, D

\* One line after the other.
LEMMA QuantityGrows ==
  ASSUME NEW items \in Seq(Line), NEW p
  PROVE  /\ Quantity(items, 0, p) = 0
         /\ \A n \in 0..Len(items) : Quantity(items, n, p) \in Int
         /\ \A n \in 0..(Len(items) - 1) :
              Quantity(items, n + 1, p) = Quantity(items, n, p) + Pieces(items, p)[n + 1]
<1> DEFINE g == Pieces(items, p)
<1>1. Len(items) \in Nat /\ \A i \in 1..Len(items) : g[i] \in Int
  BY LinesAreFinite DEF Pieces
<1> HIDE DEF g
<1>2. \A n \in 0..Len(items) : /\ Quantity(items, n, p) = SumOver(g, 1..n)
                               /\ IsFiniteSet(1..n)
  BY <1>1, QuantityIsSum, FS_Interval DEF g
<1>3. Quantity(items, 0, p) = 0
  BY <1>1, <1>2, SumOfNone
<1>4. ASSUME NEW n \in 0..Len(items) PROVE Quantity(items, n, p) \in Int
  <2>1. \A i \in 1..n : g[i] \in Int
    BY <1>1
  <2> QED
    BY <1>2, <2>1, SumIsInt
<1>5. ASSUME NEW n \in 0..(Len(items) - 1)
      PROVE  Quantity(items, n + 1, p) = Quantity(items, n, p) + g[n + 1]
  <2>1. /\ n \in 0..Len(items) /\ n + 1 \in 0..Len(items) /\ n + 1 \notin 1..n
        /\ 1..(n + 1) = 1..n \cup {n + 1}
        /\ \A i \in 1..n \cup {n + 1} : g[i] \in Int
    BY <1>1
  <2>2. SumOver(g, 1..n \cup {n + 1}) = g[n + 1] + SumOver(g, 1..n)
    BY <1>2, <2>1, SumPutIn
  <2>3. SumOver(g, 1..n) \in Int
    BY <1>2, <1>4, <2>1
  <2>4. Quantity(items, n, p) = SumOver(g, 1..n)
    BY <1>2, <2>1, Zenon
  <2>5. Quantity(items, n + 1, p) = SumOver(g, 1..n \cup {n + 1})
    BY <1>2, <2>1, Zenon
  <2>6. g[n + 1] \in Int
    BY <2>1
  <2> QED
    BY <2>2, <2>3, <2>4, <2>5, <2>6
<1> QED
  BY <1>3, <1>4, <1>5 DEF g

-----------------------------------------------------------------------------
(* The last line that names a product *)

IsLast(lines, p, i) ==
  /\ i \in DOMAIN lines /\ lines[i].product = p
  /\ \A j \in DOMAIN lines : lines[j].product = p => j <= i

LEMMA SomeLineIsLast ==
  ASSUME NEW S, NEW lines \in Seq(S), NEW p, Names(lines, p)
  PROVE  \E i : IsLast(lines, p, i)
<1> DEFINE N == {i \in DOMAIN lines : lines[i].product = p}
           From(i) == {j \in N : i <= j}
           C == {From(i) : i \in N}
<1>1. N # {} /\ N \subseteq 1..Len(lines) /\ Len(lines) \in Nat
  BY DEF Names
<1>2. FiniteSum!IsFiniteSet(N)
  BY <1>1, FS_Interval, FS_Subset, SameFiniteness
<1>3. C \subseteq SUBSET N /\ C # {}
  BY <1>1
<1>4. \E T \in C : \A U \in C : U \subseteq T => U = T
  <2> HIDE DEF C, N
  <2> QED
    BY <1>2, <1>3, CanCrashAssumption, FiniteSum!SmallestSubset
<1>5. PICK i \in N : \A k \in N : From(k) \subseteq From(i) => From(k) = From(i)
  <2>1. PICK T \in C : \A U \in C : U \subseteq T => U = T
    BY <1>4
  <2>2. PICK i \in N : T = From(i)
    BY <2>1
  <2>3. \A k \in N : From(k) \in C
    OBVIOUS
  <2> HIDE DEF From, C, N
  <2> QED
    BY <2>1, <2>2, <2>3
<1>6. ASSUME NEW k \in N PROVE k <= i
  <2>1. k \in Int /\ i \in Int /\ \A j \in N : j \in Int
    BY <1>1
  <2>2. CASE i < k
    <3>1. From(k) \subseteq From(i)
      BY <2>1, <2>2
    <3>2. i \in From(i) /\ i \notin From(k)
      BY <2>1, <2>2
    <3> QED
      BY <1>5, <3>1, <3>2
  <2> QED
    BY <2>1, <2>2
<1> QED
  BY <1>5, <1>6 DEF IsLast

LEMMA ChargedIsLast ==
  ASSUME NEW S, NEW lines \in Seq(S), NEW p, NEW i, IsLast(lines, p, i)
  PROVE  Charged(lines, p) = lines[i].qty
<1> DEFINE N == {j \in DOMAIN lines : lines[j].product = p}
<1>1. i \in N /\ (\A j \in N : i >= j) /\ \A j \in N : j \in Int
  BY DEF IsLast
<1>2. Max(N) \in N /\ \A j \in N : Max(N) >= j
  BY <1>1 DEF Max
<1>3. Max(N) = i
  <2> HIDE DEF N
  <2>1. Max(N) >= i /\ i >= Max(N) /\ Max(N) \in Int /\ i \in Int
    BY <1>1, <1>2
  <2> QED
    BY <2>1
<1>4. Names(lines, p)
  BY DEF IsLast, Names
<1> QED
  BY <1>3, <1>4 DEF Charged

LEMMA ChargedIsNat ==
  ASSUME NEW items \in Seq(Line), NEW p
  PROVE  Charged(items, p) \in Nat
<1>1. CASE Names(items, p)
  <2>1. PICK i : IsLast(items, p, i)
    BY <1>1, SomeLineIsLast
  <2> QED
    BY <2>1, ChargedIsLast, LinesAreFinite DEF IsLast
<1>2. CASE ~Names(items, p)
  BY <1>2 DEF Charged
<1> QED
  BY <1>1, <1>2

\* Taking the first line off, and adding one at the end.
LEMMA TailOfLines ==
  ASSUME NEW S, NEW lines \in Seq(S), lines # << >>
  PROVE  /\ \A p : Names(lines, p) <=> Head(lines).product = p \/ Names(Tail(lines), p)
         /\ \A p : Names(Tail(lines), p) => Charged(Tail(lines), p) = Charged(lines, p)
         /\ \A p : ~Names(Tail(lines), p) /\ Head(lines).product = p =>
                     Charged(lines, p) = Head(lines).qty
         /\ \A i \in DOMAIN Tail(lines) : /\ i + 1 \in DOMAIN lines
                                          /\ Tail(lines)[i] = lines[i + 1]
<1> DEFINE rest == Tail(lines)
<1>1. /\ Len(lines) \in Nat /\ Len(lines) > 0
      /\ DOMAIN lines = 1..Len(lines) /\ DOMAIN rest = 1..(Len(lines) - 1)
      /\ \A i \in DOMAIN rest : rest[i] = lines[i + 1]
      /\ Head(lines) = lines[1] /\ rest \in Seq(S)
  OBVIOUS
<1> HIDE DEF rest
<1>2. /\ \A i \in DOMAIN rest : i + 1 \in DOMAIN lines /\ rest[i] = lines[i + 1]
      /\ \A i \in DOMAIN lines : i = 1 \/ (i - 1 \in DOMAIN rest /\ rest[i - 1] = lines[i])
      /\ 1 \in DOMAIN lines /\ \A i \in DOMAIN lines : i \in Int
  BY <1>1
<1>3. \A p : Names(lines, p) <=> Head(lines).product = p \/ Names(rest, p)
  BY <1>1, <1>2 DEF Names
<1>4. ASSUME NEW p, Names(rest, p) PROVE Charged(rest, p) = Charged(lines, p)
  <2>1. PICK i : IsLast(rest, p, i)
    BY <1>1, <1>4, SomeLineIsLast
  <2>2. IsLast(lines, p, i + 1)
    <3>1. i \in DOMAIN rest /\ i \in Int /\ i >= 1 /\ lines[i + 1].product = p
      BY <1>1, <1>2, <2>1 DEF IsLast
    <3>2. ASSUME NEW j \in DOMAIN lines, lines[j].product = p PROVE j <= i + 1
      <4>1. CASE j = 1
        BY <3>1, <4>1
      <4>2. CASE j - 1 \in DOMAIN rest /\ rest[j - 1] = lines[j]
        <5>1. j - 1 <= i
          BY <2>1, <3>2, <4>2 DEF IsLast
        <5> QED
          BY <1>2, <3>1, <5>1
      <4> QED
        BY <1>2, <4>1, <4>2
    <3> QED
      BY <1>2, <3>1, <3>2 DEF IsLast
  <2>3. Charged(rest, p) = rest[i].qty /\ Charged(lines, p) = lines[i + 1].qty
    BY <1>1, <2>1, <2>2, ChargedIsLast
  <2> QED
    BY <1>2, <2>1, <2>3 DEF IsLast
<1>5. ASSUME NEW p, ~Names(rest, p), lines[1].product = p
      PROVE  Charged(lines, p) = lines[1].qty
  <2>1. ASSUME NEW j \in DOMAIN lines, lines[j].product = p PROVE j <= 1
    <3>1. ~(j - 1 \in DOMAIN rest /\ rest[j - 1] = lines[j])
      BY <1>5, <2>1 DEF Names
    <3> QED
      BY <1>2, <3>1
  <2>2. IsLast(lines, p, 1)
    BY <1>2, <1>5, <2>1 DEF IsLast
  <2> QED
    BY <2>2, ChargedIsLast
<1> QED
  BY <1>1, <1>2, <1>3, <1>4, <1>5 DEF rest

LEMMA LineAppended ==
  ASSUME NEW S, NEW lines \in Seq(S), NEW x \in S
  PROVE  /\ \A p : Names(Append(lines, x), p) <=> Names(lines, p) \/ x.product = p
         /\ \A p : Charged(Append(lines, x), p) = IF x.product = p THEN x.qty ELSE Charged(lines, p)
<1> DEFINE more == Append(lines, x)
           n == Len(lines)
<1>1. /\ n \in Nat /\ DOMAIN lines = 1..n /\ DOMAIN more = 1..(n + 1) /\ more \in Seq(S)
      /\ more[n + 1] = x /\ \A i \in 1..n : more[i] = lines[i]
  OBVIOUS
<1> HIDE DEF more, n
<1>2. /\ \A i \in DOMAIN lines : i \in DOMAIN more /\ more[i] = lines[i] /\ i <= n + 1
      /\ \A i \in DOMAIN more : i \in Int /\ i <= n + 1
                                /\ (i = n + 1 \/ (i \in DOMAIN lines /\ more[i] = lines[i]))
      /\ n + 1 \in DOMAIN more /\ more[n + 1] = x
  BY <1>1
<1>3. \A p : Names(more, p) <=> Names(lines, p) \/ x.product = p
  BY <1>2 DEF Names
<1>4. ASSUME NEW p, x.product = p PROVE Charged(more, p) = x.qty
  <2>1. IsLast(more, p, n + 1)
    BY <1>2, <1>4 DEF IsLast
  <2> QED
    BY <1>1, <2>1, ChargedIsLast
<1>5. ASSUME NEW p, x.product # p PROVE Charged(more, p) = Charged(lines, p)
  <2>1. CASE Names(lines, p)
    <3>1. PICK i : IsLast(lines, p, i)
      BY <2>1, SomeLineIsLast
    <3>2. IsLast(more, p, i)
      BY <1>2, <1>5, <3>1 DEF IsLast
    <3>3. Charged(more, p) = more[i].qty /\ Charged(lines, p) = lines[i].qty
      BY <1>1, <3>1, <3>2, ChargedIsLast
    <3> QED
      BY <1>2, <3>1, <3>3 DEF IsLast
  <2>2. CASE ~Names(lines, p)
    BY <1>3, <1>5, <2>2 DEF Charged
  <2> QED
    BY <2>1, <2>2
<1> QED
  BY <1>3, <1>4, <1>5 DEF more

LEMMA EmptyLines == \A p : ~Names(<< >>, p) /\ Charged(<< >>, p) = 0
BY DEF Names, Charged

-----------------------------------------------------------------------------
(* What orders have *)

OutstandingOf(p) == [o \in OrderIds |-> Outstanding(o, p)]

LEMMA OnOrderIsSum ==
  ASSUME NEW p
  PROVE  OnOrder(p) = SumOver(OutstandingOf(p), OrderIds)
<1> DEFINE g == OutstandingOf(p)
           P(T) == CHOOSE x \in T : TRUE
           L(h) == h = [T \in SUBSET OrderIds |->
                          IF T = {} THEN 0 ELSE Outstanding(P(T), p) + h[T \ {P(T)}]]
<1>1. OnOrder(p) = (CHOOSE h : L(h))[OrderIds]
  BY Zenon DEF OnOrder, MapThenSumSet, MapThenFoldSet
<1>2. ASSUME NEW h PROVE L(h) <=> FiniteSum!Sums(g, h, OrderIds)
  <2>1. ASSUME NEW T \in SUBSET OrderIds
        PROVE  (IF T = {} THEN 0 ELSE Outstanding(P(T), p) + h[T \ {P(T)}])
                 = FiniteSum!Adding(g, h, T)
    <3>1. T # {} => P(T) \in OrderIds
      OBVIOUS
    <3>2. T # {} => g[P(T)] = Outstanding(P(T), p)
      BY <3>1 DEF OutstandingOf
    <3> HIDE DEF g, P
    <3>3. FiniteSum!Pick(T) = P(T)
      BY DEF P, FiniteSum!Pick
    <3> QED
      BY <3>2, <3>3 DEF FiniteSum!Adding
  <2> QED
    BY <2>1 DEF FiniteSum!Sums
<1> HIDE DEF L, g
<1>3. (CHOOSE h : L(h)) = (CHOOSE h : FiniteSum!Sums(g, h, OrderIds))
  BY <1>2, Zenon
<1> QED
  BY <1>1, <1>3, SumIsFolded DEF g

LEMMA PlacedItems ==
  ASSUME TypeOK, NEW o \in OrderIds, Placed(o)
  PROVE  orders[o] \in Order /\ orders[o].items \in Carts /\ orders[o].items \in Seq(Line)
BY CartsAssumption DEF TypeOK, OrdersTypeOK, Maybe, Order, Placed

LEMMA OutstandingIsInt ==
  TypeOK => \A p, o : o \in OrderIds => Outstanding(o, p) \in Int
<1> SUFFICES ASSUME TypeOK, NEW p, NEW o \in OrderIds PROVE Outstanding(o, p) \in Int
  OBVIOUS
<1>1. CASE Placed(o)
  <2>1. PICK items \in Seq(Line) : items = orders[o].items
    BY <1>1, PlacedItems
  <2>2. Charged(items, p) \in Int /\ Quantity(items, Len(items), p) \in Int
    <3>1. Len(items) \in 0..Len(items)
      BY LinesAreFinite
    <3>2. Charged(items, p) \in Nat
      BY ChargedIsNat
    <3>3. Quantity(items, Len(items), p) \in Int
      BY <3>1, QuantityGrows, Zenon
    <3> QED
      BY <3>2, <3>3
  <2> QED
    BY <1>1, <2>1, <2>2 DEF Outstanding
<1>2. CASE ~Placed(o)
  BY <1>2 DEF Outstanding
<1> QED
  BY <1>1, <1>2

LEMMA OutstandingIsIntNext ==
  (TypeOK => \A p, o : o \in OrderIds => Outstanding(o, p) \in Int)'
BY OutstandingIsInt, PTL
LEMMA OnOrderIsSumNext == ASSUME NEW p PROVE (OnOrder(p) = SumOver(OutstandingOf(p), OrderIds))'
BY OnOrderIsSum, PTL

LEMMA OnOrderIsInt ==
  TypeOK /\ IsFiniteSet(OrderIds) => \A p : OnOrder(p) \in Int
BY OutstandingIsInt, OnOrderIsSum, SumIsInt DEF OutstandingOf

\* One order is written: what others have stays the same.
LEMMA OneOrderWritten ==
  ASSUME TypeOK, TypeOK', IsFiniteSet(OrderIds), NEW x \in OrderIds,
         \A o \in OrderIds \ {x} : orders'[o] = orders[o], NEW p
  PROVE  OnOrder(p)' = OnOrder(p) + (Outstanding(x, p)' - Outstanding(x, p))
<1>1. /\ OnOrder(p) = SumOver(OutstandingOf(p), OrderIds)
      /\ OnOrder(p)' = SumOver(OutstandingOf(p)', OrderIds)
  BY OnOrderIsSum, OnOrderIsSumNext DEF SumOver
<1>2. \A o \in OrderIds : /\ OutstandingOf(p)[o] = Outstanding(o, p)
                          /\ OutstandingOf(p)'[o] = Outstanding(o, p)'
  BY DEF OutstandingOf
<1>3. \A o \in OrderIds : Outstanding(o, p) \in Int /\ Outstanding(o, p)' \in Int
  BY OutstandingIsInt, OutstandingIsIntNext
<1>4. \A o \in OrderIds \ {x} : Outstanding(o, p)' = Outstanding(o, p)
  BY DEF Outstanding, Placed
<1> QED
  BY <1>1, <1>2, <1>3, <1>4, SumChange

LEMMA SameOrders ==
  ASSUME UNCHANGED orders
  PROVE  \A p : OnOrder(p)' = OnOrder(p)
<1> SUFFICES ASSUME NEW p PROVE OnOrder(p)' = OnOrder(p)
  OBVIOUS
<1>1. OutstandingOf(p)' = OutstandingOf(p)
  BY DEF OutstandingOf, Outstanding, Placed
<1> QED
  BY <1>1, OnOrderIsSum, OnOrderIsSumNext DEF SumOver

\* An order is saved that has not been cancelled, or stays as cancelled as it was.
LEMMA SameOnOrder ==
  ASSUME TypeOK, TypeOK', IsFiniteSet(OrderIds), NEW x \in OrderIds,
         \A o \in OrderIds \ {x} : orders'[o] = orders[o],
         Placed(x), Placed(x)', orders'[x].items = orders[x].items,
         orders'[x].status = "cancelled" <=> orders[x].status = "cancelled"
  PROVE  \A p : OnOrder(p)' = OnOrder(p)
<1> SUFFICES ASSUME NEW p PROVE OnOrder(p)' = OnOrder(p)
  OBVIOUS
<1>1. Outstanding(x, p)' = Outstanding(x, p)
  BY DEF Outstanding
<1>2. Outstanding(x, p) \in Int /\ OnOrder(p) \in Int
  BY OutstandingIsInt, OnOrderIsInt
<1> QED
  BY <1>1, <1>2, OneOrderWritten

-----------------------------------------------------------------------------
(* Steps: what each is taken from, and what it has to keep *)

Standing == SerialInv /\ SerialInv' /\ StockInv /\ IsFiniteSet(OrderIds)

ShelfGood(s) == Shelving(req[s])' /\ \A p \in ProductIds : AccountKept(s, p)

ShelfLabels == {"create", "cancel", "restock"}

LEMMA OffTheShelf ==
  ASSUME NEW r, r.pc \notin ShelfLabels
  PROVE  /\ Shelving(r) /\ Shelving(r)'
         /\ \A p : /\ TakenAway(r, p) = 0 /\ PutBack(r, p) = 0
                   /\ TakenAway(r, p)' = 0 /\ PutBack(r, p)' = 0
BY DEF ShelfLabels, Shelving, TakenAway, PutBack

LEMMA StockStep ==
  ASSUME NEW s, NEW r, req'[s] = r, Shelving(r)',
         \A p \in ProductIds : Stocked(p) /\ Stocked(p)' /\ ~Edited(req[s], p) =>
           Account(r, p)' = Account(req[s], p)
  PROVE  ShelfGood(s)
BY DEF ShelfGood, AccountKept

\* The request goes on without a change of what is on the shelf or on order.
LEMMA StockRead ==
  ASSUME NEW s, NEW r, req'[s] = r, Shelving(r)',
         UNCHANGED products, \A p : OnOrder(p)' = OnOrder(p),
         \A p \in ProductIds : Stocked(p) => /\ TakenAway(r, p) = TakenAway(req[s], p)
                                             /\ PutBack(r, p) = PutBack(req[s], p)
  PROVE  ShelfGood(s)
<1>1. ASSUME NEW p \in ProductIds, Stocked(p) PROVE Account(r, p)' = Account(req[s], p)
  <2>1. TakenAway(r, p)' = TakenAway(r, p) /\ PutBack(r, p)' = PutBack(r, p)
    BY DEF TakenAway, PutBack
  <2> QED
    BY <1>1, <2>1 DEF Account
<1> QED
  BY <1>1, StockStep

LEMMA StockPlain ==
  ASSUME NEW s, req[s].pc \notin ShelfLabels, req'[s].pc \notin ShelfLabels,
         UNCHANGED products, \A p : OnOrder(p)' = OnOrder(p)
  PROVE  ShelfGood(s)
<1>1. PICK r : r = req'[s]
  OBVIOUS
<1> QED
  BY <1>1, OffTheShelf, StockRead

LEMMA SlotIsTyped ==
  ASSUME SerialInv, NEW s \in Slots
  PROVE  /\ req[s] \in Request /\ RequestInv(req[s]) /\ Stands(req[s]) /\ TypeOK
         /\ req \in [Slots -> Request]
BY DEF SerialInv, IsolatedInv, Inv, TypeOK, RequestsTypeOK

LEMMA GotoIs ==
  ASSUME SerialInv, NEW s \in Slots, NEW r, Goto(s, r)
  PROVE  req'[s] = r
BY SlotIsTyped DEF Goto

LEMMA StandingTypes ==
  Standing => /\ TypeOK /\ TypeOK' /\ IsFiniteSet(OrderIds)
              /\ products \in [ProductIds -> Maybe(Product)]
              /\ orders \in [OrderIds -> Maybe(Order)]
              /\ \A s \in Slots : Shelving(req[s])
BY DEF Standing, SerialInv, IsolatedInv, Inv, TypeOK, OrdersTypeOK, StockInv

\* A counted stock is a number.
LEMMA StockedIsInt ==
  ASSUME Standing, NEW p \in ProductIds, Stocked(p)
  PROVE  products[p] \in Product /\ products[p].stock \in Int /\ OnOrder(p) \in Int
BY StandingTypes, OnOrderIsInt DEF Stocked, Maybe, Product

\* While a line of the cart is to be read nothing of the order was taken.
LEMMA NothingTaken ==
  ASSUME NEW r, r.pc = "create", Taking(r), r.lines # << >>,
         NEW p \in ProductIds, Stocked(p), products[p].stock \in Int
  PROVE  TakenAway(r, p) = 0 /\ PutBack(r, p) = 0
<1>1. ASSUME ~Names(r.lines, p), Names(r.taken, p) PROVE TakenAway(r, p) = 0
  <2> DEFINE i == CHOOSE i \in DOMAIN r.taken : r.taken[i].product = p
  <2>1. i \in DOMAIN r.taken /\ r.taken[i].product = p
    BY <1>1 DEF Names
  <2>2. TakenAway(r, p) = r.taken[i].goods.stock - products[p].stock
    BY <1>1, Zenon DEF TakenAway
  <2> HIDE DEF i
  <2>3. r.taken[i].goods = products[p]
    BY <2>1 DEF Taking
  <2> QED
    BY <2>2, <2>3
<1>2. ASSUME ~Names(r.lines, p), ~Names(r.taken, p) PROVE TakenAway(r, p) = 0
  BY <1>2 DEF Taking, TakenAway
<1> QED
  BY <1>1, <1>2 DEF TakenAway, PutBack

LEMMA StockFinish ==
  ASSUME Standing, NEW s \in Slots, Finish(s), UNCHANGED <<orders, products>>,
         \A p \in ProductIds : Stocked(p) => TakenAway(req[s], p) = 0 /\ PutBack(req[s], p) = 0
  PROVE  ShelfGood(s)
<1>1. req'[s] = Idle /\ Idle.pc \notin ShelfLabels
  BY GotoIs DEF Standing, Finish, Idle, ShelfLabels
<1> QED
  BY <1>1, SameOrders, OffTheShelf, StockRead

-----------------------------------------------------------------------------
(* create_order *)

LEMMA StockCreateOrder ==
  ASSUME Standing, NEW s \in Slots, NEW cart \in Carts, NEW method, NEW fee,
         CreateOrder(s, cart, method, fee)
  PROVE  ShelfGood(s)
<1>1. PICK r : /\ req'[s] = r /\ r.pc = "create" /\ r.lines = cart /\ r.taken = << >>
               /\ r.order.items = cart
  <2> DEFINE order == [status |-> "pending", items |-> cart, method |-> method,
                       fee |-> fee, collaborator |-> None, payment |-> None]
             x == [Idle EXCEPT !.pc = "create", !.lines = cart, !.order = order]
  <2>1. order.items = cart
    OBVIOUS
  <2>2. x.pc = "create" /\ x.lines = cart /\ x.taken = << >> /\ x.order = order
    BY DEF Idle
  <2>3. Goto(s, x)
    BY DEF CreateOrder
  <2> HIDE DEF x
  <2>4. req'[s] = x
    BY <2>3, GotoIs DEF Standing
  <2> QED
    BY <2>1, <2>2, <2>4
<1>2. req[s].pc = "idle" /\ UNCHANGED <<orders, products>>
  BY DEF CreateOrder, Free
<1>3. Taking(r) /\ Taking(r)'
  <2>1. \A p : ~Names(cart, p) => Charged(cart, p) = 0
    BY DEF Charged
  <2> QED
    BY <1>1, <2>1, EmptyLines DEF Taking
<1>4. \A p : TakenAway(r, p) = 0 /\ PutBack(r, p) = 0
  BY <1>1, EmptyLines DEF TakenAway, PutBack, Charged
<1>5. \A p : TakenAway(req[s], p) = 0 /\ PutBack(req[s], p) = 0
  BY <1>2, OffTheShelf DEF ShelfLabels
<1>6. Shelving(r)'
  BY <1>1, <1>3 DEF Shelving
<1> QED
  BY <1>1, <1>2, <1>4, <1>5, <1>6, SameOrders, StockRead

LEMMA StockReadLine ==
  ASSUME Standing, NEW s \in Slots, ReadLine(s)
  PROVE  ShelfGood(s)
<1>1. PICK old : old = req[s]
  OBVIOUS
<1>2. /\ old \in Request /\ old.pc = "create" /\ old.lines # << >> /\ Taking(old)
      /\ old.lines \in Seq(Line) /\ old.taken \in Seq(Take)
      /\ UNCHANGED <<orders, products>>
  BY <1>1, SlotIsTyped, StandingTypes DEF Standing, ReadLine, At, Shelving, Request
<1>3. PICK line : line = Head(old.lines)
  OBVIOUS
<1>4. PICK rest : rest = Tail(old.lines)
  OBVIOUS
<1>5. PICK goods : goods = products[line.product]
  OBVIOUS
<1>6. PICK take : take = [product |-> line.product, goods |-> goods, qty |-> line.qty]
  OBVIOUS
<1>7. PICK taken : taken = IF goods.stock = None THEN old.taken ELSE Append(old.taken, take)
  OBVIOUS
<1>8. \A p \in ProductIds : Stocked(p) => TakenAway(old, p) = 0 /\ PutBack(old, p) = 0
  BY <1>2, NothingTaken, StockedIsInt
<1>9. CASE ~Sellable(goods, line.qty)
  <2>1. Finish(s)
    BY <1>1, <1>3, <1>5, <1>9 DEF ReadLine
  <2> QED
    BY <1>1, <1>2, <1>8, <2>1, StockFinish
<1>10. CASE Sellable(goods, line.qty)
  <2>1. PICK q : /\ q.pc = "create" /\ q.lines = rest /\ q.taken = taken
                 /\ q.order = old.order /\ req'[s] = q
    <3> DEFINE r == [old EXCEPT !.lines = Tail(@),
                       !.taken = IF goods.stock = None THEN @ ELSE Append(@, take)]
    <3>1. Goto(s, r)
      BY <1>1, <1>3, <1>5, <1>6, <1>10 DEF ReadLine
    <3>2. /\ r.pc = "create" /\ r.lines = rest /\ r.taken = taken /\ r.order = old.order
      BY <1>2, <1>4, <1>7 DEF Request
    <3> HIDE DEF r
    <3>3. req'[s] = r
      BY <3>1, GotoIs DEF Standing
    <3> QED
      BY <3>2, <3>3
  <2>2. /\ take.product = line.product /\ take.goods = goods /\ take.qty = line.qty
        /\ line \in Line /\ line.product \in ProductIds /\ goods # None
        /\ take \in Take
    <3>1. line \in Line /\ goods # None
      BY <1>2, <1>3, <1>10 DEF Sellable
    <3>2. line.product \in ProductIds /\ line.qty \in Nat \ {0}
      BY <3>1 DEF Line
    <3>3. goods \in Product
      BY <1>5, <3>1, <3>2, StandingTypes DEF Maybe
    <3> QED
      BY <1>6, <3>1, <3>2, <3>3 DEF Take
  <2>3. /\ \A p : Names(old.lines, p) <=> line.product = p \/ Names(rest, p)
        /\ \A p : Names(rest, p) => Charged(rest, p) = Charged(old.lines, p)
        /\ \A p : ~Names(rest, p) /\ line.product = p => Charged(old.lines, p) = line.qty
    BY <1>2, <1>3, <1>4, TailOfLines
  <2>4. /\ ~Stocked(line.product) => taken = old.taken
        /\ Stocked(line.product) =>
             /\ \A p : Names(taken, p) <=> Names(old.taken, p) \/ line.product = p
             /\ \A p : Charged(taken, p) =
                         IF line.product = p THEN line.qty ELSE Charged(old.taken, p)
    <3>1. Stocked(line.product) <=> goods.stock # None
      BY <1>5, <2>2 DEF Stocked
    <3> QED
      BY <1>2, <1>7, <2>2, <3>1, LineAppended
  <2>5. \A i \in DOMAIN taken : /\ taken[i].goods = products[taken[i].product]
                                /\ Stocked(taken[i].product)
    <3>1. \A i \in DOMAIN old.taken : /\ old.taken[i].goods = products[old.taken[i].product]
                                      /\ Stocked(old.taken[i].product)
      BY <1>2 DEF Taking
    <3>2. CASE goods.stock # None
      <4>1. Stocked(take.product) /\ take.goods = products[take.product]
        BY <1>5, <2>2, <3>2 DEF Stocked
      <4>2. \A i \in DOMAIN taken : taken[i] = take \/ (i \in DOMAIN old.taken /\ taken[i] = old.taken[i])
        BY <1>2, <1>7, <2>2, <3>2
      <4> QED
        BY <3>1, <4>1, <4>2
    <3> QED
      BY <1>7, <3>1, <3>2
  <2>6. ASSUME NEW p \in ProductIds, Stocked(p), ~Names(rest, p)
        PROVE  IF Names(taken, p) THEN Charged(taken, p) = Charged(old.order.items, p)
                                  ELSE Charged(old.order.items, p) = 0
    <3>1. CASE line.product = p
      <4>1. Names(old.lines, p) /\ Charged(old.lines, p) = line.qty
        BY <2>3, <2>6, <3>1
      <4>2. Charged(old.order.items, p) = line.qty
        BY <1>2, <2>6, <4>1 DEF Taking
      <4> QED
        BY <2>4, <2>6, <3>1, <4>2
    <3>2. CASE line.product # p
      <4>1. ~Names(old.lines, p)
        BY <2>3, <2>6, <3>2
      <4>2. IF Names(old.taken, p) THEN Charged(old.taken, p) = Charged(old.order.items, p)
                                   ELSE Charged(old.order.items, p) = 0
        BY <1>2, <2>6, <4>1 DEF Taking
      <4> QED
        BY <2>4, <3>2, <4>2
    <3> QED
      BY <3>1, <3>2
  <2>7. Taking(q)
    <3>1. ASSUME NEW p \in ProductIds, Stocked(p), Names(rest, p)
          PROVE  Charged(rest, p) = Charged(old.order.items, p)
      BY <1>2, <2>3, <3>1 DEF Taking
    <3> QED
      BY <2>1, <2>5, <2>6, <3>1 DEF Taking
  <2>8. ASSUME NEW p \in ProductIds, Stocked(p) PROVE TakenAway(q, p) = 0 /\ PutBack(q, p) = 0
    <3> DEFINE i == CHOOSE i \in DOMAIN taken : taken[i].product = p
    <3>1. ASSUME ~Names(rest, p), Names(taken, p) PROVE TakenAway(q, p) = 0
      <4>1. i \in DOMAIN taken /\ taken[i].product = p
        BY <3>1 DEF Names
      <4>2. TakenAway(q, p) = taken[i].goods.stock - products[p].stock
        BY <2>1, <3>1, Zenon DEF TakenAway
      <4> HIDE DEF i
      <4> QED
        BY <2>5, <2>8, <4>1, <4>2, StockedIsInt
    <3>2. ASSUME ~Names(rest, p), ~Names(taken, p) PROVE TakenAway(q, p) = 0
      BY <2>1, <2>6, <2>8, <3>2 DEF TakenAway
    <3> QED
      BY <2>1, <3>1, <3>2 DEF TakenAway, PutBack
  <2>9. Shelving(q)'
    <3>1. Taking(q)'
      BY <1>2, <2>7 DEF Taking, Stocked
    <3> QED
      BY <2>1, <3>1 DEF Shelving
  <2> QED
    BY <1>1, <1>2, <1>8, <2>1, <2>8, <2>9, SameOrders, StockRead
<1> QED
  BY <1>9, <1>10

\* A request that has a copy of p left to save took what its copy had more.
LEMMA CopyTells ==
  ASSUME NEW r, r.pc = "create", NEW p, ~Names(r.lines, p),
         \A i, j \in DOMAIN r.taken :
           r.taken[i].product = r.taken[j].product => r.taken[i].goods = r.taken[j].goods,
         NEW k \in DOMAIN r.taken, r.taken[k].product = p
  PROVE  /\ TakenAway(r, p) = r.taken[k].goods.stock - products[p].stock
         /\ TakenAway(r, p)' = r.taken[k].goods.stock - products'[p].stock
<1> DEFINE i == CHOOSE i \in DOMAIN r.taken : r.taken[i].product = p
<1>1. i \in DOMAIN r.taken /\ r.taken[i].product = p /\ Names(r.taken, p)
  BY DEF Names
<1>2. /\ TakenAway(r, p) = r.taken[i].goods.stock - products[p].stock
      /\ TakenAway(r, p)' = r.taken[i].goods.stock - products'[p].stock
  BY <1>1, Zenon DEF TakenAway
<1> HIDE DEF i
<1> QED
  BY <1>1, <1>2

LEMMA StockTakeStock ==
  ASSUME Standing, NEW s \in Slots, TakeStock(s)
  PROVE  ShelfGood(s)
<1>1. PICK old : old = req[s]
  OBVIOUS
<1>2. /\ old \in Request /\ old.pc = "create" /\ old.lines = << >> /\ old.taken # << >>
      /\ UNCHANGED orders /\ Taking(old) /\ old.taken \in Seq(Take)
  BY <1>1, SlotIsTyped, StandingTypes DEF Standing, TakeStock, At, Shelving, Request
<1>3. PICK take : take = Head(old.taken)
  OBVIOUS
<1>4. PICK rest : rest = Tail(old.taken)
  OBVIOUS
<1>5. PICK doc : doc = [take.goods EXCEPT !.stock = @ - take.qty]
  OBVIOUS
<1>6. PICK q : q.pc = "create" /\ q.lines = << >> /\ q.taken = rest /\ q.order = old.order
               /\ req'[s] = q
  <2> DEFINE r == [old EXCEPT !.taken = Tail(@)]
  <2>1. r.pc = "create" /\ r.lines = << >> /\ r.taken = rest /\ r.order = old.order
    BY <1>2, <1>4 DEF Request
  <2>2. Goto(s, r)
    BY <1>1 DEF TakeStock
  <2> HIDE DEF r
  <2>3. req'[s] = r
    BY <2>2, GotoIs DEF Standing
  <2> QED
    BY <2>1, <2>3
<1>7. /\ take = old.taken[1] /\ 1 \in DOMAIN old.taken /\ take \in Take
      /\ rest \in Seq(Take)
  BY <1>2, <1>3, <1>4
<1>8. /\ \A p : Names(old.taken, p) <=> take.product = p \/ Names(rest, p)
      /\ \A p : Names(rest, p) => Charged(rest, p) = Charged(old.taken, p)
      /\ \A p : ~Names(rest, p) /\ take.product = p => Charged(old.taken, p) = take.qty
      /\ \A i \in DOMAIN rest : i + 1 \in DOMAIN old.taken /\ rest[i] = old.taken[i + 1]
  BY <1>2, <1>3, <1>4, TailOfLines
<1>9. /\ take.product \in ProductIds /\ take.qty \in Int /\ take.goods \in Product
      /\ take.goods.stock \in Int /\ Stocked(take.product)
  <2>1. take.goods.stock \in Int
    BY <1>1, <1>7, SlotIsTyped DEF Standing, RequestInv
  <2>2. Stocked(take.product)
    BY <1>2, <1>7 DEF Taking
  <2> QED
    BY <1>7, <2>1, <2>2 DEF Take
<1>10. /\ doc # None /\ doc.stock = take.goods.stock - take.qty /\ doc.stock # None
  <2>1. doc.stock = take.goods.stock - take.qty /\ doc.available = take.goods.available
    BY <1>5, <1>9 DEF Product
  <2>2. doc.stock \in Int
    BY <1>9, <2>1
  <2>3. doc \in Product
    BY <1>5, <1>9, <2>1, <2>2 DEF Product, Maybe
  <2> QED
    BY <2>1, <2>2, <2>3, NoneAssumption, DocumentAssumption
<1>11. /\ products'[take.product] = doc
       /\ \A p \in ProductIds : p # take.product => products'[p] = products[p]
  BY <1>1, <1>3, <1>5, <1>9, StandingTypes DEF TakeStock, SaveInto
<1>12. \A p \in ProductIds : Stocked(p)' <=> Stocked(p)
  BY <1>9, <1>10, <1>11 DEF Stocked
<1>13. Shelving(q)'
  <2>1. \A i \in DOMAIN rest : rest[i].product \in ProductIds /\ Stocked(rest[i].product)
    <3>1. \A i \in DOMAIN rest : rest[i] \in Take
      BY <1>7
    <3> QED
      BY <1>2, <1>8, <3>1 DEF Taking, Take
  <2>2. \A i, j \in DOMAIN rest : rest[i].product = rest[j].product => rest[i].goods = rest[j].goods
    BY <1>2, <1>8 DEF Taking
  <2>3. ASSUME NEW p \in ProductIds, Stocked(p), Names(rest, p)
        PROVE  Charged(rest, p) = Charged(old.order.items, p)
    BY <1>2, <1>8, <2>3, EmptyLines DEF Taking
  <2>4. Taking(q)'
    BY <1>6, <1>12, <2>1, <2>2, <2>3, EmptyLines DEF Taking
  <2> QED
    BY <1>6, <2>4 DEF Shelving
<1>14. ASSUME NEW p \in ProductIds, Stocked(p) PROVE Account(q, p)' = Account(old, p)
  <2>1. products[p].stock \in Int /\ OnOrder(p) \in Int /\ OnOrder(p)' = OnOrder(p)
    BY <1>2, <1>14, StockedIsInt, SameOrders
  <2>2. PutBack(old, p) = 0 /\ PutBack(q, p)' = 0
    BY <1>2, <1>6 DEF PutBack
  <2>3. ~Names(old.lines, p) /\ ~Names(q.lines, p)
    BY <1>2, <1>6, EmptyLines
  <2>4. \A i, j \in DOMAIN old.taken :
          old.taken[i].product = old.taken[j].product => old.taken[i].goods = old.taken[j].goods
    BY <1>2 DEF Taking
  <2>5. \A i, j \in DOMAIN q.taken :
          q.taken[i].product = q.taken[j].product => q.taken[i].goods = q.taken[j].goods
    BY <1>6, <1>8, <2>4
  <2>6. CASE p = take.product
    <3>1. TakenAway(old, p) = take.goods.stock - products[p].stock
      BY <1>2, <1>7, <2>3, <2>4, <2>6, CopyTells
    <3>2. TakenAway(q, p)' = take.goods.stock - products'[p].stock
      <4>1. CASE Names(rest, p)
        <5>1. PICK k \in DOMAIN rest : rest[k].product = p
          BY <4>1 DEF Names
        <5>2. rest[k].goods = take.goods
          BY <1>7, <1>8, <2>4, <2>6, <5>1
        <5> QED
          BY <1>6, <2>3, <2>5, <5>1, <5>2, CopyTells
      <4>2. CASE ~Names(rest, p)
        <5>1. Charged(old.order.items, p) = take.qty
          BY <1>2, <1>8, <1>14, <2>3, <2>6, <4>2 DEF Taking
        <5>2. TakenAway(q, p)' = Charged(old.order.items, p)
          BY <1>6, <2>3, <4>2 DEF TakenAway
        <5>3. products'[p].stock = take.goods.stock - take.qty
          BY <1>10, <1>11, <2>6
        <5> QED
          BY <1>9, <5>1, <5>2, <5>3
      <4> QED
        BY <4>1, <4>2
    <3>3. products'[p].stock \in Int
      BY <1>9, <1>10, <1>11, <2>6
    <3> QED
      BY <1>9, <2>1, <2>2, <3>1, <3>2, <3>3 DEF Account
  <2>7. CASE p # take.product
    <3>1. products'[p] = products[p]
      BY <1>11, <2>7
    <3>2. TakenAway(q, p)' = TakenAway(old, p)
      <4>1. CASE Names(rest, p)
        <5>1. PICK k \in DOMAIN rest : rest[k].product = p
          BY <4>1 DEF Names
        <5>2. TakenAway(q, p)' = rest[k].goods.stock - products'[p].stock
          BY <1>6, <2>3, <2>5, <5>1, CopyTells
        <5>3. TakenAway(old, p) = rest[k].goods.stock - products[p].stock
          BY <1>2, <1>8, <2>3, <2>4, <5>1, CopyTells
        <5> QED
          BY <3>1, <5>2, <5>3
      <4>2. CASE ~Names(rest, p)
        BY <1>2, <1>6, <1>8, <2>3, <2>7, <4>2 DEF TakenAway
      <4> QED
        BY <4>1, <4>2
    <3> QED
      BY <2>1, <2>2, <3>1, <3>2 DEF Account
  <2> QED
    BY <2>6, <2>7
<1> QED
  BY <1>1, <1>6, <1>13, <1>14, StockStep

LEMMA StockInsertOrder ==
  ASSUME Standing, NEW s \in Slots, InsertOrder(s)
  PROVE  ShelfGood(s)
<1>1. PICK old : old = req[s]
  OBVIOUS
<1>2. /\ old.pc = "create" /\ old.lines = << >> /\ old.taken = << >>
      /\ UNCHANGED products /\ old.order \in Order /\ old.order.status = "pending"
  BY <1>1, SlotIsTyped DEF Standing, InsertOrder, At, RequestInv
<1>3. PICK o \in OrderIds : orders[o] = None /\ orders' = SaveInto(orders, o, old.order)
  BY <1>1 DEF InsertOrder
<1>4. req'[s] = Idle /\ Idle.pc \notin ShelfLabels
  BY GotoIs DEF Standing, InsertOrder, Finish, Idle, ShelfLabels
<1>5. orders'[o] = old.order /\ \A x \in OrderIds \ {o} : orders'[x] = orders[x]
  BY <1>3, StandingTypes DEF SaveInto
<1>6. ASSUME NEW p \in ProductIds, Stocked(p) PROVE Account(Idle, p)' = Account(old, p)
  <2>1. products[p].stock \in Int /\ OnOrder(p) \in Int
    BY <1>6, StockedIsInt
  <2>2. Outstanding(o, p) = 0 /\ Outstanding(o, p)' = Charged(old.order.items, p)
    <3>1. ~Placed(o) /\ Placed(o)'
      BY <1>2, <1>3, <1>5, DocumentAssumption DEF Placed
    <3> QED
      BY <1>2, <1>5, <3>1 DEF Outstanding
  <2>3. OnOrder(p)' = OnOrder(p) + (Outstanding(o, p)' - Outstanding(o, p))
    BY <1>5, StandingTypes, OneOrderWritten
  <2>4. Charged(old.order.items, p) \in Int
    <3>1. old.order.items \in Seq(Line)
      BY <1>2, CartsAssumption DEF Order
    <3> QED
      BY <3>1, ChargedIsNat
  <2>5. TakenAway(old, p) = Charged(old.order.items, p) /\ PutBack(old, p) = 0
    BY <1>2, EmptyLines DEF TakenAway, PutBack
  <2>6. TakenAway(Idle, p)' = 0 /\ PutBack(Idle, p)' = 0
    BY <1>4, OffTheShelf
  <2>7. products'[p] = products[p]
    BY <1>2
  <2> HIDE DEF Idle
  <2>8. OnOrder(p)' = OnOrder(p) + Charged(old.order.items, p)
    BY <2>2, <2>3, <2>4
  <2> QED
    BY <2>1, <2>4, <2>5, <2>6, <2>7, <2>8 DEF Account
<1> QED
  BY <1>1, <1>4, <1>6, OffTheShelf, StockStep

-----------------------------------------------------------------------------
(* accept_order, advance_status *)

\* A step of somebody who has nothing to do with the shelf.
Elsewhere(s) ==
  /\ req[s].pc \notin ShelfLabels /\ req'[s].pc \notin ShelfLabels
  /\ UNCHANGED products

LEMMA ElsewhereStep ==
  ASSUME NEW s \in Slots, Elsewhere(s), UNCHANGED orders
  PROVE  ShelfGood(s)
BY SameOrders, StockPlain DEF Elsewhere

\* One that saves the order it holds, of which the cancellation does not change.
LEMMA ElsewhereSave ==
  ASSUME Standing, NEW s \in Slots, Elsewhere(s),
         req[s].pc \in {"save_order", "save_paid", "save_assigned", "save_synced"},
         orders' = SaveInto(orders, req[s].oid, req[s].order)
  PROVE  ShelfGood(s)
<1>1. HoldsOrder(req[s]) /\ Stands(req[s])
  BY SlotIsTyped DEF Standing, RequestInv, OrderLabels
<1>2. PICK x \in OrderIds : x = req[s].oid
  BY <1>1 DEF HoldsOrder
<1>3. orders'[x] = req[s].order /\ \A o \in OrderIds \ {x} : orders'[o] = orders[o]
  BY <1>2, StandingTypes DEF SaveInto
<1>4. req[s].order.status = "cancelled" <=> orders[x].status = "cancelled"
  <2>1. CASE req[s].pc = "save_paid"
    BY <1>1, <1>2, <2>1 DEF Stands, AsStored, OrderLabels
  <2>2. CASE req[s].pc = "save_order"
    BY <1>1, <1>2, <2>2 DEF Stands, AboutStatus, SellerAdvance
  <2>3. CASE req[s].pc \in {"save_assigned", "save_synced"}
    BY <1>1, <1>2, <2>3 DEF Stands, AboutStatus, OrderSync
  <2> QED
    BY <2>1, <2>2, <2>3
<1>5. Placed(x) /\ Placed(x)' /\ orders'[x].items = orders[x].items
  BY <1>1, <1>2, <1>3, DocumentAssumption DEF Placed, HoldsOrder, SameTerms
<1>6. \A p : OnOrder(p)' = OnOrder(p)
  BY <1>3, <1>4, <1>5, StandingTypes, SameOnOrder
<1> QED
  BY <1>6, StockPlain DEF Elsewhere

LEMMA FinishElsewhere == \A s \in Slots : SerialInv /\ Finish(s) => req'[s].pc \notin ShelfLabels
BY SlotIsTyped DEF Finish, Goto, Idle, ShelfLabels

LEMMA GoElsewhere ==
  ASSUME SerialInv, NEW s \in Slots, NEW r, Goto(s, r), r.pc \notin ShelfLabels,
         req[s].pc \notin ShelfLabels, UNCHANGED products
  PROVE  Elsewhere(s)
BY SlotIsTyped DEF Goto, Elsewhere

LEMMA StockSellerBegins ==
  ASSUME Standing, NEW s \in Slots, NEW o \in OrderIds, AcceptOrder(s, o) \/ AdvanceOrder(s, o)
  PROVE  ShelfGood(s)
<1>1. req[s].pc = "idle" /\ UNCHANGED <<orders, products>>
  BY DEF AcceptOrder, AdvanceOrder, Free
<1>2. req'[s].pc = "save_order"
  BY SlotIsTyped DEF Standing, AcceptOrder, AdvanceOrder, Goto, Idle
<1> QED
  BY <1>1, <1>2, ElsewhereStep DEF Elsewhere, ShelfLabels

LEMMA StockSaveOrder ==
  ASSUME Standing, NEW s \in Slots, SaveOrder(s)
  PROVE  ShelfGood(s)
<1>1. /\ req[s].pc = "save_order" /\ UNCHANGED products
      /\ orders' = SaveInto(orders, req[s].oid, req[s].order)
      /\ req'[s].pc \notin ShelfLabels
  BY FinishElsewhere DEF Standing, SaveOrder, At
<1> QED
  BY <1>1, ElsewhereSave DEF Elsewhere, ShelfLabels

-----------------------------------------------------------------------------
(* cancel_order *)

\* Handling a line more, of the rest of the lines of an order.
LEMMA RestStep ==
  ASSUME NEW items \in Seq(Line), NEW lines \in Seq(Line), lines # << >>, RestOf(lines, items)
  PROVE  /\ RestOf(Tail(lines), items)
         /\ \A p : Quantity(items, Len(items) - Len(Tail(lines)), p)
                     = Quantity(items, Len(items) - Len(lines), p)
                       + (IF Head(lines).product = p THEN Head(lines).qty ELSE 0)
<1> DEFINE rest == Tail(lines)
           n == Len(items) - Len(lines)
<1>1. /\ Len(items) \in Nat /\ Len(lines) \in Nat /\ Len(lines) > 0
      /\ DOMAIN lines = 1..Len(lines) /\ DOMAIN rest = 1..(Len(lines) - 1)
      /\ Len(rest) = Len(lines) - 1
      /\ \A i \in DOMAIN rest : rest[i] = lines[i + 1]
      /\ Head(lines) = lines[1]
  OBVIOUS
<1> HIDE DEF rest
<1>2. /\ n \in 0..(Len(items) - 1) /\ Len(items) - Len(rest) = n + 1
      /\ items[n + 1] = lines[1] /\ n + 1 \in DOMAIN items
  BY <1>1, LinesAreFinite DEF RestOf
<1>3. RestOf(rest, items)
  <2>1. ASSUME NEW i \in DOMAIN rest PROVE rest[i] = items[Len(items) - Len(rest) + i]
    <3>1. i + 1 \in DOMAIN lines /\ rest[i] = lines[i + 1] /\ i \in Int
      BY <1>1
    <3>2. lines[i + 1] = items[n + (i + 1)]
      BY <3>1 DEF RestOf
    <3>3. n + (i + 1) = Len(items) - Len(rest) + i
      BY <1>1, <3>1
    <3> QED
      BY <3>1, <3>2, <3>3
  <2> QED
    BY <1>1, <2>1 DEF RestOf
<1>4. ASSUME NEW p
      PROVE  Quantity(items, n + 1, p)
               = Quantity(items, n, p) + (IF lines[1].product = p THEN lines[1].qty ELSE 0)
  <2>1. Quantity(items, n + 1, p) = Quantity(items, n, p) + Pieces(items, p)[n + 1]
    BY <1>2, QuantityGrows, Zenon
  <2>2. Pieces(items, p)[n + 1] = IF lines[1].product = p THEN lines[1].qty ELSE 0
    BY <1>2 DEF Pieces
  <2> QED
    BY <2>1, <2>2
<1> QED
  BY <1>1, <1>2, <1>3, <1>4 DEF rest

LEMMA StockCancelOrder ==
  ASSUME Standing, NEW s \in Slots, NEW o \in OrderIds, CancelOrder(s, o)
  PROVE  ShelfGood(s)
<1>1. /\ req[s].pc = "idle" /\ UNCHANGED <<orders, products>> /\ Placed(o)
  BY DEF CancelOrder, Free, Placed
<1>2. PICK items \in Seq(Line) : items = orders[o].items
  BY <1>1, StandingTypes, PlacedItems
<1>3. PICK r : /\ req'[s] = r /\ r.pc = "cancel" /\ r.lines = items /\ r.order = orders[o]
  <2> DEFINE x == [Idle EXCEPT !.pc = "cancel", !.oid = o, !.order = orders[o],
                               !.lines = orders[o].items]
  <2>1. x.pc = "cancel" /\ x.lines = items /\ x.order = orders[o]
    BY <1>2 DEF Idle
  <2>2. Goto(s, x)
    BY DEF CancelOrder
  <2> HIDE DEF x
  <2>3. req'[s] = x
    BY <2>2, GotoIs DEF Standing
  <2> QED
    BY <2>1, <2>3
<1>4. Len(items) - Len(items) = 0 /\ RestOf(items, items)
  <2>1. Len(items) \in Nat /\ DOMAIN items = 1..Len(items)
    BY LinesAreFinite
  <2> QED
    BY <2>1 DEF RestOf
<1>5. Shelving(r)'
  BY <1>2, <1>3, <1>4 DEF Shelving
<1>6. \A p : TakenAway(r, p) = 0 /\ PutBack(r, p) = 0
  BY <1>2, <1>3, <1>4, QuantityGrows DEF TakenAway, PutBack
<1>7. \A p : TakenAway(req[s], p) = 0 /\ PutBack(req[s], p) = 0
  BY <1>1, OffTheShelf DEF ShelfLabels
<1> QED
  BY <1>1, <1>3, <1>5, <1>6, <1>7, SameOrders, StockRead

\* What a request that cancels an order holds of it.
LEMMA Cancelling ==
  ASSUME Standing, NEW s \in Slots, req[s].pc \in {"cancel", "restock"}
  PROVE  /\ req[s] \in Request /\ HoldsOrder(req[s])
         /\ req[s].lines \in Seq(Line) /\ req[s].order.items \in Seq(Line)
         /\ RestOf(req[s].lines, req[s].order.items)
         /\ orders[req[s].oid].status # "cancelled"
<1>1. req[s] \in Request /\ HoldsOrder(req[s]) /\ Stands(req[s]) /\ Shelving(req[s])
  BY SlotIsTyped, StandingTypes DEF Standing, RequestInv, OrderLabels
<1> QED
  BY <1>1, CartsAssumption
  DEF Request, HoldsOrder, Order, Shelving, Stands, AsStored, AboutStatus, OrderLabels, Cancellable

LEMMA WhatIsLeft == ASSUME NEW a \in Nat, NEW b \in Nat, b <= a PROVE a - b \in 0..a
OBVIOUS

LEMMA StockReadStock ==
  ASSUME Standing, NEW s \in Slots, ReadStock(s)
  PROVE  ShelfGood(s)
<1>1. PICK old : old = req[s]
  OBVIOUS
<1>2. /\ old \in Request /\ old.pc = "cancel" /\ old.lines # << >> /\ old.lines \in Seq(Line)
      /\ old.order.items \in Seq(Line) /\ RestOf(old.lines, old.order.items)
      /\ UNCHANGED <<orders, products>>
  BY <1>1, Cancelling DEF ReadStock, At
<1>3. PICK goods : goods = products[Head(old.lines).product]
  OBVIOUS
<1>4. CASE goods # None /\ goods.stock # None
  <2>1. PICK q : /\ q.pc = "restock" /\ q.goods = goods /\ q.lines = old.lines
                 /\ q.order = old.order /\ req'[s] = q
    <3> DEFINE r == [old EXCEPT !.pc = "restock", !.goods = goods]
    <3>1. /\ r.pc = "restock" /\ r.goods = goods /\ r.lines = old.lines /\ r.order = old.order
      BY <1>2 DEF Request
    <3>2. Goto(s, r)
      BY <1>1, <1>3, <1>4 DEF ReadStock
    <3> HIDE DEF r
    <3>3. req'[s] = r
      BY <3>2, GotoIs DEF Standing
    <3> QED
      BY <3>1, <3>3
  <2>2. Shelving(q)'
    BY <1>2, <1>3, <2>1 DEF Shelving
  <2>3. \A p : TakenAway(q, p) = TakenAway(old, p) /\ PutBack(q, p) = PutBack(old, p)
    BY <1>2, <2>1 DEF TakenAway, PutBack
  <2> QED
    BY <1>1, <1>2, <2>1, <2>2, <2>3, SameOrders, StockRead
<1>5. CASE ~(goods # None /\ goods.stock # None)
  <2>1. PICK q : /\ q.pc = "cancel" /\ q.lines = Tail(old.lines)
                 /\ q.order = old.order /\ req'[s] = q
    <3> DEFINE r == [old EXCEPT !.lines = Tail(@)]
    <3>1. /\ r.pc = "cancel" /\ r.lines = Tail(old.lines) /\ r.order = old.order
      BY <1>2 DEF Request
    <3>2. Goto(s, r)
      BY <1>1, <1>3, <1>5 DEF ReadStock
    <3> HIDE DEF r
    <3>3. req'[s] = r
      BY <3>2, GotoIs DEF Standing
    <3> QED
      BY <3>1, <3>3
  <2>2. Shelving(q)'
    BY <1>2, <2>1, RestStep DEF Shelving
  <2>3. ~Stocked(Head(old.lines).product)
    BY <1>3, <1>5 DEF Stocked
  <2>4. ASSUME NEW p \in ProductIds, Stocked(p)
        PROVE  TakenAway(q, p) = TakenAway(old, p) /\ PutBack(q, p) = PutBack(old, p)
    <3> DEFINE n == Len(old.order.items) - Len(old.lines)
    <3>1. PutBack(q, p) = Quantity(old.order.items, n, p) + 0
      <4>1. PutBack(q, p) =
              Quantity(old.order.items, Len(old.order.items) - Len(Tail(old.lines)), p)
        BY <2>1, Zenon DEF PutBack
      <4>2. Head(old.lines).product # p
        BY <2>3, <2>4
      <4>3. Quantity(old.order.items, Len(old.order.items) - Len(Tail(old.lines)), p)
              = Quantity(old.order.items, n, p)
                  + (IF Head(old.lines).product = p THEN Head(old.lines).qty ELSE 0)
        BY <1>2, RestStep
      <4> QED
        BY <4>1, <4>2, <4>3
    <3>2. Quantity(old.order.items, n, p) \in Int
      <4>1. n \in 0..Len(old.order.items)
        <5>1. Len(old.lines) \in Nat /\ Len(old.order.items) \in Nat
          BY <1>2
        <5>2. Len(old.lines) <= Len(old.order.items)
          BY <1>2, Zenon DEF RestOf
        <5> QED
          BY <5>1, <5>2, WhatIsLeft, Zenon DEF n
      <4> QED
        BY <1>2, <4>1, QuantityGrows, Zenon
    <3>3. PutBack(old, p) = Quantity(old.order.items, n, p)
      BY <1>2 DEF PutBack
    <3>4. TakenAway(q, p) = 0 /\ TakenAway(old, p) = 0
      BY <1>2, <2>1, Zenon DEF TakenAway
    <3> HIDE DEF n
    <3> QED
      BY <3>1, <3>2, <3>3, <3>4
  <2> QED
    BY <1>1, <1>2, <2>1, <2>2, <2>4, SameOrders, StockRead
<1> QED
  BY <1>4, <1>5

LEMMA StockRestoreStock ==
  ASSUME Standing, NEW s \in Slots, RestoreStock(s)
  PROVE  ShelfGood(s)
<1>1. PICK old : old = req[s]
  OBVIOUS
<1>2. /\ old \in Request /\ old.pc = "restock" /\ old.lines # << >> /\ old.lines \in Seq(Line)
      /\ old.order.items \in Seq(Line) /\ RestOf(old.lines, old.order.items)
      /\ UNCHANGED orders /\ Shelving(old)
      /\ old.goods \in Product /\ old.goods.stock # None
  BY <1>1, SlotIsTyped, StandingTypes, Cancelling
  DEF Standing, RestoreStock, At, RequestInv, HoldsGoods
<1>3. PICK line : line = Head(old.lines)
  OBVIOUS
<1>4. PICK rest : rest = Tail(old.lines)
  OBVIOUS
<1>5. PICK doc : doc = Restocked(old.goods, line.qty)
  OBVIOUS
<1>6. PICK q : q.pc = "cancel" /\ q.lines = rest /\ q.order = old.order /\ req'[s] = q
  <2> DEFINE r == [old EXCEPT !.pc = "cancel", !.goods = None, !.lines = Tail(@)]
  <2>1. r.pc = "cancel" /\ r.lines = rest /\ r.order = old.order
    BY <1>2, <1>4 DEF Request
  <2>2. Goto(s, r)
    BY <1>1 DEF RestoreStock
  <2> HIDE DEF r
  <2>3. req'[s] = r
    BY <2>2, GotoIs DEF Standing
  <2> QED
    BY <2>1, <2>3
<1>7. line \in Line /\ line.product \in ProductIds /\ line.qty \in Int
  <2>1. line \in Line
    BY <1>2, <1>3
  <2> QED
    BY <2>1 DEF Line
<1>8. old.goods = products[line.product] /\ old.goods.stock \in Int /\ Stocked(line.product)
  BY <1>2, <1>3, DocumentAssumption DEF Shelving, Product, Maybe, Stocked
<1>9. doc.stock = old.goods.stock + line.qty
  BY <1>2, <1>5, <1>7, <1>8 DEF Product, Restocked
<1>10. /\ products'[line.product] = doc
       /\ \A p \in ProductIds : p # line.product => products'[p] = products[p]
  BY <1>1, <1>3, <1>5, <1>7, StandingTypes DEF RestoreStock, SaveInto
<1>11. Shelving(q)'
  BY <1>2, <1>4, <1>6, RestStep DEF Shelving
<1>12. ASSUME NEW p \in ProductIds, Stocked(p) PROVE Account(q, p)' = Account(old, p)
  <2> DEFINE n == Len(old.order.items) - Len(old.lines)
             piece == IF line.product = p THEN line.qty ELSE 0
  <2>1. products[p].stock \in Int /\ OnOrder(p) \in Int /\ OnOrder(p)' = OnOrder(p)
    BY <1>2, <1>12, StockedIsInt, SameOrders
  <2>2. TakenAway(old, p) = 0 /\ TakenAway(q, p)' = 0
    BY <1>2, <1>6 DEF TakenAway
  <2>3. PutBack(old, p) = Quantity(old.order.items, n, p)
    BY <1>2 DEF PutBack
  <2>4. PutBack(q, p)' = Quantity(old.order.items, n, p) + piece
    <3>1. PutBack(q, p)' = Quantity(old.order.items, Len(old.order.items) - Len(rest), p)
      BY <1>6 DEF PutBack
    <3> QED
      BY <1>2, <1>3, <1>4, <3>1, RestStep
  <2>5. Quantity(old.order.items, n, p) \in Int
    <3>1. n \in 0..Len(old.order.items)
      <4>1. Len(old.lines) \in Nat /\ Len(old.order.items) \in Nat
        BY <1>2
      <4>2. Len(old.lines) <= Len(old.order.items)
        BY <1>2, Zenon DEF RestOf
      <4> QED
        BY <4>1, <4>2, WhatIsLeft, Zenon DEF n
    <3> QED
      BY <1>2, <3>1, QuantityGrows, Zenon
  <2>6. products'[p].stock = products[p].stock + piece /\ piece \in Int
    BY <1>7, <1>8, <1>9, <1>10, <2>1
  <2> HIDE DEF n, piece
  <2> QED
    BY <2>1, <2>2, <2>3, <2>4, <2>5, <2>6 DEF Account
<1> QED
  BY <1>1, <1>6, <1>11, <1>12, StockStep

LEMMA StockSaveCancelled ==
  ASSUME Standing, NEW s \in Slots, SaveCancelled(s)
  PROVE  ShelfGood(s)
<1>1. PICK old : old = req[s]
  OBVIOUS
<1>2. /\ old.pc = "cancel" /\ old.lines = << >> /\ UNCHANGED products
      /\ HoldsOrder(old) /\ orders[old.oid].status # "cancelled"
  BY <1>1, Cancelling DEF SaveCancelled, At
<1>3. PICK x \in OrderIds : x = old.oid
  BY <1>2 DEF HoldsOrder
<1>4. PICK items \in Seq(Line) : items = orders[x].items /\ items = old.order.items
  BY <1>2, <1>3, CartsAssumption DEF HoldsOrder, SameTerms, Order
<1>5. /\ orders'[x].status = "cancelled" /\ orders'[x].items = items
      /\ Placed(x) /\ Placed(x)'
      /\ \A o \in OrderIds \ {x} : orders'[o] = orders[o]
  <2> DEFINE doc == RecordStatus(old.order, "cancelled")
  <2>1. orders' = [orders EXCEPT ![x] = doc]
    BY <1>1, <1>3 DEF SaveCancelled, SaveInto
  <2>2. doc.status = "cancelled" /\ doc.items = items /\ doc \in Order
    BY <1>2, <1>4 DEF HoldsOrder, RecordStatus, Order, OrderStatus
  <2> HIDE DEF doc
  <2> QED
    BY <1>2, <1>3, <2>1, <2>2, StandingTypes, DocumentAssumption DEF HoldsOrder, Placed
<1>6. req'[s] = Idle /\ Idle.pc \notin ShelfLabels
  BY GotoIs DEF Standing, SaveCancelled, Finish, Idle, ShelfLabels
<1>7. ASSUME NEW p \in ProductIds, Stocked(p) PROVE Account(Idle, p)' = Account(old, p)
  <2> DEFINE all == Quantity(items, Len(items), p)
             charge == Charged(items, p)
  <2>1. products[p].stock \in Int /\ OnOrder(p) \in Int
    BY <1>7, StockedIsInt
  <2>2. Outstanding(x, p) = charge /\ Outstanding(x, p)' = charge - all
    BY <1>2, <1>3, <1>4, <1>5 DEF Outstanding
  <2>3. OnOrder(p)' = OnOrder(p) + (Outstanding(x, p)' - Outstanding(x, p))
    BY <1>5, StandingTypes, OneOrderWritten
  <2>4. all \in Int /\ charge \in Int
    <3>1. Len(items) \in 0..Len(items)
      BY LinesAreFinite
    <3>2. all \in Int
      BY <3>1, QuantityGrows, Zenon
    <3>3. charge \in Nat
      BY ChargedIsNat
    <3> QED
      BY <3>2, <3>3
  <2>5. TakenAway(old, p) = 0 /\ PutBack(old, p) = all
    <3>1. Len(items) - 0 = Len(items)
      BY LinesAreFinite
    <3> QED
      BY <1>2, <1>4, <3>1 DEF TakenAway, PutBack
  <2>6. TakenAway(Idle, p)' = 0 /\ PutBack(Idle, p)' = 0
    BY <1>6, OffTheShelf
  <2>7. products'[p] = products[p]
    BY <1>2
  <2> HIDE DEF all, charge, Idle
  <2> QED
    BY <2>1, <2>2, <2>3, <2>4, <2>5, <2>6, <2>7 DEF Account
<1> QED
  BY <1>1, <1>6, <1>7, OffTheShelf, StockStep

-----------------------------------------------------------------------------
(* catalog: update_product and delete_product *)

LEMMA StockEditProduct ==
  ASSUME Standing, NEW s \in Slots, NEW p \in ProductIds, EditProduct(s, p)
  PROVE  ShelfGood(s)
<1>1. req[s].pc = "idle" /\ UNCHANGED <<orders, products>>
  BY DEF EditProduct, Free
<1>2. req'[s].pc = "save_product"
  <2>1. ASSUME NEW doc, Goto(s, [Idle EXCEPT !.pc = "save_product", !.product = p, !.goods = doc])
        PROVE  req'[s].pc = "save_product"
    <3> DEFINE r == [Idle EXCEPT !.pc = "save_product", !.product = p, !.goods = doc]
    <3>1. r.pc = "save_product"
      BY DEF Idle
    <3>2. Goto(s, r)
      BY <2>1
    <3> HIDE DEF r
    <3> QED
      BY <3>1, <3>2, GotoIs DEF Standing
  <2> QED
    BY <2>1, Zenon DEF EditProduct
<1> QED
  BY <1>1, <1>2, ElsewhereStep DEF Elsewhere, ShelfLabels

LEMMA StockSaveProduct ==
  ASSUME Standing, NEW s \in Slots, SaveProduct(s)
  PROVE  ShelfGood(s)
<1>1. PICK old : old = req[s]
  OBVIOUS
<1>2. /\ old.pc = "save_product" /\ UNCHANGED orders /\ old.product \in ProductIds
  BY <1>1, SlotIsTyped DEF Standing, SaveProduct, At, RequestInv
<1>3. products' = [products EXCEPT ![old.product] = old.goods]
  BY <1>1 DEF SaveProduct, SaveInto
<1>4. req'[s] = Idle /\ Idle.pc \notin ShelfLabels
  BY GotoIs DEF Standing, SaveProduct, Finish, Idle, ShelfLabels
<1>5. ASSUME NEW p \in ProductIds, ~Edited(old, p) PROVE Account(Idle, p)' = Account(old, p)
  <2>1. products'[p].stock = products[p].stock
    BY <1>2, <1>3, <1>5, StandingTypes DEF Edited
  <2>2. TakenAway(old, p) = 0 /\ PutBack(old, p) = 0
    BY <1>2, OffTheShelf DEF ShelfLabels
  <2>3. TakenAway(Idle, p)' = 0 /\ PutBack(Idle, p)' = 0
    BY <1>4, OffTheShelf
  <2>4. OnOrder(p)' = OnOrder(p)
    BY <1>2, SameOrders
  <2> HIDE DEF Idle
  <2> QED
    BY <2>1, <2>2, <2>3, <2>4 DEF Account
<1> QED
  BY <1>1, <1>4, <1>5, OffTheShelf, StockStep

LEMMA StockDeleteProduct ==
  ASSUME Standing, NEW s \in Slots, NEW x \in ProductIds, DeleteProduct(s, x)
  PROVE  ShelfGood(s)
<1>1. /\ req[s].pc = "idle" /\ UNCHANGED <<orders, req>>
      /\ products' = [products EXCEPT ![x] = None]
  BY DEF DeleteProduct, Free, SaveInto
<1>2. PICK r : r = req[s] /\ req'[s] = r /\ r.pc \notin ShelfLabels
  BY <1>1 DEF ShelfLabels
<1>3. ASSUME NEW p \in ProductIds, Stocked(p)' PROVE Account(r, p)' = Account(r, p)
  <2>1. products'[p] = products[p]
    BY <1>1, <1>3, StandingTypes DEF Stocked
  <2>2. OnOrder(p)' = OnOrder(p)
    BY <1>1, SameOrders
  <2> QED
    BY <1>2, <2>1, <2>2, OffTheShelf DEF Account
<1> QED
  BY <1>2, <1>3, OffTheShelf, StockStep

-----------------------------------------------------------------------------
(* Payments, couriers and deliveries *)

LEMMA StockPayments ==
  ASSUME Standing, NEW s \in Slots,
         PaymentsBegin(s) \/ PaymentsStep(s), UNCHANGED products
  PROVE  ShelfGood(s)
<1>0. req[s] \in Request /\ req \in [Slots -> Request] /\ SerialInv
  BY SlotIsTyped DEF Standing
<1>1. CASE PaymentsBegin(s)
  <2>1. ASSUME NEW o, CreateIntent(s, o) PROVE Elsewhere(s) /\ UNCHANGED orders
    BY <1>0, <2>1 DEF CreateIntent, Free, Goto, Idle, Elsewhere, ShelfLabels
  <2>2. ASSUME NEW p, NEW verdict, Webhook(s, p, verdict) PROVE Elsewhere(s) /\ UNCHANGED orders
    BY <1>0, <2>2 DEF Webhook, Free, Goto, Idle, Elsewhere, ShelfLabels
  <2>3. Elsewhere(s) /\ UNCHANGED orders
    BY <1>1, <2>1, <2>2 DEF PaymentsBegin
  <2> QED
    BY <2>3, ElsewhereStep
<1>2. CASE SavePaidOrder(s)
  <2>1. /\ Elsewhere(s) /\ req[s].pc = "save_paid"
        /\ orders' = SaveInto(orders, req[s].oid, req[s].order)
    BY <1>0, <1>2 DEF SavePaidOrder, At, Goto, Request, Elsewhere, ShelfLabels
  <2> QED
    BY <2>1, ElsewhereSave
<1>3. CASE PaymentsStep(s) /\ ~SavePaidOrder(s)
  <2>1. ASSUME CheckPayment(s) PROVE Elsewhere(s) /\ UNCHANGED orders
    <3> DEFINE pay   == [req[s] EXCEPT !.pc = "insert_payment"]
               leave == [req[s] EXCEPT !.pc = "free", !.order = None]
    <3>1. /\ req[s].pc = "check_payment" /\ UNCHANGED orders
          /\ Goto(s, pay) \/ Goto(s, leave)
      BY <2>1 DEF CheckPayment, At
    <3>2. pay.pc = "insert_payment" /\ leave.pc = "free"
      BY <1>0 DEF Request
    <3> HIDE DEF pay, leave
    <3> QED
      BY <1>0, <3>1, <3>2, GoElsewhere DEF ShelfLabels
  <2> USE <1>0, FinishElsewhere DEF Goto, At, Elsewhere, ShelfLabels, Request
  <2>2. ASSUME CheckIntent(s) PROVE Elsewhere(s) /\ UNCHANGED orders
    BY <2>2 DEF CheckIntent
  <2>3. ASSUME InsertIntent(s) PROVE Elsewhere(s) /\ UNCHANGED orders
    BY <2>3 DEF InsertIntent
  <2>4. ASSUME SavePayment(s) PROVE Elsewhere(s) /\ UNCHANGED orders
    BY <2>4 DEF SavePayment
  <2>5. ASSUME LoadPaidOrder(s) PROVE Elsewhere(s) /\ UNCHANGED orders
    BY <2>5 DEF LoadPaidOrder
  <2>6. ASSUME InsertPayment(s) PROVE Elsewhere(s) /\ UNCHANGED orders
    BY <2>6 DEF InsertPayment
  <2>7. ASSUME WriteEntry(s) PROVE Elsewhere(s) /\ UNCHANGED orders
    BY <2>7 DEF WriteEntry
  <2>8. ASSUME LedgerWritten(s) PROVE Elsewhere(s) /\ UNCHANGED orders
    BY <2>8 DEF LedgerWritten
  <2> HIDE <1>0, FinishElsewhere DEF Goto, At, Elsewhere, ShelfLabels, Request
  <2> QED
    BY <1>3, <2>1, <2>2, <2>3, <2>4, <2>5, <2>6, <2>7, <2>8, ElsewhereStep DEF PaymentsStep
<1> QED
  BY <1>1, <1>2, <1>3

LEMMA StockCollaborators ==
  ASSUME Standing, NEW s \in Slots,
         CollaboratorsBegin(s) \/ CollaboratorsStep(s), UNCHANGED <<orders, products>>
  PROVE  ShelfGood(s)
<1>0. req[s] \in Request /\ req \in [Slots -> Request] /\ SerialInv
  BY SlotIsTyped DEF Standing
<1>1. ASSUME NEW c, BecomeCollaborator(s, c) PROVE Elsewhere(s)
  BY <1>0, <1>1 DEF BecomeCollaborator, Free, Elsewhere, ShelfLabels
<1>2. ASSUME NEW c, NEW availability, SetAvailability(s, c, availability) PROVE Elsewhere(s)
  BY <1>0, <1>2 DEF SetAvailability, Free, Goto, Idle, Elsewhere, ShelfLabels
<1>3. ASSUME NEW c, NEW verdict, Verify(s, c, verdict) PROVE Elsewhere(s)
  BY <1>0, <1>3 DEF Verify, Free, Goto, Idle, Elsewhere, ShelfLabels
<1>4. ASSUME SaveProfile(s) PROVE Elsewhere(s)
  BY <1>0, <1>4, FinishElsewhere DEF SaveProfile, At, Elsewhere, ShelfLabels
<1>5. Elsewhere(s)
  BY <1>1, <1>2, <1>3, <1>4 DEF CollaboratorsBegin, CollaboratorsStep
<1> QED
  BY <1>5, ElsewhereStep

LEMMA StockDeliveries ==
  ASSUME Standing, NEW s \in Slots,
         DeliveriesBegin(s) \/ DeliveriesStep(s), UNCHANGED products
  PROVE  ShelfGood(s)
<1>0. req[s] \in Request /\ req \in [Slots -> Request] /\ SerialInv
  BY SlotIsTyped DEF Standing
<1>1. CASE DeliveriesBegin(s)
  <2>1. ASSUME NEW o, AssignOrder(s, o) PROVE req'[s].pc \notin ShelfLabels /\ UNCHANGED orders
    <3> DEFINE r == [Idle EXCEPT !.pc = "check_assigned", !.oid = o, !.order = orders[o]]
    <3>1. Goto(s, r) /\ UNCHANGED orders
      BY <2>1 DEF AssignOrder
    <3>2. r.pc \notin ShelfLabels
      BY DEF Idle, ShelfLabels
    <3> QED
      BY <1>0, <3>1, <3>2 DEF Goto
  <2>2. ASSUME NEW d, AdvanceDelivery(s, d) PROVE req'[s].pc \notin ShelfLabels /\ UNCHANGED orders
    <3> DEFINE doc == [deliveries[d] EXCEPT !.status = DeliveryAdvance[@]]
               r == [Idle EXCEPT !.pc = "save_delivery", !.did = d, !.delivery = doc]
    <3>1. Goto(s, r) /\ UNCHANGED orders
      BY <2>2 DEF AdvanceDelivery
    <3>2. r.pc \notin ShelfLabels
      <4> HIDE DEF doc
      <4> QED
        BY DEF Idle, ShelfLabels
    <3> QED
      BY <1>0, <3>1, <3>2 DEF Goto
  <2>3. ASSUME NEW d, UpdateLocation(s, d) PROVE req'[s].pc \notin ShelfLabels /\ UNCHANGED orders
    <3> DEFINE doc == deliveries[d]
               r == [Idle EXCEPT !.pc = "save_location", !.did = d, !.delivery = doc]
    <3>1. Goto(s, r) /\ UNCHANGED orders
      BY <2>3 DEF UpdateLocation
    <3>2. r.pc \notin ShelfLabels
      <4> HIDE DEF doc
      <4> QED
        BY DEF Idle, ShelfLabels
    <3> QED
      BY <1>0, <3>1, <3>2 DEF Goto
  <2>4. ASSUME NEW d, UploadProof(s, d) PROVE req'[s].pc \notin ShelfLabels /\ UNCHANGED orders
    <3> DEFINE doc == [deliveries[d] EXCEPT !.proof = TRUE]
               r == [Idle EXCEPT !.pc = "save_proof", !.did = d, !.delivery = doc]
    <3>1. Goto(s, r) /\ UNCHANGED orders
      BY <2>4 DEF UploadProof
    <3>2. r.pc \notin ShelfLabels
      BY SMTT(30) DEF Idle, ShelfLabels
    <3> QED
      BY <1>0, <3>1, <3>2 DEF Goto
  <2>5. req[s].pc = "idle"
    BY <1>1, Zenon DEF DeliveriesBegin, AssignOrder, AdvanceDelivery, UpdateLocation, UploadProof,
                       Free
  <2>6. Elsewhere(s) /\ UNCHANGED orders
    <3>1. req'[s].pc \notin ShelfLabels /\ UNCHANGED orders
      BY <1>1, <2>1, <2>2, <2>3, <2>4 DEF DeliveriesBegin
    <3> QED
      BY <2>5, <3>1 DEF Elsewhere, ShelfLabels
  <2> QED
    BY <2>6, ElsewhereStep
<1>2. CASE SaveAssigned(s)
  <2>1. /\ Elsewhere(s) /\ req[s].pc = "save_assigned"
        /\ orders' = SaveInto(orders, req[s].oid, req[s].order)
    BY <1>0, <1>2 DEF SaveAssigned, At, Goto, Idle, Elsewhere, ShelfLabels
  <2> QED
    BY <2>1, ElsewhereSave
<1>3. CASE SaveSynced(s)
  <2>1. /\ Elsewhere(s) /\ req[s].pc = "save_synced"
        /\ orders' = SaveInto(orders, req[s].oid, req[s].order)
    BY <1>0, <1>3, FinishElsewhere DEF SaveSynced, At, Goto, Request, Elsewhere, ShelfLabels
  <2> QED
    BY <2>1, ElsewhereSave
<1>4. CASE DeliveriesStep(s) /\ ~SaveAssigned(s) /\ ~SaveSynced(s)
  <2>1. \A c, doc : Goto(s, [Idle EXCEPT !.pc = "save_profile", !.cid = c, !.profile = doc])
                     => req'[s].pc \notin ShelfLabels
    BY <1>0 DEF Goto, Idle, ShelfLabels
  <2>2. ASSUME FreeCourier(s) PROVE Elsewhere(s) /\ UNCHANGED orders
    BY <1>0, <2>1, <2>2, FinishElsewhere, Zenon DEF FreeCourier, At, Elsewhere, ShelfLabels
  <2>3. ASSUME LoadLocated(s) PROVE Elsewhere(s) /\ UNCHANGED orders
    BY <1>0, <2>1, <2>3, FinishElsewhere, Zenon DEF LoadLocated, At, Elsewhere, ShelfLabels
  <2>4. ASSUME PickCourier(s) PROVE Elsewhere(s) /\ UNCHANGED orders
    <3>1. req[s].pc = "pick" /\ UNCHANGED orders
      BY <2>4, Zenon DEF PickCourier, At
    <3>2. CASE Finish(s)
      BY <1>0, <3>1, <3>2, FinishElsewhere DEF Elsewhere, ShelfLabels
    <3>3. ASSUME NEW c, Goto(s, [req[s] EXCEPT !.pc = "insert_delivery", !.cid = c,
                                               !.profile = profiles[c]])
          PROVE  Elsewhere(s)
      <4> DEFINE r == [req[s] EXCEPT !.pc = "insert_delivery", !.cid = c, !.profile = profiles[c]]
      <4>1. Goto(s, r) /\ r.pc = "insert_delivery"
        BY <1>0, <3>3 DEF Request
      <4> HIDE DEF r
      <4> QED
        BY <1>0, <3>1, <4>1, GoElsewhere DEF ShelfLabels
    <3> QED
      BY <2>4, <3>1, <3>2, <3>3, Zenon DEF PickCourier
  <2> USE <1>0, FinishElsewhere DEF Goto, At, Elsewhere, ShelfLabels, Request
  <2>5. ASSUME CheckUnassigned(s) PROVE Elsewhere(s) /\ UNCHANGED orders
    BY <2>5 DEF CheckUnassigned
  <2>6. ASSUME InsertDelivery(s) PROVE Elsewhere(s) /\ UNCHANGED orders
    BY <2>6 DEF InsertDelivery
  <2>7. ASSUME SaveDelivery(s) PROVE Elsewhere(s) /\ UNCHANGED orders
    BY <2>7 DEF SaveDelivery
  <2>8. ASSUME LoadSynced(s) PROVE Elsewhere(s) /\ UNCHANGED orders
    BY <2>8 DEF LoadSynced
  <2>9. ASSUME SaveLocation(s) PROVE Elsewhere(s) /\ UNCHANGED orders
    BY <2>9 DEF SaveLocation
  <2>10. ASSUME SaveProof(s) PROVE Elsewhere(s) /\ UNCHANGED orders
    BY <2>10 DEF SaveProof
  <2> HIDE <1>0, FinishElsewhere DEF Goto, At, Elsewhere, ShelfLabels, Request
  <2> QED
    BY <1>4, <2>2, <2>3, <2>4, <2>5, <2>6, <2>7, <2>8, <2>9, <2>10, ElsewhereStep
    DEF DeliveriesStep
<1> QED
  BY <1>1, <1>2, <1>3, <1>4

-----------------------------------------------------------------------------
(* Every step, and the theorem *)

LEMMA StockOrders ==
  ASSUME Standing, NEW s \in Slots, OrdersBegin(s) \/ OrdersStep(s)
  PROVE  ShelfGood(s)
<1>1. CASE OrdersBegin(s)
  BY <1>1, StockCreateOrder, StockSellerBegins, StockCancelOrder, StockEditProduct,
     StockDeleteProduct
  DEF OrdersBegin
<1>2. CASE OrdersStep(s)
  BY <1>2, StockReadLine, StockTakeStock, StockInsertOrder, StockSaveOrder, StockReadStock,
     StockRestoreStock, StockSaveCancelled, StockSaveProduct
  DEF OrdersStep
<1> QED
  BY <1>1, <1>2

\* Of the one slot there is, a step keeps the account; there is no other.
LEMMA NextKeepsStock ==
  ASSUME Serial, Standing, Next
  PROVE  StockInv' /\ \A s \in Slots, p \in ProductIds : AccountKept(s, p)
<1>1. PICK s \in Slots : Begin(s) \/ Serve(s) \/ Fail(s)
  BY DEF Next
<1>2. ~Fail(s)
  BY DEF Serial, Fail, Crash
<1>3. ShelfGood(s)
  BY <1>1, <1>2, StockOrders, StockPayments, StockCollaborators, StockDeliveries
  DEF Begin, Serve
<1>4. \A t \in Slots : t = s
  BY DEF Serial
<1> QED
  BY <1>3, <1>4 DEF ShelfGood, StockInv

LEMMA RestKeepsStock ==
  ASSUME StockInv, UNCHANGED vars PROVE StockInv'
<1> SUFFICES ASSUME NEW s \in Slots PROVE Shelving(req[s])'
  BY DEF StockInv
<1>1. UNCHANGED <<req, products>> /\ Shelving(req[s])
  BY DEF vars, StockInv
<1>2. Taking(req[s])' = Taking(req[s])
  BY <1>1 DEF Taking, Stocked
<1> QED
  BY <1>1, <1>2 DEF Shelving

LEMMA InitialStock == Init => StockInv
<1> SUFFICES ASSUME Init, NEW s \in Slots PROVE Shelving(req[s])
  BY DEF StockInv
<1>1. req[s].pc = "idle"
  BY DEF Init, RequestsInit, Idle
<1> QED
  BY <1>1, OffTheShelf DEF ShelfLabels

\* Of a product that one line of a cart names the order takes that line's
\* pieces, the number a cancellation gives back: nothing is left outstanding.
THEOREM CancelledGivesBack ==
  ASSUME NEW items \in Seq(Line), NEW p,
         \A i, j \in DOMAIN items :
           items[i].product = p /\ items[j].product = p => i = j
  PROVE  Charged(items, p) = Quantity(items, Len(items), p)
<1> DEFINE g == Pieces(items, p)
<1>1. /\ DOMAIN items = 1..Len(items) /\ IsFiniteSet(DOMAIN items)
      /\ \A i \in DOMAIN items : items[i].qty \in Int /\ g[i] \in Int
  <2>1. /\ DOMAIN items = 1..Len(items) /\ Len(items) \in Nat
        /\ \A i \in DOMAIN items : items[i].qty \in Int
    BY LinesAreFinite
  <2>2. IsFiniteSet(1..Len(items))
    BY <2>1, FS_Interval
  <2> QED
    BY <2>1, <2>2 DEF Pieces
<1>2. Quantity(items, Len(items), p) = SumOver(g, DOMAIN items)
  BY <1>1, QuantityIsSum, LinesAreFinite
<1>3. CASE Names(items, p)
  <2>1. PICK i : IsLast(items, p, i)
    BY <1>3, SomeLineIsLast
  <2>2. /\ i \in DOMAIN items /\ g[i] = items[i].qty
        /\ \A j \in DOMAIN items \ {i} : g[j] = 0
    BY <2>1 DEF IsLast, Pieces
  <2> HIDE DEF g
  <2>3. SumOver(g, DOMAIN items) = g[i]
    BY <1>1, <2>2, SumOfOne
  <2> QED
    BY <1>2, <2>1, <2>2, <2>3, ChargedIsLast
<1>4. CASE ~Names(items, p)
  <2>1. \A i \in DOMAIN items : g[i] = 0
    BY <1>4 DEF Names, Pieces
  <2> HIDE DEF g
  <2>2. SumOver(g, DOMAIN items) = 0
    BY <1>1, <2>1, SameFiniteness, CanCrashAssumption, FiniteSum!SumOfZeros DEF SumOver
  <2> QED
    BY <1>2, <1>4, <2>2 DEF Charged
<1> QED
  BY <1>3, <1>4

\* No piece is lost or sold twice: while requests come one at a time and do not
\* crash, every step but the seller's own edit or deletion keeps what is on the
\* shelf, on order and in the hands of the request the same in all, whatever
\* the carts, also those that name a product twice.
THEOREM StockStaysConserved ==
  ASSUME Serial, IsFiniteSet(OrderIds) PROVE Spec => StockConserved
<1>1. Spec => []SerialInv
  BY SerialInvIsInvariant
<1>2. Init => StockInv
  BY InitialStock
<1>3. SerialInv /\ SerialInv' /\ StockInv /\ [Next]_vars => StockInv'
  BY NextKeepsStock, RestKeepsStock DEF Standing
<1>4. SerialInv /\ SerialInv' /\ StockInv /\ [Next]_vars =>
        [\A s \in Slots, p \in ProductIds : AccountKept(s, p)]_vars
  BY NextKeepsStock DEF Standing
<1> QED
  BY <1>1, <1>2, <1>3, <1>4, PTL DEF Spec, StockConserved
=============================================================================
