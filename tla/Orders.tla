------------------------------- MODULE Orders -------------------------------
(***************************************************************************)
(* Orders and the stock of the catalogue (orders/service.py and the stock  *)
(* that catalog/service.py edits).  Creating an order takes stock, one     *)
(* product document after the other, before the order exists; cancelling   *)
(* gives it back before the order is marked cancelled.                     *)
(***************************************************************************)
EXTENDS Requests

CONSTANTS
  InitStock,    \* [ProductIds -> stock on sale at the start, None = untracked]
  FeeChoices,   \* subset of BOOLEAN: does the store charge a delivery fee?
  NewStocks,    \* bound: stocks a seller's edit may set
  MaxStock      \* bound: no cancellation begins while a stock exceeds it

ASSUME StockAssumption == /\ InitStock \in [ProductIds -> Maybe(Nat)]
                          /\ NewStocks \subseteq Maybe(Nat)
                          /\ FeeChoices \subseteq BOOLEAN
                          /\ MaxStock \in Nat

VARIABLES orders, products

OrdersInit ==
  /\ orders = [o \in OrderIds |-> None]
  /\ products = [p \in ProductIds |-> [stock |-> InitStock[p], available |-> TRUE]]

OrdersTypeOK ==
  /\ orders \in [OrderIds -> Maybe(Order)]
  /\ products \in [ProductIds -> Maybe(Product)]

-----------------------------------------------------------------------------
(* create_order *)

\* The store is open; an order below the store's minimum is refused before a
\* write, like a request not made.
CreateOrder(s, cart, method, fee) ==
  /\ Free(s, "create")
  /\ \E o \in OrderIds : orders[o] = None     \* bound: the ids are not used up
  /\ Goto(s, [Idle EXCEPT !.pc = "create", !.lines = cart,
                !.order = [status |-> "pending", items |-> cart, method |-> method,
                           fee |-> fee, collaborator |-> None, payment |-> None]])
  /\ UNCHANGED <<orders, products>>

\* Mutant: the stock is not looked at.
SellableAlways(product, qty) == product # None /\ product.available

Sellable(product, qty) ==
  /\ product # None
  /\ product.available
  /\ product.stock # None => qty <= product.stock

\* One turn of the validation loop: read the product of the next line; keep it
\* for the decrement if its stock is tracked, or refuse the whole order.
ReadLine(s) ==
  /\ At(s, "create")
  /\ req[s].lines # << >>
  /\ LET line  == Head(req[s].lines)
         goods == products[line.product]
         take  == [product |-> line.product, goods |-> goods, qty |-> line.qty]
     IN  IF Sellable(goods, line.qty)
           THEN Goto(s, [req[s] EXCEPT !.lines = Tail(@),
                           !.taken = IF goods.stock = None THEN @ ELSE Append(@, take)])
           ELSE Finish(s)
  /\ UNCHANGED <<orders, products>>

\* One turn of the decrement loop: save the product as it was read, less qty.
TakeStock(s) ==
  /\ At(s, "create")
  /\ req[s].lines = << >>
  /\ req[s].taken # << >>
  /\ LET take == Head(req[s].taken)
     IN  products' = SaveInto(products, take.product,
                              [take.goods EXCEPT !.stock = @ - take.qty])
  /\ Goto(s, [req[s] EXCEPT !.taken = Tail(@)])
  /\ UNCHANGED orders

InsertOrder(s) ==
  /\ At(s, "create")
  /\ req[s].lines = << >>
  /\ req[s].taken = << >>
  /\ \E o \in OrderIds : /\ orders[o] = None
                         /\ orders' = SaveInto(orders, o, req[s].order)
  /\ Finish(s)
  /\ UNCHANGED products

-----------------------------------------------------------------------------
(* accept_order, advance_status *)

AcceptOrder(s, o) ==
  /\ Free(s, "accept")
  /\ orders[o] # None
  /\ orders[o].status = "pending"
  /\ Goto(s, [Idle EXCEPT !.pc = "save_order", !.oid = o,
                          !.order = RecordStatus(orders[o], "accepted")])
  /\ UNCHANGED <<orders, products>>

AdvanceOrder(s, o) ==
  /\ Free(s, "advance")
  /\ orders[o] # None
  /\ orders[o].status \in DOMAIN SellerAdvance
  /\ Goto(s, [Idle EXCEPT !.pc = "save_order", !.oid = o,
                !.order = RecordStatus(orders[o], SellerAdvance[orders[o].status])])
  /\ UNCHANGED <<orders, products>>

SaveOrder(s) ==
  /\ At(s, "save_order")
  /\ orders' = SaveInto(orders, req[s].oid, req[s].order)
  /\ Finish(s)
  /\ UNCHANGED products

-----------------------------------------------------------------------------
(* cancel_order *)

\* No stock, on sale or in a request that may put it back, exceeds the bound.
StocksAreLow ==
  LET low(goods) == goods # None /\ goods.stock # None => goods.stock <= MaxStock
  IN  /\ \A p \in ProductIds : low(products[p])
      /\ \A t \in Slots : /\ low(req[t].goods)
                          /\ \A i \in DOMAIN req[t].taken : low(req[t].taken[i].goods)

CancelOrder(s, o) ==
  /\ Free(s, "cancel")
  /\ orders[o] # None
  /\ orders[o].status \in Cancellable
  /\ StocksAreLow                               \* bound
  /\ Goto(s, [Idle EXCEPT !.pc = "cancel", !.oid = o, !.order = orders[o],
                          !.lines = orders[o].items])
  /\ UNCHANGED <<orders, products>>

\* Read the product of the next item; products gone or untracked are skipped.
ReadStock(s) ==
  /\ At(s, "cancel")
  /\ req[s].lines # << >>
  /\ LET goods == products[Head(req[s].lines).product]
     IN  IF goods # None /\ goods.stock # None
           THEN Goto(s, [req[s] EXCEPT !.pc = "restock", !.goods = goods])
           ELSE Goto(s, [req[s] EXCEPT !.lines = Tail(@)])
  /\ UNCHANGED <<orders, products>>

\* Mutant: an item gives back one piece, whatever its quantity.
RestockedByOne(goods, qty) == [goods EXCEPT !.stock = @ + 1]

Restocked(goods, qty) == [goods EXCEPT !.stock = @ + qty]

RestoreStock(s) ==
  /\ At(s, "restock")
  /\ LET line == Head(req[s].lines)
     IN  products' = SaveInto(products, line.product, Restocked(req[s].goods, line.qty))
  /\ Goto(s, [req[s] EXCEPT !.pc = "cancel", !.goods = None, !.lines = Tail(@)])
  /\ UNCHANGED orders

\* Mutant: a cancelled order is deleted.
SaveCancelledDeletes(s) ==
  /\ At(s, "cancel")
  /\ req[s].lines = << >>
  /\ orders' = SaveInto(orders, req[s].oid, None)
  /\ Finish(s)
  /\ UNCHANGED products

SaveCancelled(s) ==
  /\ At(s, "cancel")
  /\ req[s].lines = << >>
  /\ orders' = SaveInto(orders, req[s].oid, RecordStatus(req[s].order, "cancelled"))
  /\ Finish(s)
  /\ UNCHANGED products

-----------------------------------------------------------------------------
(* catalog: update_product and delete_product *)

\* The seller edits the stock, or the availability, of the product as read.
EditProduct(s, p) ==
  /\ Free(s, "edit_product")
  /\ products[p] # None
  /\ \/ \E n \in NewStocks :
          Goto(s, [Idle EXCEPT !.pc = "save_product", !.product = p,
                               !.goods = [products[p] EXCEPT !.stock = n]])
     \/ Goto(s, [Idle EXCEPT !.pc = "save_product", !.product = p,
                             !.goods = [products[p] EXCEPT !.available = ~@]])
  /\ UNCHANGED <<orders, products>>

SaveProduct(s) ==
  /\ At(s, "save_product")
  /\ products' = SaveInto(products, req[s].product, req[s].goods)
  /\ Finish(s)
  /\ UNCHANGED orders

DeleteProduct(s, p) ==
  /\ Free(s, "delete_product")
  /\ products[p] # None
  /\ products' = SaveInto(products, p, None)
  /\ UNCHANGED <<orders, req>>

-----------------------------------------------------------------------------
OrdersBegin(s) ==
  \/ \E cart \in Carts, method \in Methods, fee \in FeeChoices :
       CreateOrder(s, cart, method, fee)
  \/ \E o \in OrderIds : AcceptOrder(s, o) \/ AdvanceOrder(s, o) \/ CancelOrder(s, o)
  \/ \E p \in ProductIds : EditProduct(s, p) \/ DeleteProduct(s, p)

OrdersStep(s) ==
  \/ ReadLine(s) \/ TakeStock(s) \/ InsertOrder(s)
  \/ SaveOrder(s)
  \/ ReadStock(s) \/ RestoreStock(s) \/ SaveCancelled(s)
  \/ SaveProduct(s)
=============================================================================
