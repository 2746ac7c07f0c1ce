------------------------------ MODULE Payments ------------------------------
(***************************************************************************)
(* Payments and the ledger (payments/service.py).  A Wompi order is paid   *)
(* through an intent and the gateway's webhook; a cash order is settled by *)
(* the request that marks its delivery delivered, which comes here at      *)
(* label check_payment and goes on from label free (module Deliveries).    *)
(* Neither collection has a unique index on the order it refers to.        *)
(***************************************************************************)
EXTENDS Orders

CONSTANT MaxBatches    \* bound: settlements of one order the ledger records

ASSUME MaxBatchesAssumption == MaxBatches \in Nat \ {0}

VARIABLES payments, ledger    \* ledger counts the copies of every entry

PaymentsInit ==
  /\ payments = [p \in PaymentIds |-> None]
  /\ ledger = [e \in LedgerEntry |-> 0]

PaymentsTypeOK ==
  /\ payments \in [PaymentIds -> Maybe(Payment)]
  /\ ledger \in [LedgerEntry -> Nat]

PaymentsOf(o) == {p \in PaymentIds : payments[p] # None /\ payments[p].order = o}

\* How many times o's settlement credited an account.
Credited(o, user) ==
  ledger[[order |-> o, user |-> user, settled |-> TRUE]]
    + ledger[[order |-> o, user |-> user, settled |-> FALSE]]

-----------------------------------------------------------------------------
(* create_intent: the order's status is not looked at *)

CreateIntent(s, o) ==
  /\ Free(s, "intent")
  /\ orders[o] # None
  /\ orders[o].method = "wompi"
  /\ Goto(s, [Idle EXCEPT !.pc = "check_intent", !.oid = o])
  /\ UNCHANGED <<orders, payments, ledger>>

CheckIntent(s) ==
  /\ At(s, "check_intent")
  /\ IF PaymentsOf(req[s].oid) = {}
       THEN Goto(s, [req[s] EXCEPT !.pc = "insert_intent"])
       ELSE Finish(s)
  /\ UNCHANGED <<orders, payments, ledger>>

InsertIntent(s) ==
  /\ At(s, "insert_intent")
  /\ \E p \in PaymentIds :
       /\ payments[p] = None
       /\ payments' = SaveInto(payments, p,
            [order |-> req[s].oid, method |-> "wompi", status |-> "pending"])
  /\ Finish(s)
  /\ UNCHANGED <<orders, ledger>>

-----------------------------------------------------------------------------
(* handle_wompi_webhook: find_one returns any payment with the reference *)

\* Mutant: a payment that is approved is approved, or declined, again.
IsOpenAlways(payment) == TRUE

IsOpen(payment) == payment.status # "approved"

Webhook(s, p, outcome) ==
  /\ Free(s, "webhook")
  /\ payments[p] # None
  /\ payments[p].method = "wompi"
  /\ IsOpen(payments[p])
  /\ Credited(payments[p].order, "platform") < MaxBatches    \* bound
  /\ Goto(s, [Idle EXCEPT !.pc = "save_payment", !.pid = p,
                          !.payment = [payments[p] EXCEPT !.status = outcome]])
  /\ UNCHANGED <<orders, payments, ledger>>

SavePayment(s) ==
  /\ At(s, "save_payment")
  /\ payments' = SaveInto(payments, req[s].pid, req[s].payment)
  /\ IF req[s].payment.status = "approved"
       THEN Goto(s, [req[s] EXCEPT !.pc = "load_paid"])
       ELSE Finish(s)
  /\ UNCHANGED <<orders, ledger>>

LoadPaidOrder(s) ==
  /\ At(s, "load_paid")
  /\ LET o == req[s].payment.order
     IN  Goto(s, [req[s] EXCEPT !.pc = "save_paid", !.oid = o,
                    !.order = [orders[o] EXCEPT !.payment = req[s].pid]])
  /\ UNCHANGED <<orders, payments, ledger>>

-----------------------------------------------------------------------------
(* settle_order_payment *)

CheckPayment(s) ==
  /\ At(s, "check_payment")
  /\ IF PaymentsOf(req[s].oid) = {}
       THEN Goto(s, [req[s] EXCEPT !.pc = "insert_payment"])
       ELSE Goto(s, [req[s] EXCEPT !.pc = "free", !.order = None])
  /\ UNCHANGED <<orders, payments, ledger>>

InsertPayment(s) ==
  /\ At(s, "insert_payment")
  /\ \E p \in PaymentIds :
       LET payment == [order |-> req[s].oid, method |-> "cash", status |-> "approved"]
       IN  /\ payments[p] = None
           /\ payments' = SaveInto(payments, p, payment)
           /\ Goto(s, [req[s] EXCEPT !.pc = "save_paid", !.payment = payment,
                         !.order = [@ EXCEPT !.payment = p]])
  /\ UNCHANGED <<orders, ledger>>

-----------------------------------------------------------------------------
(* Common to both: save the order with its payment_id, then write the      *)
(* ledger entry by entry.  What prepaid orders owe is settled at once.     *)

SavePaidOrder(s) ==
  /\ At(s, "save_paid")
  /\ orders' = SaveInto(orders, req[s].oid, req[s].order)
  /\ Goto(s, [req[s] EXCEPT !.pc = "ledger", !.order = None, !.payment = None,
                !.todo = LedgerLines(req[s].oid, req[s].order,
                                     req[s].payment.method = "wompi")])
  /\ UNCHANGED <<payments, ledger>>

WriteEntry(s) ==
  /\ At(s, "ledger")
  /\ req[s].todo # << >>
  /\ ledger' = [ledger EXCEPT ![Head(req[s].todo)] = @ + 1]
  /\ Goto(s, [req[s] EXCEPT !.todo = Tail(@)])
  /\ UNCHANGED <<orders, payments>>

\* The webhook is done; a delivery has still to free its courier.
LedgerWritten(s) ==
  /\ At(s, "ledger")
  /\ req[s].todo = << >>
  /\ IF req[s].did = None THEN Finish(s) ELSE Goto(s, [req[s] EXCEPT !.pc = "free"])
  /\ UNCHANGED <<orders, payments, ledger>>

-----------------------------------------------------------------------------
PaymentsBegin(s) ==
  \/ \E o \in OrderIds : CreateIntent(s, o)
  \/ \E p \in PaymentIds, outcome \in {"approved", "declined"} : Webhook(s, p, outcome)

PaymentsStep(s) ==
  \/ CheckIntent(s) \/ InsertIntent(s)
  \/ SavePayment(s) \/ LoadPaidOrder(s)
  \/ CheckPayment(s) \/ InsertPayment(s)
  \/ SavePaidOrder(s) \/ WriteEntry(s) \/ LedgerWritten(s)
=============================================================================
