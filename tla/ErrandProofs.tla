---------------------------- MODULE ErrandProofs ----------------------------
(***************************************************************************)
(* Theorems about errands, for any number of errands, couriers, payments   *)
(* and requests in progress, with crashes.  What requests hold has to be   *)
(* part of the invariant, because they write it back later: HeldIsGood     *)
(* says what the errand in the hands of a request may look like, SoleOwner *)
(* that a key two requests hold is recorded as overlapped.  EarningsInv    *)
(* bounds what was credited by what was paid, and PromiseInv makes every   *)
(* step one of ErrandPromise or a stutter.                                 *)
(***************************************************************************)
EXTENDS Errands, CoroutineProofs

Settling == {"check_payment", "insert_payment"}
Crediting == {"earn", "save_paid"}

HeldIsGood ==
  \A s \in Slots : ~Free(s) =>
    /\ Coherent(req[s].key, req[s].errand)
    /\ req[s].pc \in Settling \cup {"save"} => req[s].errand.payment = None
    /\ req[s].pc \in Settling \cup Crediting => req[s].errand.status = "completed"
    /\ req[s].pc \in Crediting => req[s].errand.payment # None

NotYetPaid ==
  \A s \in Slots : At(s, "insert_payment") /\ Alone(req[s].key) =>
    PaymentsOf(req[s].key) = {}

IInv ==
  TypeOK /\ ErrandsAreCoherent /\ HeldIsGood /\ SoleOwner /\ NotYetPaid /\ PaidOnce

-----------------------------------------------------------------------------
\* None is neither a document nor the id of one, and documents have statuses.
LEMMA Apart ==
  /\ None \notin ErrandIds
  /\ None \notin Couriers
  /\ None \notin PaymentIds
  BY KeyAssumption, ErrandAssumption DEF ErrandIds

LEMMA InitIsGood == Init => IInv
  <1> SUFFICES ASSUME Init PROVE IInv
    OBVIOUS
  <1>1. TypeOK
    BY DEF Init, CoroutinesInit, TypeOK, Held, Idle, Maybe
  <1>2. ErrandsAreCoherent
    BY DEF Init, ErrandsAreCoherent
  <1>3. \A s \in Slots : Free(s)
    BY DEF Init, CoroutinesInit, Free, At, Idle
  <1>4. HeldIsGood /\ SoleOwner /\ NotYetPaid
    BY <1>3 DEF HeldIsGood, SoleOwner, NotYetPaid, Free, At
  <1>5. PaidOnce
    BY Apart DEF Init, PaidOnce, PaymentsOf
  <1> QED
    BY <1>1, <1>2, <1>4, <1>5 DEF IInv

-----------------------------------------------------------------------------
\* A request that only reads: it begins with a coherent copy in its hands.
LEMMA StartIsGood ==
  ASSUME IInv, NEW s \in Slots, NEW e \in ErrandIds, NEW errand \in Errand,
         Free(s), Start(s, Save(e, errand)), UNCHANGED <<errands, paid, earnings>>,
         Coherent(e, errand), errand.payment = None
  PROVE  IInv'
  <1> DEFINE r == Save(e, errand)
  <1>1. /\ req' = [req EXCEPT ![s] = r]
        /\ dropped' = dropped
        /\ overlapped' = overlapped \cup {k \in {e} : \E t \in Slots \ {s} : req[t].key = k}
    BY DEF Start, Save, Hold
  <1>2. r \in Held /\ r.pc = "save" /\ r.key = e /\ r.errand = errand
    BY DEF Held, Save, Hold
  <1>3. TypeOK'
    BY <1>1, <1>2 DEF IInv, TypeOK
  <1>4. ErrandsAreCoherent'
    BY DEF IInv, ErrandsAreCoherent, Coherent
  <1>5. HeldIsGood'
    <2> SUFFICES ASSUME NEW t \in Slots, (~Free(t))'
                 PROVE  (/\ Coherent(req[t].key, req[t].errand)
                         /\ req[t].pc \in Settling \cup {"save"} => req[t].errand.payment = None
                         /\ req[t].pc \in Settling \cup Crediting => req[t].errand.status = "completed"
                         /\ req[t].pc \in Crediting => req[t].errand.payment # None)'
      BY DEF HeldIsGood
    <2>1. CASE t = s
      BY <2>1, <1>1, <1>2 DEF IInv, TypeOK, Coherent, Settling, Crediting
    <2>2. CASE t # s
      BY <2>2, <1>1 DEF IInv, TypeOK, HeldIsGood, Coherent, Free, At
    <2> QED
      BY <2>1, <2>2
  <1>6. SoleOwner'
    <2> SUFFICES ASSUME NEW t \in Slots, NEW u \in Slots, t # u,
                        (~Free(t))', (req[t].key = req[u].key)'
                 PROVE  (req[t].key \in overlapped)'
      BY DEF SoleOwner
    <2>1. CASE t = s
      BY <2>1, <1>1, <1>2 DEF IInv, TypeOK
    <2>2. CASE u = s
      BY <2>2, <1>1, <1>2 DEF IInv, TypeOK
    <2>3. CASE t # s /\ u # s
      BY <2>3, <1>1 DEF IInv, TypeOK, SoleOwner, Free, At
    <2> QED
      BY <2>1, <2>2, <2>3
  <1>7. NotYetPaid'
    BY <1>1, <1>2 DEF IInv, TypeOK, NotYetPaid, At, Alone, PaymentsOf
  <1>8. PaidOnce'
    BY <1>1 DEF IInv, PaidOnce, Alone, PaymentsOf
  <1> QED
    BY <1>3, <1>4, <1>5, <1>6, <1>7, <1>8 DEF IInv

\* A request goes on, or ends, with a copy that is good for its next label.
\* Payments may be added, by a request that is alone on its errand only once.
LEMMA GotoIsGood ==
  ASSUME IInv, NEW s \in Slots, ~Free(s), NEW r \in Held,
         req' = [req EXCEPT ![s] = r], overlapped' = overlapped,
         dropped' \subseteq ErrandIds,
         errands' \in [ErrandIds -> Maybe(Errand)], paid' \in [PaymentIds -> Maybe(ErrandIds)],
         earnings' \in [ErrandIds \X Couriers -> Nat],
         ErrandsAreCoherent', NotYetPaid', PaidOnce',
         \A p \in PaymentIds : paid[p] # None => paid'[p] = paid[p],
         r.pc # "idle" =>
           /\ r.key = req[s].key
           /\ Coherent(r.key, r.errand)'
           /\ r.pc \in Settling \cup {"save"} => r.errand.payment = None
           /\ r.pc \in Settling \cup Crediting => r.errand.status = "completed"
           /\ r.pc \in Crediting => r.errand.payment # None
  PROVE  IInv'
  <1>1. TypeOK'
    BY DEF IInv, TypeOK
  <1>2. HeldIsGood'
    <2> SUFFICES ASSUME NEW t \in Slots, (~Free(t))'
                 PROVE  (/\ Coherent(req[t].key, req[t].errand)
                         /\ req[t].pc \in Settling \cup {"save"} => req[t].errand.payment = None
                         /\ req[t].pc \in Settling \cup Crediting => req[t].errand.status = "completed"
                         /\ req[t].pc \in Crediting => req[t].errand.payment # None)'
      BY DEF HeldIsGood
    <2>1. CASE t = s
      BY <2>1 DEF IInv, TypeOK, Free, At
    <2>2. CASE t # s
      <3>1. req'[t] = req[t] /\ req[t] \in Held /\ ~Free(t)
        BY <2>2 DEF IInv, TypeOK, Free, At
      <3>2. req[t].key \in ErrandIds /\ req[t].errand \in Errand
        BY <3>1 DEF Held, Free, At, Idle
      <3>3. Coherent(req[t].key, req[t].errand)
        BY <3>1 DEF IInv, HeldIsGood
      <3>4. Coherent(req[t].key, req[t].errand)'
        BY <3>1, <3>2, <3>3, Apart DEF Coherent, Errand, Maybe
      <3> QED
        BY <3>1, <3>4 DEF IInv, HeldIsGood
    <2> QED
      BY <2>1, <2>2
  <1>3. SoleOwner'
    <2> SUFFICES ASSUME NEW t \in Slots, NEW u \in Slots, t # u,
                        (~Free(t))', (req[t].key = req[u].key)'
                 PROVE  (req[t].key \in overlapped)'
      BY DEF SoleOwner
    <2>1. r.pc # "idle" => r.key = req[s].key
      OBVIOUS
    <2>2. req[s].key \in ErrandIds
      BY DEF IInv, TypeOK, Held, Free, At, Idle
    <2>3. \A v \in Slots : req'[v].pc = "idle" => req'[v].key = None
      BY DEF IInv, TypeOK, Held, Idle
    <2>4. \A v \in Slots : req'[v].pc # "idle" => req'[v].key \in ErrandIds /\ req'[v].key = req[v].key /\ ~Free(v)
      BY <2>1, <2>2 DEF IInv, TypeOK, Held, Idle, Free, At
    <2>5. req'[u].pc # "idle"
      BY <2>3, <2>4, Apart DEF Free, At
    <2> QED
      BY <2>4, <2>5 DEF IInv, SoleOwner, Free, At
  <1> QED
    BY <1>1, <1>2, <1>3 DEF IInv

-----------------------------------------------------------------------------
\* What a free slot, and a slot at work, hold.
LEMMA SlotHolds ==
  ASSUME IInv, NEW s \in Slots
  PROVE  /\ Free(s) => req[s] = Idle
         /\ ~Free(s) => /\ req[s].pc \in {"save"} \cup Settling \cup Crediting
                        /\ req[s].key \in ErrandIds
                        /\ req[s].errand \in Errand
                        /\ req[s] \in Held
  BY DEF IInv, TypeOK, Held, Idle, Free, At, Settling, Crediting

LEMMA IdleIsHeld == Idle \in Held /\ Idle.pc = "idle"
  BY DEF Held, Idle

\* A request that goes on to another label holds what it held.
LEMMA Relabelled ==
  ASSUME IInv, NEW s \in Slots, ~Free(s), NEW label \in Settling \cup Crediting
  PROVE  /\ [req[s] EXCEPT !.pc = label] \in Held
         /\ [req[s] EXCEPT !.pc = label].pc = label
         /\ [req[s] EXCEPT !.pc = label].key = req[s].key
         /\ [req[s] EXCEPT !.pc = label].errand = req[s].errand
  <1>1. req[s] \in [pc : {"save"} \cup Settling \cup Crediting, key : ErrandIds, errand : Errand]
    BY DEF IInv, TypeOK, Held, Idle, Free, At, Settling, Crediting
  <1> QED
    BY <1>1 DEF Held, Settling, Crediting

LEMMA CreateErrandIsGood ==
  ASSUME IInv, NEW s \in Slots, NEW e \in ErrandIds, CreateErrand(s, e)
  PROVE  IInv'
  <1> DEFINE open == [status |-> "open", courier |-> None, payment |-> None]
  <1>1. open \in Errand /\ Coherent(e, open)
    BY DEF Errand, ErrandStatus, Maybe, Coherent
  <1>2. errands' = [errands EXCEPT ![e] = open] /\ UNCHANGED <<paid, earnings, req, history>>
    BY DEF CreateErrand, Put
  <1>3. TypeOK'
    BY <1>1, <1>2 DEF IInv, TypeOK, Maybe, history
  <1>4. ErrandsAreCoherent'
    BY <1>1, <1>2 DEF IInv, TypeOK, ErrandsAreCoherent, Coherent
  <1> QED
    BY <1>2, <1>3, <1>4 DEF IInv, HeldIsGood, SoleOwner, NotYetPaid, PaidOnce, Coherent,
                            Free, At, Alone, PaymentsOf, history

LEMMA AcceptIsGood ==
  ASSUME IInv, NEW s \in Slots, NEW e \in ErrandIds, NEW c \in Couriers, Accept(s, e, c)
  PROVE  IInv'
  <1> DEFINE errand == [errands[e] EXCEPT !.courier = c, !.status = "assigned"]
  <1>1. errands[e] \in Errand /\ Coherent(e, errands[e]) /\ errands[e].status = "open"
    BY DEF Accept, IInv, TypeOK, ErrandsAreCoherent, Maybe
  <1>2. errand \in Errand /\ errand.status = "assigned" /\ errand.courier = c
                          /\ errand.payment = errands[e].payment
    BY <1>1 DEF Errand, ErrandStatus, Maybe
  <1>3. errand.payment = None
    BY <1>1, <1>2 DEF Coherent
  <1>4. Coherent(e, errand)
    BY <1>2, <1>3, Apart DEF Coherent
  <1> QED
    BY <1>2, <1>3, <1>4, StartIsGood DEF Accept

LEMMA AdvanceStatusIsGood ==
  ASSUME IInv, NEW s \in Slots, NEW e \in ErrandIds, AdvanceStatus(s, e)
  PROVE  IInv'
  <1> DEFINE errand == [errands[e] EXCEPT !.status = ErrandAdvance[@]]
  <1>1. /\ errands[e] \in Errand /\ Coherent(e, errands[e])
        /\ errands[e].courier # None /\ errands[e].status \in {"assigned", "in_progress"}
    BY DEF AdvanceStatus, IInv, TypeOK, ErrandsAreCoherent, Maybe, ErrandAdvance
  <1>2. /\ errand \in Errand /\ errand.status \in {"in_progress", "completed"}
        /\ errand.courier = errands[e].courier /\ errand.payment = errands[e].payment
    BY <1>1 DEF Errand, ErrandStatus, ErrandAdvance
  <1>3. errand.payment = None
    BY <1>1, <1>2 DEF Coherent
  <1>4. Coherent(e, errand)
    BY <1>1, <1>2, <1>3 DEF Coherent
  <1> QED
    BY <1>2, <1>3, <1>4, StartIsGood DEF AdvanceStatus

LEMMA CancelIsGood ==
  ASSUME IInv, NEW s \in Slots, NEW e \in ErrandIds, Cancel(s, e)
  PROVE  IInv'
  <1> DEFINE errand == [errands[e] EXCEPT !.status = "cancelled"]
  <1>1. /\ errands[e] \in Errand /\ Coherent(e, errands[e])
        /\ errands[e].status \in {"open", "assigned"}
    BY DEF Cancel, IInv, TypeOK, ErrandsAreCoherent, Maybe, Cancellable
  <1>2. errand \in Errand /\ errand.status = "cancelled" /\ errand.payment = errands[e].payment
    BY <1>1 DEF Errand, ErrandStatus
  <1>3. errand.payment = None /\ Coherent(e, errand)
    BY <1>1, <1>2 DEF Coherent
  <1> QED
    BY <1>2, <1>3, StartIsGood DEF Cancel

-----------------------------------------------------------------------------
\* Saving what a request holds leaves the collection coherent, and payments alone.
LEMMA SavingIsGood ==
  ASSUME IInv, NEW s \in Slots, ~Free(s),
         errands' = Put(errands, req[s].key, req[s].errand), UNCHANGED paid
  PROVE  /\ errands' \in [ErrandIds -> Maybe(Errand)]
         /\ ErrandsAreCoherent'
  <1>1. Coherent(req[s].key, req[s].errand)
    BY DEF IInv, HeldIsGood
  <1> QED
    BY <1>1, SlotHolds DEF Put, IInv, TypeOK, ErrandsAreCoherent, Coherent, Maybe

LEMMA SaveErrandIsGood ==
  ASSUME IInv, NEW s \in Slots, SaveErrand(s)
  PROVE  IInv'
  <1>1. ~Free(s) /\ At(s, "save")
    BY DEF SaveErrand, Free, At
  <1>2. errands' \in [ErrandIds -> Maybe(Errand)] /\ ErrandsAreCoherent'
    BY <1>1, SavingIsGood DEF SaveErrand
  <1>3. PaidOnce' /\ UNCHANGED <<paid, earnings, history>>
    BY DEF SaveErrand, Goto, Finish, IInv, PaidOnce, Alone, PaymentsOf, history
  <1>4. PICK r \in Held : /\ req' = [req EXCEPT ![s] = r]
                          /\ \/ r = Idle
                             \/ r = [req[s] EXCEPT !.pc = "check_payment"] /\ req[s].errand.status = "completed"
    <2>1. [req[s] EXCEPT !.pc = "check_payment"] \in Held
      BY <1>1, Relabelled DEF Settling
    <2> QED
      BY <2>1, IdleIsHeld DEF SaveErrand, Goto, Finish
  <1>5. r.pc # "idle" => /\ r.pc = "check_payment" /\ r.key = req[s].key /\ r.errand = req[s].errand
                         /\ r.errand.status = "completed" /\ r.errand.payment = None
                         /\ Coherent(r.key, r.errand)
    <2>1. /\ [req[s] EXCEPT !.pc = "check_payment"].pc = "check_payment"
          /\ [req[s] EXCEPT !.pc = "check_payment"].key = req[s].key
          /\ [req[s] EXCEPT !.pc = "check_payment"].errand = req[s].errand
      BY <1>1, Relabelled DEF Settling
    <2>2. Coherent(req[s].key, req[s].errand) /\ req[s].errand.payment = None
      BY <1>1 DEF IInv, HeldIsGood, At, Settling
    <2> QED
      BY <1>4, <2>1, <2>2, IdleIsHeld
  <1>6. NotYetPaid'
    BY <1>3, <1>4, <1>5 DEF IInv, TypeOK, NotYetPaid, Alone, PaymentsOf, At, history, Idle
  <1> QED
    BY <1>1, <1>2, <1>3, <1>4, <1>5, <1>6, GotoIsGood
       DEF IInv, TypeOK, Settling, Crediting, Coherent, history

LEMMA CheckPaymentIsGood ==
  ASSUME IInv, NEW s \in Slots, CheckPayment(s)
  PROVE  IInv'
  <1>1. ~Free(s) /\ At(s, "check_payment")
    BY DEF CheckPayment, Free, At
  <1>2. UNCHANGED <<errands, paid, earnings, history>>
    BY DEF CheckPayment, Goto, Finish, history
  <1>3. PaidOnce' /\ ErrandsAreCoherent'
    BY <1>2 DEF IInv, PaidOnce, ErrandsAreCoherent, Coherent, Alone, PaymentsOf, history
  <1>4. PICK r \in Held : /\ req' = [req EXCEPT ![s] = r]
                          /\ \/ r = Idle
                             \/ /\ r = [req[s] EXCEPT !.pc = "insert_payment"]
                                /\ PaymentsOf(req[s].key) = {}
    <2>1. [req[s] EXCEPT !.pc = "insert_payment"] \in Held
      BY <1>1, Relabelled DEF Settling
    <2> QED
      BY <2>1, IdleIsHeld DEF CheckPayment, Goto, Finish
  <1>5. r.pc # "idle" => /\ r.pc = "insert_payment" /\ r.key = req[s].key /\ r.errand = req[s].errand
                         /\ r.errand.status = "completed" /\ r.errand.payment = None
                         /\ Coherent(r.key, r.errand) /\ PaymentsOf(r.key) = {}
    <2>1. /\ [req[s] EXCEPT !.pc = "insert_payment"].pc = "insert_payment"
          /\ [req[s] EXCEPT !.pc = "insert_payment"].key = req[s].key
          /\ [req[s] EXCEPT !.pc = "insert_payment"].errand = req[s].errand
      BY <1>1, Relabelled DEF Settling
    <2>2. Coherent(req[s].key, req[s].errand) /\ req[s].errand.payment = None /\ req[s].errand.status = "completed"
      BY <1>1 DEF IInv, HeldIsGood, At, Settling
    <2> QED
      BY <1>4, <2>1, <2>2, IdleIsHeld
  <1>6. NotYetPaid'
    BY <1>2, <1>4, <1>5 DEF IInv, TypeOK, NotYetPaid, Alone, PaymentsOf, At, history, Idle
  <1> QED
    BY <1>1, <1>2, <1>3, <1>4, <1>5, <1>6, GotoIsGood
       DEF IInv, TypeOK, Settling, Crediting, Coherent, history

\* Here a payment is added.  A request that is alone found none before.
LEMMA InsertPaymentIsGood ==
  ASSUME IInv, NEW s \in Slots, InsertPayment(s)
  PROVE  IInv'
  <1> DEFINE e == req[s].key
  <1>1. ~Free(s) /\ At(s, "insert_payment")
    BY DEF InsertPayment, Free, At
  <1>2. PICK p, r :
          /\ p \in PaymentIds
          /\ paid[p] = None
          /\ paid' = [paid EXCEPT ![p] = e]
          /\ r = [pc |-> "earn", key |-> e, errand |-> [req[s].errand EXCEPT !.payment = p]]
          /\ req' = [req EXCEPT ![s] = r]
          /\ UNCHANGED <<errands, earnings, history>>
    BY DEF InsertPayment, Put, Goto, Hold
  <1>3. /\ e \in ErrandIds /\ req[s].errand \in Errand /\ e # None
        /\ req[s].errand.status = "completed" /\ Coherent(e, req[s].errand)
    BY <1>1, SlotHolds, Apart DEF IInv, HeldIsGood, At, Settling
  <1>4. /\ r \in Held /\ r.pc = "earn" /\ r.key = e /\ r.errand.status = "completed"
        /\ r.errand.payment = p /\ r.errand.courier = req[s].errand.courier /\ p # None
    <2>1. /\ [req[s].errand EXCEPT !.payment = p] \in Errand
          /\ r.errand.status = "completed" /\ r.errand.payment = p
          /\ r.errand.courier = req[s].errand.courier
      BY <1>2, <1>3 DEF Errand, Maybe
    <2> QED
      BY <1>2, <1>3, <2>1, Apart DEF Held
  <1>5. paid' \in [PaymentIds -> Maybe(ErrandIds)] /\ paid'[p] = e
    BY <1>2, <1>3 DEF IInv, TypeOK, Maybe
  <1>6. Coherent(r.key, r.errand)'
    BY <1>2, <1>3, <1>4, <1>5 DEF Coherent
  <1>7. ErrandsAreCoherent'
    <2> SUFFICES ASSUME NEW f \in ErrandIds, errands[f] # None
                 PROVE  Coherent(f, errands[f])'
      BY <1>2 DEF ErrandsAreCoherent
    <2>1. Coherent(f, errands[f]) /\ errands[f] \in Errand
      BY DEF IInv, TypeOK, ErrandsAreCoherent, Maybe
    <2> QED
      BY <1>2, <2>1, Apart DEF Coherent, Errand, Maybe, IInv, TypeOK
  <1>8. PaidOnce'
    <2> SUFFICES ASSUME NEW f \in ErrandIds, Alone(f)' PROVE (\A a, b \in PaymentsOf(f) : a = b)'
      BY DEF PaidOnce
    <2>1. CASE f = e
      <3>1. PaymentsOf(e) = {}
        BY <1>1, <1>2, <2>1 DEF IInv, NotYetPaid, Alone, history
      <3> QED
        BY <1>2, <2>1, <3>1 DEF PaymentsOf, IInv, TypeOK
    <2>2. CASE f # e
      BY <1>2, <2>2 DEF PaymentsOf, IInv, TypeOK, PaidOnce, Alone, history
    <2> QED
      BY <2>1, <2>2
  <1>9. NotYetPaid'
    <2> SUFFICES ASSUME NEW t \in Slots, At(t, "insert_payment")', Alone(req[t].key)'
                 PROVE  (PaymentsOf(req[t].key) = {})'
      BY DEF NotYetPaid
    <2>1. t # s /\ req'[t] = req[t] /\ At(t, "insert_payment") /\ ~Free(t)
      BY <1>2, <1>4 DEF At, Free, IInv, TypeOK
    <2>2. Alone(req[t].key) /\ req[t].key # e
      BY <1>1, <1>2, <2>1 DEF Alone, history, IInv, SoleOwner
    <2> QED
      BY <1>2, <2>1, <2>2 DEF IInv, TypeOK, NotYetPaid, PaymentsOf
  <1>10. \A q \in PaymentIds : paid[q] # None => paid'[q] = paid[q]
    BY <1>2 DEF IInv, TypeOK
  <1> QED
    BY <1>1, <1>2, <1>4, <1>5, <1>6, <1>7, <1>8, <1>9, <1>10, GotoIsGood
       DEF IInv, TypeOK, Settling, Crediting, history

LEMMA WriteEarningIsGood ==
  ASSUME IInv, NEW s \in Slots, WriteEarning(s)
  PROVE  IInv'
  <1> DEFINE r == [req[s] EXCEPT !.pc = "save_paid"]
  <1>1. ~Free(s) /\ At(s, "earn")
    BY DEF WriteEarning, Free, At
  <1>2. /\ req' = [req EXCEPT ![s] = r]
        /\ earnings' = [earnings EXCEPT ![<<req[s].key, req[s].errand.courier>>] = @ + 1]
        /\ UNCHANGED <<errands, paid, history>>
    BY DEF WriteEarning, Goto
  <1>3. /\ req[s].errand.status = "completed" /\ req[s].errand.payment # None
        /\ Coherent(req[s].key, req[s].errand)
    BY <1>1 DEF IInv, HeldIsGood, At, Crediting
  <1>4. r \in Held /\ r.pc = "save_paid" /\ r.key = req[s].key /\ r.errand = req[s].errand
    BY <1>1, Relabelled DEF Crediting
  <1>5. earnings' \in [ErrandIds \X Couriers -> Nat]
    <2>1. req[s].errand.courier \in Couriers /\ req[s].key \in ErrandIds
      BY <1>1, <1>3, SlotHolds DEF Errand, Maybe, Coherent
    <2> QED
      BY <1>2, <2>1 DEF IInv, TypeOK
  <1>6. PaidOnce' /\ ErrandsAreCoherent'
    BY <1>2 DEF IInv, PaidOnce, ErrandsAreCoherent, Coherent, Alone, PaymentsOf, history
  <1>7. NotYetPaid'
    BY <1>2, <1>4 DEF IInv, TypeOK, NotYetPaid, Alone, PaymentsOf, At, history
  <1> QED
    BY <1>1, <1>2, <1>3, <1>4, <1>5, <1>6, <1>7, GotoIsGood
       DEF IInv, TypeOK, Settling, Crediting, Coherent, history

LEMMA SavePaidIsGood ==
  ASSUME IInv, NEW s \in Slots, SavePaid(s)
  PROVE  IInv'
  <1>1. ~Free(s) /\ At(s, "save_paid")
    BY DEF SavePaid, Free, At
  <1>2. errands' \in [ErrandIds -> Maybe(Errand)] /\ ErrandsAreCoherent'
    BY <1>1, SavingIsGood DEF SavePaid
  <1>3. req' = [req EXCEPT ![s] = Idle] /\ UNCHANGED <<paid, earnings, history>>
    BY DEF SavePaid, Goto, Finish
  <1>4. PaidOnce' /\ NotYetPaid'
    BY <1>3, IdleIsHeld DEF IInv, TypeOK, PaidOnce, NotYetPaid, Alone, PaymentsOf, At, history
  <1> QED
    BY <1>1, <1>2, <1>3, <1>4, IdleIsHeld, GotoIsGood DEF IInv, TypeOK, history

LEMMA FailIsGood ==
  ASSUME IInv, NEW s \in Slots, Fail(s)
  PROVE  IInv'
  <1>1. /\ ~Free(s) /\ req' = [req EXCEPT ![s] = Idle]
        /\ UNCHANGED <<errands, paid, earnings, overlapped>>
        /\ dropped' \subseteq ErrandIds
    BY SlotHolds DEF Fail, Crash, IInv, TypeOK
  <1>2. PaidOnce' /\ NotYetPaid' /\ ErrandsAreCoherent'
    BY <1>1, IdleIsHeld DEF IInv, TypeOK, PaidOnce, NotYetPaid, ErrandsAreCoherent, Coherent,
                            Alone, PaymentsOf, At
  <1> QED
    BY <1>1, <1>2, IdleIsHeld, GotoIsGood DEF IInv, TypeOK

-----------------------------------------------------------------------------
LEMMA NextIsGood == IInv /\ [Next]_vars => IInv'
  <1> SUFFICES ASSUME IInv, [Next]_vars PROVE IInv'
    OBVIOUS
  <1>1. ASSUME NEW s \in Slots, Begin(s) PROVE IInv'
    BY <1>1, CreateErrandIsGood, AcceptIsGood, AdvanceStatusIsGood, CancelIsGood DEF Begin
  <1>2. ASSUME NEW s \in Slots, Serve(s) PROVE IInv'
    BY <1>2, SaveErrandIsGood, CheckPaymentIsGood, InsertPaymentIsGood,
       WriteEarningIsGood, SavePaidIsGood DEF Serve
  <1>3. CASE UNCHANGED vars
    BY <1>3 DEF vars, history, IInv, TypeOK, ErrandsAreCoherent, Coherent, HeldIsGood, SoleOwner,
                NotYetPaid, PaidOnce, PaymentsOf, Alone, Free, At
  <1> QED
    BY <1>1, <1>2, <1>3, FailIsGood DEF Next

LEMMA Invariance == Spec => []IInv
  BY InitIsGood, NextIsGood, PTL DEF Spec

\* Every document, payment, ledger entry and request keeps its type.
THEOREM TypeIsCorrect == Spec => []TypeOK
  BY Invariance, PTL DEF IInv

\* However requests about an errand overlap and die, no save mixes two stages
\* of its life: couriers and payments are named exactly where they belong.
THEOREM ErrandsStayCoherent == Spec => []ErrandsAreCoherent
  BY Invariance, PTL DEF IInv

\* An errand about which no two requests were ever in progress together has one
\* payment at most, whatever is repeated and wherever requests die.
THEOREM ErrandsArePaidOnce == Spec => []PaidOnce
  BY Invariance, PTL DEF IInv

-----------------------------------------------------------------------------
(* The ledger never exceeds the payments *)

\* What every courier was credited for errand e.
Credits(ledger, e) == [c \in Couriers |-> ledger[<<e, c>>]]

\* The requests that have recorded a payment of e and not yet its earning.
Owing(e) == {s \in Slots : At(s, "earn") /\ req[s].key = e}

\* Every entry, written or still owed, has a payment of its own.
EarningsInv ==
  \A e \in ErrandIds :
    SumOver(Credits(earnings, e), Couriers) + Cardinality(Owing(e)) <= Cardinality(PaymentsOf(e))

LEMMA CreditsAddUp ==
  ASSUME NEW ledger, NEW e
  PROVE  MapThenSumSet(LAMBDA c : ledger[<<e, c>>], Couriers) = SumOver(Credits(ledger, e), Couriers)
<1> DEFINE g == Credits(ledger, e)
           L(h) == h = [T \in SUBSET Couriers |->
                          IF T = {} THEN 0 ELSE ledger[<<e, Pick(T)>>] + h[T \ {Pick(T)}]]
<1>1. MapThenSumSet(LAMBDA c : ledger[<<e, c>>], Couriers) = (CHOOSE h : L(h))[Couriers]
  BY Zenon DEF MapThenSumSet, MapThenFoldSet, Pick
<1>2. ASSUME NEW h PROVE L(h) <=> Sums(g, h, Couriers)
  <2>1. ASSUME NEW T \in SUBSET Couriers
        PROVE  (IF T = {} THEN 0 ELSE ledger[<<e, Pick(T)>>] + h[T \ {Pick(T)}]) = Adding(g, h, T)
    BY PickIsElement DEF Adding, Credits
  <2> QED
    BY <2>1 DEF Sums
<1> HIDE DEF L
<1>3. (CHOOSE h : L(h)) = (CHOOSE h : Sums(g, h, Couriers))
  BY <1>2, Zenon
<1> QED
  BY <1>1, <1>3, SumIsChosen

LEMMA CreditsAreFinite ==
  ASSUME TypeOK, NEW e \in ErrandIds
  PROVE  /\ \A c \in Couriers : Credits(earnings, e)[c] \in Nat
         /\ SumOver(Credits(earnings, e), Couriers) \in Nat
         /\ Cardinality(Owing(e)) \in Nat /\ IsFiniteSet(Owing(e))
         /\ Cardinality(PaymentsOf(e)) \in Nat /\ IsFiniteSet(PaymentsOf(e))
<1>1. \A c \in Couriers : Credits(earnings, e)[c] \in Nat
  BY DEF TypeOK, Credits
<1>2. SumOver(Credits(earnings, e), Couriers) \in Nat
  BY <1>1, SumIsNat, FinitenessAssumption
<1>3. IsFiniteSet(Owing(e)) /\ IsFiniteSet(PaymentsOf(e))
  BY FinitenessAssumption, FS_Subset DEF Owing, PaymentsOf
<1> QED
  BY <1>1, <1>2, <1>3, FS_CardinalityType

LEMMA InitEarnsNothing == Init => EarningsInv
<1> SUFFICES ASSUME Init, NEW e \in ErrandIds
             PROVE  SumOver(Credits(earnings, e), Couriers) + Cardinality(Owing(e))
                      <= Cardinality(PaymentsOf(e))
  BY DEF EarningsInv
<1>1. TypeOK
  BY InitIsGood DEF IInv
<1>2. Owing(e) = {}
  BY DEF Init, CoroutinesInit, Owing, At, Idle
<1>3. \A c \in Couriers : Credits(earnings, e)[c] = 0
  BY DEF Init, Credits
<1>4. \A T \in SUBSET Couriers : SumOver(Credits(earnings, e), T) = 0
  BY <1>3, SumOfZeros, FinitenessAssumption
<1>5. Cardinality(Owing(e)) = 0
  BY <1>2, FS_EmptySet
<1> QED
  BY <1>1, <1>4, <1>5, CreditsAreFinite

\* Nothing is paid or credited, and no request comes to owe an entry.
LEMMA NothingOwed ==
  ASSUME TypeOK, TypeOK', EarningsInv, UNCHANGED <<paid, earnings>>,
         \A e \in ErrandIds : Owing(e)' \subseteq Owing(e)
  PROVE  EarningsInv'
<1> SUFFICES ASSUME NEW e \in ErrandIds
             PROVE  (SumOver(Credits(earnings, e), Couriers) + Cardinality(Owing(e))
                       <= Cardinality(PaymentsOf(e)))'
  BY DEF EarningsInv
<1>1. Cardinality(Owing(e)') <= Cardinality(Owing(e)) /\ Cardinality(Owing(e)') \in Nat
  BY CreditsAreFinite, FS_Subset, FS_CardinalityType
<1>2. SumOver(Credits(earnings', e), Couriers) = SumOver(Credits(earnings, e), Couriers)
  OBVIOUS
<1>3. PaymentsOf(e)' = PaymentsOf(e)
  BY DEF PaymentsOf
<1> QED
  BY <1>1, <1>2, <1>3, CreditsAreFinite DEF EarningsInv

\* A slot that was not to write an earning, and will not be.
LEMMA NoEarner ==
  ASSUME TypeOK, EarningsInv, TypeOK', NEW s \in Slots, NEW r, req' = [req EXCEPT ![s] = r],
         UNCHANGED <<paid, earnings>>, r.pc # "earn"
  PROVE  EarningsInv'
<1>1. \A e \in ErrandIds : Owing(e)' \subseteq Owing(e)
  BY DEF Owing, At, TypeOK
<1> QED
  BY <1>1, NothingOwed

LEMMA InsertPaymentIsBacked ==
  ASSUME IInv, TypeOK', EarningsInv, NEW s \in Slots, InsertPayment(s)
  PROVE  EarningsInv'
<1> DEFINE k == req[s].key
<1>1. PICK p \in PaymentIds :
        /\ paid[p] = None
        /\ paid' = [paid EXCEPT ![p] = k]
        /\ req' = [req EXCEPT ![s] = [pc |-> "earn", key |-> k,
                                      errand |-> [req[s].errand EXCEPT !.payment = p]]]
        /\ UNCHANGED <<errands, earnings>>
  BY DEF InsertPayment, Put, Goto, Hold
<1>2. At(s, "insert_payment") /\ k \in ErrandIds /\ k # None
  BY SlotHolds, Apart DEF InsertPayment, At, Free
<1> SUFFICES ASSUME NEW e \in ErrandIds
             PROVE  (SumOver(Credits(earnings, e), Couriers) + Cardinality(Owing(e))
                       <= Cardinality(PaymentsOf(e)))'
  BY DEF EarningsInv
<1>3. SumOver(Credits(earnings', e), Couriers) = SumOver(Credits(earnings, e), Couriers)
  BY <1>1
<1>4. CASE e = k
  <2>1. Owing(e)' = Owing(e) \cup {s} /\ s \notin Owing(e)
    BY <1>1, <1>2, <1>4 DEF Owing, At, IInv, TypeOK
  <2>2. PaymentsOf(e)' = PaymentsOf(e) \cup {p} /\ p \notin PaymentsOf(e)
    BY <1>1, <1>2, <1>4 DEF PaymentsOf, IInv, TypeOK
  <2>3. Cardinality(Owing(e)') = Cardinality(Owing(e)) + 1
    BY <2>1, CreditsAreFinite, FS_AddElement DEF IInv
  <2>4. Cardinality(PaymentsOf(e)') = Cardinality(PaymentsOf(e)) + 1
    BY <2>2, CreditsAreFinite, FS_AddElement DEF IInv
  <2> QED
    BY <1>3, <2>3, <2>4, CreditsAreFinite DEF EarningsInv, IInv
<1>5. CASE e # k
  <2>1. Owing(e)' = Owing(e)
    BY <1>1, <1>2, <1>5 DEF Owing, At, IInv, TypeOK
  <2>2. PaymentsOf(e)' = PaymentsOf(e)
    BY <1>1, <1>2, <1>5, Apart DEF PaymentsOf, IInv, TypeOK
  <2> QED
    BY <1>3, <2>1, <2>2 DEF EarningsInv
<1> QED
  BY <1>4, <1>5

LEMMA WriteEarningIsBacked ==
  ASSUME IInv, TypeOK', EarningsInv, NEW s \in Slots, WriteEarning(s)
  PROVE  EarningsInv'
<1> DEFINE k == req[s].key
           courier == req[s].errand.courier
<1>1. /\ earnings' = [earnings EXCEPT ![<<k, courier>>] = @ + 1]
      /\ req' = [req EXCEPT ![s] = [req[s] EXCEPT !.pc = "save_paid"]]
      /\ UNCHANGED <<errands, paid>>
  BY DEF WriteEarning, Goto
<1>2. ~Free(s) /\ At(s, "earn") /\ k \in ErrandIds /\ req[s] \in Held
  BY SlotHolds DEF WriteEarning, At, Free
<1>3. courier \in Couriers
  BY <1>2, SlotHolds DEF Errand, Maybe, Coherent, IInv, HeldIsGood, At, Crediting
<1>4. [req[s] EXCEPT !.pc = "save_paid"].pc = "save_paid"
  BY <1>2, Relabelled DEF Crediting
<1> SUFFICES ASSUME NEW e \in ErrandIds
             PROVE  (SumOver(Credits(earnings, e), Couriers) + Cardinality(Owing(e))
                       <= Cardinality(PaymentsOf(e)))'
  BY DEF EarningsInv
<1>5. PaymentsOf(e)' = PaymentsOf(e)
  BY <1>1 DEF PaymentsOf
<1>6. CASE e = k
  <2>1. s \in Owing(e) /\ Owing(e)' = Owing(e) \ {s}
    BY <1>1, <1>2, <1>4, <1>6 DEF Owing, At, IInv, TypeOK
  <2>2. Cardinality(Owing(e)') = Cardinality(Owing(e)) - 1
    BY <2>1, CreditsAreFinite, FS_RemoveElement DEF IInv
  <2>3. \A c \in Couriers \ {courier} : Credits(earnings', e)[c] = Credits(earnings, e)[c]
    BY <1>1 DEF Credits, IInv, TypeOK
  <2>4. Credits(earnings', e)[courier] = Credits(earnings, e)[courier] + 1
    BY <1>1, <1>2, <1>3, <1>6 DEF Credits, IInv, TypeOK
  <2>5. \A c \in Couriers : Credits(earnings, e)[c] \in Int /\ Credits(earnings', e)[c] \in Int
    BY DEF Credits, IInv, TypeOK
  <2>6. SumOver(Credits(earnings', e), Couriers)
          = SumOver(Credits(earnings, e), Couriers)
              + (Credits(earnings', e)[courier] - Credits(earnings, e)[courier])
    <3> DEFINE f == Credits(earnings, e)
               g == Credits(earnings', e)
    <3> HIDE DEF f, g
    <3> QED
      BY <2>3, <2>5, <1>3, FinitenessAssumption, SumChange DEF f, g
  <2>7. SumOver(Credits(earnings', e), Couriers) = SumOver(Credits(earnings, e), Couriers) + 1
    BY <2>4, <2>5, <2>6, <1>3
  <2> QED
    BY <1>5, <2>2, <2>7, CreditsAreFinite DEF EarningsInv, IInv
<1>7. CASE e # k
  <2>1. Owing(e)' = Owing(e)
    BY <1>1, <1>2, <1>4, <1>7 DEF Owing, At, IInv, TypeOK
  <2>2. Credits(earnings', e) = Credits(earnings, e)
    BY <1>1, <1>7 DEF Credits, IInv, TypeOK
  <2> QED
    BY <1>5, <2>1, <2>2 DEF EarningsInv
<1> QED
  BY <1>6, <1>7

LEMMA NextIsBacked == IInv /\ TypeOK' /\ EarningsInv /\ [Next]_vars => EarningsInv'
<1> SUFFICES ASSUME IInv, TypeOK', EarningsInv, [Next]_vars PROVE EarningsInv'
  OBVIOUS
<1>1. ASSUME NEW s \in Slots, NEW e \in ErrandIds, CreateErrand(s, e) PROVE EarningsInv'
  <2>1. UNCHANGED <<paid, earnings, req>>
    BY <1>1 DEF CreateErrand
  <2>2. \A x \in ErrandIds : Owing(x)' = Owing(x)
    BY <2>1 DEF Owing, At
  <2> QED
    BY <2>1, <2>2, NothingOwed DEF IInv
<1>2. ASSUME NEW s \in Slots, NEW e \in ErrandIds, NEW errand, Start(s, Save(e, errand)),
             UNCHANGED <<paid, earnings>>
      PROVE  EarningsInv'
  <2>1. req' = [req EXCEPT ![s] = Save(e, errand)] /\ Save(e, errand).pc = "save"
    BY <1>2 DEF Start, Save, Hold
  <2> QED
    BY <1>2, <2>1, NoEarner DEF IInv
<1>3. ASSUME NEW s \in Slots, Begin(s) PROVE EarningsInv'
  BY <1>1, <1>2, <1>3 DEF Begin, Accept, AdvanceStatus, Cancel
<1>4. ASSUME NEW s \in Slots, SaveErrand(s) \/ CheckPayment(s) \/ SavePaid(s) PROVE EarningsInv'
  <2>1. ~Free(s)
    BY <1>4 DEF SaveErrand, CheckPayment, SavePaid, At, Free
  <2>2. \A label \in Settling : [req[s] EXCEPT !.pc = label].pc = label
    BY <2>1, Relabelled
  <2>3. PICK r : req' = [req EXCEPT ![s] = r] /\ r.pc # "earn"
    BY <1>4, <2>2, IdleIsHeld DEF SaveErrand, CheckPayment, SavePaid, Goto, Finish, Settling
  <2>4. UNCHANGED <<paid, earnings>>
    BY <1>4 DEF SaveErrand, CheckPayment, SavePaid
  <2> QED
    BY <2>3, <2>4, NoEarner DEF IInv
<1>5. ASSUME NEW s \in Slots, Fail(s) PROVE EarningsInv'
  BY <1>5, NoEarner, IdleIsHeld DEF Fail, Crash, IInv
<1>6. CASE UNCHANGED vars
  <2>1. UNCHANGED <<paid, earnings, req>>
    BY <1>6 DEF vars
  <2>2. \A x \in ErrandIds : Owing(x)' = Owing(x)
    BY <2>1 DEF Owing, At
  <2> QED
    BY <2>1, <2>2, NothingOwed DEF IInv
<1> QED
  BY <1>3, <1>4, <1>5, <1>6, InsertPaymentIsBacked, WriteEarningIsBacked DEF Next, Serve

LEMMA EarningsInvImplies == TypeOK /\ EarningsInv => EarningsAreBacked
<1> SUFFICES ASSUME TypeOK, EarningsInv, NEW e \in ErrandIds
             PROVE  SumOver(Credits(earnings, e), Couriers) <= Cardinality(PaymentsOf(e))
  BY CreditsAddUp, Zenon DEF EarningsAreBacked
<1> QED
  BY CreditsAreFinite DEF EarningsInv

\* The ledger may fall short of the payments of an errand, and never exceeds
\* them, however completions overlap and wherever they die.
THEOREM EarningsStayBacked == Spec => []EarningsAreBacked
<1>1. IInv /\ EarningsInv /\ [Next]_vars => EarningsInv'
  BY NextIsGood, NextIsBacked DEF IInv
<1>2. IInv => TypeOK
  BY DEF IInv
<1> QED
  BY Invariance, InitEarnsNothing, <1>1, <1>2, EarningsInvImplies, PTL DEF Spec

-----------------------------------------------------------------------------
(* Errands implement ErrandPromise *)

\* What a request saves, given what it read and nobody else has written.
Advances(old, new) ==
  \/ old.status = "open" /\ new.status = "assigned"
  \/ old.status = "assigned" /\ new.status = "in_progress" /\ new.courier = old.courier
  \/ old.status = "in_progress" /\ new.status = "completed" /\ new.courier = old.courier
  \/ old.status \in {"open", "assigned"} /\ new.status = "cancelled" /\ new.courier = old.courier

Uncredited(e) == \A c \in Couriers : earnings[<<e, c>>] = 0

\* A request that is alone on its errand is one step ahead of what is stored,
\* and the courier is not credited before the request has paid.
Ahead(s) ==
  LET e == req[s].key
  IN  /\ At(s, "save") => Advances(errands[e], req[s].errand)
      /\ ~At(s, "save") => /\ errands[e].status = "completed"
                           /\ errands[e].courier = req[s].errand.courier
      /\ req[s].pc \in Settling \cup {"earn"} => Uncredited(e)

OneStepAhead == \A s \in Slots : ~Free(s) /\ Alone(req[s].key) => Ahead(s)

OnlyPublished == \A s \in Slots : ~Free(s) => errands[req[s].key] # None

CreditedLast ==
  \A e \in ErrandIds : Alone(e) =>
    Uncredited(e) \/ (errands[e] # None /\ errands[e].status = "completed")

PromiseInv == OneStepAhead /\ OnlyPublished /\ CreditedLast

Stage(e) == IF ~Alone(e) THEN "void" ELSE IF errands[e] = None THEN "none" ELSE errands[e].status
Taker(e) == IF ~Alone(e) \/ errands[e] = None THEN None ELSE errands[e].courier
Credited(e) == Alone(e) /\ \E c \in Couriers : earnings[<<e, c>>] > 0

\* The promise sees nothing of this step of errand e.
Unseen(e) == Stage(e)' = Stage(e) /\ Taker(e)' = Taker(e) /\ Credited(e)' = Credited(e)

\* The promise sees errand e take one of its steps.
Seen(e) ==
  \/ /\ Stage(e) = "none" /\ Stage(e)' = "open"
     /\ Taker(e)' = Taker(e) /\ Credited(e)' = Credited(e)
  \/ /\ Stage(e) = "open" /\ Stage(e)' = "assigned"
     /\ Taker(e)' \in Couriers /\ Credited(e)' = Credited(e)
  \/ /\ \/ Stage(e) = "assigned" /\ Stage(e)' = "in_progress"
        \/ Stage(e) = "in_progress" /\ Stage(e)' = "completed"
        \/ Stage(e) \in {"open", "assigned"} /\ Stage(e)' = "cancelled"
     /\ Taker(e)' = Taker(e) /\ Credited(e)' = Credited(e)
  \/ /\ Stage(e) = "completed" /\ ~Credited(e) /\ Credited(e)' = TRUE
     /\ Stage(e)' = Stage(e) /\ Taker(e)' = Taker(e)
  \/ /\ Stage(e) # "none"
     /\ Stage(e)' = "void" /\ Taker(e)' = None /\ Credited(e)' = FALSE

LEMMA SeenIsPromised ==
  ASSUME NEW e \in ErrandIds, \A f \in ErrandIds \ {e} : Unseen(f), Unseen(e) \/ Seen(e)
  PROVE  [Promise!Next]_(Promise!vars)
<1> DEFINE st == [f \in ErrandIds |-> Stage(f)]
           tk == [f \in ErrandIds |-> Taker(f)]
           cr == [f \in ErrandIds |-> Credited(f)]
<1>1. CASE Unseen(e)
  <2>1. \A f \in ErrandIds : Unseen(f)
    BY <1>1
  <2>2. st' = st /\ tk' = tk /\ cr' = cr
    BY <2>1 DEF Unseen
  <2> QED
    BY <2>2 DEF Promise!vars, Stage, Taker, Credited
<1>2. CASE Seen(e)
  <2>1. /\ st' = [st EXCEPT ![e] = Stage(e)']
        /\ tk' = [tk EXCEPT ![e] = Taker(e)']
        /\ cr' = [cr EXCEPT ![e] = Credited(e)']
    BY DEF Unseen
  <2>2. /\ st[e] = Stage(e) /\ tk[e] = Taker(e) /\ cr[e] = Credited(e)
        /\ [tk EXCEPT ![e] = tk[e]] = tk /\ [cr EXCEPT ![e] = cr[e]] = cr
        /\ [st EXCEPT ![e] = st[e]] = st
    OBVIOUS
  <2> HIDE DEF st, tk, cr
  <2>3. CASE Stage(e) = "none" /\ Stage(e)' = "open" /\ Taker(e)' = Taker(e) /\ Credited(e)' = Credited(e)
    <3>1. st[e] = "none" /\ st' = [st EXCEPT ![e] = "open"] /\ tk' = tk /\ cr' = cr
      BY <2>1, <2>2, <2>3
    <3>2. Promise!Publish(e)
      BY <3>1 DEF Promise!Publish, Promise!Move, st, tk, cr, Stage, Taker, Credited
    <3> QED
      BY <3>2 DEF Promise!Next
  <2>4. CASE /\ Stage(e) = "open" /\ Stage(e)' = "assigned"
             /\ Taker(e)' \in Couriers /\ Credited(e)' = Credited(e)
    <3>1. PICK c \in Couriers : c = Taker(e)'
      BY <2>4
    <3>2. /\ st[e] = "open" /\ st' = [st EXCEPT ![e] = "assigned"]
          /\ tk' = [tk EXCEPT ![e] = c] /\ cr' = cr
      BY <2>1, <2>2, <2>4, <3>1
    <3>3. Promise!Take(e, c)
      BY <3>2 DEF Promise!Take, Promise!Move, st, tk, cr, Stage, Taker, Credited
    <3> QED
      BY <3>3 DEF Promise!Next
  <2>5. CASE /\ \/ Stage(e) = "assigned" /\ Stage(e)' = "in_progress"
                \/ Stage(e) = "in_progress" /\ Stage(e)' = "completed"
             /\ Taker(e)' = Taker(e) /\ Credited(e)' = Credited(e)
    <3>1. /\ \/ st[e] = "assigned" /\ st' = [st EXCEPT ![e] = "in_progress"]
             \/ st[e] = "in_progress" /\ st' = [st EXCEPT ![e] = "completed"]
          /\ tk' = tk /\ cr' = cr
      BY <2>1, <2>2, <2>5
    <3>2. Promise!Work(e)
      BY <3>1 DEF Promise!Work, Promise!Move, st, tk, cr, Stage, Taker, Credited
    <3> QED
      BY <3>2 DEF Promise!Next
  <2>6. CASE /\ Stage(e) \in {"open", "assigned"} /\ Stage(e)' = "cancelled"
             /\ Taker(e)' = Taker(e) /\ Credited(e)' = Credited(e)
    <3>1. /\ st[e] \in {"open", "assigned"} /\ st' = [st EXCEPT ![e] = "cancelled"]
          /\ tk' = tk /\ cr' = cr
      BY <2>1, <2>2, <2>6
    <3>2. Promise!Cancel(e)
      BY <3>1 DEF Promise!Cancel, Promise!Move, st, tk, cr, Stage, Taker, Credited
    <3> QED
      BY <3>2 DEF Promise!Next
  <2>7. CASE /\ Stage(e) = "completed" /\ ~Credited(e) /\ Credited(e)' = TRUE
             /\ Stage(e)' = Stage(e) /\ Taker(e)' = Taker(e)
    <3>1. st[e] = "completed" /\ ~cr[e] /\ cr' = [cr EXCEPT ![e] = TRUE] /\ st' = st /\ tk' = tk
      BY <2>1, <2>2, <2>7
    <3>2. Promise!Credit(e)
      BY <3>1 DEF Promise!Credit, st, tk, cr, Stage, Taker, Credited
    <3> QED
      BY <3>2 DEF Promise!Next
  <2>8. CASE Stage(e) # "none" /\ Stage(e)' = "void" /\ Taker(e)' = None /\ Credited(e)' = FALSE
    <3>1. /\ st[e] # "none" /\ st' = [st EXCEPT ![e] = "void"]
          /\ tk' = [tk EXCEPT ![e] = None] /\ cr' = [cr EXCEPT ![e] = FALSE]
      BY <2>1, <2>2, <2>8
    <3>2. Promise!Void(e)
      BY <3>1 DEF Promise!Void, st, tk, cr, Stage, Taker, Credited
    <3> QED
      BY <3>2 DEF Promise!Next
  <2> QED
    BY <1>2, <2>3, <2>4, <2>5, <2>6, <2>7, <2>8 DEF Seen
<1> QED
  BY <1>1, <1>2

LEMMA UnseenFrame ==
  ASSUME NEW f \in ErrandIds, errands'[f] = errands[f], Alone(f)' = Alone(f),
         \A c \in Couriers : earnings'[<<f, c>>] = earnings[<<f, c>>]
  PROVE  Unseen(f)
  BY DEF Unseen, Stage, Taker, Credited

LEMMA VoidUnseen ==
  ASSUME NEW f \in ErrandIds, ~Alone(f), ~Alone(f)'
  PROVE  Unseen(f)
  BY DEF Unseen, Stage, Taker, Credited

LEMMA InitPromises == Init => PromiseInv /\ Promise!Init
<1> SUFFICES ASSUME Init PROVE PromiseInv /\ Promise!Init
  OBVIOUS
<1>1. \A s \in Slots : Free(s)
  BY DEF Init, CoroutinesInit, Free, At, Idle
<1>2. \A e \in ErrandIds : Uncredited(e)
  BY DEF Init, Uncredited
<1>3. \A e \in ErrandIds : Alone(e) /\ errands[e] = None
  BY DEF Init, CoroutinesInit, Alone
<1>4. \A e \in ErrandIds : ~ \E c \in Couriers : earnings[<<e, c>>] > 0
  <2>1. ~ (0 > 0)
    OBVIOUS
  <2> QED
    BY <1>2, <2>1 DEF Uncredited
<1> QED
  BY <1>1, <1>2, <1>3, <1>4 DEF PromiseInv, OneStepAhead, OnlyPublished, CreditedLast, Promise!Init

\* What a step of slot s has to leave as it was for the others.
LEMMA StaysAhead ==
  ASSUME IInv, PromiseInv, NEW s \in Slots, NEW r, req' = [req EXCEPT ![s] = r],
         overlapped \subseteq overlapped',
         \A f \in ErrandIds : errands[f] # None => errands'[f] # None,
         \A t \in Slots \ {s} : ~Free(t) /\ Alone(req[t].key) =>
           /\ errands'[req[t].key] = errands[req[t].key]
           /\ \A c \in Couriers : earnings'[<<req[t].key, c>>] = earnings[<<req[t].key, c>>],
         r.pc # "idle" => errands'[r.key] # None,
         r.pc # "idle" /\ Alone(r.key)' => Ahead(s)',
         CreditedLast'
  PROVE  PromiseInv'
<1>1. /\ req'[s] = r
      /\ \A t \in Slots \ {s} : req'[t] = req[t]
  BY DEF IInv, TypeOK
<1>2. OnlyPublished'
  <2> SUFFICES ASSUME NEW t \in Slots, ~Free(t)' PROVE errands'[req'[t].key] # None
    BY DEF OnlyPublished
  <2>1. CASE t = s
    BY <1>1, <2>1 DEF Free, At
  <2>2. CASE t # s
    BY <1>1, <2>2, SlotHolds DEF Free, At, PromiseInv, OnlyPublished
  <2> QED
    BY <2>1, <2>2
<1>3. OneStepAhead'
  <2> SUFFICES ASSUME NEW t \in Slots, ~Free(t)', Alone(req[t].key)' PROVE Ahead(t)'
    BY DEF OneStepAhead
  <2>1. CASE t = s
    BY <1>1, <2>1 DEF Free, At
  <2>2. CASE t # s
    <3>1. req'[t] = req[t] /\ ~Free(t) /\ Alone(req[t].key)
      BY <1>1, <2>2 DEF Free, At, Alone
    <3>2. Ahead(t)
      BY <3>1 DEF PromiseInv, OneStepAhead
    <3>3. /\ errands'[req[t].key] = errands[req[t].key]
          /\ \A c \in Couriers : earnings'[<<req[t].key, c>>] = earnings[<<req[t].key, c>>]
      BY <2>2, <3>1
    <3> QED
      BY <3>1, <3>2, <3>3 DEF Ahead, Uncredited, At
  <2> QED
    BY <2>1, <2>2
<1> QED
  BY <1>2, <1>3 DEF PromiseInv

\* A request begins: another one at work on the same errand voids it.
LEMMA StartPromises ==
  ASSUME IInv, PromiseInv, NEW s \in Slots, NEW e \in ErrandIds, NEW errand,
         Free(s), Start(s, Save(e, errand)), UNCHANGED <<errands, paid, earnings>>,
         errands[e] # None, Advances(errands[e], errand)
  PROVE  PromiseInv' /\ [Promise!Next]_(Promise!vars)
<1> DEFINE r == Save(e, errand)
<1>1. /\ req' = [req EXCEPT ![s] = r]
      /\ overlapped \subseteq overlapped' /\ overlapped' \subseteq overlapped \cup {e}
  BY DEF Start, Save, Hold
<1>2. r.pc = "save" /\ r.key = e /\ r.errand = errand
  BY DEF Save, Hold
<1>3. req'[s] = r
  BY <1>1 DEF IInv, TypeOK
<1>4. \A f \in ErrandIds : Alone(f)' => Alone(f)
  BY <1>1 DEF Alone
<1>5. CreditedLast'
  BY <1>4 DEF PromiseInv, CreditedLast, Uncredited
<1>6. Ahead(s)'
  BY <1>2, <1>3 DEF Ahead, At, Settling
<1>7. PromiseInv'
  BY <1>1, <1>2, <1>5, <1>6, StaysAhead
<1>8. \A f \in ErrandIds \ {e} : Unseen(f)
  BY <1>1, UnseenFrame DEF Alone
<1>9. Unseen(e) \/ Seen(e)
  <2>1. CASE Alone(e)'
    BY <1>4, <2>1, UnseenFrame
  <2>2. CASE ~Alone(e)' /\ ~Alone(e)
    BY <2>2, VoidUnseen
  <2>3. CASE ~Alone(e)' /\ Alone(e)
    <3>1. errands[e].status # "none"
      BY DEF IInv, TypeOK, Maybe, Errand, ErrandStatus
    <3> QED
      BY <2>3, <3>1 DEF Seen, Stage, Taker, Credited
  <2> QED
    BY <2>1, <2>2, <2>3
<1> QED
  BY <1>7, <1>8, <1>9, SeenIsPromised

LEMMA BeginPromises ==
  ASSUME IInv, PromiseInv, NEW s \in Slots, Begin(s)
  PROVE  PromiseInv' /\ [Promise!Next]_(Promise!vars)
<1>1. ASSUME NEW e \in ErrandIds, CreateErrand(s, e)
      PROVE  PromiseInv' /\ [Promise!Next]_(Promise!vars)
  <2> DEFINE open == [status |-> "open", courier |-> None, payment |-> None]
  <2>1. /\ errands[e] = None
        /\ errands' = [errands EXCEPT ![e] = open]
        /\ UNCHANGED <<paid, earnings, req, overlapped>>
    BY <1>1 DEF CreateErrand, Put, history
  <2>2. errands'[e] = open /\ open.status = "open" /\ open.courier = None
    BY <2>1 DEF IInv, TypeOK
  <2>3. \A f \in ErrandIds \ {e} : errands'[f] = errands[f]
    BY <2>1 DEF IInv, TypeOK
  <2>4. \A f \in ErrandIds \ {e} : Unseen(f)
    BY <2>1, <2>3, UnseenFrame DEF Alone
  <2>5. Unseen(e) \/ Seen(e)
    <3>1. open # None
      <4>1. open \in Errand
        BY DEF Errand, ErrandStatus, Maybe
      <4> QED
        BY <4>1, DocumentAssumption
    <3>2. CASE Alone(e)
      <4>1. Alone(e)'
        BY <2>1, <3>2 DEF Alone
      <4>2. Stage(e) = "none" /\ Stage(e)' = "open" /\ Taker(e)' = Taker(e)
        BY <2>1, <2>2, <3>1, <3>2, <4>1 DEF Stage, Taker
      <4>3. Credited(e)' = Credited(e)
        BY <2>1, <3>2, <4>1 DEF Credited
      <4> QED
        BY <4>2, <4>3 DEF Seen
    <3>3. CASE ~Alone(e)
      BY <2>1, <3>3, VoidUnseen DEF Alone
    <3> QED
      BY <3>2, <3>3
  <2>6. \A t \in Slots : ~Free(t) => req[t].key # e /\ req[t].key \in ErrandIds
    BY <2>1, SlotHolds DEF PromiseInv, OnlyPublished
  <2>7. OneStepAhead'
    BY <2>1, <2>3, <2>6 DEF PromiseInv, OneStepAhead, Ahead, Uncredited, At, Free, Alone
  <2>8. OnlyPublished'
    BY <2>1, <2>3, <2>6 DEF PromiseInv, OnlyPublished, At, Free
  <2>9. CreditedLast'
    BY <2>1, <2>3 DEF PromiseInv, CreditedLast, Uncredited, Alone
  <2> QED
    BY <2>4, <2>5, <2>7, <2>8, <2>9, SeenIsPromised DEF PromiseInv
<1>2. ASSUME NEW e \in ErrandIds, NEW c \in Couriers, Accept(s, e, c)
      PROVE  PromiseInv' /\ [Promise!Next]_(Promise!vars)
  <2> DEFINE errand == [errands[e] EXCEPT !.courier = c, !.status = "assigned"]
  <2>1. errands[e] \in Errand /\ errands[e].status = "open"
    BY <1>2 DEF Accept, IInv, TypeOK, Maybe
  <2>2. errand.status = "assigned"
    BY <2>1 DEF Errand
  <2> QED
    BY <1>2, <2>1, <2>2, StartPromises DEF Accept, Advances
<1>3. ASSUME NEW e \in ErrandIds, AdvanceStatus(s, e)
      PROVE  PromiseInv' /\ [Promise!Next]_(Promise!vars)
  <2> DEFINE errand == [errands[e] EXCEPT !.status = ErrandAdvance[@]]
  <2>1. errands[e] \in Errand /\ errands[e].status \in {"assigned", "in_progress"}
    BY <1>3 DEF AdvanceStatus, IInv, TypeOK, Maybe, ErrandAdvance
  <2>2. /\ errand.courier = errands[e].courier
        /\ errands[e].status = "assigned" => errand.status = "in_progress"
        /\ errands[e].status = "in_progress" => errand.status = "completed"
    BY <2>1 DEF Errand, ErrandAdvance
  <2> QED
    BY <1>3, <2>1, <2>2, StartPromises DEF AdvanceStatus, Advances
<1>4. ASSUME NEW e \in ErrandIds, Cancel(s, e)
      PROVE  PromiseInv' /\ [Promise!Next]_(Promise!vars)
  <2> DEFINE errand == [errands[e] EXCEPT !.status = "cancelled"]
  <2>1. errands[e] \in Errand /\ errands[e].status \in {"open", "assigned"}
    BY <1>4 DEF Cancel, IInv, TypeOK, Maybe, Cancellable
  <2>2. errand.status = "cancelled" /\ errand.courier = errands[e].courier
    BY <2>1 DEF Errand
  <2> QED
    BY <1>4, <2>1, <2>2, StartPromises DEF Cancel, Advances
<1> QED
  BY <1>1, <1>2, <1>3, <1>4 DEF Begin

\* What a request at work knows of its errand, and of the other requests.
LEMMA AtWork ==
  ASSUME IInv, PromiseInv, NEW s \in Slots, ~Free(s)
  PROVE  /\ req[s].key \in ErrandIds /\ errands[req[s].key] \in Errand
         /\ errands[req[s].key] # None /\ req[s].errand \in Errand /\ req[s].errand # None
         /\ Coherent(req[s].key, req[s].errand)
         /\ Alone(req[s].key) => Ahead(s)
         /\ Alone(req[s].key) =>
              \A t \in Slots \ {s} : ~Free(t) => req[t].key # req[s].key
<1>1. req[s].key \in ErrandIds /\ req[s].errand \in Errand
  BY SlotHolds
<1>2. errands[req[s].key] # None /\ errands[req[s].key] \in Errand
  BY <1>1 DEF PromiseInv, OnlyPublished, IInv, TypeOK, Maybe
<1>3. Alone(req[s].key) => \A t \in Slots \ {s} : ~Free(t) => req[t].key # req[s].key
  BY DEF IInv, SoleOwner, Alone
<1> QED
  BY <1>1, <1>2, <1>3, DocumentAssumption DEF IInv, HeldIsGood, PromiseInv, OneStepAhead

LEMMA SaveErrandPromises ==
  ASSUME IInv, PromiseInv, NEW s \in Slots, SaveErrand(s)
  PROVE  PromiseInv' /\ [Promise!Next]_(Promise!vars)
<1>0. PICK e, errand : e = req[s].key /\ errand = req[s].errand
  OBVIOUS
<1>1. ~Free(s) /\ At(s, "save")
  BY <1>0 DEF SaveErrand, Free, At
<1>2. /\ e \in ErrandIds /\ errands[e] \in Errand /\ errands[e] # None
      /\ errand \in Errand /\ errand # None /\ Coherent(e, errand)
      /\ Alone(e) => Advances(errands[e], errand)
      /\ \A t \in Slots \ {s} : ~Free(t) /\ Alone(req[t].key) => req[t].key # e
  BY <1>0, <1>1, AtWork DEF Ahead, IInv, SoleOwner, Alone
<1>3. /\ errands' = [errands EXCEPT ![e] = errand]
      /\ UNCHANGED <<paid, earnings, overlapped>>
  BY <1>0 DEF SaveErrand, Put, Goto, Finish, history
<1>4. errands'[e] = errand /\ \A f \in ErrandIds \ {e} : errands'[f] = errands[f]
  BY <1>0, <1>2, <1>3 DEF IInv, TypeOK
<1>5. \A f \in ErrandIds : Alone(f)' = Alone(f) /\ Uncredited(f)' = Uncredited(f)
  BY <1>0, <1>3 DEF Alone, Uncredited
<1>6. Alone(e) => Uncredited(e)
  BY <1>0, <1>2 DEF PromiseInv, CreditedLast, Advances
<1>7. CreditedLast'
  BY <1>0, <1>2, <1>4, <1>5, <1>6 DEF PromiseInv, CreditedLast
<1>8. PICK r : /\ req' = [req EXCEPT ![s] = r]
               /\ \/ r = Idle
                  \/ /\ r = [req[s] EXCEPT !.pc = "check_payment"]
                     /\ errand.status = "completed"
  BY <1>0 DEF SaveErrand, Goto, Finish
<1>9. r.pc # "idle" => r.pc = "check_payment" /\ r.key = e /\ r.errand = errand
                         /\ errand.status = "completed"
  <2>1. /\ [req[s] EXCEPT !.pc = "check_payment"].pc = "check_payment"
        /\ [req[s] EXCEPT !.pc = "check_payment"].key = req[s].key
        /\ [req[s] EXCEPT !.pc = "check_payment"].errand = req[s].errand
    BY <1>1, Relabelled DEF Settling
  <2> QED
    BY <1>0, <1>8, <2>1, IdleIsHeld
<1>10. req'[s] = r
  BY <1>8 DEF IInv, TypeOK
<1>11. r.pc # "idle" /\ Alone(e)' => Ahead(s)'
  <2>1. Alone(e)' => \A c \in Couriers : earnings'[<<e, c>>] = 0
    BY <1>2, <1>3, <1>5, <1>6 DEF Uncredited
  <2> QED
    BY <1>3, <1>4, <1>9, <1>10, <2>1 DEF Ahead, At, Uncredited
<1>12. \A t \in Slots \ {s} : ~Free(t) /\ Alone(req[t].key) =>
         errands'[req[t].key] = errands[req[t].key]
  BY <1>0, <1>2, <1>4, <1>5, SlotHolds
<1>13. \A f \in ErrandIds : errands[f] # None => errands'[f] # None
  BY <1>0, <1>2, <1>4
<1>14. PromiseInv'
  BY <1>0, <1>2, <1>3, <1>4, <1>7, <1>8, <1>9, <1>11, <1>12, <1>13, StaysAhead
<1>15. \A f \in ErrandIds \ {e} : Unseen(f)
  BY <1>0, <1>3, <1>4, <1>5, UnseenFrame
<1>16. Unseen(e) \/ Seen(e)
  <2>1. CASE ~Alone(e)
    BY <1>0, <1>2, <1>5, <2>1, VoidUnseen
  <2>2. CASE Alone(e)
    <3>1. /\ Stage(e) = errands[e].status /\ Taker(e) = errands[e].courier
          /\ Stage(e)' = errand.status /\ Taker(e)' = errand.courier
          /\ Credited(e)' = Credited(e)
      BY <1>0, <1>2, <1>3, <1>4, <1>5, <2>2 DEF Stage, Taker, Credited
    <3>2. errand.status = "assigned" => errand.courier \in Couriers
      BY <1>0, <1>2 DEF Coherent, Errand, Maybe
    <3> QED
      BY <1>0, <1>2, <2>2, <3>1, <3>2 DEF Advances, Seen
  <2> QED
    BY <2>1, <2>2
<1> QED
  BY <1>0, <1>2, <1>14, <1>15, <1>16, SeenIsPromised

\* A request that goes on, or ends, without a write that the promise sees.
LEMMA QuietPromises ==
  ASSUME IInv, PromiseInv, NEW s \in Slots, ~Free(s), NEW r, req' = [req EXCEPT ![s] = r],
         UNCHANGED <<errands, earnings, overlapped>>,
         r.pc # "idle" =>
           /\ r.key = req[s].key /\ r.errand.courier = req[s].errand.courier
           /\ r.pc \in {"insert_payment", "earn"} /\ req[s].pc \in Settling
  PROVE  PromiseInv' /\ [Promise!Next]_(Promise!vars)
<1>0. PICK e : e = req[s].key
  OBVIOUS
<1>1. e \in ErrandIds /\ errands[e] # None /\ (Alone(e) => Ahead(s))
  BY <1>0, AtWork
<1>2. \A f \in ErrandIds : Alone(f)' = Alone(f) /\ Uncredited(f)' = Uncredited(f) /\ Unseen(f)
  BY UnseenFrame DEF Alone, Uncredited
<1>3. CreditedLast'
  BY <1>0, <1>2 DEF PromiseInv, CreditedLast
<1>4. req'[s] = r
  BY <1>0 DEF IInv, TypeOK
<1>5. r.pc # "idle" /\ Alone(r.key)' => Ahead(s)'
  BY <1>0, <1>1, <1>2, <1>4 DEF Ahead, At, Settling
<1>6. PromiseInv'
  BY <1>0, <1>1, <1>3, <1>5, StaysAhead
<1> QED
  BY <1>0, <1>1, <1>2, <1>6, SeenIsPromised

LEMMA WriteEarningPromises ==
  ASSUME IInv, PromiseInv, NEW s \in Slots, WriteEarning(s)
  PROVE  PromiseInv' /\ [Promise!Next]_(Promise!vars)
<1>0. PICK e, courier, r :
        e = req[s].key /\ courier = req[s].errand.courier /\ r = [req[s] EXCEPT !.pc = "save_paid"]
  OBVIOUS
<1>1. ~Free(s) /\ At(s, "earn")
  BY <1>0 DEF WriteEarning, Free, At
<1>2. /\ e \in ErrandIds /\ errands[e] # None /\ courier \in Couriers
      /\ Alone(e) => /\ errands[e].status = "completed"
                     /\ errands[e].courier = courier
                     /\ Uncredited(e)
      /\ \A t \in Slots \ {s} : ~Free(t) /\ Alone(req[t].key) => req[t].key # e
  <2>1. req[s].errand.status = "completed"
    BY <1>0, <1>1 DEF IInv, HeldIsGood, At, Crediting
  <2>2. courier \in Couriers
    BY <1>0, <1>1, <2>1, AtWork DEF Coherent, Errand, Maybe
  <2> QED
    BY <1>0, <1>1, <2>2, AtWork DEF Ahead, At, IInv, SoleOwner, Alone
<1>3. /\ earnings' = [earnings EXCEPT ![<<e, courier>>] = @ + 1]
      /\ req' = [req EXCEPT ![s] = r]
      /\ UNCHANGED <<errands, paid, overlapped>>
  BY <1>0 DEF WriteEarning, Goto, history
<1>4. r.pc = "save_paid" /\ r.key = e /\ r.errand = req[s].errand
  BY <1>0, <1>1, Relabelled DEF Crediting
<1>5. \A f \in ErrandIds \ {e}, c \in Couriers : earnings'[<<f, c>>] = earnings[<<f, c>>]
  BY <1>0, <1>3 DEF IInv, TypeOK
<1>6. \A f \in ErrandIds : Alone(f)' = Alone(f)
  BY <1>0, <1>3 DEF Alone
<1>7. CreditedLast'
  BY <1>0, <1>2, <1>3, <1>5, <1>6 DEF PromiseInv, CreditedLast, Uncredited
<1>8. req'[s] = r
  BY <1>0, <1>3 DEF IInv, TypeOK
<1>9. Alone(r.key)' => Ahead(s)'
  BY <1>0, <1>2, <1>3, <1>4, <1>6, <1>8 DEF Ahead, At, Settling
<1>10. \A t \in Slots \ {s} : ~Free(t) /\ Alone(req[t].key) =>
         \A c \in Couriers : earnings'[<<req[t].key, c>>] = earnings[<<req[t].key, c>>]
  BY <1>0, <1>2, <1>5, <1>6, SlotHolds
<1>11. PromiseInv'
  BY <1>0, <1>2, <1>3, <1>4, <1>7, <1>9, <1>10, StaysAhead
<1>12. \A f \in ErrandIds \ {e} : Unseen(f)
  BY <1>0, <1>3, <1>5, <1>6, UnseenFrame
<1>13. Unseen(e) \/ Seen(e)
  <2>1. CASE ~Alone(e)
    BY <1>0, <1>2, <1>6, <2>1, VoidUnseen
  <2>2. CASE Alone(e)
    <3>1. Stage(e) = "completed" /\ Stage(e)' = Stage(e) /\ Taker(e)' = Taker(e)
      BY <1>0, <1>2, <1>3, <1>6, <2>2 DEF Stage, Taker
    <3>2. ~Credited(e)
      <4>1. ~ (0 > 0)
        OBVIOUS
      <4> QED
        BY <1>2, <2>2, <4>1 DEF Credited, Uncredited
    <3>3. earnings'[<<e, courier>>] = 1
      BY <1>0, <1>2, <1>3, <2>2 DEF Uncredited, IInv, TypeOK
    <3>4. Credited(e)' = TRUE
      BY <1>0, <1>2, <1>6, <2>2, <3>3 DEF Credited
    <3> QED
      BY <3>1, <3>2, <3>4 DEF Seen
  <2> QED
    BY <2>1, <2>2
<1> QED
  BY <1>0, <1>2, <1>11, <1>12, <1>13, SeenIsPromised

LEMMA SavePaidPromises ==
  ASSUME IInv, PromiseInv, NEW s \in Slots, SavePaid(s)
  PROVE  PromiseInv' /\ [Promise!Next]_(Promise!vars)
<1>0. PICK e, errand : e = req[s].key /\ errand = req[s].errand
  OBVIOUS
<1>1. ~Free(s) /\ At(s, "save_paid")
  BY <1>0 DEF SavePaid, Free, At
<1>2. /\ e \in ErrandIds /\ errands[e] # None /\ errand # None
      /\ errand.status = "completed"
      /\ Alone(e) => errands[e].status = "completed" /\ errands[e].courier = errand.courier
      /\ \A t \in Slots \ {s} : ~Free(t) /\ Alone(req[t].key) => req[t].key # e
  <2>1. errand.status = "completed"
    BY <1>0, <1>1 DEF IInv, HeldIsGood, At, Crediting
  <2> QED
    BY <1>0, <1>1, <2>1, AtWork DEF Ahead, At, IInv, SoleOwner, Alone
<1>3. /\ errands' = [errands EXCEPT ![e] = errand]
      /\ req' = [req EXCEPT ![s] = Idle]
      /\ UNCHANGED <<paid, earnings, overlapped>>
  BY <1>0 DEF SavePaid, Put, Goto, Finish, history
<1>4. errands'[e] = errand /\ \A f \in ErrandIds \ {e} : errands'[f] = errands[f]
  BY <1>0, <1>2, <1>3 DEF IInv, TypeOK
<1>5. \A f \in ErrandIds : Alone(f)' = Alone(f) /\ Uncredited(f)' = Uncredited(f)
  BY <1>0, <1>3 DEF Alone, Uncredited
<1>6. CreditedLast'
  BY <1>0, <1>2, <1>4, <1>5 DEF PromiseInv, CreditedLast
<1>7. \A t \in Slots \ {s} : ~Free(t) /\ Alone(req[t].key) =>
        errands'[req[t].key] = errands[req[t].key]
  BY <1>0, <1>2, <1>4, <1>5, SlotHolds
<1>8. \A f \in ErrandIds : errands[f] # None => errands'[f] # None
  BY <1>0, <1>2, <1>4
<1>9. PromiseInv'
  BY <1>0, <1>3, <1>6, <1>7, <1>8, IdleIsHeld, StaysAhead
<1>10. \A f \in ErrandIds \ {e} : Unseen(f)
  BY <1>0, <1>3, <1>4, <1>5, UnseenFrame
<1>11. Unseen(e)
  <2>1. CASE ~Alone(e)
    BY <1>0, <1>2, <1>5, <2>1, VoidUnseen
  <2>2. CASE Alone(e)
    BY <1>0, <1>2, <1>3, <1>4, <1>5, <2>2 DEF Unseen, Stage, Taker, Credited
  <2> QED
    BY <2>1, <2>2
<1> QED
  BY <1>0, <1>2, <1>9, <1>10, <1>11, SeenIsPromised

LEMMA NextPromises ==
  IInv /\ PromiseInv /\ [Next]_vars => PromiseInv' /\ [Promise!Next]_(Promise!vars)
<1> SUFFICES ASSUME IInv, PromiseInv, [Next]_vars
             PROVE  PromiseInv' /\ [Promise!Next]_(Promise!vars)
  OBVIOUS
<1>1. ASSUME NEW s \in Slots, CheckPayment(s)
      PROVE  PromiseInv' /\ [Promise!Next]_(Promise!vars)
  <2>1. ~Free(s) /\ req[s].pc \in Settling
    BY <1>1 DEF CheckPayment, Free, At, Settling
  <2>2. UNCHANGED <<errands, earnings, overlapped>>
    BY <1>1 DEF CheckPayment, Goto, Finish, history
  <2>3. PICK r : /\ req' = [req EXCEPT ![s] = r]
                 /\ r = Idle \/ r = [req[s] EXCEPT !.pc = "insert_payment"]
    BY <1>1 DEF CheckPayment, Goto, Finish
  <2>4. r.pc # "idle" => r.pc = "insert_payment" /\ r.key = req[s].key /\ r.errand = req[s].errand
    <3>1. /\ [req[s] EXCEPT !.pc = "insert_payment"].pc = "insert_payment"
          /\ [req[s] EXCEPT !.pc = "insert_payment"].key = req[s].key
          /\ [req[s] EXCEPT !.pc = "insert_payment"].errand = req[s].errand
      BY <2>1, Relabelled DEF Settling
    <3> QED
      BY <2>3, <3>1, IdleIsHeld
  <2> QED
    BY <2>1, <2>2, <2>3, <2>4, QuietPromises
<1>2. ASSUME NEW s \in Slots, InsertPayment(s)
      PROVE  PromiseInv' /\ [Promise!Next]_(Promise!vars)
  <2>1. ~Free(s) /\ req[s].pc \in Settling
    BY <1>2 DEF InsertPayment, Free, At, Settling
  <2>2. PICK p \in PaymentIds :
          /\ req' = [req EXCEPT ![s] = Hold("earn", req[s].key, [req[s].errand EXCEPT !.payment = p])]
          /\ UNCHANGED <<errands, earnings, overlapped>>
    BY <1>2 DEF InsertPayment, Goto, history
  <2> DEFINE r == Hold("earn", req[s].key, [req[s].errand EXCEPT !.payment = p])
  <2>3. [req[s].errand EXCEPT !.payment = p].courier = req[s].errand.courier
    BY <2>1, AtWork DEF Errand
  <2>4. r.pc = "earn" /\ r.key = req[s].key /\ r.errand.courier = req[s].errand.courier
    BY <2>3 DEF Hold
  <2> HIDE DEF r
  <2> QED
    BY <2>1, <2>2, <2>4, QuietPromises DEF r
<1>3. ASSUME NEW s \in Slots, Fail(s)
      PROVE  PromiseInv' /\ [Promise!Next]_(Promise!vars)
  BY <1>3, QuietPromises, IdleIsHeld DEF Fail, Crash
<1>4. CASE UNCHANGED vars
  <2>1. PromiseInv'
    BY <1>4 DEF vars, history, PromiseInv, OneStepAhead, OnlyPublished, CreditedLast, Ahead,
                Uncredited, Alone, Free, At
  <2>2. UNCHANGED Promise!vars
    BY <1>4 DEF vars, history, Promise!vars, Alone
  <2> QED
    BY <2>1, <2>2
<1> QED
  BY <1>1, <1>2, <1>3, <1>4, BeginPromises, SaveErrandPromises, WriteEarningPromises,
     SavePaidPromises DEF Next, Serve

\* Served one request at a time, an errand is taken by one courier, goes forward
\* only, and is credited once, after its completion: every step of the handlers
\* is a step of ErrandPromise or none, crashes included.
THEOREM ErrandsKeepTheirPromise == Spec => KeepsPromise
<1>1. IInv /\ PromiseInv /\ [Next]_vars => PromiseInv'
  BY NextPromises
<1>2. IInv /\ PromiseInv /\ [Next]_vars => [Promise!Next]_(Promise!vars)
  BY NextPromises
<1> QED
  BY Invariance, InitPromises, <1>1, <1>2, PTL DEF Spec, KeepsPromise, Promise!Spec
=============================================================================
