------------------------------- MODULE Errands -------------------------------
(***************************************************************************)
(* Errands (errands/service.py) and their cash settlement                  *)
(* (payments/service.py, settle_errand_payment): a client publishes an     *)
(* errand for a fee, a courier accepts, starts and completes it, and the   *)
(* completion writes the payment and the courier's earning.  Every handler *)
(* reads the whole errand, tests it and saves the whole errand back; the   *)
(* completion saves it twice, around the writes of the payment.            *)
(***************************************************************************)
EXTENDS Coroutines, FiniteSets, FiniteSetsExt

CONSTANTS Couriers, PaymentIds

ASSUME ErrandAssumption == None \notin Couriers \cup PaymentIds

ErrandIds == Keys

VARIABLES
  errands,    \* the collection: id -> document or None
  paid,       \* the payments of errands: id -> errand or None
  earnings    \* ledger entries: [errand, courier] -> how many

vars == <<errands, paid, earnings, req, history>>

ErrandStatus == {"open", "assigned", "in_progress", "completed", "cancelled"}

Errand == [status : ErrandStatus, courier : Maybe(Couriers), payment : Maybe(PaymentIds)]

ASSUME DocumentAssumption == None \notin Errand
ASSUME FinitenessAssumption ==
  IsFiniteSet(Slots) /\ IsFiniteSet(Couriers) /\ IsFiniteSet(PaymentIds)

ErrandAdvance ==
  [st \in {"assigned", "in_progress"} |->
     IF st = "assigned" THEN "in_progress" ELSE "completed"]

\* Mutant: the client may still cancel what is being done.
CancellableStarted == {"open", "assigned", "in_progress"}

Cancellable == {"open", "assigned"}

PaymentsOf(e) == {p \in PaymentIds : paid[p] = e}

Init ==
  /\ CoroutinesInit
  /\ errands = [e \in ErrandIds |-> None]
  /\ paid = [p \in PaymentIds |-> None]
  /\ earnings = [x \in ErrandIds \X Couriers |-> 0]

-----------------------------------------------------------------------------
(* The handlers up to their first write.  Accepting tests the role of the   *)
(* caller only, so that every courier account may accept.                   *)

CreateErrand(s, e) ==
  /\ Free(s)
  /\ errands[e] = None
  /\ errands' = Put(errands, e, [status |-> "open", courier |-> None, payment |-> None])
  /\ UNCHANGED <<paid, earnings, req, history>>

Hold(label, e, errand) == [pc |-> label, key |-> e, errand |-> errand]

Save(e, errand) == Hold("save", e, errand)

\* Mutant: the errand is assigned before anybody is written into it.
AcceptUnnamed(s, e, c) ==
  /\ Free(s)
  /\ errands[e] # None
  /\ errands[e].status = "open"
  /\ Start(s, Save(e, [errands[e] EXCEPT !.status = "assigned"]))
  /\ UNCHANGED <<errands, paid, earnings>>

Accept(s, e, c) ==
  /\ Free(s)
  /\ errands[e] # None
  /\ errands[e].status = "open"
  /\ Start(s, Save(e, [errands[e] EXCEPT !.courier = c, !.status = "assigned"]))
  /\ UNCHANGED <<errands, paid, earnings>>

AdvanceStatus(s, e) ==
  /\ Free(s)
  /\ errands[e] # None
  /\ errands[e].courier # None          \* the caller is the assigned courier
  /\ errands[e].status \in DOMAIN ErrandAdvance
  /\ Start(s, Save(e, [errands[e] EXCEPT !.status = ErrandAdvance[@]]))
  /\ UNCHANGED <<errands, paid, earnings>>

Cancel(s, e) ==
  /\ Free(s)
  /\ errands[e] # None
  /\ errands[e].status \in Cancellable
  /\ Start(s, Save(e, [errands[e] EXCEPT !.status = "cancelled"]))
  /\ UNCHANGED <<errands, paid, earnings>>

-----------------------------------------------------------------------------
(* The writes, and the settlement of a completed errand *)

\* Mutant: the completion does not settle.
SaveErrandUnsettled(s) ==
  /\ At(s, "save")
  /\ errands' = Put(errands, req[s].key, req[s].errand)
  /\ Finish(s)
  /\ UNCHANGED <<paid, earnings>>

SaveErrand(s) ==
  /\ At(s, "save")
  /\ errands' = Put(errands, req[s].key, req[s].errand)
  /\ IF req[s].errand.status = "completed"
       THEN Goto(s, [req[s] EXCEPT !.pc = "check_payment"])
       ELSE Finish(s)
  /\ UNCHANGED <<paid, earnings>>

CheckPayment(s) ==
  /\ At(s, "check_payment")
  /\ IF PaymentsOf(req[s].key) = {}
       THEN Goto(s, [req[s] EXCEPT !.pc = "insert_payment"])
       ELSE Finish(s)
  /\ UNCHANGED <<errands, paid, earnings>>

\* Mutant: the insert is retried after an answer that was lost.
InsertPaymentRetried(s) ==
  /\ At(s, "insert_payment")
  /\ \E p \in PaymentIds, label \in {"insert_payment", "earn"} :
       /\ paid[p] = None
       /\ paid' = Put(paid, p, req[s].key)
       /\ Goto(s, Hold(label, req[s].key, [req[s].errand EXCEPT !.payment = p]))
  /\ UNCHANGED <<errands, earnings>>

InsertPayment(s) ==
  /\ At(s, "insert_payment")
  /\ \E p \in PaymentIds :
       /\ paid[p] = None
       /\ paid' = Put(paid, p, req[s].key)
       /\ Goto(s, Hold("earn", req[s].key, [req[s].errand EXCEPT !.payment = p]))
  /\ UNCHANGED <<errands, earnings>>

\* Mutant: the courier is credited for the errand and for the delivery.
WriteEarningTwice(s) ==
  /\ At(s, "earn")
  /\ earnings' = [earnings EXCEPT ![<<req[s].key, req[s].errand.courier>>] = @ + 2]
  /\ Goto(s, [req[s] EXCEPT !.pc = "save_paid"])
  /\ UNCHANGED <<errands, paid>>

\* The fee is positive and the errand has a courier: one entry.
WriteEarning(s) ==
  /\ At(s, "earn")
  /\ earnings' = [earnings EXCEPT ![<<req[s].key, req[s].errand.courier>>] = @ + 1]
  /\ Goto(s, [req[s] EXCEPT !.pc = "save_paid"])
  /\ UNCHANGED <<errands, paid>>

SavePaid(s) ==
  /\ At(s, "save_paid")
  /\ errands' = Put(errands, req[s].key, req[s].errand)
  /\ Finish(s)
  /\ UNCHANGED <<paid, earnings>>

Begin(s) ==
  \E e \in ErrandIds :
    \/ CreateErrand(s, e) \/ AdvanceStatus(s, e) \/ Cancel(s, e)
    \/ \E c \in Couriers : Accept(s, e, c)

Serve(s) ==
  \/ SaveErrand(s) \/ CheckPayment(s) \/ InsertPayment(s)
  \/ WriteEarning(s) \/ SavePaid(s)

Fail(s) == Crash(s) /\ UNCHANGED <<errands, paid, earnings>>

Next == \E s \in Slots : Begin(s) \/ Serve(s) \/ Fail(s)

Spec == Init /\ [][Next]_vars

\* The event loop resumes every coroutine whose call returned.
FairSpec == Spec /\ \A s \in Slots : WF_vars(Serve(s))

-----------------------------------------------------------------------------
(* Properties, under overlapping requests and crashes *)

Held ==
  {Idle} \cup
  [pc : {"save", "check_payment", "insert_payment", "earn", "save_paid"},
   key : ErrandIds, errand : Errand]

TypeOK ==
  /\ errands \in [ErrandIds -> Maybe(Errand)]
  /\ paid \in [PaymentIds -> Maybe(ErrandIds)]
  /\ earnings \in [ErrandIds \X Couriers -> Nat]
  /\ req \in [Slots -> Held]
  /\ overlapped \subseteq ErrandIds
  /\ dropped \subseteq ErrandIds

\* Whatever stale document was saved last, an errand is never half of one and
\* half of another: an open one names no courier, one under way names one, and
\* one that names a payment is completed and the payment is its own.
Coherent(e, errand) ==
  /\ errand.status = "open" => errand.courier = None
  /\ errand.status \in {"assigned", "in_progress", "completed"} => errand.courier # None
  /\ errand.payment # None =>
       errand.status = "completed" /\ paid[errand.payment] = e
ErrandsAreCoherent ==
  \A e \in ErrandIds : errands[e] # None => Coherent(e, errands[e])

\* A courier is credited only where a payment was recorded first, one entry
\* for each payment at most (settle_errand_payment), overlaps and crashes
\* included: the ledger may fall short of the payments, never exceed them.
EarningsAreBacked ==
  \A e \in ErrandIds :
    MapThenSumSet(LAMBDA c : earnings[<<e, c>>], Couriers) <= Cardinality(PaymentsOf(e))

\* "Idempotent per errand" (settle_errand_payment): an errand is paid once, as
\* long as no two requests about it were in progress at the same time; crashes
\* and repeated calls do no harm.
PaidOnce ==
  \A e \in ErrandIds : Alone(e) => \A p, q \in PaymentsOf(e) : p = q

\* Served one request at a time, errands implement ErrandPromise, crashes
\* included: one courier, forward only, credited once and after completion.
Promise == INSTANCE ErrandPromise WITH
  Errands  <- ErrandIds,
  stage    <- [e \in ErrandIds |-> IF ~Alone(e) THEN "void"
                                   ELSE IF errands[e] = None THEN "none" ELSE errands[e].status],
  taker    <- [e \in ErrandIds |-> IF ~Alone(e) \/ errands[e] = None THEN None ELSE errands[e].courier],
  credited <- [e \in ErrandIds |-> Alone(e) /\ \E c \in Couriers : earnings[<<e, c>>] > 0]
KeepsPromise == Promise!Spec

\* A completed errand is settled, and says by which payment, unless the request
\* that completed it overlapped another or died: the transition table refuses
\* to complete an errand again, so nobody repairs an interrupted settlement.
CompletedIsSettled ==
  \A e \in ErrandIds :
    (errands[e] # None /\ errands[e].status = "completed")
      ~> \/ e \in overlapped \cup dropped
         \/ /\ errands[e] # None
            /\ errands[e].payment # None
            /\ earnings[<<e, errands[e].courier>>] = 1
=============================================================================
