----------------------------- MODULE Settlements -----------------------------
(***************************************************************************)
(* Seller statements (settlements/service.py).  The commissions of cash    *)
(* orders are booked unsettled; a statement collects those of one store    *)
(* and period, is inserted with their sum, and then marks them settled one *)
(* by one.  Nothing ties the entries to the statement: covers is a history *)
(* field that remembers which ones it added up.                            *)
(***************************************************************************)
EXTENDS Coroutines, Pricing, FiniteSets

CONSTANTS
  StatementIds, Orders,
  ItemTotals, Rates, BaseFees, FreeOver    \* bounds: what orders cost

ASSUME OrdersAssumption == IsFiniteSet(Orders)
ASSUME AmountAssumption ==
  /\ ItemTotals \cup BaseFees \subseteq Nat
  /\ FreeOver \in Nat \cup {NoThreshold}
  /\ Rates \subseteq 0..100

Stores == Keys    \* every coroutine is about a store

VARIABLES
  amounts,      \* of the orders that were delivered
  ledger,       \* order -> its commission entry, or None
  statements    \* the collection of settlements: id -> document, where there is one

vars == <<amounts, ledger, statements, req, history>>

SettlementStatus == {"pending", "paid", "overdue"}    \* nothing sets overdue

Amounts == [items_total : Nat, delivery_fee : Nat, platform_fee : Nat, total : Nat]
Entry == [store : Stores, amount : Nat, at : Nat, prepaid : BOOLEAN, settled : BOOLEAN]
Statement == [store : Stores, total : Nat, orders : Nat, status : SettlementStatus,
              covers : SUBSET Orders]

ASSUME EntryAssumption == None \notin Entry

Booked == {o \in Orders : ledger[o] # None}
Issued == DOMAIN statements
Covering(o) == {t \in Issued : o \in statements[t].covers}

Init ==
  /\ CoroutinesInit
  /\ amounts = [o \in Orders |-> None]
  /\ ledger = [o \in Orders |-> None]
  /\ statements = [t \in {} |-> None]

-----------------------------------------------------------------------------
\* Mutant: the commission of a cash order is booked as collected.
BookCommissionCollected(o, store, prepaid) ==
  /\ o \notin Booked
  /\ \E items \in ItemTotals, base \in BaseFees, rate \in Rates :
       \E a \in ComputeAmounts(items, base, FreeOver, rate) :
         /\ amounts' = Put(amounts, o, a)
         /\ ledger' = Put(ledger, o, [store |-> store, amount |-> PlatformEarns(a),
                                      at |-> Cardinality(Booked),
                                      prepaid |-> prepaid, settled |-> TRUE])
  /\ UNCHANGED <<statements, req, history>>

\* The payment of a delivered order books its commission: settled at once when
\* the gateway collected it, a receivable from the seller when cash was paid.
BookCommission(o, store, prepaid) ==
  /\ o \notin Booked
  /\ \E items \in ItemTotals, base \in BaseFees, rate \in Rates :
       \E a \in ComputeAmounts(items, base, FreeOver, rate) :
         /\ amounts' = Put(amounts, o, a)
         /\ ledger' = Put(ledger, o, [store |-> store, amount |-> PlatformEarns(a),
                                      at |-> Cardinality(Booked),
                                      prepaid |-> prepaid, settled |-> prepaid])
  /\ UNCHANGED <<statements, req, history>>

\* Mutant: what was settled is collected too.
UnsettledAny(store, first, last) ==
  {o \in Booked : ledger[o].store = store /\ ledger[o].at \in first..last}

Unsettled(store, first, last) ==
  {o \in Booked : /\ ledger[o].store = store
                  /\ ~ledger[o].settled
                  /\ ledger[o].at \in first..last}

Generate(s, store, first, last) ==
  /\ Free(s)
  /\ Start(s, [pc |-> "insert", key |-> store, found |-> Unsettled(store, first, last)])
  /\ UNCHANGED <<amounts, ledger, statements>>

InsertStatement(s) ==
  /\ At(s, "insert")
  /\ LET found == req[s].found
         statement == [store |-> req[s].key, orders |-> Cardinality(found),
                       status |-> "pending", covers |-> found,
                       total |-> SummarizeCommissions([o \in found |-> ledger[o].amount])]
     IN  /\ \E n \in StatementIds \ Issued :
              statements' = [t \in Issued \cup {n} |-> IF t = n THEN statement ELSE statements[t]]
         /\ IF found = {} THEN Finish(s) ELSE Goto(s, [req[s] EXCEPT !.pc = "mark"])
  /\ UNCHANGED <<amounts, ledger>>

\* Mutant: only the first entry is marked.
MarkEntryOnce(s) ==
  /\ At(s, "mark")
  /\ \E o \in req[s].found : ledger' = Put(ledger, o, [ledger[o] EXCEPT !.settled = TRUE])
  /\ Finish(s)
  /\ UNCHANGED <<amounts, statements>>

\* Nothing but settled ever changes in an entry, so the copy read is the entry.
MarkEntry(s) ==
  /\ At(s, "mark")
  /\ \E o \in req[s].found :
       /\ ledger' = Put(ledger, o, [ledger[o] EXCEPT !.settled = TRUE])
       /\ IF req[s].found = {o} THEN Finish(s)
                                ELSE Goto(s, [req[s] EXCEPT !.found = @ \ {o}])
  /\ UNCHANGED <<amounts, statements>>

\* Mutant: a paid statement takes the status of its entries.
MarkPaidSettled(s, t) ==
  /\ Free(s)
  /\ t \in Issued
  /\ statements[t].status # "paid"
  /\ Start(s, [pc |-> "save_paid", key |-> statements[t].store, id |-> t,
               statement |-> [statements[t] EXCEPT !.status = "settled"]])
  /\ UNCHANGED <<amounts, ledger, statements>>

MarkPaid(s, t) ==
  /\ Free(s)
  /\ t \in Issued
  /\ statements[t].status # "paid"
  /\ Start(s, [pc |-> "save_paid", key |-> statements[t].store, id |-> t,
               statement |-> [statements[t] EXCEPT !.status = "paid"]])
  /\ UNCHANGED <<amounts, ledger, statements>>

SavePaid(s) ==
  /\ At(s, "save_paid")
  /\ statements' = Put(statements, req[s].id, req[s].statement)
  /\ Finish(s)
  /\ UNCHANGED <<amounts, ledger>>

Begin(s) ==
  \/ \E store \in Stores, first, last \in 0..Cardinality(Orders) : Generate(s, store, first, last)
  \/ \E t \in StatementIds : MarkPaid(s, t)

Serve(s) == InsertStatement(s) \/ MarkEntry(s) \/ SavePaid(s)

Fail(s) == Crash(s) /\ UNCHANGED <<amounts, ledger, statements>>

Next ==
  \/ \E o \in Orders, store \in Stores, prepaid \in BOOLEAN : BookCommission(o, store, prepaid)
  \/ \E s \in Slots : Begin(s) \/ Serve(s) \/ Fail(s)

Spec == Init /\ [][Next]_vars

\* The event loop resumes every coroutine whose call returned.
FairSpec == Spec /\ \A s \in Slots : WF_vars(Serve(s))

-----------------------------------------------------------------------------
(* Properties *)

Held ==
  {Idle} \cup [pc : {"insert", "mark"}, key : Stores, found : SUBSET Orders]
         \cup [pc : {"save_paid"}, key : Stores, id : StatementIds, statement : Statement]

TypeOK ==
  /\ amounts \in [Orders -> Maybe(Amounts)]
  /\ ledger \in [Orders -> Maybe(Entry)]
  /\ Issued \subseteq StatementIds
  /\ statements \in [Issued -> Statement]
  /\ req \in [Slots -> Held]
  /\ overlapped \subseteq Keys
  /\ dropped \subseteq Keys

\* No commission is written off: one that counts as settled was collected by
\* the gateway or stands in a statement of its store, however statements of one
\* store overlap and wherever they are interrupted.
SettledIsBilled ==
  \A o \in Booked : ledger[o].settled =>
    ledger[o].prepaid \/ \E t \in Covering(o) : statements[t].store = ledger[o].store

\* The books of a store balance, as long as its statements are generated one
\* after the other and none was interrupted: what they add up to and what is
\* still unsettled is the commission of its cash orders, each billed once.
BooksBalance ==
  \A store \in Stores : Quiet(store) /\ store \notin overlapped \cup dropped =>
    LET cash == {o \in Booked : ledger[o].store = store /\ ~ledger[o].prepaid}
        due(S) == MapThenSumSet(LAMBDA o : ledger[o].amount, S)
        own == {t \in Issued : statements[t].store = store}
    IN  MapThenSumSet(LAMBDA t : statements[t].total, own)
          + due({o \in cash : ~ledger[o].settled}) = due(cash)

\* A statement that nobody interrupts ends with all its commissions marked, so
\* that the next one does not bill them again.
CoveredGetsSettled ==
  \A o \in Orders : (Covering(o) # {}) ~> (o \in Booked /\ ledger[o].settled) \/ dropped # {}
=============================================================================
