-------------------------- MODULE SettlementProofs --------------------------
(***************************************************************************)
(* Theorems about seller statements, for any number of orders, stores,     *)
(* statements and requests in progress, with crashes.  A statement marks   *)
(* commissions long after it added them up, so the invariant says what a   *)
(* request in progress has found and which statement already covers it.    *)
(* BalanceInv adds the sums up over all statements.                        *)
(***************************************************************************)
EXTENDS Settlements, CoroutineProofs

\* The fields of a statement that matter here; what it adds up to comes last.
IsStatement(x) ==
  /\ x = [f \in DOMAIN x |-> x[f]]
  /\ {"store", "status", "covers"} \subseteq DOMAIN x
  /\ x.covers \subseteq Orders

\* What a request that generates a statement holds.
Generating == [pc : {"insert", "mark"}, key : Stores, found : SUBSET Orders]

Shape ==
  /\ ledger \in [Orders -> Maybe(Entry)]
  /\ Issued \subseteq StatementIds
  /\ statements = [t \in Issued |-> statements[t]]
  /\ \A t \in Issued : IsStatement(statements[t])
  /\ req = [s \in Slots |-> req[s]]
  /\ \A s \in Slots : req[s].pc \in {"insert", "mark"} => req[s] \in Generating

\* These commissions were booked, and of this store.
BookedFor(found, store) ==
  /\ found \subseteq Orders
  /\ \A o \in found : ledger[o] # None /\ ledger[o].store = store

\* A statement of the store covers these commissions.
Billed(found, store) ==
  \E t \in Issued : found \subseteq statements[t].covers /\ statements[t].store = store

\* A copy of statement id that may differ in its status only.
CopyOf(x, id) ==
  /\ id \in Issued
  /\ IsStatement(x)
  /\ x.store = statements[id].store
  /\ x.covers = statements[id].covers

HeldIsGood ==
  \A s \in Slots :
    /\ req[s].pc \in {"insert", "mark"} => BookedFor(req[s].found, req[s].key)
    /\ req[s].pc = "mark" => Billed(req[s].found, req[s].key)
    /\ req[s].pc = "save_paid" => CopyOf(req[s].statement, req[s].id)

IInv == Shape /\ HeldIsGood /\ SettledIsBilled

-----------------------------------------------------------------------------
\* Rounding stays between the same whole numbers as what is rounded.
LEMMA NearestIsBetween ==
  ASSUME NEW num \in Nat, NEW n \in Nearest(num, 100), NEW most \in Nat, num <= most * 100
  PROVE  n \in 0..most
  <1>1. num \div 100 \in Nat /\ n \in Nat
    BY DEF Nearest
  <1>2. 2 * n * 100 - 2 * num <= 100
    BY DEF Nearest
  <1> QED
    BY <1>1, <1>2

\* However the fee of an order is rounded, the courier, the platform and the
\* seller are credited what the client pays, nobody less than nothing, and the
\* platform no more than the goods cost (compute_amounts, compute_ledger_lines).
THEOREM AmountsAddUp ==
  ASSUME NEW items \in Nat, NEW base \in Nat, NEW freeOver \in Nat \cup {NoThreshold},
         NEW rate \in 0..100, NEW a \in ComputeAmounts(items, base, freeOver, rate)
  PROVE  /\ a \in Amounts
         /\ CourierEarns(a) + PlatformEarns(a) + SellerEarns(a) = a.total
         /\ CourierEarns(a) >= 0
         /\ PlatformEarns(a) \in 0..items
         /\ SellerEarns(a) \in 0..items
  <1> DEFINE delivery == DeliveryFee(items, base, freeOver)
  <1>1. delivery \in Nat
    BY DEF DeliveryFee
  <1>2. PICK fee \in Nearest(items * rate, 100) :
          a = [items_total |-> items, delivery_fee |-> delivery, platform_fee |-> fee,
               total |-> items + delivery]
    BY DEF ComputeAmounts
  <1>3. items * rate \in Nat /\ items * rate <= items * 100
    OBVIOUS
  <1>4. fee \in 0..items
    BY <1>3, NearestIsBetween
  <1> QED
    BY <1>1, <1>2, <1>4 DEF Amounts, CourierEarns, PlatformEarns, SellerEarns

-----------------------------------------------------------------------------
\* No step changes the store of a commission, or loses it.
BookedStays ==
  \A o \in Booked : ledger'[o] # None /\ ledger'[o].store = ledger[o].store

\* No step takes back what a statement covers.
CoverStays ==
  \A t \in Issued : /\ t \in Issued'
                    /\ statements'[t].store = statements[t].store
                    /\ statements'[t].covers = statements[t].covers

\* What a request holds survives the writes of the others.
LEMMA HeldSurvives ==
  ASSUME IInv, BookedStays, CoverStays, NEW s \in Slots, NEW r, req'[s] = r,
         Shape',
         \A t \in Slots \ {s} : req'[t] = req[t],
         r.pc \in {"insert", "mark"} => BookedFor(r.found, r.key)',
         r.pc = "mark" => Billed(r.found, r.key)',
         r.pc = "save_paid" => CopyOf(r.statement, r.id)'
  PROVE  HeldIsGood'
  <1> SUFFICES ASSUME NEW t \in Slots
               PROVE  (/\ req[t].pc \in {"insert", "mark"} => BookedFor(req[t].found, req[t].key)
                       /\ req[t].pc = "mark" => Billed(req[t].found, req[t].key)
                       /\ req[t].pc = "save_paid" => CopyOf(req[t].statement, req[t].id))'
    BY DEF HeldIsGood
  <1>1. CASE t = s
    BY <1>1
  <1>2. CASE t # s
    <2>1. req'[t] = req[t]
      BY <1>2
    <2>2. req[t].pc \in {"insert", "mark"} => BookedFor(req[t].found, req[t].key)'
      BY <2>1 DEF IInv, HeldIsGood, BookedFor, BookedStays, Booked
    <2>3. req[t].pc = "mark" => Billed(req[t].found, req[t].key)'
      BY <2>1 DEF IInv, HeldIsGood, Billed, CoverStays
    <2>4. req[t].pc = "save_paid" => CopyOf(req[t].statement, req[t].id)'
      BY <2>1 DEF IInv, HeldIsGood, CopyOf, CoverStays
    <2> QED
      BY <2>1, <2>2, <2>3, <2>4
  <1> QED
    BY <1>1, <1>2

LEMMA InitIsGood == Init => IInv
  BY DEF Init, CoroutinesInit, IInv, Shape, HeldIsGood, SettledIsBilled, Issued, Booked,
         Idle, Maybe

-----------------------------------------------------------------------------
\* A commission is booked unsettled, unless the gateway collected it.
LEMMA BookCommissionIsGood ==
  ASSUME IInv, NEW o \in Orders, NEW store \in Stores, NEW prepaid \in BOOLEAN,
         BookCommission(o, store, prepaid)
  PROVE  IInv'
  <1>1. PICK items \in ItemTotals, base \in BaseFees, rate \in Rates :
          \E a \in ComputeAmounts(items, base, FreeOver, rate) :
            ledger' = Put(ledger, o, [store |-> store, amount |-> PlatformEarns(a),
                                      at |-> Cardinality(Booked),
                                      prepaid |-> prepaid, settled |-> prepaid])
    BY DEF BookCommission
  <1>2. PICK amount \in Nat, at \in Nat :
          ledger' = Put(ledger, o, [store |-> store, amount |-> amount, at |-> at,
                                    prepaid |-> prepaid, settled |-> prepaid])
    <2>1. PICK a \in ComputeAmounts(items, base, FreeOver, rate) :
            ledger' = Put(ledger, o, [store |-> store, amount |-> PlatformEarns(a),
                                      at |-> Cardinality(Booked),
                                      prepaid |-> prepaid, settled |-> prepaid])
      BY <1>1
    <2>2. PlatformEarns(a) \in Nat
      <3>1. /\ items \in Nat /\ base \in Nat /\ rate \in 0..100
            /\ FreeOver \in Nat \cup {NoThreshold}
        BY AmountAssumption
      <3>2. PlatformEarns(a) \in 0..items
        BY <3>1, AmountsAddUp
      <3> QED
        BY <3>1, <3>2
    <2>3. Cardinality(Booked) \in Nat
      BY OrdersAssumption, FS_Subset, FS_CardinalityType DEF Booked
    <2> QED
      BY <2>1, <2>2, <2>3
  <1> DEFINE entry == [store |-> store, amount |-> amount, at |-> at,
                       prepaid |-> prepaid, settled |-> prepaid]
  <1>3. entry \in Entry /\ entry # None
    BY EntryAssumption DEF Entry
  <1>4. ledger[o] = None /\ UNCHANGED <<statements, req>>
    BY DEF BookCommission, Booked
  <1>5. ledger' \in [Orders -> Maybe(Entry)] /\ ledger'[o] = entry
          /\ \A p \in Orders \ {o} : ledger'[p] = ledger[p]
    BY <1>2, <1>3 DEF Put, IInv, Shape, Maybe
  <1>6. Shape' /\ BookedStays /\ CoverStays
    BY <1>4, <1>5 DEF IInv, Shape, IsStatement, Issued, BookedStays, CoverStays, Booked
  <1>7. HeldIsGood'
    BY <1>4, <1>5 DEF IInv, HeldIsGood, BookedFor, Billed, CopyOf, Issued, IsStatement
  <1>8. SettledIsBilled'
    BY <1>4, <1>5 DEF IInv, SettledIsBilled, Covering, Issued, Booked
  <1> QED
    BY <1>6, <1>7, <1>8 DEF IInv

LEMMA GenerateIsGood ==
  ASSUME IInv, NEW s \in Slots, NEW store \in Stores, NEW first, NEW last,
         Generate(s, store, first, last)
  PROVE  IInv'
  <1>1. PICK found, r :
          /\ found = Unsettled(store, first, last)
          /\ r = [pc |-> "insert", key |-> store, found |-> found]
          /\ req' = [req EXCEPT ![s] = r]
          /\ UNCHANGED <<ledger, statements>>
    BY DEF Generate, Start
  <1>2. BookedFor(found, store)' /\ r \in Generating
    BY <1>1 DEF BookedFor, Unsettled, Booked, Generating
  <1>3. /\ Shape' /\ BookedStays /\ CoverStays
        /\ req'[s] = r /\ \A t \in Slots \ {s} : req'[t] = req[t]
    BY <1>1, <1>2 DEF IInv, Shape, IsStatement, Issued, BookedStays, CoverStays, Booked
  <1>4. r.pc = "insert" /\ BookedFor(r.found, r.key)'
    BY <1>1, <1>2
  <1>5. HeldIsGood'
    BY <1>3, <1>4, HeldSurvives
  <1> QED
    BY <1>1, <1>3, <1>5 DEF IInv, SettledIsBilled, Covering, Issued, Booked

\* The statement is inserted before anything is marked.
LEMMA InsertStatementIsGood ==
  ASSUME IInv, NEW s \in Slots, InsertStatement(s)
  PROVE  IInv'
  <1> DEFINE found == req[s].found
  <1>1. PICK n, statement, r :
          /\ n \in StatementIds \ Issued
          /\ \E total : statement = [store |-> req[s].key, orders |-> Cardinality(found),
                                     status |-> "pending", covers |-> found, total |-> total]
          /\ statements' = [t \in Issued \cup {n} |-> IF t = n THEN statement ELSE statements[t]]
          /\ req' = [req EXCEPT ![s] = r]
          /\ r = Idle \/ r = [req[s] EXCEPT !.pc = "mark"]
          /\ UNCHANGED ledger
    BY DEF InsertStatement, Finish, Goto
  <1>2. BookedFor(found, req[s].key)
    BY DEF InsertStatement, At, IInv, HeldIsGood
  <1>3. /\ IsStatement(statement) /\ statement.store = req[s].key /\ statement.covers = found
        /\ statement = statements'[n] /\ n \in Issued'
    BY <1>1, <1>2 DEF IsStatement, BookedFor, Issued
  <1>4. /\ BookedStays /\ CoverStays
        /\ req'[s] = r /\ \A t \in Slots \ {s} : req'[t] = req[t]
    BY <1>1 DEF IInv, Shape, Issued, BookedStays, CoverStays, Booked
  <1>5. \/ r = Idle
        \/ r \in Generating /\ r.pc = "mark" /\ r.found = found /\ r.key = req[s].key
    <2>1. req[s] \in Generating
      BY DEF InsertStatement, At, IInv, Shape
    <2>2. LET m == [req[s] EXCEPT !.pc = "mark"]
          IN  m \in Generating /\ m.pc = "mark" /\ m.found = found /\ m.key = req[s].key
      BY <2>1 DEF Generating
    <2> QED
      BY <1>1, <2>2
  <1>6. Shape'
    <2>1. Issued' = Issued \cup {n}
      BY <1>1 DEF Issued
    <2>2. \A t \in Issued' : IsStatement(statements'[t])
      BY <1>1, <1>3, <2>1 DEF IInv, Shape
    <2>3. \A u \in Slots : req'[u].pc \in {"insert", "mark"} => req'[u] \in Generating
      BY <1>4, <1>5 DEF IInv, Shape, Idle
    <2> QED
      BY <1>1, <2>1, <2>2, <2>3 DEF IInv, Shape
  <1>7. r.pc \in {"idle", "mark"}
    BY <1>5 DEF Idle
  <1>8. r.pc = "mark" => BookedFor(r.found, r.key)' /\ Billed(r.found, r.key)'
    BY <1>1, <1>2, <1>3, <1>5 DEF BookedFor, Billed, Idle
  <1>9. HeldIsGood'
    BY <1>4, <1>6, <1>7, <1>8, HeldSurvives
  <1>10. SettledIsBilled'
    BY <1>1, <1>4 DEF IInv, SettledIsBilled, Covering, CoverStays, Booked
  <1> QED
    BY <1>6, <1>9, <1>10 DEF IInv

\* Only what a statement of the store covers is marked.
LEMMA MarkEntryIsGood ==
  ASSUME IInv, NEW s \in Slots, MarkEntry(s)
  PROVE  IInv'
  <1> DEFINE found == req[s].found
  <1>1. PICK o, r :
          /\ o \in found
          /\ ledger' = Put(ledger, o, [ledger[o] EXCEPT !.settled = TRUE])
          /\ req' = [req EXCEPT ![s] = r]
          /\ r = Idle \/ r = [req[s] EXCEPT !.found = @ \ {o}]
          /\ UNCHANGED statements
    BY DEF MarkEntry, Finish, Goto
  <1>2. /\ req[s] \in Generating /\ req[s].pc = "mark"
        /\ BookedFor(found, req[s].key) /\ Billed(found, req[s].key)
    BY DEF MarkEntry, At, IInv, Shape, HeldIsGood
  <1>3. /\ ledger[o] \in Entry /\ [ledger[o] EXCEPT !.settled = TRUE] \in Entry
        /\ [ledger[o] EXCEPT !.settled = TRUE].store = ledger[o].store
        /\ ledger[o].store = req[s].key /\ o \in Orders
    BY <1>1, <1>2 DEF IInv, Shape, Entry, Maybe, BookedFor
  <1>4. /\ ledger' \in [Orders -> Maybe(Entry)]
        /\ ledger'[o] # None /\ ledger'[o].store = req[s].key
        /\ \A p \in Orders \ {o} : ledger'[p] = ledger[p]
    BY <1>1, <1>3, EntryAssumption DEF IInv, Shape, Put, Maybe
  <1>5. r = Idle \/ /\ r \in Generating /\ r.pc = "mark" /\ r.key = req[s].key
                    /\ r.found \subseteq found
    BY <1>1, <1>2 DEF Generating
  <1>6. /\ BookedStays /\ CoverStays
        /\ req'[s] = r /\ \A t \in Slots \ {s} : req'[t] = req[t]
    BY <1>1, <1>3, <1>4 DEF IInv, Shape, Issued, BookedStays, CoverStays, Booked
  <1>7. Shape'
    <2>1. \A u \in Slots : req'[u].pc \in {"insert", "mark"} => req'[u] \in Generating
      BY <1>5, <1>6 DEF IInv, Shape, Idle
    <2> QED
      BY <1>1, <1>4, <2>1 DEF IInv, Shape, IsStatement, Issued
  <1>8. r.pc \in {"idle", "mark"}
    BY <1>5 DEF Idle
  <1>9. r.pc = "mark" => BookedFor(r.found, r.key)' /\ Billed(r.found, r.key)'
    <2>2. ASSUME r.pc = "mark"
          PROVE  r.key = req[s].key /\ r.found \subseteq found /\ r.found \subseteq Orders
      BY <1>5, <2>2 DEF Idle, Generating
    <2>3. \A p \in found : p \in Orders /\ ledger'[p] # None /\ ledger'[p].store = req[s].key
      BY <1>2, <1>4 DEF BookedFor
    <2>4. r.pc = "mark" => BookedFor(r.found, r.key)'
      BY <2>2, <2>3 DEF BookedFor
    <2>5. r.pc = "mark" => Billed(r.found, r.key)'
      BY <1>1, <1>2, <2>2 DEF Billed, Issued
    <2> QED
      BY <2>4, <2>5
  <1>10. HeldIsGood'
    BY <1>6, <1>7, <1>8, <1>9, HeldSurvives
  <1>11. SettledIsBilled'
    <2> SUFFICES ASSUME NEW p \in Booked', ledger'[p].settled, ~ledger'[p].prepaid
                 PROVE  \E t \in Issued : p \in statements[t].covers /\ statements[t].store = ledger'[p].store
      BY <1>1 DEF SettledIsBilled, Covering, Issued
    <2>1. CASE p = o
      BY <1>1, <1>2, <1>4, <2>1 DEF Billed
    <2>2. CASE p # o
      BY <1>4, <2>2 DEF IInv, SettledIsBilled, Covering, Booked
    <2> QED
      BY <2>1, <2>2
  <1> QED
    BY <1>7, <1>10, <1>11 DEF IInv

LEMMA MarkPaidIsGood ==
  ASSUME IInv, NEW s \in Slots, NEW t \in StatementIds, MarkPaid(s, t)
  PROVE  IInv'
  <1>1. PICK statement, r :
          /\ statement = [statements[t] EXCEPT !.status = "paid"]
          /\ r = [pc |-> "save_paid", key |-> statements[t].store, id |-> t, statement |-> statement]
          /\ req' = [req EXCEPT ![s] = r]
          /\ t \in Issued
          /\ UNCHANGED <<ledger, statements>>
    BY DEF MarkPaid, Start
  <1>2. CopyOf(statement, t)
    BY <1>1 DEF CopyOf, IsStatement, IInv, Shape
  <1>3. /\ Shape' /\ BookedStays /\ CoverStays
        /\ req'[s] = r /\ \A u \in Slots \ {s} : req'[u] = req[u]
    BY <1>1 DEF IInv, Shape, IsStatement, Issued, BookedStays, CoverStays, Booked
  <1>4. r.pc = "save_paid" /\ CopyOf(r.statement, r.id)'
    BY <1>1, <1>2 DEF CopyOf, IsStatement, Issued
  <1>5. HeldIsGood'
    BY <1>3, <1>4, HeldSurvives
  <1> QED
    BY <1>1, <1>3, <1>5 DEF IInv, SettledIsBilled, Covering, Issued, Booked

LEMMA SavePaidIsGood ==
  ASSUME IInv, NEW s \in Slots, SavePaid(s)
  PROVE  IInv'
  <1>1. /\ statements' = [statements EXCEPT ![req[s].id] = req[s].statement]
        /\ req' = [req EXCEPT ![s] = Idle]
        /\ UNCHANGED ledger
    BY DEF SavePaid, Put, Finish, Goto
  <1>2. CopyOf(req[s].statement, req[s].id)
    BY DEF SavePaid, At, IInv, HeldIsGood
  <1>3. /\ Issued' = Issued
        /\ \A t \in Issued : statements'[t] = IF t = req[s].id THEN req[s].statement ELSE statements[t]
    BY <1>1 DEF IInv, Shape, Issued
  <1>4. /\ Shape' /\ BookedStays /\ CoverStays
        /\ req'[s] = Idle /\ \A t \in Slots \ {s} : req'[t] = req[t]
    <2>1. \A t \in Issued : IsStatement(statements'[t])
      BY <1>2, <1>3 DEF IInv, Shape, CopyOf
    <2>2. req'[s] = Idle /\ \A t \in Slots \ {s} : req'[t] = req[t]
      BY <1>1 DEF IInv, Shape
    <2>3. \A u \in Slots : req'[u].pc \in {"insert", "mark"} => req'[u] \in Generating
      BY <2>2 DEF IInv, Shape, Idle
    <2>4. Shape'
      BY <1>1, <1>3, <2>1, <2>3 DEF IInv, Shape, Issued
    <2> QED
      BY <1>1, <1>2, <1>3, <2>2, <2>4 DEF CopyOf, BookedStays, CoverStays, Booked
  <1>5. HeldIsGood'
    BY <1>4, HeldSurvives DEF Idle
  <1> QED
    BY <1>1, <1>3, <1>4, <1>5 DEF IInv, SettledIsBilled, Covering, CoverStays, Booked

LEMMA FailIsGood ==
  ASSUME IInv, NEW s \in Slots, Fail(s)
  PROVE  IInv'
  <1>1. req' = [req EXCEPT ![s] = Idle] /\ UNCHANGED <<ledger, statements>>
    BY DEF Fail, Crash
  <1>2. req'[s] = Idle /\ \A t \in Slots \ {s} : req'[t] = req[t]
    BY <1>1 DEF IInv, Shape
  <1>3. Booked' = Booked /\ Issued' = Issued /\ BookedStays /\ CoverStays
    BY <1>1 DEF Booked, Issued, BookedStays, CoverStays
  <1>4. Shape'
    <2>1. \A u \in Slots : req'[u].pc \in {"insert", "mark"} => req'[u] \in Generating
      BY <1>2 DEF IInv, Shape, Idle
    <2> QED
      BY <1>1, <1>3, <2>1 DEF IInv, Shape, IsStatement
  <1>5. HeldIsGood'
    BY <1>2, <1>3, <1>4, HeldSurvives DEF Idle
  <1>6. SettledIsBilled'
    BY <1>1, <1>3 DEF IInv, SettledIsBilled, Covering
  <1> QED
    BY <1>4, <1>5, <1>6 DEF IInv

-----------------------------------------------------------------------------
LEMMA NextIsGood == IInv /\ [Next]_vars => IInv'
  <1> SUFFICES ASSUME IInv, [Next]_vars PROVE IInv'
    OBVIOUS
  <1>1. ASSUME NEW s \in Slots, Begin(s) PROVE IInv'
    BY <1>1, GenerateIsGood, MarkPaidIsGood DEF Begin
  <1>2. ASSUME NEW s \in Slots, Serve(s) PROVE IInv'
    BY <1>2, InsertStatementIsGood, MarkEntryIsGood, SavePaidIsGood DEF Serve
  <1>3. CASE UNCHANGED vars
    BY <1>3 DEF vars, IInv, Shape, HeldIsGood, SettledIsBilled, IsStatement, BookedFor, Billed,
                CopyOf, Covering, Issued, Booked
  <1> QED
    BY <1>1, <1>2, <1>3, BookCommissionIsGood, FailIsGood DEF Next

\* However statements of a store overlap, repeat each other and die half-way,
\* no commission that a seller owes counts as settled unless a statement of that
\* store added it up (generate_settlement).
THEOREM NothingIsWrittenOff == Spec => []SettledIsBilled
  <1>1. IInv => SettledIsBilled
    BY DEF IInv
  <1> QED
    BY <1>1, InitIsGood, NextIsGood, PTL DEF Spec

-----------------------------------------------------------------------------
(* Types, now that sums have one *)

\* The commissions in the ledger l, as a function to amounts.
AmountIn(l) == [o \in Orders |-> l[o].amount]

LEMMA CommissionsAddUp ==
  ASSUME NEW l, NEW S, S \subseteq Orders
  PROVE  MapThenSumSet(LAMBDA o : l[o].amount, S) = SumOver(AmountIn(l), S)
<1> DEFINE g == AmountIn(l)
           L(h) == h = [T \in SUBSET S |->
                          IF T = {} THEN 0 ELSE l[Pick(T)].amount + h[T \ {Pick(T)}]]
<1>1. MapThenSumSet(LAMBDA o : l[o].amount, S) = (CHOOSE h : L(h))[S]
  BY Zenon DEF MapThenSumSet, MapThenFoldSet, Pick
<1>2. ASSUME NEW h PROVE L(h) <=> Sums(g, h, S)
  <2>1. ASSUME NEW T \in SUBSET S
        PROVE  (IF T = {} THEN 0 ELSE l[Pick(T)].amount + h[T \ {Pick(T)}]) = Adding(g, h, T)
    BY PickIsElement DEF Adding, AmountIn
  <2> QED
    BY <2>1 DEF Sums
<1> HIDE DEF L
<1>3. (CHOOSE h : L(h)) = (CHOOSE h : Sums(g, h, S))
  BY <1>2, Zenon
<1> QED
  BY <1>1, <1>3, SumIsChosen

\* A statement's total is the sum of what it covers.
LEMMA TotalIsSum ==
  ASSUME NEW l, NEW S, S \subseteq Orders
  PROVE  SummarizeCommissions([o \in S |-> l[o].amount]) = SumOver(AmountIn(l), S)
<1> DEFINE f == [o \in S |-> l[o].amount]
<1>1. IsFiniteSet(S)
  BY OrdersAssumption, FS_Subset
<1>2. \A o \in S : f[o] = AmountIn(l)[o]
  BY DEF AmountIn
<1>3. DOMAIN f = S
  OBVIOUS
<1>4. SummarizeCommissions(f) = SumOver(f, S)
  <2> HIDE DEF f
  <2> QED
    BY <1>3, Zenon DEF SummarizeCommissions, SumOver
<1> QED
  BY <1>1, <1>2, <1>4, SumCongruence

LEMMA TotalIsNat ==
  ASSUME TypeOK, NEW S, S \subseteq Booked
  PROVE  SumOver(AmountIn(ledger), S) \in Nat
<1>1. IsFiniteSet(S) /\ S \subseteq Orders
  BY OrdersAssumption, FS_Subset DEF Booked
<1>2. \A o \in S : AmountIn(ledger)[o] \in Nat
  BY <1>1 DEF AmountIn, TypeOK, Booked, Maybe, Entry
<1> QED
  BY <1>1, <1>2, SumIsNat

LEMMA InitHasType == Init => TypeOK
  BY DEF Init, CoroutinesInit, TypeOK, Held, Issued, Maybe

LEMMA StartHasType ==
  ASSUME TypeOK, NEW s \in Slots, NEW r \in Held, r.key \in Keys, Start(s, r),
         UNCHANGED <<amounts, ledger, statements>>
  PROVE  TypeOK'
  BY DEF TypeOK, Start, Issued

LEMMA BookCommissionHasType ==
  ASSUME TypeOK, NEW o \in Orders, NEW store \in Stores, NEW prepaid \in BOOLEAN,
         BookCommission(o, store, prepaid)
  PROVE  TypeOK'
<1>1. PICK items \in ItemTotals, base \in BaseFees, rate \in Rates :
        \E a \in ComputeAmounts(items, base, FreeOver, rate) :
          /\ amounts' = Put(amounts, o, a)
          /\ ledger' = Put(ledger, o, [store |-> store, amount |-> PlatformEarns(a),
                                       at |-> Cardinality(Booked),
                                       prepaid |-> prepaid, settled |-> prepaid])
  BY DEF BookCommission
<1>2. PICK a \in ComputeAmounts(items, base, FreeOver, rate) :
        /\ amounts' = Put(amounts, o, a)
        /\ ledger' = Put(ledger, o, [store |-> store, amount |-> PlatformEarns(a),
                                     at |-> Cardinality(Booked),
                                     prepaid |-> prepaid, settled |-> prepaid])
  BY <1>1
<1>3. /\ items \in Nat /\ base \in Nat /\ rate \in 0..100
      /\ FreeOver \in Nat \cup {NoThreshold}
  BY AmountAssumption
<1>4. a \in Amounts /\ PlatformEarns(a) \in Nat
  <2>1. a \in Amounts /\ PlatformEarns(a) \in 0..items
    BY <1>3, AmountsAddUp
  <2> QED
    BY <1>3, <2>1
<1>5. Cardinality(Booked) \in Nat
  BY OrdersAssumption, FS_Subset, FS_CardinalityType DEF Booked
<1>6. UNCHANGED <<statements, req, history>>
  BY DEF BookCommission
<1> DEFINE entry == [store |-> store, amount |-> PlatformEarns(a), at |-> Cardinality(Booked),
                     prepaid |-> prepaid, settled |-> prepaid]
<1>7. entry \in Entry
  BY <1>4, <1>5 DEF Entry
<1>8. amounts' \in [Orders -> Maybe(Amounts)] /\ ledger' \in [Orders -> Maybe(Entry)]
  BY <1>2, <1>4, <1>7 DEF TypeOK, Put, Maybe
<1> QED
  BY <1>6, <1>8 DEF TypeOK, Issued, history

\* A request of a slot at work, by its label.
LEMMA HeldAt ==
  ASSUME TypeOK, NEW s \in Slots
  PROVE  /\ req[s].pc \in {"insert", "mark"} => req[s] \in Generating
         /\ At(s, "save_paid") => /\ req[s].key \in Stores /\ req[s].id \in StatementIds
                                  /\ req[s].statement \in Statement
         /\ ~Free(s) => req[s].key \in Stores
  BY DEF TypeOK, Held, Generating, At, Free, Idle

LEMMA InsertStatementHasType ==
  ASSUME TypeOK, IInv, NEW s \in Slots, InsertStatement(s)
  PROVE  TypeOK'
<1>1. req[s] \in Generating /\ BookedFor(req[s].found, req[s].key)
  BY HeldAt DEF InsertStatement, At, IInv, HeldIsGood
<1>2. PICK n, statement, r, found :
        /\ n \in StatementIds \ Issued
        /\ found = req[s].found
        /\ statement = [store |-> req[s].key, orders |-> Cardinality(found),
                        status |-> "pending", covers |-> found,
                        total |-> SummarizeCommissions([o \in found |-> ledger[o].amount])]
        /\ statements' = [t \in Issued \cup {n} |-> IF t = n THEN statement ELSE statements[t]]
        /\ req' = [req EXCEPT ![s] = r]
        /\ r = Idle \/ r = [req[s] EXCEPT !.pc = "mark"]
        /\ UNCHANGED <<amounts, ledger, history>>
  BY DEF InsertStatement, Finish, Goto
<1>3. found \subseteq Booked /\ found \subseteq Orders
  BY <1>1, <1>2 DEF BookedFor, Booked
<1>4. Cardinality(found) \in Nat
  BY <1>3, OrdersAssumption, FS_Subset, FS_CardinalityType
<1>5. SummarizeCommissions([o \in found |-> ledger[o].amount]) \in Nat
  BY <1>3, TotalIsSum, TotalIsNat
<1>6. statement \in Statement
  BY <1>1, <1>2, <1>3, <1>4, <1>5 DEF Statement, SettlementStatus, Generating
<1>7. Issued' = Issued \cup {n} /\ statements' \in [Issued' -> Statement]
  BY <1>2, <1>6 DEF TypeOK, Issued
<1>8. r \in Held
  BY <1>1, <1>2 DEF Held, Generating
<1> QED
  BY <1>2, <1>7, <1>8 DEF TypeOK, history

LEMMA MarkEntryHasType ==
  ASSUME TypeOK, IInv, NEW s \in Slots, MarkEntry(s)
  PROVE  TypeOK'
<1>1. req[s] \in Generating /\ req[s].pc = "mark" /\ BookedFor(req[s].found, req[s].key)
  BY HeldAt DEF MarkEntry, At, IInv, HeldIsGood
<1>2. PICK o, r :
        /\ o \in req[s].found
        /\ ledger' = Put(ledger, o, [ledger[o] EXCEPT !.settled = TRUE])
        /\ req' = [req EXCEPT ![s] = r]
        /\ r = Idle \/ r = [req[s] EXCEPT !.found = @ \ {o}]
        /\ UNCHANGED <<amounts, statements, history>>
  BY DEF MarkEntry, Finish, Goto
<1>3. o \in Orders /\ ledger[o] \in Entry
  BY <1>1, <1>2 DEF BookedFor, TypeOK, Maybe
<1>4. [ledger[o] EXCEPT !.settled = TRUE] \in Entry
  BY <1>3 DEF Entry
<1>5. ledger' \in [Orders -> Maybe(Entry)]
  BY <1>2, <1>4 DEF TypeOK, Put, Maybe
<1>6. r \in Held
  BY <1>1, <1>2 DEF Held, Generating
<1> QED
  BY <1>2, <1>5, <1>6 DEF TypeOK, Issued, history

LEMMA BeginHasType ==
  ASSUME TypeOK, NEW s \in Slots, Begin(s)
  PROVE  TypeOK'
<1>1. ASSUME NEW store \in Stores, NEW first, NEW last, Generate(s, store, first, last)
      PROVE  TypeOK'
  <2>1. Unsettled(store, first, last) \subseteq Orders
    BY DEF Unsettled, Booked
  <2>2. PICK r : /\ r = [pc |-> "insert", key |-> store, found |-> Unsettled(store, first, last)]
                 /\ Start(s, r) /\ UNCHANGED <<amounts, ledger, statements>>
    BY <1>1 DEF Generate
  <2>3. r \in Held /\ r.key \in Keys
    BY <2>1, <2>2 DEF Held, Stores
  <2> QED
    BY <2>2, <2>3, StartHasType
<1>2. ASSUME NEW t \in StatementIds, MarkPaid(s, t)
      PROVE  TypeOK'
  <2>1. statements[t] \in Statement /\ [statements[t] EXCEPT !.status = "paid"] \in Statement
    BY <1>2 DEF MarkPaid, TypeOK, Statement, SettlementStatus
  <2>2. PICK r : /\ r = [pc |-> "save_paid", key |-> statements[t].store, id |-> t,
                         statement |-> [statements[t] EXCEPT !.status = "paid"]]
                 /\ Start(s, r) /\ UNCHANGED <<amounts, ledger, statements>>
    BY <1>2 DEF MarkPaid
  <2>3. r \in Held /\ r.key \in Keys
    BY <2>1, <2>2 DEF Held, Stores, Statement
  <2> QED
    BY <2>2, <2>3, StartHasType
<1> QED
  BY <1>1, <1>2 DEF Begin

LEMMA SavePaidHasType ==
  ASSUME TypeOK, NEW s \in Slots, SavePaid(s)
  PROVE  TypeOK'
<1>1. req[s].statement \in Statement
  BY HeldAt DEF SavePaid
<1>2. /\ statements' = [statements EXCEPT ![req[s].id] = req[s].statement]
      /\ req' = [req EXCEPT ![s] = Idle]
      /\ UNCHANGED <<amounts, ledger, history>>
  BY DEF SavePaid, Put, Finish, Goto
<1>3. Issued' = Issued /\ statements' \in [Issued' -> Statement]
  BY <1>1, <1>2 DEF TypeOK, Issued
<1> QED
  BY <1>2, <1>3 DEF TypeOK, Held, history

LEMMA FailHasType ==
  ASSUME TypeOK, NEW s \in Slots, Fail(s)
  PROVE  TypeOK'
<1>1. req[s].key \in Keys
  BY HeldAt DEF Fail, Crash, Stores
<1> QED
  BY <1>1 DEF Fail, Crash, TypeOK, Held, Issued

LEMMA NextHasType == TypeOK /\ IInv /\ [Next]_vars => TypeOK'
<1> SUFFICES ASSUME TypeOK, IInv, [Next]_vars PROVE TypeOK'
  OBVIOUS
<1>1. CASE UNCHANGED vars
  BY <1>1 DEF vars, history, TypeOK, Issued
<1> QED
  BY <1>1, BookCommissionHasType, BeginHasType, InsertStatementHasType, MarkEntryHasType,
     SavePaidHasType, FailHasType DEF Next, Serve

\* Every document, entry and request keeps its type: what a statement adds up
\* is a natural number, however many commissions it covers.
THEOREM TypeIsCorrect == Spec => []TypeOK
  BY InitIsGood, NextIsGood, InitHasType, NextHasType, PTL DEF Spec

-----------------------------------------------------------------------------
(* The books of a store balance *)

\* What the statements st add up to, as a function of their ids.
TotalIn(st) == [t \in DOMAIN st |-> st[t].total]

LEMMA TotalsAddUp ==
  ASSUME NEW st, NEW S, S \subseteq DOMAIN st
  PROVE  MapThenSumSet(LAMBDA t : st[t].total, S) = SumOver(TotalIn(st), S)
<1> DEFINE g == TotalIn(st)
           L(h) == h = [T \in SUBSET S |->
                          IF T = {} THEN 0 ELSE st[Pick(T)].total + h[T \ {Pick(T)}]]
<1>1. MapThenSumSet(LAMBDA t : st[t].total, S) = (CHOOSE h : L(h))[S]
  BY Zenon DEF MapThenSumSet, MapThenFoldSet, Pick
<1>2. ASSUME NEW h PROVE L(h) <=> Sums(g, h, S)
  <2>1. ASSUME NEW T \in SUBSET S
        PROVE  (IF T = {} THEN 0 ELSE st[Pick(T)].total + h[T \ {Pick(T)}]) = Adding(g, h, T)
    BY PickIsElement DEF Adding, TotalIn
  <2> QED
    BY <2>1 DEF Sums
<1> HIDE DEF L
<1>3. (CHOOSE h : L(h)) = (CHOOSE h : Sums(g, h, S))
  BY <1>2, Zenon
<1> QED
  BY <1>1, <1>3, SumIsChosen

\* The commissions of a store's cash orders, those not settled yet, and those
\* that a request is marking, which its statement has billed.
Cash(k) == {o \in Booked : ledger[o].store = k /\ ~ledger[o].prepaid}
Unpaid(k) == {o \in Cash(k) : ~ledger[o].settled}
Marking(k) == {o \in Orders : \E s \in Slots : At(s, "mark") /\ req[s].key = k /\ o \in req[s].found}
Own(k) == {t \in Issued : statements[t].store = k}

Balanced(k) ==
  SumOver(TotalIn(statements), Own(k)) + SumOver(AmountIn(ledger), Unpaid(k) \ Marking(k))
    = SumOver(AmountIn(ledger), Cash(k))

\* What a request found is still unsettled, unless it met or left another one.
FoundIsUnpaid(k) ==
  \A s \in Slots : req[s].pc \in {"insert", "mark"} /\ req[s].key = k => req[s].found \subseteq Unpaid(k)

Orderly(k) == k \notin overlapped \cup dropped

\* Copies differ from their statements in the status only.
CopiesKeepTotals ==
  \A s \in Slots : At(s, "save_paid") => req[s].statement.total = statements[req[s].id].total

BalanceInv ==
  /\ CoroutinesInv
  /\ IsFiniteSet(Issued)
  /\ \A o \in Booked : ledger[o].prepaid => ledger[o].settled
  /\ CopiesKeepTotals
  /\ \A k \in Stores : Orderly(k) => Balanced(k) /\ FoundIsUnpaid(k)

LEMMA InitBalances == Init => BalanceInv
<1> SUFFICES ASSUME Init PROVE BalanceInv
  OBVIOUS
<1>1. CoroutinesInv
  BY InitiallyNobody DEF Init
<1>2. Issued = {} /\ Booked = {} /\ \A s \in Slots : req[s].pc = "idle"
  BY DEF Init, CoroutinesInit, Issued, Booked, Idle
<1>3. IsFiniteSet(Issued)
  BY <1>2, FS_EmptySet
<1>4. ASSUME NEW k \in Stores PROVE Balanced(k) /\ FoundIsUnpaid(k)
  <2>1. Own(k) = {} /\ Cash(k) = {} /\ Unpaid(k) \ Marking(k) = {}
    BY <1>2 DEF Own, Cash, Unpaid
  <2>2. SumOver(TotalIn(statements), {}) = 0 /\ SumOver(AmountIn(ledger), {}) = 0
    BY SumOfNone
  <2>3. Balanced(k)
    BY <2>1, <2>2 DEF Balanced
  <2> QED
    BY <1>2, <2>3 DEF FoundIsUnpaid
<1> QED
  BY <1>1, <1>2, <1>3, <1>4 DEF BalanceInv, CopiesKeepTotals, At

LEMMA BalanceImplies == TypeOK /\ BalanceInv => BooksBalance
<1> SUFFICES ASSUME TypeOK, BalanceInv, NEW k \in Stores, Quiet(k), k \notin overlapped \cup dropped
             PROVE  MapThenSumSet(LAMBDA t : statements[t].total, Own(k))
                      + MapThenSumSet(LAMBDA o : ledger[o].amount, Unpaid(k))
                      = MapThenSumSet(LAMBDA o : ledger[o].amount, Cash(k))
  BY Zenon DEF BooksBalance, Own, Cash, Unpaid
<1>1. Cash(k) \subseteq Orders /\ Unpaid(k) \subseteq Orders /\ Own(k) \subseteq DOMAIN statements
  BY DEF Cash, Unpaid, Own, Booked, Issued
<1>2. Marking(k) = {}
  BY DEF Marking, Quiet
<1>3. Unpaid(k) \ Marking(k) = Unpaid(k)
  BY <1>2
<1>4. SumOver(TotalIn(statements), Own(k)) + SumOver(AmountIn(ledger), Unpaid(k))
        = SumOver(AmountIn(ledger), Cash(k))
  BY <1>3 DEF BalanceInv, Orderly, Balanced
<1>5. /\ MapThenSumSet(LAMBDA t : statements[t].total, Own(k)) = SumOver(TotalIn(statements), Own(k))
      /\ MapThenSumSet(LAMBDA o : ledger[o].amount, Unpaid(k)) = SumOver(AmountIn(ledger), Unpaid(k))
      /\ MapThenSumSet(LAMBDA o : ledger[o].amount, Cash(k)) = SumOver(AmountIn(ledger), Cash(k))
  BY <1>1, CommissionsAddUp, TotalsAddUp, Zenon
<1> QED
  BY <1>4, <1>5

LEMMA SumsAreNat ==
  ASSUME TypeOK, BalanceInv, NEW k \in Stores
  PROVE  /\ \A S : S \subseteq Booked => SumOver(AmountIn(ledger), S) \in Nat /\ IsFiniteSet(S)
         /\ \A o \in Booked : AmountIn(ledger)[o] \in Nat
         /\ SumOver(TotalIn(statements), Own(k)) \in Nat /\ IsFiniteSet(Own(k))
         /\ \A t \in Issued : TotalIn(statements)[t] \in Nat
<1>1. \A S : S \subseteq Booked => IsFiniteSet(S)
  BY OrdersAssumption, FS_Subset DEF Booked
<1>2. \A o \in Booked : AmountIn(ledger)[o] \in Nat
  BY DEF AmountIn, TypeOK, Booked, Maybe, Entry
<1>3. IsFiniteSet(Own(k))
  BY FS_Subset DEF BalanceInv, Own
<1>4. \A t \in Issued : TotalIn(statements)[t] \in Nat
  BY DEF TotalIn, TypeOK, Issued, Statement
<1>5. SumOver(TotalIn(statements), Own(k)) \in Nat
  BY <1>3, <1>4, SumIsNat DEF Own
<1> QED
  BY <1>1, <1>2, <1>3, <1>4, <1>5, TotalIsNat

\* A step that writes neither entries nor statements, and marks no more.
LEMMA NothingWritten ==
  ASSUME TypeOK, BalanceInv, UNCHANGED <<ledger, statements>>, CoroutinesInv',
         CopiesKeepTotals',
         \A k \in Stores : Orderly(k)' => Orderly(k),
         \A k \in Stores : Orderly(k)' => Marking(k)' = Marking(k),
         \A k \in Stores : Orderly(k)' => FoundIsUnpaid(k)'
  PROVE  BalanceInv'
<1>1. Booked' = Booked /\ Issued' = Issued
  BY DEF Booked, Issued
<1>2. \A k \in Stores : Own(k)' = Own(k) /\ Cash(k)' = Cash(k) /\ Unpaid(k)' = Unpaid(k)
  BY <1>1 DEF Own, Cash, Unpaid
<1>3. \A k \in Stores : Orderly(k)' => Balanced(k)'
  BY <1>2 DEF Balanced, BalanceInv
<1> QED
  BY <1>1, <1>3 DEF BalanceInv

LEMMA SameAmounts ==
  ASSUME NEW l, NEW m, NEW S, S \subseteq Orders, \A o \in S : m[o].amount = l[o].amount
  PROVE  SumOver(AmountIn(m), S) = SumOver(AmountIn(l), S)
<1>1. IsFiniteSet(S)
  BY OrdersAssumption, FS_Subset
<1>2. \A o \in S : AmountIn(m)[o] = AmountIn(l)[o]
  BY DEF AmountIn
<1> QED
  BY <1>1, <1>2, SumCongruence

\* What is booked is an entry.
LEMMA BookedIsEntry ==
  ASSUME NEW o \in Orders, NEW store \in Stores, NEW prepaid \in BOOLEAN,
         BookCommission(o, store, prepaid)
  PROVE  \E entry \in Entry :
           /\ ledger' = Put(ledger, o, entry)
           /\ entry # None /\ entry.store = store
           /\ entry.prepaid = prepaid /\ entry.settled = prepaid
<1>1. PICK items \in ItemTotals, base \in BaseFees, rate \in Rates :
        \E a \in ComputeAmounts(items, base, FreeOver, rate) :
          ledger' = Put(ledger, o, [store |-> store, amount |-> PlatformEarns(a),
                                    at |-> Cardinality(Booked),
                                    prepaid |-> prepaid, settled |-> prepaid])
  BY DEF BookCommission
<1>2. PICK a \in ComputeAmounts(items, base, FreeOver, rate) :
        ledger' = Put(ledger, o, [store |-> store, amount |-> PlatformEarns(a),
                                  at |-> Cardinality(Booked),
                                  prepaid |-> prepaid, settled |-> prepaid])
  BY <1>1
<1>3. /\ items \in Nat /\ base \in Nat /\ rate \in 0..100
      /\ FreeOver \in Nat \cup {NoThreshold}
  BY AmountAssumption
<1>4. PlatformEarns(a) \in Nat
  <2>1. PlatformEarns(a) \in 0..items
    BY <1>3, AmountsAddUp
  <2> QED
    BY <1>3, <2>1
<1>5. Cardinality(Booked) \in Nat
  BY OrdersAssumption, FS_Subset, FS_CardinalityType DEF Booked
<1> DEFINE entry == [store |-> store, amount |-> PlatformEarns(a), at |-> Cardinality(Booked),
                     prepaid |-> prepaid, settled |-> prepaid]
<1>6. entry \in Entry
  BY <1>4, <1>5 DEF Entry
<1> QED
  BY <1>2, <1>6, EntryAssumption

LEMMA BookCommissionBalances ==
  ASSUME TypeOK, TypeOK', BalanceInv, NEW o \in Orders, NEW store \in Stores,
         NEW prepaid \in BOOLEAN, BookCommission(o, store, prepaid)
  PROVE  BalanceInv'
<1>1. ledger[o] = None /\ o \notin Booked /\ UNCHANGED <<statements, req, overlapped, dropped>>
  BY DEF BookCommission, Booked, history
<1>2. PICK entry \in Entry :
        /\ ledger' = Put(ledger, o, entry)
        /\ entry # None /\ entry.store = store
        /\ entry.prepaid = prepaid /\ entry.settled = prepaid
  BY BookedIsEntry
<1>3. /\ ledger'[o].store = store /\ ledger'[o].prepaid = prepaid /\ ledger'[o].settled = prepaid
      /\ ledger'[o] \in Entry /\ ledger'[o] # None
      /\ \A p \in Orders \ {o} : ledger'[p] = ledger[p]
  <2>1. ledger'[o] = entry
    BY <1>2 DEF TypeOK, Put
  <2> QED
    BY <1>2, <2>1 DEF TypeOK, Put
<1>4. Booked' = Booked \cup {o} /\ Issued' = Issued
  BY <1>1, <1>3 DEF Booked, Issued
<1>5. \A S : S \subseteq Booked => SumOver(AmountIn(ledger'), S) = SumOver(AmountIn(ledger), S)
  BY <1>1, <1>3, SameAmounts DEF Booked
<1>6. ASSUME NEW k \in Stores, Orderly(k)
      PROVE  Balanced(k)' /\ FoundIsUnpaid(k)'
  <2>1. Own(k)' = Own(k) /\ Marking(k)' = Marking(k)
    BY <1>1, <1>4 DEF Own, Marking, At
  <2>2. Balanced(k) /\ FoundIsUnpaid(k)
    BY <1>6 DEF BalanceInv
  <2>3. Cash(k) \subseteq Booked /\ Unpaid(k) \subseteq Cash(k)
    BY DEF Cash, Unpaid
  <2>4. CASE k # store \/ prepaid
    <3>1. Cash(k)' = Cash(k)
      BY <1>1, <1>3, <1>4, <2>4 DEF Cash, Booked
    <3>2. Unpaid(k)' = Unpaid(k)
      BY <1>1, <1>3, <2>3, <3>1 DEF Unpaid, Cash, Booked
    <3>3. Balanced(k)'
      BY <1>1, <1>5, <2>1, <2>2, <2>3, <3>1, <3>2 DEF Balanced
    <3> QED
      BY <1>1, <2>2, <3>2, <3>3 DEF FoundIsUnpaid
  <2>5. CASE k = store /\ ~prepaid
    <3>1. Cash(k)' = Cash(k) \cup {o} /\ o \notin Cash(k)
      BY <1>1, <1>3, <1>4, <2>5 DEF Cash, Booked
    <3>2. Unpaid(k)' = Unpaid(k) \cup {o}
      BY <1>1, <1>3, <2>3, <2>5, <3>1 DEF Unpaid, Cash, Booked
    <3>3. o \notin Marking(k)
      BY <1>1, <2>2, <2>3 DEF Marking, FoundIsUnpaid, At
    <3>4. Unpaid(k)' \ Marking(k)' = (Unpaid(k) \ Marking(k)) \cup {o}
      BY <2>1, <3>2, <3>3
    <3>5. \A p \in Booked' : AmountIn(ledger')[p] \in Int
      BY DEF AmountIn, TypeOK, Booked, Maybe, Entry
    <3> DEFINE g == AmountIn(ledger')
    <3> HIDE DEF g
    <3>6. SumOver(g, Cash(k) \cup {o}) = g[o] + SumOver(g, Cash(k))
      <4>1. \A p \in Cash(k) \cup {o} : g[p] \in Int
        BY <1>4, <2>3, <3>5 DEF g
      <4> QED
        BY <2>3, <3>1, <4>1, SumsAreNat, SumPutIn
    <3>7. SumOver(g, (Unpaid(k) \ Marking(k)) \cup {o}) = g[o] + SumOver(g, Unpaid(k) \ Marking(k))
      <4>1. \A p \in (Unpaid(k) \ Marking(k)) \cup {o} : g[p] \in Int
        BY <1>4, <2>3, <3>5 DEF g
      <4>2. IsFiniteSet(Unpaid(k) \ Marking(k)) /\ o \notin Unpaid(k) \ Marking(k)
        BY <1>1, <2>3, SumsAreNat
      <4> QED
        BY <4>1, <4>2, SumPutIn
    <3>8. /\ SumOver(g, Cash(k)) = SumOver(AmountIn(ledger), Cash(k))
          /\ SumOver(g, Unpaid(k) \ Marking(k)) = SumOver(AmountIn(ledger), Unpaid(k) \ Marking(k))
      BY <1>5, <2>3 DEF g
    <3>9. SumOver(TotalIn(statements), Own(k)) + SumOver(AmountIn(ledger), Unpaid(k) \ Marking(k))
            = SumOver(AmountIn(ledger), Cash(k))
      BY <2>2 DEF Balanced
    <3>10. /\ SumOver(TotalIn(statements), Own(k)) \in Nat /\ g[o] \in Int
           /\ SumOver(AmountIn(ledger), Unpaid(k) \ Marking(k)) \in Nat
           /\ SumOver(AmountIn(ledger), Cash(k)) \in Nat
      BY <1>4, <2>3, <3>5, SumsAreNat DEF g
    <3>11. Balanced(k)'
      <4>1. SumOver(TotalIn(statements), Own(k)) + SumOver(g, (Unpaid(k) \ Marking(k)) \cup {o})
              = SumOver(g, Cash(k) \cup {o})
        BY <3>6, <3>7, <3>8, <3>9, <3>10
      <4> QED
        BY <1>1, <2>1, <3>1, <3>4, <4>1 DEF Balanced, g
    <3> QED
      BY <1>1, <2>2, <3>2, <3>11 DEF FoundIsUnpaid
  <2> QED
    BY <2>4, <2>5
<1>7. \A p \in Booked' : ledger'[p].prepaid => ledger'[p].settled
  BY <1>3, <1>4 DEF BalanceInv, Booked
<1>8. CoroutinesInv'
  BY <1>1 DEF BalanceInv, CoroutinesInv, Keyed, SoleOwner, Free, At
<1>9. CopiesKeepTotals'
  BY <1>1 DEF BalanceInv, CopiesKeepTotals, At
<1>10. \A k \in Stores : Orderly(k)' = Orderly(k)
  BY <1>1 DEF Orderly
<1> QED
  BY <1>4, <1>6, <1>7, <1>8, <1>9, <1>10 DEF BalanceInv

\* Requests begin, and go on, as their history says.
LEMMA StartBalances ==
  ASSUME TypeOK, BalanceInv, NEW s \in Slots, NEW r, Free(s), Start(s, r),
         r.pc \in {"insert", "save_paid"}, r.key \in Stores, UNCHANGED <<ledger, statements>>,
         r.pc = "insert" => r.found \subseteq Unpaid(r.key),
         r.pc = "save_paid" => r.statement.total = statements[r.id].total
  PROVE  BalanceInv'
<1>1. /\ CoroutinesInv' /\ Holds(s, r) /\ dropped' = dropped
      /\ \A k : Alone(k)' => Alone(k)
  BY StartKeeps DEF BalanceInv, Stores
<1>2. /\ req'[s] = r /\ \A t \in Slots \ {s} : req'[t] = req[t]
  BY <1>1 DEF Holds
<1>3. CopiesKeepTotals'
  BY <1>2 DEF BalanceInv, CopiesKeepTotals, At
<1>4. \A k \in Stores : Orderly(k)' => Orderly(k)
  BY <1>1 DEF Orderly, Alone
<1>5. \A k \in Stores : Marking(k)' = Marking(k)
  BY <1>2 DEF Marking, At, Free
<1>6. Booked' = Booked
  BY DEF Booked
<1>7. \A k \in Stores : Unpaid(k)' = Unpaid(k)
  BY <1>6 DEF Unpaid, Cash
<1>8. \A k \in Stores : Orderly(k) => FoundIsUnpaid(k)'
  BY <1>2, <1>7 DEF BalanceInv, FoundIsUnpaid
<1> QED
  BY <1>1, <1>3, <1>4, <1>5, <1>8, NothingWritten

LEMMA BeginBalances ==
  ASSUME TypeOK, BalanceInv, NEW s \in Slots, Begin(s)
  PROVE  BalanceInv'
<1>1. ASSUME NEW store \in Stores, NEW first, NEW last, Generate(s, store, first, last)
      PROVE  BalanceInv'
  <2>1. PICK r : /\ r = [pc |-> "insert", key |-> store, found |-> Unsettled(store, first, last)]
                 /\ Free(s) /\ Start(s, r) /\ UNCHANGED <<ledger, statements>>
    BY <1>1 DEF Generate
  <2>2. Unsettled(store, first, last) \subseteq Unpaid(store)
    BY DEF Unsettled, Unpaid, Cash, BalanceInv
  <2>3. r.pc = "insert" /\ r.key = store /\ r.found = Unsettled(store, first, last)
    BY <2>1
  <2> QED
    BY <2>1, <2>2, <2>3, StartBalances
<1>2. ASSUME NEW t \in StatementIds, MarkPaid(s, t)
      PROVE  BalanceInv'
  <2>1. PICK copy, r :
          /\ copy = [statements[t] EXCEPT !.status = "paid"]
          /\ r = [pc |-> "save_paid", key |-> statements[t].store, id |-> t, statement |-> copy]
          /\ Free(s) /\ t \in Issued /\ Start(s, r) /\ UNCHANGED <<ledger, statements>>
    BY <1>2 DEF MarkPaid
  <2>2. statements[t].store \in Stores /\ copy.total = statements[t].total
    BY <2>1 DEF TypeOK, Statement
  <2>3. r.pc = "save_paid" /\ r.key \in Stores /\ r.statement.total = statements[r.id].total
    BY <2>1, <2>2
  <2> QED
    BY <2>1, <2>3, StartBalances
<1> QED
  BY <1>1, <1>2 DEF Begin

LEMMA FailBalances ==
  ASSUME TypeOK, BalanceInv, NEW s \in Slots, Fail(s)
  PROVE  BalanceInv'
<1>1. /\ ~Free(s) /\ req' = [req EXCEPT ![s] = Idle] /\ dropped' = dropped \cup {req[s].key}
      /\ UNCHANGED <<ledger, statements, overlapped>>
  BY DEF Fail, Crash
<1>2. CoroutinesInv' /\ Holds(s, Idle)
  BY <1>1, EndKeeps DEF BalanceInv
<1>3. req'[s] = Idle /\ \A t \in Slots \ {s} : req'[t] = req[t]
  BY <1>2 DEF Holds
<1>4. CopiesKeepTotals'
  BY <1>1, <1>3, IdleIsFree DEF BalanceInv, CopiesKeepTotals, At
<1>5. \A k \in Stores : Orderly(k)' => Orderly(k) /\ k # req[s].key
  BY <1>1 DEF Orderly
<1>6. \A k \in Stores : k # req[s].key => Marking(k)' = Marking(k)
  BY <1>3, IdleIsFree DEF Marking, At
<1>7. Booked' = Booked
  BY <1>1 DEF Booked
<1>8. \A k \in Stores : Unpaid(k)' = Unpaid(k)
  BY <1>1, <1>7 DEF Unpaid, Cash
<1>9. \A k \in Stores : Orderly(k) => FoundIsUnpaid(k)'
  BY <1>3, <1>8, IdleIsFree DEF BalanceInv, FoundIsUnpaid
<1> QED
  BY <1>1, <1>2, <1>4, <1>5, <1>6, <1>9, NothingWritten

\* The statement takes over what the request found.
LEMMA InsertStatementBalances ==
  ASSUME TypeOK, TypeOK', IInv, BalanceInv, NEW s \in Slots, InsertStatement(s)
  PROVE  BalanceInv'
<1>0. PICK k, found, statement :
        /\ k = req[s].key /\ found = req[s].found
        /\ statement = [store |-> k, orders |-> Cardinality(found),
                        status |-> "pending", covers |-> found,
                        total |-> SummarizeCommissions([o \in found |-> ledger[o].amount])]
  OBVIOUS
<1>1. PICK n, r :
        /\ k = req[s].key /\ found = req[s].found
        /\ n \in StatementIds \ Issued
        /\ statement = [store |-> k, orders |-> Cardinality(found),
                        status |-> "pending", covers |-> found,
                        total |-> SummarizeCommissions([o \in found |-> ledger[o].amount])]
        /\ statements' = [t \in Issued \cup {n} |-> IF t = n THEN statement ELSE statements[t]]
        /\ req' = [req EXCEPT ![s] = r]
        /\ \/ found = {} /\ r = Idle
           \/ found # {} /\ r = [req[s] EXCEPT !.pc = "mark"]
        /\ UNCHANGED <<ledger, overlapped, dropped>>
  <2>1. PICK n \in StatementIds \ Issued :
          statements' = [t \in Issued \cup {n} |-> IF t = n THEN statement ELSE statements[t]]
    BY <1>0 DEF InsertStatement
  <2>2. \E r : /\ req' = [req EXCEPT ![s] = r]
               /\ \/ found = {} /\ r = Idle
                  \/ found # {} /\ r = [req[s] EXCEPT !.pc = "mark"]
    <3>1. CASE found = {}
      BY <1>0, <3>1 DEF InsertStatement, Finish, Goto
    <3>2. CASE found # {}
      BY <1>0, <3>2 DEF InsertStatement, Goto
    <3> QED
      BY <3>1, <3>2
  <2>3. UNCHANGED <<ledger, overlapped, dropped>>
    BY DEF InsertStatement, Finish, Goto, history
  <2> QED
    BY <1>0, <2>1, <2>2, <2>3
<1>2. /\ ~Free(s) /\ req[s].pc = "insert" /\ req[s] \in Generating /\ k \in Stores
      /\ found \subseteq Booked
  <2>1. req[s].pc = "insert"
    BY DEF InsertStatement, At
  <2> QED
    BY <1>1, <2>1, HeldAt DEF Free, At, Generating, IInv, HeldIsGood, BookedFor, Booked
<1>3. /\ found = {} => r = Idle
      /\ found # {} => r.pc = "mark" /\ r.key = k /\ r.found = found
  BY <1>1, <1>2 DEF Generating
<1>4. /\ Issued' = Issued \cup {n} /\ Booked' = Booked
      /\ \A t \in Issued : statements'[t] = statements[t]
      /\ statements'[n] = statement /\ statement.store = k
      /\ statement.total = SumOver(AmountIn(ledger), found)
  <2>1. Issued' = Issued \cup {n}
    BY <1>1 DEF Issued
  <2>2. \A t \in Issued \cup {n} : statements'[t] = IF t = n THEN statement ELSE statements[t]
    BY <1>1
  <2>3. statement.total = SumOver(AmountIn(ledger), found)
    BY <1>1, <1>2, TotalIsSum DEF Booked
  <2> QED
    BY <1>1, <2>1, <2>2, <2>3 DEF Booked
<1>5. CoroutinesInv' /\ Holds(s, r)
  <2>1. CASE found = {}
    BY <1>1, <1>2, <1>3, <2>1, EndKeeps DEF BalanceInv
  <2>2. CASE found # {}
    BY <1>1, <1>2, <1>3, <2>2, StepKeeps DEF BalanceInv
  <2> QED
    BY <2>1, <2>2
<1>6. req'[s] = r /\ \A t \in Slots \ {s} : req'[t] = req[t]
  BY <1>5 DEF Holds
<1>7. r.pc \in {"idle", "mark"}
  BY <1>3, IdleIsFree
<1>8. IsFiniteSet(Issued')
  BY <1>4, FS_AddElement DEF BalanceInv
<1>9. CopiesKeepTotals'
  <2> SUFFICES ASSUME NEW u \in Slots, At(u, "save_paid")'
               PROVE  req'[u].statement.total = statements'[req'[u].id].total
    BY DEF CopiesKeepTotals
  <2>1. u # s /\ req'[u] = req[u] /\ req[u].pc = "save_paid"
    BY <1>6, <1>7 DEF At
  <2>2. req[u].id \in Issued /\ req[u].statement.total = statements[req[u].id].total
    BY <2>1 DEF IInv, HeldIsGood, CopyOf, BalanceInv, CopiesKeepTotals, At
  <2> QED
    BY <1>4, <2>1, <2>2
<1>10. \A j \in Stores : Cash(j)' = Cash(j) /\ Unpaid(j)' = Unpaid(j) /\ Orderly(j)' = Orderly(j)
  BY <1>1, <1>4 DEF Cash, Unpaid, Orderly
<1>11. ASSUME NEW j \in Stores, Orderly(j)
       PROVE  FoundIsUnpaid(j)'
  <2>1. FoundIsUnpaid(j)
    BY <1>11 DEF BalanceInv
  <2> QED
    BY <1>1, <1>2, <1>3, <1>6, <1>10, <2>1, IdleIsFree DEF FoundIsUnpaid
<1>12. ASSUME NEW j \in Stores, Orderly(j), j # k
       PROVE  Balanced(j)'
  <2>1. Own(j)' = Own(j)
    BY <1>1, <1>4, <1>12 DEF Own
  <2>2. Marking(j)' = Marking(j)
    BY <1>1, <1>2, <1>3, <1>6, <1>12, IdleIsFree DEF Marking, At
  <2>3. \A t \in Own(j) : TotalIn(statements')[t] = TotalIn(statements)[t]
    BY <1>4 DEF Own, TotalIn, Issued
  <2>4. SumOver(TotalIn(statements'), Own(j)) = SumOver(TotalIn(statements), Own(j))
    BY <2>3, SumsAreNat, SumCongruence
  <2> QED
    BY <1>1, <1>10, <1>12, <2>1, <2>2, <2>4 DEF BalanceInv, Balanced
<1>13. ASSUME Orderly(k)
       PROVE  Balanced(k)'
  <2>1. Balanced(k) /\ found \subseteq Unpaid(k) /\ Unpaid(k) \subseteq Booked
    BY <1>1, <1>2, <1>13 DEF BalanceInv, FoundIsUnpaid, Unpaid, Cash
  <2>2. \A t \in Slots \ {s} : req[t].key # k
    BY <1>1, <1>2, <1>13, AloneIsSole DEF BalanceInv, Orderly, Alone
  <2>3. Marking(k) = {}
    BY <1>2, <2>2 DEF Marking, At
  <2>4. Marking(k)' = found
    <3>1. found \subseteq Orders
      BY <1>2 DEF Booked
    <3>2. \A o \in Marking(k)' : o \in found
      BY <1>3, <1>6, <2>2, IdleIsFree DEF Marking, At
    <3>3. \A o \in found : o \in Marking(k)'
      BY <1>3, <1>6, <3>1 DEF Marking, At
    <3> QED
      BY <3>2, <3>3
  <2>5. Own(k)' = Own(k) \cup {n} /\ n \notin Own(k)
    BY <1>1, <1>4 DEF Own
  <2>6. \A t \in Own(k) : TotalIn(statements')[t] = TotalIn(statements)[t]
    BY <1>4 DEF Own, TotalIn, Issued
  <2>7. TotalIn(statements')[n] = SumOver(AmountIn(ledger), found)
    BY <1>4 DEF TotalIn, Issued
  <2>8. SumOver(AmountIn(ledger), found) \in Nat /\ IsFiniteSet(found)
    BY <1>2, SumsAreNat
  <2>9. SumOver(TotalIn(statements'), Own(k)) = SumOver(TotalIn(statements), Own(k))
    BY <1>2, <2>6, SumsAreNat, SumCongruence
  <2>10. SumOver(TotalIn(statements'), Own(k) \cup {n})
           = SumOver(AmountIn(ledger), found) + SumOver(TotalIn(statements), Own(k))
    <3> DEFINE g == TotalIn(statements')
    <3>1. \A t \in Own(k) \cup {n} : g[t] \in Int
      <4>1. \A t \in Own(k) : g[t] \in Nat
        BY <1>2, <2>6, SumsAreNat DEF Own
      <4>2. g[n] \in Nat
        BY <2>7, <2>8
      <4> QED
        BY <4>1, <4>2
    <3>2. IsFiniteSet(Own(k))
      BY <1>2, SumsAreNat
    <3> HIDE DEF g
    <3>3. SumOver(g, Own(k) \cup {n}) = g[n] + SumOver(g, Own(k))
      BY <2>5, <3>1, <3>2, SumPutIn
    <3> QED
      BY <2>7, <2>9, <3>3 DEF g
  <2>11. SumOver(AmountIn(ledger), Unpaid(k))
           = SumOver(AmountIn(ledger), found) + SumOver(AmountIn(ledger), Unpaid(k) \ found)
    <3> DEFINE g == AmountIn(ledger)
    <3>1. \A o \in Booked : g[o] \in Int
      BY <1>2, SumsAreNat
    <3>2. IsFiniteSet(Unpaid(k) \ found)
      BY <1>2, <2>1, SumsAreNat
    <3> HIDE DEF g
    <3>3. Unpaid(k) = found \cup (Unpaid(k) \ found)
      BY <2>1
    <3>4. SumOver(g, found \cup (Unpaid(k) \ found)) = SumOver(g, found) + SumOver(g, Unpaid(k) \ found)
      BY <2>1, <2>8, <3>1, <3>2, SumOfParts
    <3> QED
      BY <3>3, <3>4 DEF g
  <2>12. SumOver(TotalIn(statements), Own(k)) + SumOver(AmountIn(ledger), Unpaid(k))
           = SumOver(AmountIn(ledger), Cash(k))
    <3>1. Unpaid(k) \ Marking(k) = Unpaid(k)
      BY <2>3
    <3> QED
      BY <2>1, <3>1 DEF Balanced
  <2>13. /\ SumOver(TotalIn(statements), Own(k)) \in Nat
         /\ SumOver(AmountIn(ledger), Unpaid(k) \ found) \in Nat
    <3>1. Unpaid(k) \ found \subseteq Booked
      BY <2>1
    <3> QED
      BY <1>2, <3>1, SumsAreNat
  <2>14. SumOver(TotalIn(statements'), Own(k) \cup {n}) + SumOver(AmountIn(ledger), Unpaid(k) \ found)
           = SumOver(AmountIn(ledger), Cash(k))
    <3> DEFINE a == SumOver(AmountIn(ledger), found)
               b == SumOver(AmountIn(ledger), Unpaid(k) \ found)
               c == SumOver(TotalIn(statements), Own(k))
    <3>1. (a + c) + b = c + (a + b)
      <4> HIDE DEF a, b, c
      <4> QED
        BY <2>8, <2>13 DEF a, b, c
    <3> QED
      BY <2>10, <2>11, <2>12, <3>1
  <2> QED
    BY <1>1, <1>2, <1>10, <2>4, <2>5, <2>14 DEF Balanced
<1> QED
  BY <1>1, <1>4, <1>5, <1>8, <1>9, <1>10, <1>11, <1>12, <1>13 DEF BalanceInv

\* An entry leaves what is unpaid and what is being marked together.
LEMMA MarkEntryBalances ==
  ASSUME TypeOK, TypeOK', IInv, BalanceInv, NEW s \in Slots, MarkEntry(s)
  PROVE  BalanceInv'
<1>1. PICK k, found, o, r :
        /\ k = req[s].key /\ found = req[s].found
        /\ o \in found
        /\ ledger' = Put(ledger, o, [ledger[o] EXCEPT !.settled = TRUE])
        /\ req' = [req EXCEPT ![s] = r]
        /\ r = (IF found = {o} THEN Idle ELSE [req[s] EXCEPT !.found = @ \ {o}])
        /\ UNCHANGED <<statements, overlapped, dropped>>
  BY DEF MarkEntry, Finish, Goto, history
<1>2. /\ ~Free(s) /\ req[s].pc = "mark" /\ req[s] \in Generating /\ k \in Stores
      /\ BookedFor(found, k)
  <2>1. req[s].pc = "mark"
    BY DEF MarkEntry, At
  <2> QED
    BY <1>1, <2>1, HeldAt DEF Free, At, Generating, IInv, HeldIsGood
<1>3. /\ found = {o} => r = Idle
      /\ found # {o} => r.pc = "mark" /\ r.key = k /\ r.found = found \ {o}
  BY <1>1, <1>2 DEF Generating
<1>4. o \in Orders /\ o \in Booked /\ ledger[o] \in Entry /\ ledger[o].store = k
  BY <1>1, <1>2 DEF BookedFor, Booked, TypeOK, Maybe
<1>5. /\ ledger'[o].settled /\ ledger'[o].amount = ledger[o].amount
      /\ ledger'[o].store = k /\ ledger'[o].prepaid = ledger[o].prepaid
      /\ ledger'[o] # None
      /\ \A p \in Orders \ {o} : ledger'[p] = ledger[p]
  <2>1. ledger'[o] = [ledger[o] EXCEPT !.settled = TRUE]
    BY <1>1, <1>4 DEF TypeOK, Put
  <2>2. [ledger[o] EXCEPT !.settled = TRUE] \in Entry
    BY <1>4 DEF Entry
  <2> QED
    BY <1>1, <1>4, <2>1, <2>2, EntryAssumption DEF TypeOK, Put, Entry
<1>6. Booked' = Booked /\ Issued' = Issued
  BY <1>1, <1>4, <1>5 DEF Booked, Issued
<1>7. CoroutinesInv' /\ Holds(s, r)
  <2>1. CASE found = {o}
    BY <1>1, <1>2, <1>3, <2>1, EndKeeps DEF BalanceInv
  <2>2. CASE found # {o}
    BY <1>1, <1>2, <1>3, <2>2, StepKeeps DEF BalanceInv
  <2> QED
    BY <2>1, <2>2
<1>8. req'[s] = r /\ \A t \in Slots \ {s} : req'[t] = req[t]
  BY <1>7 DEF Holds
<1>9. CopiesKeepTotals'
  BY <1>1, <1>3, <1>8, IdleIsFree DEF BalanceInv, CopiesKeepTotals, At
<1>10. \A p \in Booked' : ledger'[p].prepaid => ledger'[p].settled
  BY <1>5, <1>6 DEF BalanceInv, Booked
<1>11. \A j \in Stores :
         Own(j)' = Own(j) /\ Cash(j)' = Cash(j) /\ Orderly(j)' = Orderly(j) /\ Unpaid(j)' = Unpaid(j) \ {o}
  <2>1. \A j \in Stores : Own(j)' = Own(j) /\ Orderly(j)' = Orderly(j)
    BY <1>1, <1>6 DEF Own, Orderly
  <2>2. \A p \in Booked : ledger'[p].store = ledger[p].store /\ ledger'[p].prepaid = ledger[p].prepaid
    BY <1>4, <1>5 DEF Booked
  <2>3. \A j \in Stores : Cash(j)' = Cash(j)
    BY <1>6, <2>2 DEF Cash
  <2>4. \A p \in Booked \ {o} : ledger'[p].settled = ledger[p].settled
    BY <1>5 DEF Booked
  <2>5. \A j \in Stores : Unpaid(j)' = Unpaid(j) \ {o}
    BY <1>5, <2>3, <2>4 DEF Unpaid, Cash
  <2> QED
    BY <2>1, <2>3, <2>5
<1>12. \A S : S \subseteq Booked => SumOver(AmountIn(ledger'), S) = SumOver(AmountIn(ledger), S)
  BY <1>5, SameAmounts DEF Booked
<1>13. \A j \in Stores : Unpaid(j) \subseteq Booked /\ Cash(j) \subseteq Booked
  BY DEF Unpaid, Cash
<1>14. ASSUME NEW j \in Stores, Orderly(j), j # k
       PROVE  Balanced(j)' /\ FoundIsUnpaid(j)'
  <2>1. Balanced(j) /\ FoundIsUnpaid(j)
    BY <1>14 DEF BalanceInv
  <2>2. Unpaid(j)' = Unpaid(j)
    BY <1>4, <1>11, <1>14 DEF Unpaid, Cash
  <2>3. Marking(j)' = Marking(j)
    BY <1>1, <1>3, <1>8, <1>14, IdleIsFree DEF Marking, At
  <2>4. Balanced(j)'
    BY <1>1, <1>11, <1>12, <1>13, <2>1, <2>2, <2>3 DEF Balanced
  <2>5. FoundIsUnpaid(j)'
    BY <1>1, <1>3, <1>8, <1>14, <2>1, <2>2, IdleIsFree DEF FoundIsUnpaid
  <2> QED
    BY <2>4, <2>5
<1>15. ASSUME Orderly(k)
       PROVE  Balanced(k)' /\ FoundIsUnpaid(k)'
  <2>1. Balanced(k) /\ found \subseteq Unpaid(k)
    BY <1>1, <1>2, <1>15 DEF BalanceInv, FoundIsUnpaid
  <2>2. \A t \in Slots \ {s} : req[t].key # k
    BY <1>1, <1>2, <1>15, AloneIsSole DEF BalanceInv, Orderly, Alone
  <2>3. Marking(k) = found
    BY <1>1, <1>2, <2>2 DEF Marking, At, BookedFor
  <2>4. Marking(k)' = found \ {o}
    <3>1. found \subseteq Orders
      BY <1>2 DEF BookedFor
    <3>2. \A p \in Marking(k)' : p \in found \ {o}
      BY <1>3, <1>8, <2>2, IdleIsFree DEF Marking, At
    <3>3. \A p \in found \ {o} : p \in Marking(k)'
      BY <1>3, <1>8, <3>1 DEF Marking, At
    <3> QED
      BY <3>2, <3>3
  <2>5. Unpaid(k)' \ Marking(k)' = Unpaid(k) \ Marking(k)
    BY <1>1, <1>2, <1>11, <2>3, <2>4
  <2>6. Balanced(k)'
    BY <1>1, <1>2, <1>11, <1>12, <1>13, <2>1, <2>5 DEF Balanced
  <2>7. FoundIsUnpaid(k)'
    BY <1>2, <1>3, <1>8, <1>11, <2>1, <2>2, IdleIsFree DEF FoundIsUnpaid
  <2> QED
    BY <2>6, <2>7
<1> QED
  BY <1>6, <1>7, <1>9, <1>10, <1>11, <1>14, <1>15 DEF BalanceInv

LEMMA SavePaidBalances ==
  ASSUME TypeOK, IInv, BalanceInv, NEW s \in Slots, SavePaid(s)
  PROVE  BalanceInv'
<1>1. PICK id, copy :
        /\ id = req[s].id /\ copy = req[s].statement
        /\ statements' = [statements EXCEPT ![id] = copy]
        /\ req' = [req EXCEPT ![s] = Idle]
        /\ UNCHANGED <<ledger, overlapped, dropped>>
  BY DEF SavePaid, Put, Finish, Goto, history
<1>2. ~Free(s) /\ req[s].pc = "save_paid"
  BY DEF SavePaid, Free, At
<1>3. id \in Issued /\ copy.store = statements[id].store /\ copy.total = statements[id].total
  BY <1>1, <1>2 DEF IInv, HeldIsGood, CopyOf, BalanceInv, CopiesKeepTotals, At
<1>4. CoroutinesInv' /\ Holds(s, Idle)
  BY <1>1, <1>2, EndKeeps DEF BalanceInv
<1>5. req'[s] = Idle /\ \A t \in Slots \ {s} : req'[t] = req[t]
  BY <1>4 DEF Holds
<1>6. /\ Issued' = Issued /\ Booked' = Booked
      /\ \A t \in Issued : /\ statements'[t].store = statements[t].store
                           /\ statements'[t].total = statements[t].total
  BY <1>1, <1>3 DEF TypeOK, Issued, Booked
<1>7. CopiesKeepTotals'
  <2> SUFFICES ASSUME NEW u \in Slots, At(u, "save_paid")'
               PROVE  req'[u].statement.total = statements'[req'[u].id].total
    BY DEF CopiesKeepTotals
  <2>1. u # s /\ req'[u] = req[u] /\ req[u].pc = "save_paid"
    BY <1>5, IdleIsFree DEF At
  <2>2. req[u].id \in Issued /\ req[u].statement.total = statements[req[u].id].total
    BY <2>1 DEF IInv, HeldIsGood, CopyOf, BalanceInv, CopiesKeepTotals, At
  <2> QED
    BY <1>6, <2>1, <2>2
<1>8. \A j \in Stores :
        /\ Own(j)' = Own(j) /\ Cash(j)' = Cash(j) /\ Unpaid(j)' = Unpaid(j)
        /\ Orderly(j)' = Orderly(j) /\ Marking(j)' = Marking(j)
  <2>1. \A j \in Stores : Own(j)' = Own(j) /\ Cash(j)' = Cash(j) /\ Orderly(j)' = Orderly(j)
    BY <1>1, <1>6 DEF Own, Cash, Orderly
  <2>2. \A j \in Stores : Unpaid(j)' = Unpaid(j)
    BY <1>1, <2>1 DEF Unpaid
  <2>3. \A j \in Stores : Marking(j)' = Marking(j)
    BY <1>2, <1>5, IdleIsFree DEF Marking, At
  <2> QED
    BY <2>1, <2>2, <2>3
<1>9. ASSUME NEW j \in Stores, Orderly(j)
      PROVE  Balanced(j)' /\ FoundIsUnpaid(j)'
  <2>1. Balanced(j) /\ FoundIsUnpaid(j)
    BY <1>9 DEF BalanceInv
  <2>2. \A t \in Own(j) : TotalIn(statements')[t] = TotalIn(statements)[t]
    BY <1>6 DEF Own, TotalIn, Issued
  <2>3. SumOver(TotalIn(statements'), Own(j)) = SumOver(TotalIn(statements), Own(j))
    BY <2>2, SumsAreNat, SumCongruence
  <2>4. Balanced(j)'
    BY <1>1, <1>8, <2>1, <2>3 DEF Balanced
  <2>5. FoundIsUnpaid(j)'
    BY <1>5, <1>8, <2>1, IdleIsFree DEF FoundIsUnpaid
  <2> QED
    BY <2>4, <2>5
<1> QED
  BY <1>1, <1>4, <1>6, <1>7, <1>8, <1>9 DEF BalanceInv

LEMMA NextBalances == TypeOK /\ TypeOK' /\ IInv /\ BalanceInv /\ [Next]_vars => BalanceInv'
<1> SUFFICES ASSUME TypeOK, TypeOK', IInv, BalanceInv, [Next]_vars PROVE BalanceInv'
  OBVIOUS
<1>1. CASE UNCHANGED vars
  <2>1. UNCHANGED <<ledger, statements, req, overlapped, dropped>>
    BY <1>1 DEF vars, history
  <2>2. CoroutinesInv' /\ CopiesKeepTotals'
    BY <2>1 DEF BalanceInv, CoroutinesInv, Keyed, SoleOwner, CopiesKeepTotals, Free, At
  <2>3. \A k \in Stores : Orderly(k)' = Orderly(k) /\ Marking(k)' = Marking(k) /\ Unpaid(k)' = Unpaid(k)
    BY <2>1 DEF Orderly, Marking, Unpaid, Cash, Booked, At
  <2>4. \A k \in Stores : Orderly(k) => FoundIsUnpaid(k)'
    BY <2>1, <2>3 DEF BalanceInv, FoundIsUnpaid
  <2> QED
    BY <2>1, <2>2, <2>3, <2>4, NothingWritten
<1> QED
  BY <1>1, BookCommissionBalances, BeginBalances, InsertStatementBalances, MarkEntryBalances,
     SavePaidBalances, FailBalances DEF Next, Serve

\* As long as a store's statements are generated one after the other and none
\* dies half-way, what they add up to and what is still unsettled is the
\* commission of its cash orders, each billed once, for any number of orders.
THEOREM TheBooksBalance == Spec => []BooksBalance
<1>1. TypeOK /\ IInv /\ BalanceInv /\ [Next]_vars => (TypeOK /\ IInv /\ BalanceInv)'
  BY NextHasType, NextIsGood, NextBalances
<1>2. Init => TypeOK /\ IInv /\ BalanceInv
  BY InitHasType, InitIsGood, InitBalances
<1> QED
  BY <1>1, <1>2, BalanceImplies, PTL DEF Spec
=============================================================================
