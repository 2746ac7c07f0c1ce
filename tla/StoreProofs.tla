----------------------------- MODULE StoreProofs -----------------------------
(***************************************************************************)
(* Theorems about the store document, for any number of stores, orders and *)
(* requests in progress, with crashes: the two invariants of a store whose *)
(* writers overlap, IInv, and of one whose writers take turns, RatingInv.  *)
(***************************************************************************)
EXTENDS Stores, CoroutineProofs, FiniteSetTheorems

\* The labels at which a request holds a copy of the store.
HasStore == {"save", "subscribe", "cancel", "insert_sub", "activate", "deactivate"}
HasReview == {"insert_review", "read_rating"}

StoreHeld == [pc : HasStore, key : StoreIds, store : Store, admin : BOOLEAN]
ReviewHeld == [pc : HasReview, key : StoreIds, review : Review]

\* A store is created before anybody works on it, and never deleted.
Known ==
  /\ \A s \in Slots : ~Free(s) => stores[req[s].key] # None
  /\ \A t \in StoreIds : stores[t] = None => subscriptions[t] = None

Base == TypeOK /\ CoroutinesInv /\ Known

-----------------------------------------------------------------------------
\* The rounded average of a rating is a natural number.
LEMMA RatingType ==
  ASSUME NEW avg \in Nat, NEW count \in Nat, NEW stars \in 1..5,
         NEW r \in RecomputeRating(avg, count, stars)
  PROVE  r.avg \in Nat /\ r.count = count + 1
  <1> DEFINE num == avg * count + 100 * stars
             den == count + 1
  <1>1. PICK a \in Nearest(num, den) : r = [avg |-> a, count |-> count + 1]
    BY DEF RecomputeRating
  <1>2. num \in Nat /\ den \in Nat /\ den > 0
    OBVIOUS
  <1>3. ASSUME NEW n \in Nat, NEW d \in Nat, d > 0
        PROVE  n \div d \in Nat
    BY <1>3
  <1>4. num \div den \in Nat
    BY <1>2, <1>3
  <1>5. a \in Nat
    BY <1>1, <1>4 DEF Nearest
  <1> QED
    BY <1>1, <1>5

\* What a slot may hold, by label.
LEMMA SlotHolds ==
  ASSUME TypeOK, NEW s \in Slots
  PROVE  /\ Free(s) => req[s] = Idle
         /\ req[s].pc \in HasStore => req[s] \in StoreHeld
         /\ req[s].pc \in HasReview => req[s] \in ReviewHeld
         /\ ~Free(s) => req[s].pc \in HasStore \cup HasReview /\ req[s].key \in StoreIds
  BY DEF TypeOK, Held, Idle, HasStore, HasReview, StoreHeld, ReviewHeld, Free, At

LEMMA HeldIs == Held = {Idle} \cup StoreHeld \cup ReviewHeld
  BY DEF Held, StoreHeld, ReviewHeld, HasStore, HasReview

-----------------------------------------------------------------------------
(* The shape of steps.  Every lemma below gives Base again and what is       *)
(* known of the slot that moved.                                             *)

DocumentsOK ==
  /\ stores \in [StoreIds -> Maybe(Store)]
  /\ subscriptions \in [StoreIds -> Maybe(SubscriptionStatus)]
  /\ reviews \in [ReviewIds -> Maybe(Review)]

\* No store is lost, and only stores have subscriptions.
StoresStay ==
  \A t \in StoreIds :
    /\ stores[t] # None => stores'[t] # None
    /\ subscriptions[t] = None /\ stores[t] = None => subscriptions'[t] = None

\* Slot s holds r now.
LEMMA BaseFollows ==
  ASSUME Base, NEW s \in Slots, NEW r \in Held, Holds(s, r), CoroutinesInv',
         DocumentsOK', StoresStay, overlapped' \subseteq StoreIds, dropped' \subseteq StoreIds,
         r # Idle => stores[r.key] # None
  PROVE  Base'
  <1>1. req' \in [Slots -> Held]
    BY DEF Holds, Base, TypeOK, CoroutinesInv, Keyed
  <1>2. TypeOK'
    BY <1>1 DEF DocumentsOK, TypeOK
  <1>3. Known'
    <2>1. ASSUME NEW t \in Slots, ~Free(t)'
          PROVE  (stores[req[t].key] # None)'
      <3>1. CASE t = s
        <4>1. req'[t] = r /\ r # Idle
          BY <3>1, <2>1, IdleIsFree DEF Holds, Free, At
        <4>2. r.key \in StoreIds
          BY <2>1, <4>1 DEF CoroutinesInv, Keyed, StoreIds
        <4> QED
          BY <4>1, <4>2 DEF StoresStay
      <3>2. CASE t # s
        <4>1. req'[t] = req[t] /\ ~Free(t)
          BY <3>2, <2>1 DEF Holds, Free, At
        <4> QED
          BY <4>1 DEF Base, Known, StoresStay, CoroutinesInv, Keyed, StoreIds
      <3> QED
        BY <3>1, <3>2
    <2>2. \A t \in StoreIds : (stores[t] = None => subscriptions[t] = None)'
      BY DEF StoresStay, Base, Known
    <2> QED
      BY <2>1, <2>2 DEF Known
  <1> QED
    BY <1>2, <1>3 DEF Base

\* A request begins: with a copy of the store in which only the status may
\* differ, and that only by an admin where a suspension is concerned; or with
\* the review it is going to insert.
BeganWithStore(r) ==
  /\ r \in StoreHeld
  /\ r.pc \in {"save", "subscribe", "cancel"}
  /\ stores[r.key] # None
  /\ r.store.rate = stores[r.key].rate
  /\ r.store.count = stores[r.key].count
  /\ r.store.avg = stores[r.key].avg
  /\ ~r.admin /\ Suspended(r.key) => r.store.status = "suspended"

BeganWithReview(r) ==
  /\ r \in ReviewHeld
  /\ r.pc = "insert_review"
  /\ r.review.store = r.key
  /\ stores[r.key] # None
  /\ ~Reviewed(r.key, r.review.order)

Began(s, r) ==
  /\ Free(s)
  /\ Start(s, r)
  /\ UNCHANGED Documents
  /\ BeganWithStore(r) \/ BeganWithReview(r)

LEMMA BeginBegan ==
  ASSUME Base, NEW s \in Slots, Begin(s)
  PROVE  \E r : Began(s, r)
  <1>1. PICK t \in StoreIds :
          \/ UpdateStore(s, t) \/ Subscribe(s, t) \/ CancelSubscription(s, t)
          \/ \E status \in StoreStatus, admin \in BOOLEAN : SetStatus(s, t, status, admin)
          \/ \E o \in Orders : CreateReview(s, t, o)
    BY DEF Begin
  <1>2. stores[t] # None => stores[t] \in Store
    BY DEF Base, TypeOK, Maybe
  <1>3. ASSUME NEW label \in {"save", "subscribe", "cancel"}, Free(s), stores[t] # None,
               Start(s, Hold(label, t, stores[t], FALSE)), UNCHANGED Documents
        PROVE  Began(s, Hold(label, t, stores[t], FALSE))
    BY <1>2, <1>3 DEF Began, BeganWithStore, Hold, StoreHeld, HasStore, Suspended
  <1>4. ASSUME NEW status \in StoreStatus, NEW admin \in BOOLEAN, SetStatus(s, t, status, admin)
        PROVE  \E r : Began(s, r)
    <2> DEFINE store == [stores[t] EXCEPT !.status = status]
               r == Hold("save", t, store, admin)
    <2>1. /\ Free(s) /\ stores[t] # None /\ Start(s, r) /\ UNCHANGED Documents
          /\ "suspended" \in {status, stores[t].status} => admin
      BY <1>4 DEF SetStatus, InvolvesSuspension
    <2>2. /\ store \in Store /\ store.rate = stores[t].rate /\ store.count = stores[t].count
          /\ store.status = status /\ store.avg = stores[t].avg
      BY <1>2, <2>1 DEF Store
    <2>3. BeganWithStore(r)
      BY <2>1, <2>2 DEF BeganWithStore, Hold, StoreHeld, HasStore, Suspended
    <2> QED
      BY <2>1, <2>3 DEF Began
  <1>5. ASSUME NEW o \in Orders, CreateReview(s, t, o)
        PROVE  \E r : Began(s, r)
    <2> DEFINE r == [pc |-> "insert_review", key |-> t,
                     review |-> [store |-> t, order |-> o, stars |-> Stars[o]]]
    <2>1. /\ Free(s) /\ stores[t] # None /\ Start(s, r) /\ UNCHANGED Documents
          /\ ~Reviewed(t, o)
      BY <1>5 DEF CreateReview
    <2>2. BeganWithReview(r)
      BY <2>1, ReviewAssumption DEF BeganWithReview, ReviewHeld, HasReview, Review
    <2> QED
      BY <2>1, <2>2 DEF Began
  <1> QED
    BY <1>1, <1>3, <1>4, <1>5 DEF UpdateStore, Subscribe, CancelSubscription

LEMMA BeganIsBase ==
  ASSUME Base, NEW s \in Slots, NEW r, Began(s, r)
  PROVE  /\ Base'
         /\ Holds(s, r)
         /\ dropped' = dropped
         /\ \A k : Alone(k)' => Alone(k)
         /\ Alone(r.key)' => Quiet(r.key)
  <1>1. r \in Held /\ r.pc # "idle" /\ r.key \in StoreIds /\ stores[r.key] # None
    BY HeldIs DEF Began, BeganWithStore, BeganWithReview, StoreHeld, ReviewHeld, HasStore, HasReview
  <1>2. /\ CoroutinesInv'
        /\ Holds(s, r)
        /\ dropped' = dropped
        /\ \A k : Alone(k)' => Alone(k)
        /\ Alone(r.key)' => Quiet(r.key)
    BY <1>1, StartKeeps DEF Began, Base, StoreIds
  <1>3. overlapped' \subseteq StoreIds
    BY <1>1 DEF Began, Start, Base, TypeOK
  <1>4. DocumentsOK' /\ StoresStay
    BY DEF Began, Documents, DocumentsOK, StoresStay, Base, TypeOK
  <1>5. dropped' \subseteq StoreIds
    BY <1>2 DEF Base, TypeOK
  <1> QED
    BY <1>1, <1>2, <1>3, <1>4, <1>5, BaseFollows

\* A request goes on as r.
LEMMA MoveIsBase ==
  ASSUME Base, NEW s \in Slots, NEW r \in StoreHeld \cup ReviewHeld, ~Free(s), Goto(s, r),
         r.key = req[s].key, DocumentsOK', StoresStay
  PROVE  /\ Base'
         /\ Holds(s, r)
         /\ dropped' = dropped
         /\ \A k : Alone(k)' = Alone(k)
         /\ \A k : Quiet(k)' = Quiet(k)
  <1>1. r \in Held /\ r.pc # "idle" /\ r.key \in StoreIds /\ stores[r.key] # None
    BY HeldIs DEF StoreHeld, ReviewHeld, HasStore, HasReview, Base, Known
  <1>2. /\ CoroutinesInv'
        /\ Holds(s, r)
        /\ \A k : Alone(k)' = Alone(k)
        /\ \A k : Quiet(k)' = Quiet(k)
    BY <1>1, StepKeeps DEF Base, Goto, history
  <1>3. overlapped' \subseteq StoreIds /\ dropped' \subseteq StoreIds /\ dropped' = dropped
    BY DEF Goto, history, Base, TypeOK
  <1> QED
    BY <1>1, <1>2, <1>3, BaseFollows

\* A request ends, or dies.
LEMMA EndIsBase ==
  ASSUME Base, NEW s \in Slots, ~Free(s), req' = [req EXCEPT ![s] = Idle],
         UNCHANGED overlapped, dropped' \in {dropped, dropped \cup {req[s].key}},
         DocumentsOK', StoresStay
  PROVE  /\ Base'
         /\ Holds(s, Idle)
         /\ \A k : Alone(k)' = Alone(k)
         /\ \A k : k \in Keys /\ k # req[s].key => Quiet(k)' = Quiet(k)
         /\ \A k : k = req[s].key /\ Alone(k) => Quiet(k)'
  <1>1. /\ CoroutinesInv'
        /\ Holds(s, Idle)
        /\ \A k : Alone(k)' = Alone(k)
        /\ \A k : k \in Keys /\ k # req[s].key => Quiet(k)' = Quiet(k)
        /\ \A k : k = req[s].key /\ Alone(k) => Quiet(k)'
    BY EndKeeps DEF Base
  <1>2. overlapped' \subseteq StoreIds /\ dropped' \subseteq StoreIds
    BY SlotHolds DEF Base, TypeOK
  <1>3. ASSUME NEW r, r = Idle
        PROVE  Base'
    <2>1. r \in Held
      BY <1>3, HeldIs
    <2>2. Holds(s, r) /\ CoroutinesInv'
      BY <1>1, <1>3
    <2>3. overlapped' \subseteq StoreIds
      BY <1>2
    <2>4. dropped' \subseteq StoreIds
      BY <1>2
    <2> QED
      BY <1>3, <2>1, <2>2, <2>3, <2>4, BaseFollows
  <1> QED
    BY <1>1, <1>3

-----------------------------------------------------------------------------
(* The inductive invariant: what a request holds fits what is stored, and    *)
(* will still fit when it is saved.                                          *)

\* Unless somebody else is at work on the store, who is no admin holds a
\* suspended store as suspended.
StatusFits(r) ==
  r.pc \in HasStore /\ ~r.admin /\ Alone(r.key) /\ Suspended(r.key) =>
    r.store.status = "suspended"

Fits(rate, subscription) == rate = "premium" <=> subscription = "active"

Sound(t) == Alone(t) /\ t \notin dropped

\* The stored rate fits until the subscription is written; from then on, and
\* whenever it is about to be saved, the held one does.
RateFits(r) ==
  r.pc # "idle" /\ Sound(r.key) =>
    /\ r.pc # "save" => Fits(stores[r.key].rate, subscriptions[r.key])
    /\ r.pc = "save" => Fits(r.store.rate, subscriptions[r.key])
    /\ r.pc \in {"insert_sub", "activate"} => r.store.rate = "premium"
    /\ r.pc = "deactivate" => r.store.rate = None

\* The requests whose review is inserted and not counted yet.
Uncounted(t) == {s \in Slots : req[s].pc = "read_rating" /\ req[s].key = t}

\* A store that counts n reviews leaves room for those.
Covered(n, t) == n + Cardinality(Uncounted(t)) <= Cardinality(ReviewsOf(t))

CountFits(r) ==
  /\ r.pc \in HasStore => Covered(r.store.count, r.key)
  /\ r.pc = "insert_review" => r.review.store = r.key

SlotGood(r) == StatusFits(r) /\ RateFits(r) /\ CountFits(r)

CountsGood == \A t \in StoreIds : stores[t] # None => Covered(stores[t].count, t)

IInv ==
  /\ Base
  /\ \A s \in Slots : SlotGood(req[s])
  /\ RateFitsSubscription
  /\ CountsGood

\* What is stored of the stores that others are alone with does not change.
Spares(s) ==
  \A t \in Slots \ {s} : ~Free(t) /\ Alone(req[t].key) =>
    /\ stores'[req[t].key] = stores[req[t].key]
    /\ subscriptions'[req[t].key] = subscriptions[req[t].key]

\* Only the store k and its subscription are written.
WritesOnly(k) ==
  \A t \in StoreIds : t # k => stores'[t] = stores[t] /\ subscriptions'[t] = subscriptions[t]

CoveredStays == \A n \in Nat, t \in StoreIds : Covered(n, t) => Covered(n, t)'

LEMMA OwnStoreOnly ==
  ASSUME Base, NEW s \in Slots, ~Free(s), WritesOnly(req[s].key)
  PROVE  Spares(s)
  <1> SUFFICES ASSUME NEW t \in Slots, t # s, ~Free(t), Alone(req[t].key)
               PROVE  /\ stores'[req[t].key] = stores[req[t].key]
                      /\ subscriptions'[req[t].key] = subscriptions[req[t].key]
    BY DEF Spares
  <1>1. req[s].key # req[t].key
    BY AloneIsSole DEF Base
  <1>2. req[t].key \in StoreIds
    BY DEF Base, CoroutinesInv, Keyed, StoreIds
  <1> QED
    BY <1>1, <1>2 DEF WritesOnly

LEMMA IInvFollows ==
  ASSUME IInv, Base', NEW s \in Slots, NEW r, Holds(s, r), Spares(s),
         \A k : Alone(k)' => Alone(k), dropped \subseteq dropped', CoveredStays,
         SlotGood(r)', RateFitsSubscription', CountsGood'
  PROVE  IInv'
  <1> SUFFICES ASSUME NEW t \in Slots
               PROVE  SlotGood(req[t])'
    BY DEF IInv
  <1>1. CASE t = s
    BY <1>1 DEF Holds
  <1>2. CASE t # s
    <2>1. PICK q : q = req[t]
      OBVIOUS
    <2>2. req'[t] = q
      BY <1>2, <2>1 DEF Holds
    <2>3. SlotGood(q)
      BY <2>1 DEF IInv
    <2>4. CASE Free(t)
      BY <2>1, <2>2, <2>4 DEF Free, At, SlotGood, StatusFits, RateFits, CountFits, HasStore
    <2>5. CASE ~Free(t)
      <3>1. q.key \in StoreIds /\ q.pc # "idle"
        BY <2>1, <2>5 DEF IInv, Base, CoroutinesInv, Keyed, StoreIds, Free, At
      <3>2. Alone(q.key)' => /\ Alone(q.key)
                             /\ stores'[q.key] = stores[q.key]
                             /\ subscriptions'[q.key] = subscriptions[q.key]
        BY <1>2, <2>1, <2>5 DEF Spares
      <3>3. StatusFits(q)'
        BY <2>3, <3>2 DEF SlotGood, StatusFits, Suspended
      <3>4. RateFits(q)'
        BY <2>3, <3>2 DEF SlotGood, RateFits, Sound
      <3>5. CountFits(q)'
        <4> SUFFICES ASSUME q.pc \in HasStore
                     PROVE  Covered(q.store.count, q.key)'
          BY <2>3 DEF SlotGood, CountFits
        <4>1. q \in StoreHeld
          BY <2>1, SlotHolds DEF IInv, Base
        <4>2. q.store.count \in Nat
          BY <4>1 DEF StoreHeld, Store
        <4> QED
          BY <2>3, <3>1, <4>2 DEF SlotGood, CountFits, CoveredStays
      <3> QED
        BY <2>2, <3>3, <3>4, <3>5 DEF SlotGood
    <2> QED
      BY <2>4, <2>5
  <1> QED
    BY <1>1, <1>2

\* Where no review is inserted and none begins to be counted, nothing of the
\* counts changes.
LEMMA NothingCounted ==
  ASSUME Base, NEW s \in Slots, NEW r, Holds(s, r), UNCHANGED reviews, r.pc # "read_rating"
  PROVE  CoveredStays
  <1> SUFFICES ASSUME NEW n \in Nat, NEW t \in StoreIds, Covered(n, t)
               PROVE  Covered(n, t)'
    BY DEF CoveredStays
  <1>1. Uncounted(t)' \subseteq Uncounted(t)
    BY DEF Uncounted, Holds
  <1>2. IsFiniteSet(Uncounted(t))
    BY SlotsAssumption, FS_Subset DEF Uncounted
  <1>3. /\ IsFiniteSet(Uncounted(t)')
        /\ Cardinality(Uncounted(t)') <= Cardinality(Uncounted(t))
    BY <1>1, <1>2, FS_Subset
  <1>4. /\ Cardinality(Uncounted(t)) \in Nat /\ Cardinality(Uncounted(t)') \in Nat
    BY <1>2, <1>3, FS_CardinalityType
  <1>5. IsFiniteSet(ReviewsOf(t)) /\ ReviewsOf(t)' = ReviewsOf(t)
    BY ReviewAssumption, FS_Subset DEF ReviewsOf
  <1>6. Cardinality(ReviewsOf(t)) \in Nat
    BY <1>5, FS_CardinalityType
  <1> QED
    BY <1>3, <1>4, <1>5, <1>6 DEF Covered

\* The stored rates still fit after a step that leaves the slot occupied, or
\* leaves the documents alone.
LEMMA RatesFollow ==
  ASSUME IInv, NEW s \in Slots, NEW r, Holds(s, r), WritesOnly(r.key),
         \A k : Alone(k)' => Alone(k), dropped \subseteq dropped',
         req[s].key \in {None, r.key}
  PROVE  RateFitsSubscription'
  <1> SUFFICES ASSUME NEW t \in StoreIds,
                      (stores[t] # None /\ Alone(t) /\ Quiet(t) /\ t \notin dropped)'
               PROVE  (stores[t].rate = "premium" <=> subscriptions[t] = "active")'
    BY DEF RateFitsSubscription
  <1>1. t # r.key
    BY DEF Quiet, Holds
  <1>2. \A u \in Slots : req[u].key # t
    BY <1>1, KeyAssumption DEF Quiet, Holds, StoreIds
  <1>3. stores'[t] = stores[t] /\ subscriptions'[t] = subscriptions[t]
    BY <1>1 DEF WritesOnly
  <1> QED
    BY <1>2, <1>3 DEF IInv, RateFitsSubscription, Quiet

LEMMA CountsFollow ==
  ASSUME IInv, CoveredStays, UNCHANGED stores
  PROVE  CountsGood'
  <1>1. \A t \in StoreIds : stores[t] # None => stores[t].count \in Nat
    BY DEF IInv, Base, TypeOK, Maybe, Store
  <1> QED
    BY <1>1 DEF IInv, CountsGood, CoveredStays

\* A request goes on as r and writes no store.
LEMMA MoveIsGood ==
  ASSUME IInv, NEW s \in Slots, NEW r \in StoreHeld \cup ReviewHeld, ~Free(s), Goto(s, r),
         r.key = req[s].key, UNCHANGED stores, DocumentsOK', StoresStay, WritesOnly(r.key),
         CoveredStays, SlotGood(r)'
  PROVE  IInv'
  <1>1. Base
    BY DEF IInv
  <1>2. /\ Base'
        /\ Holds(s, r)
        /\ dropped' = dropped
        /\ \A k : Alone(k)' = Alone(k)
    BY <1>1, MoveIsBase
  <1>3. Spares(s)
    BY <1>1, OwnStoreOnly
  <1>4. RateFitsSubscription'
    BY <1>2, RatesFollow
  <1>5. CountsGood'
    BY CountsFollow
  <1> QED
    BY <1>2, <1>3, <1>4, <1>5, IInvFollows

\* A request ends or dies; the store it was about is left with a fitting rate.
LEMMA EndIsGood ==
  ASSUME IInv, NEW s \in Slots, ~Free(s), req' = [req EXCEPT ![s] = Idle],
         UNCHANGED <<overlapped, reviews>>, dropped' \in {dropped, dropped \cup {req[s].key}},
         DocumentsOK', StoresStay, WritesOnly(req[s].key),
         \A t \in StoreIds : t = req[s].key /\ Sound(t)' =>
           Fits(stores[t].rate, subscriptions[t])',
         CoveredStays => CountsGood'
  PROVE  IInv'
  <1>1. Base
    BY DEF IInv
  <1>2. /\ Base'
        /\ Holds(s, Idle)
        /\ \A k : Alone(k)' = Alone(k)
        /\ \A k : k \in Keys /\ k # req[s].key => Quiet(k)' = Quiet(k)
    BY <1>1, EndIsBase
  <1>3. Spares(s)
    BY <1>1, OwnStoreOnly
  <1>4. CoveredStays
    BY <1>1, <1>2, IdleIsFree, NothingCounted
  <1>5. RateFitsSubscription'
    <2> SUFFICES ASSUME NEW t \in StoreIds,
                        (stores[t] # None /\ Alone(t) /\ Quiet(t) /\ t \notin dropped)'
                 PROVE  Fits(stores[t].rate, subscriptions[t])'
      BY DEF RateFitsSubscription, Fits
    <2>1. CASE t = req[s].key
      BY <2>1 DEF Sound
    <2>2. CASE t # req[s].key
      <3>1. stores'[t] = stores[t] /\ subscriptions'[t] = subscriptions[t]
        BY <2>2 DEF WritesOnly
      <3>2. Alone(t) /\ Quiet(t) /\ t \notin dropped
        BY <1>2, <2>2 DEF StoreIds
      <3> QED
        BY <3>1, <3>2 DEF IInv, RateFitsSubscription, Fits
    <2> QED
      BY <2>1, <2>2
  <1>6. SlotGood(Idle)'
    BY IdleIsFree DEF SlotGood, StatusFits, RateFits, CountFits, HasStore
  <1>7. dropped \subseteq dropped'
    OBVIOUS
  <1> QED
    BY <1>2, <1>3, <1>4, <1>5, <1>6, <1>7, IInvFollows

-----------------------------------------------------------------------------
(* One lemma per action *)

LEMMA BeganIsGood ==
  ASSUME IInv, NEW s \in Slots, NEW r, Began(s, r)
  PROVE  IInv'
  <1>1. Base
    BY DEF IInv
  <1>2. /\ Base'
        /\ Holds(s, r)
        /\ dropped' = dropped
        /\ \A k : Alone(k)' => Alone(k)
        /\ Alone(r.key)' => Quiet(r.key)
    BY <1>1, BeganIsBase
  <1>3. UNCHANGED <<stores, subscriptions, reviews>>
    BY DEF Began, Documents
  <1>4. Spares(s) /\ WritesOnly(r.key)
    BY <1>3 DEF Spares, WritesOnly
  <1>5. req[s].key = None /\ r.key \in StoreIds /\ stores[r.key] # None
    BY <1>1 DEF Began, Base, CoroutinesInv, Keyed, BeganWithStore, BeganWithReview, StoreHeld,
                ReviewHeld
  <1>6. CoveredStays
    BY <1>1, <1>2, <1>3, NothingCounted DEF Began, BeganWithStore, BeganWithReview
  <1>7. RateFitsSubscription'
    BY <1>2, <1>4, <1>5, RatesFollow
  <1>8. CountsGood'
    BY <1>3, <1>6, CountsFollow
  <1>9. StatusFits(r)'
    BY <1>3 DEF Began, BeganWithStore, BeganWithReview, StatusFits, HasStore, Suspended
  <1>10. RateFits(r)'
    <2> SUFFICES ASSUME Sound(r.key)'
                 PROVE  Fits(stores[r.key].rate, subscriptions[r.key])
      BY <1>3 DEF Began, BeganWithStore, BeganWithReview, RateFits
    <2> QED
      BY <1>2, <1>5 DEF Sound, IInv, RateFitsSubscription, Fits
  <1>11. CountFits(r)'
    <2> SUFFICES ASSUME r.pc \in HasStore
                 PROVE  Covered(r.store.count, r.key)'
      BY DEF CountFits, Began, BeganWithStore, BeganWithReview
    <2>1. r.store.count = stores[r.key].count
      BY DEF Began, BeganWithStore, BeganWithReview, HasStore
    <2>2. CountsGood' => Covered(stores[r.key].count, r.key)'
      BY <1>3, <1>5 DEF CountsGood
    <2> QED
      BY <1>3, <1>8, <2>1, <2>2
  <1> QED
    BY <1>2, <1>4, <1>6, <1>7, <1>8, <1>9, <1>10, <1>11, IInvFollows DEF SlotGood

LEMMA CrashIsGood ==
  ASSUME IInv, NEW s \in Slots, Fail(s)
  PROVE  IInv'
  <1>1. /\ ~Free(s)
        /\ req' = [req EXCEPT ![s] = Idle]
        /\ dropped' = dropped \cup {req[s].key}
        /\ UNCHANGED <<overlapped, stores, subscriptions, reviews>>
    BY DEF Fail, Crash, Documents
  <1>2. DocumentsOK' /\ StoresStay /\ WritesOnly(req[s].key)
    BY <1>1 DEF DocumentsOK, StoresStay, WritesOnly, IInv, Base, TypeOK
  <1>3. \A t \in StoreIds : t = req[s].key => ~Sound(t)'
    BY <1>1 DEF Sound
  <1>4. CoveredStays => CountsGood'
    BY <1>1, CountsFollow
  <1> QED
    BY <1>1, <1>2, <1>3, <1>4, EndIsGood

LEMMA SaveStoreIsGood ==
  ASSUME IInv, NEW s \in Slots, SaveStore(s)
  PROVE  IInv'
  <1>1. PICK r : r = req[s]
    OBVIOUS
  <1>2. /\ r.pc = "save" /\ ~Free(s)
        /\ stores' = [stores EXCEPT ![r.key] = r.store]
        /\ req' = [req EXCEPT ![s] = Idle]
        /\ UNCHANGED <<overlapped, dropped, subscriptions, reviews>>
    BY <1>1 DEF SaveStore, At, Free, Put, Finish, Goto, history
  <1>3. r \in StoreHeld
    BY <1>1, <1>2, SlotHolds DEF IInv, Base, HasStore
  <1>4. r.store \in Store /\ r.store # None /\ r.key \in StoreIds /\ r.store.count \in Nat
    BY <1>3, DocumentAssumption DEF StoreHeld, Store
  <1>5. stores'[r.key] = r.store
    BY <1>2, <1>4 DEF IInv, Base, TypeOK
  <1>6. DocumentsOK' /\ StoresStay /\ WritesOnly(r.key)
    BY <1>2, <1>4, <1>5 DEF DocumentsOK, StoresStay, WritesOnly, IInv, Base, TypeOK, Maybe
  <1>7. \A t \in StoreIds : t = r.key /\ Sound(t)' => Fits(stores[t].rate, subscriptions[t])'
    BY <1>1, <1>2, <1>5 DEF IInv, SlotGood, RateFits, Sound, Alone
  <1>8. CoveredStays => CountsGood'
    <2> SUFFICES ASSUME CoveredStays, NEW t \in StoreIds, (stores[t] # None)'
                 PROVE  Covered(stores[t].count, t)'
      BY DEF CountsGood
    <2>1. CASE t = r.key
      <3>1. Covered(r.store.count, t)
        BY <1>1, <1>2, <2>1 DEF IInv, SlotGood, CountFits, HasStore
      <3>2. Covered(r.store.count, t)'
        BY <1>4, <3>1 DEF CoveredStays
      <3> QED
        BY <1>5, <2>1, <3>2
    <2>2. CASE t # r.key
      <3>1. stores'[t] = stores[t]
        BY <1>6, <2>2 DEF WritesOnly
      <3>2. PICK n : n = stores[t].count
        OBVIOUS
      <3>3. n \in Nat /\ Covered(n, t)
        BY <3>1, <3>2 DEF IInv, CountsGood, Base, TypeOK, Maybe, Store
      <3>4. Covered(n, t)'
        BY <3>3 DEF CoveredStays
      <3> QED
        BY <3>1, <3>2, <3>4
    <2> QED
      BY <2>1, <2>2
  <1> QED
    BY <1>1, <1>2, <1>6, <1>7, <1>8, EndIsGood

LEMMA GotoHolds ==
  ASSUME Base, NEW s \in Slots, NEW r, Goto(s, r)
  PROVE  Holds(s, r)
  BY DEF Holds, Goto, Base, CoroutinesInv, Keyed

LEMMA FindSubscriptionIsGood ==
  ASSUME IInv, NEW s \in Slots, FindSubscription(s)
  PROVE  IInv'
  <1> DEFINE label == IF subscriptions[req[s].key] = None THEN "insert_sub" ELSE "activate"
  <1>1. PICK q, r : /\ q = req[s]
                    /\ r = Hold(label, q.key, [q.store EXCEPT !.rate = "premium"], q.admin)
    OBVIOUS
  <1>2. q.pc = "subscribe" /\ ~Free(s) /\ Goto(s, r) /\ UNCHANGED <<stores, subscriptions, reviews>>
    BY <1>1 DEF FindSubscription, Reprice, At, Free, Documents
  <1>3. q \in StoreHeld
    BY <1>1, <1>2, SlotHolds DEF IInv, Base, HasStore
  <1>4. /\ r \in StoreHeld /\ r.pc \in {"insert_sub", "activate"} /\ r.key = q.key
        /\ r.admin = q.admin /\ r.store.rate = "premium" /\ r.store.status = q.store.status
        /\ r.store.count = q.store.count /\ r.store.count \in Nat /\ r.key \in StoreIds
    BY <1>1, <1>3 DEF Hold, StoreHeld, Store, HasStore
  <1>5. DocumentsOK' /\ StoresStay /\ WritesOnly(r.key)
    BY <1>2 DEF DocumentsOK, StoresStay, WritesOnly, IInv, Base, TypeOK
  <1>6. CoveredStays
    BY <1>2, <1>4, GotoHolds, NothingCounted DEF IInv
  <1>7. SlotGood(q)
    BY <1>1 DEF IInv
  <1>8. overlapped' = overlapped /\ dropped' = dropped
    BY <1>2 DEF Goto, history
  <1>9. StatusFits(r)'
    BY <1>2, <1>4, <1>7, <1>8 DEF SlotGood, StatusFits, Suspended, Alone, HasStore
  <1>10. RateFits(r)'
    BY <1>2, <1>4, <1>7, <1>8 DEF SlotGood, RateFits, Sound, Alone
  <1>11. CountFits(r)'
    BY <1>2, <1>4, <1>6, <1>7 DEF SlotGood, CountFits, CoveredStays, HasStore
  <1> QED
    BY <1>1, <1>2, <1>4, <1>5, <1>6, <1>9, <1>10, <1>11, MoveIsGood DEF SlotGood

LEMMA FindActiveIsGood ==
  ASSUME IInv, NEW s \in Slots, FindActive(s)
  PROVE  IInv'
  <1>1. PICK q, r : /\ q = req[s]
                    /\ r = Hold("deactivate", q.key, [q.store EXCEPT !.rate = None], q.admin)
    OBVIOUS
  <1>2. /\ q.pc = "cancel" /\ ~Free(s) /\ UNCHANGED <<stores, subscriptions, reviews>>
        /\ subscriptions[q.key] = "active" => Goto(s, r)
        /\ subscriptions[q.key] # "active" => Finish(s)
    BY <1>1 DEF FindActive, Reprice, At, Free, Documents
  <1>3. q \in StoreHeld
    BY <1>1, <1>2, SlotHolds DEF IInv, Base, HasStore
  <1>4. /\ r \in StoreHeld /\ r.pc = "deactivate" /\ r.key = q.key
        /\ r.admin = q.admin /\ r.store.rate = None /\ r.store.status = q.store.status
        /\ r.store.count = q.store.count /\ r.store.count \in Nat /\ r.key \in StoreIds
    BY <1>1, <1>3 DEF Hold, StoreHeld, Store, HasStore
  <1>5. DocumentsOK' /\ StoresStay /\ WritesOnly(r.key)
    BY <1>2 DEF DocumentsOK, StoresStay, WritesOnly, IInv, Base, TypeOK
  <1>6. SlotGood(q)
    BY <1>1 DEF IInv
  <1>7. CASE Goto(s, r)
    <2>1. CoveredStays
      BY <1>2, <1>4, <1>7, GotoHolds, NothingCounted DEF IInv
    <2>2. overlapped' = overlapped /\ dropped' = dropped
      BY <1>7 DEF Goto, history
    <2>3. StatusFits(r)'
      BY <1>2, <1>4, <1>6, <2>2 DEF SlotGood, StatusFits, Suspended, Alone, HasStore
    <2>4. RateFits(r)'
      BY <1>2, <1>4, <1>6, <2>2 DEF SlotGood, RateFits, Sound, Alone
    <2>5. CountFits(r)'
      BY <1>2, <1>4, <1>6, <2>1 DEF SlotGood, CountFits, CoveredStays, HasStore
    <2> QED
      BY <1>1, <1>2, <1>4, <1>5, <1>7, <2>1, <2>3, <2>4, <2>5, MoveIsGood DEF SlotGood
  <1>8. CASE Finish(s)
    <2>1. req' = [req EXCEPT ![s] = Idle] /\ UNCHANGED <<overlapped, dropped>>
      BY <1>8 DEF Finish, Goto, history
    <2>2. \A t \in StoreIds : t = q.key /\ Sound(t)' => Fits(stores[t].rate, subscriptions[t])'
      BY <1>2, <1>6, <2>1 DEF SlotGood, RateFits, Sound, Alone
    <2>3. CoveredStays => CountsGood'
      BY <1>2, CountsFollow
    <2> QED
      BY <1>1, <1>2, <1>4, <1>5, <2>1, <2>2, <2>3, EndIsGood
  <1> QED
    BY <1>2, <1>7, <1>8

\* Writing the subscription makes the held rate the one that fits.
LEMMA SubscriptionWritten ==
  ASSUME IInv, NEW s \in Slots, NEW q, NEW status \in {"active", "cancelled"},
         q = req[s], q.pc \in {"insert_sub", "activate", "deactivate"},
         status = "active" <=> q.pc # "deactivate",
         subscriptions' = Put(subscriptions, q.key, status),
         Goto(s, [q EXCEPT !.pc = "save"]), UNCHANGED <<stores, reviews>>
  PROVE  IInv'
  <1>1. PICK r : r = [q EXCEPT !.pc = "save"]
    OBVIOUS
  <1>2. q \in StoreHeld /\ ~Free(s)
    BY SlotHolds DEF IInv, Base, HasStore, Free, At
  <1>3. /\ r \in StoreHeld /\ r.pc = "save" /\ r.key = q.key /\ r.admin = q.admin
        /\ r.store = q.store /\ r.store.count \in Nat /\ r.key \in StoreIds
    BY <1>1, <1>2 DEF StoreHeld, Store, HasStore
  <1>4. stores[r.key] # None
    BY <1>2, <1>3 DEF IInv, Base, Known
  <1>5. subscriptions' = [subscriptions EXCEPT ![r.key] = status]
    BY <1>3 DEF Put
  <1>6. DocumentsOK' /\ StoresStay /\ WritesOnly(r.key)
    BY <1>4, <1>5 DEF DocumentsOK, StoresStay, WritesOnly, IInv, Base, TypeOK, Maybe, SubscriptionStatus
  <1>7. subscriptions'[r.key] = status
    BY <1>3, <1>5 DEF IInv, Base, TypeOK
  <1>8. CoveredStays
    BY <1>1, <1>3, GotoHolds, NothingCounted DEF IInv
  <1>9. SlotGood(q) /\ overlapped' = overlapped /\ dropped' = dropped
    BY DEF IInv, Goto, history
  <1>10. StatusFits(r)'
    BY <1>3, <1>9 DEF SlotGood, StatusFits, Suspended, Alone, HasStore
  <1>11. RateFits(r)'
    BY <1>3, <1>7, <1>9, DocumentAssumption DEF SlotGood, RateFits, Sound, Alone, Fits
  <1>12. CountFits(r)'
    BY <1>3, <1>8, <1>9 DEF SlotGood, CountFits, CoveredStays, HasStore
  <1> QED
    BY <1>1, <1>2, <1>3, <1>6, <1>8, <1>10, <1>11, <1>12, MoveIsGood DEF SlotGood

LEMMA SaveSubscriptionIsGood ==
  ASSUME IInv, NEW s \in Slots, SaveSubscription(s)
  PROVE  IInv'
  <1>1. PICK label \in {"activate", "deactivate"} :
          /\ At(s, label)
          /\ subscriptions' = Put(subscriptions, req[s].key,
                                  IF label = "activate" THEN "active" ELSE "cancelled")
    BY DEF SaveSubscription
  <1>2. PICK q : q = req[s]
    OBVIOUS
  <1> QED
    BY <1>1, <1>2, SubscriptionWritten DEF SaveSubscription, At

LEMMA InsertSubscriptionIsGood ==
  ASSUME IInv, NEW s \in Slots, InsertSubscription(s)
  PROVE  IInv'
  <1>1. PICK q : q = req[s]
    OBVIOUS
  <1>2. q.pc = "insert_sub" /\ ~Free(s) /\ UNCHANGED <<stores, reviews>>
    BY <1>1 DEF InsertSubscription, At, Free
  <1>3. CASE subscriptions[q.key] = None
    BY <1>1, <1>2, <1>3, SubscriptionWritten DEF InsertSubscription
  <1>4. CASE subscriptions[q.key] # None
    <2>1. /\ req' = [req EXCEPT ![s] = Idle]
          /\ UNCHANGED <<overlapped, dropped, subscriptions>>
      BY <1>1, <1>4 DEF InsertSubscription, Finish, Goto, history
    <2>2. DocumentsOK' /\ StoresStay /\ WritesOnly(q.key)
      BY <1>2, <2>1 DEF DocumentsOK, StoresStay, WritesOnly, IInv, Base, TypeOK
    <2>3. SlotGood(q)
      BY <1>1 DEF IInv
    <2>4. \A t \in StoreIds : t = q.key /\ Sound(t)' => Fits(stores[t].rate, subscriptions[t])'
      BY <1>2, <2>1, <2>3 DEF SlotGood, RateFits, Sound, Alone
    <2>5. CoveredStays => CountsGood'
      BY <1>2, CountsFollow
    <2> QED
      BY <1>1, <1>2, <2>1, <2>2, <2>4, <2>5, EndIsGood
  <1> QED
    BY <1>3, <1>4

\* A review makes room for the request that is going to count it.
LEMMA InsertReviewIsGood ==
  ASSUME IInv, NEW s \in Slots, InsertReview(s)
  PROVE  IInv'
  <1>1. PICK q, r : q = req[s] /\ r = [q EXCEPT !.pc = "read_rating"]
    OBVIOUS
  <1>2. q.pc = "insert_review" /\ ~Free(s) /\ Goto(s, r) /\ UNCHANGED <<stores, subscriptions>>
    BY <1>1 DEF InsertReview, At, Free
  <1>3. PICK v \in ReviewIds : reviews[v] = None /\ reviews' = [reviews EXCEPT ![v] = q.review]
    BY <1>1 DEF InsertReview, Put
  <1>4. q \in ReviewHeld /\ q.review.store = q.key
    BY <1>1, <1>2, SlotHolds DEF IInv, Base, HasReview, SlotGood, CountFits
  <1>5. /\ r \in ReviewHeld /\ r.pc = "read_rating" /\ r.key = q.key /\ r.key \in StoreIds
        /\ q.review \in Review /\ q.review # None
    BY <1>1, <1>4, DocumentAssumption DEF ReviewHeld, HasReview
  <1>6. DocumentsOK' /\ StoresStay /\ WritesOnly(r.key)
    BY <1>2, <1>3, <1>5 DEF DocumentsOK, StoresStay, WritesOnly, IInv, Base, TypeOK, Maybe
  <1>7. Holds(s, r)
    BY <1>2, GotoHolds DEF IInv
  <1>8. CoveredStays
    <2> SUFFICES ASSUME NEW n \in Nat, NEW t \in StoreIds, Covered(n, t)
                 PROVE  Covered(n, t)'
      BY DEF CoveredStays
    <2>1. IsFiniteSet(ReviewsOf(t)) /\ IsFiniteSet(Uncounted(t))
      BY ReviewAssumption, SlotsAssumption, FS_Subset DEF ReviewsOf, Uncounted
    <2>2. Cardinality(ReviewsOf(t)) \in Nat /\ Cardinality(Uncounted(t)) \in Nat
      BY <2>1, FS_CardinalityType
    <2>3. CASE t = q.key
      <3>1. ReviewsOf(t)' = ReviewsOf(t) \cup {v} /\ v \notin ReviewsOf(t)
        BY <1>3, <1>4, <1>5, <2>3 DEF ReviewsOf, IInv, Base, TypeOK
      <3>2. Cardinality(ReviewsOf(t)') = Cardinality(ReviewsOf(t)) + 1
        BY <2>1, <3>1, FS_AddElement
      <3>3. Uncounted(t)' \subseteq Uncounted(t) \cup {s}
        BY <1>7 DEF Uncounted, Holds
      <3>4. /\ IsFiniteSet(Uncounted(t) \cup {s})
            /\ Cardinality(Uncounted(t) \cup {s}) <= Cardinality(Uncounted(t)) + 1
            /\ Cardinality(Uncounted(t) \cup {s}) \in Nat
        <4>1. /\ IsFiniteSet(Uncounted(t) \cup {s})
              /\ Cardinality(Uncounted(t) \cup {s}) =
                   IF s \in Uncounted(t) THEN Cardinality(Uncounted(t))
                                        ELSE Cardinality(Uncounted(t)) + 1
          BY <2>1, FS_AddElement
        <4> QED
          BY <2>2, <4>1
      <3>5. /\ Cardinality(Uncounted(t)') <= Cardinality(Uncounted(t) \cup {s})
            /\ Cardinality(Uncounted(t)') \in Nat
        BY <3>3, <3>4, FS_Subset, FS_CardinalityType
      <3> QED
        BY <2>2, <3>2, <3>4, <3>5 DEF Covered
    <2>4. CASE t # q.key
      <3>1. ReviewsOf(t)' = ReviewsOf(t)
        BY <1>3, <1>4, <1>5, <2>4 DEF ReviewsOf, IInv, Base, TypeOK
      <3>2. Uncounted(t)' \subseteq Uncounted(t)
        BY <1>5, <1>7, <2>4 DEF Uncounted, Holds
      <3>3. /\ Cardinality(Uncounted(t)') <= Cardinality(Uncounted(t))
            /\ Cardinality(Uncounted(t)') \in Nat
        BY <2>1, <3>2, FS_Subset, FS_CardinalityType
      <3> QED
        BY <2>2, <3>1, <3>3 DEF Covered
    <2> QED
      BY <2>3, <2>4
  <1>9. SlotGood(q) /\ overlapped' = overlapped /\ dropped' = dropped
    BY <1>1, <1>2 DEF IInv, Goto, history
  <1>10. SlotGood(r)'
    BY <1>2, <1>5, <1>9 DEF SlotGood, StatusFits, RateFits, CountFits, Sound, Alone, HasStore
  <1> QED
    BY <1>1, <1>2, <1>5, <1>6, <1>8, <1>10, MoveIsGood

\* Counting it takes that room.
LEMMA ReadRatingIsGood ==
  ASSUME IInv, NEW s \in Slots, ReadRating(s)
  PROVE  IInv'
  <1>1. PICK q : q = req[s]
    OBVIOUS
  <1>2. q.pc = "read_rating" /\ ~Free(s) /\ UNCHANGED <<stores, subscriptions, reviews>>
    BY <1>1 DEF ReadRating, At, Free, Documents
  <1>3. q \in ReviewHeld
    BY <1>1, <1>2, SlotHolds DEF IInv, Base, HasReview
  <1>4. PICK old : old = stores[q.key]
    OBVIOUS
  <1>5. old \in Store /\ old # None /\ q.key \in StoreIds /\ q.review.stars \in 1..5
    BY <1>1, <1>2, <1>3, <1>4 DEF IInv, Base, Known, TypeOK, Maybe, ReviewHeld, Review
  <1>6. PICK x \in RecomputeRating(old.avg, old.count, q.review.stars) :
          Goto(s, Hold("save", q.key, [old EXCEPT !.avg = x.avg, !.count = x.count], FALSE))
    BY <1>1, <1>4 DEF ReadRating
  <1>7. x.avg \in Nat /\ x.count = old.count + 1
    BY <1>5, <1>6, RatingType DEF Store
  <1>8. PICK r : r = Hold("save", q.key, [old EXCEPT !.avg = x.avg, !.count = x.count], FALSE)
    OBVIOUS
  <1>9. /\ r \in StoreHeld /\ r.pc = "save" /\ r.key = q.key
        /\ r.store.status = old.status /\ r.store.rate = old.rate
        /\ r.store.count = old.count + 1
    <2>1. PICK rated : rated = [old EXCEPT !.avg = x.avg, !.count = x.count]
      OBVIOUS
    <2>2. old.count + 1 \in Nat
      BY <1>5 DEF Store
    <2>3. /\ rated \in Store /\ rated.status = old.status /\ rated.rate = old.rate
          /\ rated.count = old.count + 1
      BY <1>5, <1>7, <2>1, <2>2 DEF Store
    <2> QED
      BY <1>5, <1>8, <2>1, <2>3 DEF Hold, StoreHeld, HasStore
  <1>10. DocumentsOK' /\ StoresStay /\ WritesOnly(r.key)
    BY <1>2 DEF DocumentsOK, StoresStay, WritesOnly, IInv, Base, TypeOK
  <1>11. Holds(s, r)
    BY <1>6, <1>8, GotoHolds DEF IInv
  <1>12. CoveredStays
    BY <1>2, <1>9, <1>11, NothingCounted DEF IInv
  <1>13. SlotGood(q) /\ overlapped' = overlapped /\ dropped' = dropped
    BY <1>1, <1>6 DEF IInv, Goto, history
  <1>14. StatusFits(r)'
    BY <1>2, <1>4, <1>9 DEF StatusFits, Suspended
  <1>15. RateFits(r)'
    BY <1>2, <1>4, <1>9, <1>13 DEF SlotGood, RateFits, Sound, Alone
  <1>16. CountFits(r)'
    <2>1. Covered(old.count, q.key)
      BY <1>4, <1>5 DEF IInv, CountsGood
    <2>2. Uncounted(q.key)' = Uncounted(q.key) \ {s} /\ s \in Uncounted(q.key)
      BY <1>1, <1>2, <1>9, <1>11 DEF Uncounted, Holds
    <2>3. IsFiniteSet(Uncounted(q.key)) /\ IsFiniteSet(ReviewsOf(q.key))
      BY ReviewAssumption, SlotsAssumption, FS_Subset DEF Uncounted, ReviewsOf
    <2>4. Cardinality(Uncounted(q.key)') = Cardinality(Uncounted(q.key)) - 1
      BY <2>2, <2>3, FS_RemoveElement
    <2>5. Cardinality(Uncounted(q.key)) \in Nat /\ Cardinality(ReviewsOf(q.key)) \in Nat
      BY <2>3, FS_CardinalityType
    <2>6. ReviewsOf(q.key)' = ReviewsOf(q.key) /\ old.count \in Nat
      BY <1>2, <1>5 DEF ReviewsOf, Store
    <2> QED
      BY <1>9, <2>1, <2>4, <2>5, <2>6 DEF CountFits, Covered
  <1> QED
    BY <1>1, <1>2, <1>6, <1>8, <1>9, <1>10, <1>12, <1>14, <1>15, <1>16, MoveIsGood DEF SlotGood

LEMMA CreateStoreIsGood ==
  ASSUME IInv, NEW t \in StoreIds, CreateStore(t)
  PROVE  IInv'
  <1>1. /\ stores[t] = None
        /\ stores' = [stores EXCEPT ![t] = NewStore]
        /\ UNCHANGED <<subscriptions, reviews, req, overlapped, dropped>>
    BY DEF CreateStore, Put, history
  <1>2. /\ NewStore \in Store /\ NewStore # None /\ NewStore.count = 0 /\ NewStore.rate = None
        /\ None # "premium"
    BY DocumentAssumption DEF NewStore, Store, StoreStatus
  <1>3. stores'[t] = NewStore /\ \A k \in StoreIds : k # t => stores'[k] = stores[k]
    BY <1>1 DEF IInv, Base, TypeOK
  <1>4. Base'
    BY <1>1, <1>2, <1>3 DEF IInv, Base, TypeOK, Maybe, Known, CoroutinesInv, Keyed, SoleOwner, Free,
                            At, StoreIds
  <1>5. \A n : \A k \in StoreIds : Covered(n, k)' = Covered(n, k)
    BY <1>1 DEF Covered, Uncounted, ReviewsOf
  <1>6. \A s \in Slots : SlotGood(req[s])'
    <2> SUFFICES ASSUME NEW s \in Slots
                 PROVE  SlotGood(req[s])'
      OBVIOUS
    <2>1. PICK q : q = req[s] /\ req'[s] = q
      BY <1>1
    <2>2. CASE Free(s)
      BY <2>1, <2>2 DEF Free, At, SlotGood, StatusFits, RateFits, CountFits, HasStore
    <2>3. CASE ~Free(s)
      <3>1. q.key \in StoreIds /\ q.key # t
        BY <1>1, <2>1, <2>3 DEF IInv, Base, Known, CoroutinesInv, Keyed, StoreIds
      <3>2. SlotGood(q)
        BY <2>1 DEF IInv
      <3>3. StatusFits(q)' /\ RateFits(q)'
        BY <1>1, <1>3, <3>1, <3>2 DEF SlotGood, StatusFits, RateFits, Suspended, Sound, Alone
      <3>4. CountFits(q)'
        BY <1>5, <3>1, <3>2 DEF SlotGood, CountFits
      <3> QED
        BY <2>1, <3>3, <3>4 DEF SlotGood
    <2> QED
      BY <2>2, <2>3
  <1>7. RateFitsSubscription'
    <2> SUFFICES ASSUME NEW k \in StoreIds,
                        (stores[k] # None /\ Alone(k) /\ Quiet(k) /\ k \notin dropped)'
                 PROVE  (stores[k].rate = "premium" <=> subscriptions[k] = "active")'
      BY DEF RateFitsSubscription
    <2>1. CASE k = t
      <3>1. subscriptions'[t] # "active"
        BY <1>1, DocumentAssumption DEF IInv, Base, Known, SubscriptionStatus
      <3> QED
        BY <1>2, <1>3, <2>1, <3>1
    <2>2. CASE k # t
      BY <1>1, <1>3, <2>2 DEF IInv, RateFitsSubscription, Alone, Quiet
    <2> QED
      BY <2>1, <2>2
  <1>8. CountsGood'
    <2> SUFFICES ASSUME NEW k \in StoreIds, (stores[k] # None)'
                 PROVE  Covered(stores[k].count, k)'
      BY DEF CountsGood
    <2>1. CASE k = t
      <3>1. Uncounted(t) = {}
        BY <1>1 DEF Uncounted, IInv, Base, Known, Free, At
      <3>2. Cardinality(ReviewsOf(t)) \in Nat
        BY ReviewAssumption, FS_Subset, FS_CardinalityType DEF ReviewsOf
      <3>3. Covered(0, t)
        BY <3>1, <3>2, FS_EmptySet DEF Covered
      <3> QED
        BY <1>2, <1>3, <1>5, <2>1, <3>3
    <2>2. CASE k # t
      BY <1>3, <1>5, <2>2 DEF IInv, CountsGood
    <2> QED
      BY <2>1, <2>2
  <1> QED
    BY <1>4, <1>6, <1>7, <1>8 DEF IInv

-----------------------------------------------------------------------------
(* The theorems *)

LEMMA InitIsGood == Init => IInv
  <1> SUFFICES ASSUME Init
               PROVE  IInv
    OBVIOUS
  <1>1. CoroutinesInv
    BY InitiallyNobody DEF Init
  <1>2. Base
    BY <1>1, IdleIsFree, HeldIs
    DEF Init, CoroutinesInit, Base, TypeOK, Known, Maybe, Free, At
  <1>3. \A s \in Slots : SlotGood(req[s])
    BY IdleIsFree DEF Init, CoroutinesInit, SlotGood, StatusFits, RateFits, CountFits, HasStore
  <1> QED
    BY <1>2, <1>3 DEF Init, IInv, RateFitsSubscription, CountsGood

LEMMA NextIsGood == IInv /\ [Next]_vars => IInv'
  <1> SUFFICES ASSUME IInv, [Next]_vars
               PROVE  IInv'
    OBVIOUS
  <1>1. CASE UNCHANGED vars
    BY <1>1 DEF vars, history, IInv, Base, TypeOK, CoroutinesInv, Keyed, SoleOwner, Known, Free,
                At, SlotGood, StatusFits, RateFits, CountFits, Suspended, Sound, Alone, Covered,
                Uncounted, ReviewsOf, RateFitsSubscription, Quiet, CountsGood
  <1>2. ASSUME NEW t \in StoreIds, CreateStore(t)
        PROVE  IInv'
    BY <1>2, CreateStoreIsGood
  <1>3. ASSUME NEW s \in Slots, Begin(s)
        PROVE  IInv'
    BY <1>3, BeginBegan, BeganIsGood DEF IInv
  <1>4. ASSUME NEW s \in Slots, Serve(s)
        PROVE  IInv'
    BY <1>4, SaveStoreIsGood, FindSubscriptionIsGood, FindActiveIsGood, InsertSubscriptionIsGood,
       SaveSubscriptionIsGood, InsertReviewIsGood, ReadRatingIsGood DEF Serve
  <1>5. ASSUME NEW s \in Slots, Fail(s)
        PROVE  IInv'
    BY <1>5, CrashIsGood
  <1> QED
    BY <1>1, <1>2, <1>3, <1>4, <1>5 DEF Next

\* The inductive invariant holds.
THEOREM InvIsInvariant == Spec => []IInv
  BY InitIsGood, NextIsGood, PTL DEF Spec

\* Stores, subscriptions, reviews and requests keep their types.
THEOREM TypeIsCorrect == Spec => []TypeOK
  <1>1. IInv => TypeOK
    BY DEF IInv, Base
  <1> QED
    BY <1>1, InvIsInvariant, PTL

\* The commission rate of a store is the one its subscription buys, however
\* many requests about other stores are in progress (subscriptions/service.py).
THEOREM RatesFitSubscriptions == Spec => []RateFitsSubscription
  <1>1. IInv => RateFitsSubscription
    BY DEF IInv
  <1> QED
    BY <1>1, InvIsInvariant, PTL

\* No interleaving of reviews, edits and crashes makes a rating count a review
\* that does not exist (_apply_rating).
THEOREM RatingsAreNotInflated == Spec => []RatingIsNotInflated
  <1>1. ASSUME IInv
        PROVE  RatingIsNotInflated
    <2> SUFFICES ASSUME NEW t \in StoreIds, stores[t] # None
                 PROVE  stores[t].count <= Cardinality(ReviewsOf(t))
      BY DEF RatingIsNotInflated
    <2>1. Covered(stores[t].count, t) /\ stores[t].count \in Nat
      BY <1>1 DEF IInv, CountsGood, Base, TypeOK, Maybe, Store
    <2>2. IsFiniteSet(Uncounted(t)) /\ IsFiniteSet(ReviewsOf(t))
      BY ReviewAssumption, SlotsAssumption, FS_Subset DEF Uncounted, ReviewsOf
    <2>3. Cardinality(Uncounted(t)) \in Nat /\ Cardinality(ReviewsOf(t)) \in Nat
      BY <2>2, FS_CardinalityType
    <2> QED
      BY <2>1, <2>3 DEF Covered
  <1> QED
    BY <1>1, InvIsInvariant, PTL

\* Only SaveStore changes a store that there is.
LEMMA StoreWriter ==
  ASSUME IInv, [Next]_vars, NEW t \in StoreIds, stores[t] # None, stores'[t] # stores[t]
  PROVE  \E s \in Slots : SaveStore(s) /\ req[s].key = t /\ stores'[t] = req[s].store
  <1>1. stores \in [StoreIds -> Maybe(Store)]
    BY DEF IInv, Base, TypeOK
  <1>2. ~UNCHANGED stores
    OBVIOUS
  <1>3. ASSUME NEW k \in StoreIds, CreateStore(k)
        PROVE  FALSE
    BY <1>1, <1>3 DEF CreateStore, Put
  <1>4. ASSUME NEW s \in Slots, Begin(s)
        PROVE  FALSE
    BY <1>2, <1>4, BeginBegan DEF Began, Documents, IInv
  <1>5. ASSUME NEW s \in Slots, Fail(s)
        PROVE  FALSE
    BY <1>2, <1>5 DEF Fail, Documents
  <1>6. PICK s \in Slots : Serve(s)
    BY <1>2, <1>3, <1>4, <1>5 DEF Next, vars
  <1>7. SaveStore(s)
    BY <1>2, <1>6 DEF Serve, FindSubscription, FindActive, InsertSubscription, SaveSubscription,
                      InsertReview, ReadRating, Documents
  <1> QED
    BY <1>1, <1>7 DEF SaveStore, Put

\* Of all who save a suspended store only an admin lifts the suspension, for any
\* number of stores and requests, as long as no two work on that one at a time.
THEOREM SuspensionsHold == Spec => SuspensionHolds
  <1>1. ASSUME IInv, [Next]_vars, NEW t \in StoreIds, Suspended(t), ~Suspended(t)', Alone(t)
        PROVE  \E s \in Slots : At(s, "save") /\ req[s].key = t /\ req[s].admin
    <2>1. stores[t] # None /\ stores'[t] # stores[t]
      BY <1>1 DEF Suspended
    <2>2. PICK s \in Slots : SaveStore(s) /\ req[s].key = t /\ stores'[t] = req[s].store
      BY <1>1, <2>1, StoreWriter
    <2>3. req[s].pc = "save" /\ req[s] \in StoreHeld
      BY <1>1, <2>2, SlotHolds DEF SaveStore, At, IInv, Base, HasStore
    <2>4. req[s].store.status # "suspended"
      BY <1>1, <2>2, <2>3, DocumentAssumption DEF Suspended, StoreHeld
    <2>5. req[s].admin
      BY <1>1, <2>2, <2>3, <2>4 DEF IInv, SlotGood, StatusFits, HasStore
    <2> QED
      BY <2>2, <2>3, <2>5 DEF At
  <1>2. IInv /\ [Next]_vars =>
          [\A t \in StoreIds :
             (Suspended(t) /\ ~Suspended(t)' /\ Alone(t)) =>
                \E s \in Slots : At(s, "save") /\ req[s].key = t /\ req[s].admin]_vars
    BY <1>1
  <1> QED
    BY <1>2, InvIsInvariant, PTL DEF Spec, SuspensionHolds

-----------------------------------------------------------------------------
(* Ratings of stores that nobody worked on at the same time.  The operators  *)
(* take the reviews as a parameter, so that what does not depend on the step *)
(* can be said of any two collections of reviews.                            *)

Given(rv, t) == {v \in ReviewIds : rv[v] # None /\ rv[v].store = t}

StarsIn(rv) == [v \in ReviewIds |-> IF rv[v] = None THEN 0 ELSE rv[v].stars]

Near(n, drift) == 4 * drift <= n * (n + 1) /\ -4 * drift <= n * (n + 1)

\* The rating in doc is the one of the reviews in S.
Mean(rv, S, doc) ==
  /\ doc.count = Cardinality(S)
  /\ Near(Cardinality(S), 100 * SumOver(StarsIn(rv), S) - Cardinality(S) * doc.avg)

OneEach(rv, t) == \A v, w \in Given(rv, t) : rv[v].order = rv[w].order => v = w

\* The rating of store t, stored as doc, while r is the only request about it.
RatingOf(rv, t, doc, r) ==
  /\ OneEach(rv, t)
  /\ r.pc \notin {"save", "read_rating"} => Mean(rv, Given(rv, t), doc)
  /\ r.pc \in HasStore => Mean(rv, Given(rv, t), r.store)
  /\ r.pc = "insert_review" => \A v \in Given(rv, t) : rv[v].order # r.review.order
  /\ r.pc = "read_rating" =>
       \E v \in Given(rv, t) : rv[v] = r.review /\ Mean(rv, Given(rv, t) \ {v}, doc)

RatedWell(t) ==
  /\ Quiet(t) => RatingOf(reviews, t, stores[t], Idle)
  /\ \A s \in Slots : req[s].key = t => RatingOf(reviews, t, stores[t], req[s])

ReviewsHaveStores == \A v \in ReviewIds : reviews[v] # None => stores[reviews[v].store] # None

RatingInv ==
  /\ \A t \in StoreIds : stores[t] # None /\ Sound(t) => RatedWell(t)
  /\ ReviewsHaveStores

-----------------------------------------------------------------------------
\* Rounding once more moves the average by half a hundredth at most.
LEMMA Rounding ==
  ASSUME NEW n \in Nat, NEW avg \in Nat, NEW x \in Nat, NEW sum \in Int,
         NEW a \in Int, a \in Nearest(avg * n + 100 * x, n + 1), Near(n, 100 * sum - n * avg)
  PROVE  Near(n + 1, 100 * (x + sum) - (n + 1) * a)
<1>1. PICK p \in Int, q \in Int, m \in Int, w \in Int :
        p = (n + 1) * a /\ q = n * avg /\ m = n * (n + 1) /\ w = (n + 1) * (n + 1 + 1)
  OBVIOUS
<1>2. w = m + 2 * n + 2
  BY <1>1
<1>3. 2 * a * (n + 1) = 2 * p /\ avg * n = q
  BY <1>1
<1>4. 2 * p - 2 * (q + 100 * x) <= n + 1 /\ 2 * (q + 100 * x) - 2 * p <= n + 1
  BY <1>3 DEF Nearest
<1>5. 4 * (100 * sum - q) <= m /\ -4 * (100 * sum - q) <= m
  BY <1>1 DEF Near
<1>6. 4 * (100 * (x + sum) - p) <= w /\ -4 * (100 * (x + sum) - p) <= w
  <2>1. ASSUME NEW i \in Int, NEW j \in Int, NEW k \in Int, NEW y \in Int, NEW z \in Int,
               NEW u \in Int, NEW l \in Nat,
               z = y + 2 * l + 2, 2 * i - 2 * (j + k) <= l + 1, 2 * (j + k) - 2 * i <= l + 1,
               4 * (u - j) <= y, -4 * (u - j) <= y
        PROVE  4 * (k + u - i) <= z /\ -4 * (k + u - i) <= z
    BY <2>1
  <2>2. 100 * x \in Int /\ 100 * sum \in Int /\ 100 * (x + sum) = 100 * x + 100 * sum
    OBVIOUS
  <2> QED
    BY <1>2, <1>4, <1>5, <2>1, <2>2
<1> QED
  BY <1>1, <1>6 DEF Near

LEMMA StarsAreInt ==
  ASSUME NEW rv \in [ReviewIds -> Maybe(Review)]
  PROVE  \A v \in ReviewIds : StarsIn(rv)[v] \in Int
<1> SUFFICES ASSUME NEW v \in ReviewIds
             PROVE  StarsIn(rv)[v] \in Int
  OBVIOUS
<1>1. rv[v] # None => rv[v].stars \in 1..5
  BY DEF Maybe, Review
<1> QED
  BY <1>1 DEF StarsIn

LEMMA GivenIsFinite ==
  ASSUME NEW rv, NEW S \in SUBSET ReviewIds
  PROVE  IsFiniteSet(S) /\ Cardinality(S) \in Nat
  BY ReviewAssumption, FS_Subset, FS_CardinalityType

\* A rating depends on nothing but the reviews that it counts.
LEMMA SameMean ==
  ASSUME NEW rv, NEW rw, NEW S \in SUBSET ReviewIds, \A v \in S : rv[v] = rw[v], NEW doc
  PROVE  Mean(rv, S, doc) <=> Mean(rw, S, doc)
<1>1. \A v \in S : StarsIn(rv)[v] = StarsIn(rw)[v]
  BY DEF StarsIn
<1>2. SumOver(StarsIn(rv), S) = SumOver(StarsIn(rw), S)
  BY <1>1, GivenIsFinite, SumCongruence
<1> QED
  BY <1>2 DEF Mean

LEMMA SameRating ==
  ASSUME NEW rv, NEW rw, NEW t,
         \A v \in ReviewIds : rw[v] # rv[v] =>
           /\ rv[v] = None \/ rv[v].store # t
           /\ rw[v] = None \/ rw[v].store # t,
         NEW doc, NEW r, RatingOf(rv, t, doc, r)
  PROVE  RatingOf(rw, t, doc, r)
<1>1. Given(rw, t) = Given(rv, t) /\ \A v \in Given(rv, t) : rw[v] = rv[v]
  BY DEF Given
<1>2. \A S \in SUBSET Given(rv, t) : S \in SUBSET ReviewIds /\ \A v \in S : rw[v] = rv[v]
  BY <1>1 DEF Given
<1>3. ASSUME NEW S \in SUBSET Given(rv, t), NEW d, Mean(rv, S, d)
      PROVE  Mean(rw, S, d)
  BY <1>2, <1>3, SameMean
<1>4. OneEach(rw, t)
  BY <1>1 DEF RatingOf, OneEach
<1>5. r.pc = "read_rating" =>
       \E v \in Given(rw, t) : rw[v] = r.review /\ Mean(rw, Given(rw, t) \ {v}, doc)
  <2> SUFFICES ASSUME r.pc = "read_rating"
               PROVE \E v \in Given(rw, t) : rw[v] = r.review /\ Mean(rw, Given(rw, t) \ {v}, doc)
    OBVIOUS
  <2>1. PICK v \in Given(rv, t) : rv[v] = r.review /\ Mean(rv, Given(rv, t) \ {v}, doc)
    BY DEF RatingOf
  <2>2. Mean(rw, Given(rv, t) \ {v}, doc)
    BY <1>3, <2>1
  <2> QED
    BY <1>1, <2>1, <2>2
<1>6. \A d : Mean(rv, Given(rv, t), d) => Mean(rw, Given(rw, t), d)
  BY <1>1, <1>3
<1> QED
  BY <1>1, <1>4, <1>5, <1>6 DEF RatingOf

\* Slot s, about store k, takes a step; what it says of other stores stays.
LEMMA RatingFollows ==
  ASSUME IInv, RatingInv, IInv', NEW s \in Slots, NEW r, NEW k \in StoreIds, Holds(s, r),
         req[s].key \in {None, k}, r.key \in {None, k}, stores[k] # None,
         \A t \in Slots \ {s} : req[t].key = k => ~Alone(k)',
         \A t : Alone(t)' => Alone(t), dropped \subseteq dropped', stores'[k] # None,
         \A t \in StoreIds : t # k => stores'[t] = stores[t],
         \A v \in ReviewIds : reviews'[v] # reviews[v] =>
           reviews[v] = None /\ reviews'[v] # None /\ reviews'[v].store = k,
         Sound(k)' => RatingOf(reviews', k, stores'[k], r)
  PROVE  RatingInv'
<1>1. ASSUME NEW t \in StoreIds, (stores[t] # None /\ Sound(t))'
      PROVE  RatedWell(t)'
  <2>1. CASE t = k
    <3>1. RatingOf(reviews', k, stores'[k], r)
      BY <1>1, <2>1
    <3>2. \A u \in Slots \ {s} : req'[u].key # k
      BY <1>1, <2>1 DEF Holds, Sound
    <3>3. ASSUME NEW u \in Slots, req'[u].key = k
          PROVE  RatingOf(reviews', k, stores'[k], req'[u])
      BY <3>1, <3>2, <3>3 DEF Holds
    <3>4. ASSUME Quiet(k)'
          PROVE  RatingOf(reviews', k, stores'[k], Idle)
      <4>1. req'[s].key = None
        BY <3>4 DEF Quiet, Holds
      <4>2. Free(s)'
        BY <4>1, KeyAssumption DEF IInv, Base, CoroutinesInv, Keyed
      <4>3. r = Idle
        BY <4>2, SlotHolds DEF Holds, IInv, Base, TypeOK, Held, StoreHeld, ReviewHeld, Free, At, Idle
      <4> QED
        BY <3>1, <4>3
    <3> QED
      BY <2>1, <3>3, <3>4 DEF RatedWell
  <2>2. CASE t # k
    <3>1. stores'[t] = stores[t]
      BY <2>2
    <3>2. RatedWell(t)
      BY <1>1, <3>1 DEF RatingInv, Sound
    <3>3. \A v \in ReviewIds : reviews'[v] # reviews[v] =>
            /\ reviews[v] = None \/ reviews[v].store # t
            /\ reviews'[v] = None \/ reviews'[v].store # t
      BY <2>2
    <3>4. ASSUME NEW q, RatingOf(reviews, t, stores[t], q)
          PROVE  RatingOf(reviews', t, stores'[t], q)
      BY <3>1, <3>3, <3>4, SameRating
    <3>5. \A u \in Slots : (req[u].key = t <=> req'[u].key = t) /\ (req'[u].key = t => req'[u] = req[u])
      BY <2>2, KeyAssumption DEF Holds, StoreIds
    <3>6. Quiet(t)' => Quiet(t)
      BY <3>5 DEF Quiet
    <3> QED
      BY <3>2, <3>4, <3>5, <3>6 DEF RatedWell
  <2> QED
    BY <2>1, <2>2
<1>2. ReviewsHaveStores'
  <2> SUFFICES ASSUME NEW v \in ReviewIds, reviews'[v] # None
               PROVE  stores'[reviews'[v].store] # None
    BY DEF ReviewsHaveStores
  <2>1. stores'[k] # None /\ reviews'[v].store \in StoreIds
    BY DEF IInv, Base, TypeOK, Maybe, Review
  <2> QED
    BY <2>1 DEF RatingInv, ReviewsHaveStores
<1> QED
  BY <1>1, <1>2 DEF RatingInv

-----------------------------------------------------------------------------
(* One lemma per kind of step *)

\* A request goes on as r, or ends, having written neither store nor review.
LEMMA MoveIsRated ==
  ASSUME IInv, RatingInv, IInv', NEW s \in Slots, NEW r, ~Free(s), Holds(s, r),
         r.key \in {None, req[s].key}, UNCHANGED <<overlapped, dropped, stores, reviews>>,
         Sound(req[s].key) /\ RatingOf(reviews, req[s].key, stores[req[s].key], req[s]) =>
           RatingOf(reviews, req[s].key, stores[req[s].key], r)
  PROVE  RatingInv'
<1>1. PICK k : k = req[s].key
  OBVIOUS
<1>2. k \in StoreIds /\ stores[k] # None
  BY <1>1 DEF IInv, Base, Known, CoroutinesInv, Keyed, StoreIds
<1>3. \A t \in Slots \ {s} : req[t].key = k => ~Alone(k)'
  BY <1>1, AloneIsSole DEF IInv, Base, Alone
<1>4. Sound(k)' => RatingOf(reviews', k, stores'[k], r)
  <2>1. Sound(k)' => Sound(k)
    BY DEF Sound, Alone
  <2>2. Sound(k) => RatingOf(reviews, k, stores[k], req[s])
    BY <1>1, <1>2 DEF RatingInv, RatedWell
  <2> QED
    BY <1>1, <2>1, <2>2
<1> QED
  BY <1>1, <1>2, <1>3, <1>4, RatingFollows DEF Alone

LEMMA BeganIsRated ==
  ASSUME IInv, RatingInv, IInv', NEW s \in Slots, NEW r, Began(s, r)
  PROVE  RatingInv'
<1>1. PICK k : k = r.key
  OBVIOUS
<1>2. /\ Holds(s, r)
      /\ dropped' = dropped
      /\ \A t : Alone(t)' => Alone(t)
      /\ Alone(k)' => Quiet(k)
  BY <1>1, BeganIsBase DEF IInv
<1>3. /\ UNCHANGED <<stores, reviews>>
      /\ k \in StoreIds /\ stores[k] # None /\ req[s].key = None
  BY <1>1 DEF Began, BeganWithStore, BeganWithReview, StoreHeld, ReviewHeld, Documents,
              IInv, Base, CoroutinesInv, Keyed
<1>4. \A t \in Slots \ {s} : req[t].key = k => ~Alone(k)'
  BY <1>2 DEF Quiet
<1>5. ASSUME Sound(k)'
      PROVE  RatingOf(reviews', k, stores'[k], r)
  <2>1. Sound(k) /\ Quiet(k)
    BY <1>2, <1>5 DEF Sound
  <2>2. RatingOf(reviews, k, stores[k], Idle)
    BY <1>3, <2>1 DEF RatingInv, RatedWell
  <2>3. OneEach(reviews, k) /\ Mean(reviews, Given(reviews, k), stores[k])
    BY <2>2, IdleIsFree DEF RatingOf
  <2>4. CASE BeganWithStore(r)
    <3>1. r.store.count = stores[k].count /\ r.store.avg = stores[k].avg
      BY <1>1, <2>4 DEF BeganWithStore
    <3>2. Mean(reviews, Given(reviews, k), r.store)
      BY <2>3, <3>1 DEF Mean
    <3> QED
      BY <1>3, <2>3, <2>4, <3>2 DEF RatingOf, BeganWithStore
  <2>5. CASE BeganWithReview(r)
    <3>1. \A v \in Given(reviews, k) : reviews[v].order # r.review.order
      BY <1>1, <2>5 DEF BeganWithReview, Reviewed, ReviewsOf, Given
    <3> QED
      BY <1>3, <2>3, <2>5, <3>1 DEF RatingOf, BeganWithReview, HasStore
  <2> QED
    BY <2>4, <2>5 DEF Began
<1> QED
  BY <1>1, <1>2, <1>3, <1>4, <1>5, RatingFollows

LEMMA CrashIsRated ==
  ASSUME IInv, RatingInv, IInv', NEW s \in Slots, Fail(s)
  PROVE  RatingInv'
<1>1. PICK k : k = req[s].key
  OBVIOUS
<1>2. /\ ~Free(s) /\ dropped' = dropped \cup {k} /\ UNCHANGED <<overlapped, stores, reviews>>
      /\ req' = [req EXCEPT ![s] = Idle]
  BY <1>1 DEF Fail, Crash, Documents
<1>3. Holds(s, Idle)
  BY <1>2, EndKeeps DEF IInv, Base
<1>4. k \in StoreIds /\ stores[k] # None
  BY <1>1, <1>2 DEF IInv, Base, Known, CoroutinesInv, Keyed, StoreIds
<1>5. \A t \in Slots \ {s} : req[t].key = k => ~Alone(k)'
  BY <1>1, <1>2, AloneIsSole DEF IInv, Base, Alone
<1>6. ~Sound(k)'
  BY <1>2 DEF Sound
<1> QED
  BY <1>1, <1>2, <1>3, <1>4, <1>5, <1>6, IdleIsFree, RatingFollows DEF Alone

LEMMA SaveStoreIsRated ==
  ASSUME IInv, RatingInv, IInv', NEW s \in Slots, SaveStore(s)
  PROVE  RatingInv'
<1>1. PICK q, k : q = req[s] /\ k = q.key
  OBVIOUS
<1>2. /\ ~Free(s) /\ q.pc = "save" /\ UNCHANGED <<overlapped, dropped, reviews>>
      /\ req' = [req EXCEPT ![s] = Idle]
      /\ stores' = [stores EXCEPT ![k] = q.store]
  BY <1>1 DEF SaveStore, Finish, Goto, history, At, Free, Put
<1>3. Holds(s, Idle)
  BY <1>2, EndKeeps DEF IInv, Base
<1>4. k \in StoreIds /\ stores[k] # None /\ q.store # None
  BY <1>1, <1>2, SlotHolds, DocumentAssumption
  DEF IInv, Base, Known, CoroutinesInv, Keyed, StoreIds, HasStore, StoreHeld
<1>5. \A t \in Slots \ {s} : req[t].key = k => ~Alone(k)'
  BY <1>1, <1>2, AloneIsSole DEF IInv, Base, Alone
<1>6. stores'[k] = q.store /\ \A t \in StoreIds : t # k => stores'[t] = stores[t]
  BY <1>2, <1>4 DEF IInv, Base, TypeOK
<1>7. ASSUME Sound(k)'
      PROVE  RatingOf(reviews', k, stores'[k], Idle)
  <2>1. RatingOf(reviews, k, stores[k], q)
    BY <1>1, <1>2, <1>4, <1>7 DEF RatingInv, RatedWell, Sound, Alone
  <2>2. OneEach(reviews, k) /\ Mean(reviews, Given(reviews, k), q.store)
    BY <1>2, <2>1 DEF RatingOf, HasStore
  <2> QED
    BY <1>2, <1>6, <2>2, IdleIsFree DEF RatingOf, HasStore
<1> QED
  BY <1>1, <1>2, <1>3, <1>4, <1>5, <1>6, <1>7, IdleIsFree, RatingFollows DEF Alone

\* Steps before the save that keep the rating which was read.
LEMMA OnTheWayIsRated ==
  ASSUME IInv, RatingInv, IInv', NEW s \in Slots, NEW q, NEW r, q = req[s], Goto(s, r),
         UNCHANGED <<stores, reviews>>, q.pc \in HasStore \ {"save"},
         \/ r = Idle
         \/ /\ r.pc \in HasStore /\ r.key = q.key
            /\ r.store.count = q.store.count /\ r.store.avg = q.store.avg
  PROVE  RatingInv'
<1>1. /\ ~Free(s) /\ UNCHANGED <<overlapped, dropped>> /\ Holds(s, r)
      /\ r.key \in {None, q.key}
  BY GotoHolds, IdleIsFree DEF Goto, history, IInv, Free, At, HasStore
<1>2. ASSUME RatingOf(reviews, q.key, stores[q.key], q)
      PROVE  RatingOf(reviews, q.key, stores[q.key], r)
  <2>1. /\ OneEach(reviews, q.key)
        /\ Mean(reviews, Given(reviews, q.key), stores[q.key])
        /\ Mean(reviews, Given(reviews, q.key), q.store)
    BY <1>2 DEF RatingOf, HasStore
  <2>2. CASE r = Idle
    BY <2>1, <2>2, IdleIsFree DEF RatingOf, HasStore
  <2>3. CASE r.pc \in HasStore /\ r.store.count = q.store.count /\ r.store.avg = q.store.avg
    <3>1. Mean(reviews, Given(reviews, q.key), r.store)
      BY <2>1, <2>3 DEF Mean
    <3> QED
      BY <2>1, <2>3, <3>1 DEF RatingOf, HasStore
  <2> QED
    BY <2>2, <2>3
<1> QED
  BY <1>1, <1>2, MoveIsRated

LEMMA SubscribingIsRated ==
  ASSUME IInv, RatingInv, IInv', NEW s \in Slots,
         \/ FindSubscription(s) \/ FindActive(s) \/ InsertSubscription(s) \/ SaveSubscription(s)
  PROVE  RatingInv'
<1>1. PICK q : q = req[s]
  OBVIOUS
<1>2. q.pc \in HasStore \ {"save"} /\ UNCHANGED <<stores, reviews>>
  BY <1>1 DEF FindSubscription, FindActive, InsertSubscription, SaveSubscription, At, HasStore,
              Documents
<1>3. q \in StoreHeld
  BY <1>1, <1>2, SlotHolds DEF IInv, Base
<1>4. ASSUME NEW label \in HasStore, NEW rate, Reprice(s, label, rate)
      PROVE  RatingInv'
  <2>1. PICK r : r = Hold(label, q.key, [q.store EXCEPT !.rate = rate], q.admin)
    OBVIOUS
  <2>2. Goto(s, r)
    BY <1>1, <1>4, <2>1 DEF Reprice
  <2>3. /\ r.pc \in HasStore /\ r.key = q.key
        /\ r.store.count = q.store.count /\ r.store.avg = q.store.avg
    BY <1>3, <2>1 DEF Hold, StoreHeld, Store
  <2> QED
    BY <1>1, <1>2, <2>2, <2>3, OnTheWayIsRated
<1>5. ASSUME Finish(s)
      PROVE  RatingInv'
  BY <1>1, <1>2, <1>5, OnTheWayIsRated DEF Finish
<1>6. ASSUME Goto(s, [q EXCEPT !.pc = "save"])
      PROVE  RatingInv'
  <2>1. PICK r : r = [q EXCEPT !.pc = "save"]
    OBVIOUS
  <2>2. /\ r.pc \in HasStore /\ r.key = q.key
        /\ r.store.count = q.store.count /\ r.store.avg = q.store.avg
    BY <1>3, <2>1 DEF StoreHeld, HasStore
  <2> QED
    BY <1>1, <1>2, <1>6, <2>1, <2>2, OnTheWayIsRated
<1>7. CASE FindSubscription(s)
  BY <1>4, <1>7 DEF FindSubscription, HasStore
<1>8. CASE FindActive(s)
  BY <1>4, <1>5, <1>8 DEF FindActive, HasStore
<1>9. CASE InsertSubscription(s)
  BY <1>1, <1>5, <1>6, <1>9 DEF InsertSubscription
<1>10. CASE SaveSubscription(s)
  BY <1>1, <1>6, <1>10 DEF SaveSubscription
<1> QED
  BY <1>7, <1>8, <1>9, <1>10

\* The only request about the store had made sure that its order has no review.
LEMMA InsertReviewIsRated ==
  ASSUME IInv, RatingInv, IInv', NEW s \in Slots, InsertReview(s)
  PROVE  RatingInv'
<1>1. PICK q, r, k : q = req[s] /\ r = [q EXCEPT !.pc = "read_rating"] /\ k = q.key
  OBVIOUS
<1>2. q.pc = "insert_review" /\ ~Free(s) /\ Goto(s, r) /\ UNCHANGED stores
  BY <1>1 DEF InsertReview, At, Free
<1>3. PICK v \in ReviewIds : reviews[v] = None /\ reviews' = [reviews EXCEPT ![v] = q.review]
  BY <1>1 DEF InsertReview, Put
<1>4. q \in ReviewHeld /\ q.review.store = q.key
  BY <1>1, <1>2, SlotHolds DEF IInv, Base, HasReview, SlotGood, CountFits
<1>5. /\ r.pc = "read_rating" /\ r.key = k /\ r.review = q.review /\ r.review.store = k
      /\ r.review \in Review /\ r.review # None
  BY <1>1, <1>4, DocumentAssumption DEF ReviewHeld, HasReview
<1>6. /\ Holds(s, r) /\ UNCHANGED <<overlapped, dropped>>
  BY <1>2, GotoHolds DEF IInv, Goto, history
<1>7. k \in StoreIds /\ stores[k] # None
  BY <1>1, <1>2 DEF IInv, Base, Known, CoroutinesInv, Keyed, StoreIds
<1>8. \A t \in Slots \ {s} : req[t].key = k => ~Alone(k)'
  BY <1>1, <1>2, <1>6, AloneIsSole DEF IInv, Base, Alone
<1>9. reviews'[v] = r.review /\ \A w \in ReviewIds : w # v => reviews'[w] = reviews[w]
  BY <1>3, <1>5 DEF IInv, Base, TypeOK
<1>10. Given(reviews', k) = Given(reviews, k) \cup {v} /\ v \notin Given(reviews, k)
  BY <1>3, <1>5, <1>9 DEF Given
<1>11. ASSUME Sound(k)'
       PROVE  RatingOf(reviews', k, stores'[k], r)
  <2>1. RatingOf(reviews, k, stores[k], q)
    BY <1>1, <1>6, <1>7, <1>11 DEF RatingInv, RatedWell, Sound, Alone
  <2>2. /\ OneEach(reviews, k)
        /\ Mean(reviews, Given(reviews, k), stores[k])
        /\ \A w \in Given(reviews, k) : reviews[w].order # r.review.order
    BY <1>2, <1>5, <2>1 DEF RatingOf
  <2>3. \A w \in Given(reviews, k) : w \in ReviewIds /\ w # v
    BY <1>3 DEF Given
  <2>4. OneEach(reviews', k)
    BY <1>9, <1>10, <2>2, <2>3 DEF OneEach
  <2>5. Mean(reviews', Given(reviews, k), stores[k])
    <3>1. Given(reviews, k) \in SUBSET ReviewIds
      BY DEF Given
    <3> QED
      BY <1>9, <2>2, <2>3, <3>1, SameMean
  <2>6. Given(reviews', k) \ {v} = Given(reviews, k)
    BY <1>10
  <2>7. \E w \in Given(reviews', k) :
          reviews'[w] = r.review /\ Mean(reviews', Given(reviews', k) \ {w}, stores[k])
    BY <1>9, <1>10, <2>5, <2>6
  <2> QED
    BY <1>2, <1>5, <2>4, <2>7 DEF RatingOf, HasStore
<1> QED
  <2>1. \A w \in ReviewIds : reviews'[w] # reviews[w] =>
          reviews[w] = None /\ reviews'[w] # None /\ reviews'[w].store = k
    BY <1>3, <1>5, <1>9
  <2> QED
    BY <1>1, <1>2, <1>5, <1>6, <1>7, <1>8, <1>11, <2>1, RatingFollows DEF Alone

LEMMA ReadRatingIsRated ==
  ASSUME IInv, RatingInv, IInv', NEW s \in Slots, ReadRating(s)
  PROVE  RatingInv'
<1>1. PICK q, k, old : q = req[s] /\ k = q.key /\ old = stores[k]
  OBVIOUS
<1>2. q.pc = "read_rating" /\ ~Free(s) /\ UNCHANGED <<stores, reviews>>
  BY <1>1 DEF ReadRating, At, Free, Documents
<1>3. q \in ReviewHeld
  BY <1>1, <1>2, SlotHolds DEF IInv, Base, HasReview
<1>4. old \in Store /\ q.review.stars \in 1..5 /\ q.review # None
  BY <1>1, <1>2, <1>3, DocumentAssumption
  DEF IInv, Base, Known, TypeOK, Maybe, ReviewHeld, Review
<1>5. old.avg \in Nat /\ old.count \in Nat
  BY <1>4 DEF Store
<1>6. PICK x \in RecomputeRating(old.avg, old.count, q.review.stars) :
        Goto(s, Hold("save", k, [old EXCEPT !.avg = x.avg, !.count = x.count], FALSE))
  BY <1>1 DEF ReadRating
<1>7. PICK r : r = Hold("save", k, [old EXCEPT !.avg = x.avg, !.count = x.count], FALSE)
  OBVIOUS
<1>8. r.pc = "save" /\ r.key = k /\ r.store.avg = x.avg /\ r.store.count = x.count
  BY <1>4, <1>7 DEF Hold, Store
<1>9. /\ x.count = old.count + 1 /\ x.avg \in Nat
      /\ x.avg \in Nearest(old.avg * old.count + 100 * q.review.stars, old.count + 1)
  <2>1. x.avg \in Nat /\ x.count = old.count + 1
    BY <1>4, <1>5, RatingType
  <2>2. PICK a \in Nearest(old.avg * old.count + 100 * q.review.stars, old.count + 1) :
          x = [avg |-> a, count |-> old.count + 1]
    BY DEF RecomputeRating
  <2> QED
    BY <2>1, <2>2
<1>10. ASSUME Sound(k), RatingOf(reviews, k, old, q)
       PROVE  RatingOf(reviews, k, old, r)
  <2>1. PICK v \in Given(reviews, k) : reviews[v] = q.review /\ Mean(reviews, Given(reviews, k) \ {v}, old)
    BY <1>2, <1>10 DEF RatingOf
  <2>2. PICK S, T, sum, stars : /\ S = Given(reviews, k) /\ T = S \ {v}
                                /\ sum = SumOver(StarsIn(reviews), T) /\ stars = q.review.stars
    OBVIOUS
  <2>3. S \in SUBSET ReviewIds /\ T \in SUBSET ReviewIds
    BY <2>2 DEF Given
  <2>4. reviews \in [ReviewIds -> Maybe(Review)]
    BY DEF IInv, Base, TypeOK
  <2>5. IsFiniteSet(S) /\ IsFiniteSet(T) /\ \A w \in S : StarsIn(reviews)[w] \in Int
    BY <2>3, <2>4, GivenIsFinite, StarsAreInt
  <2>6. StarsIn(reviews)[v] = stars
    BY <1>4, <2>1, <2>2 DEF StarsIn, Given
  <2>7. SumOver(StarsIn(reviews), S) = stars + sum
    BY <2>1, <2>2, <2>5, <2>6, SumTakeOut
  <2>8. sum \in Int
    <3>1. \A w \in T : StarsIn(reviews)[w] \in Int
      BY <2>2, <2>5
    <3> QED
      BY <2>2, <2>5, <3>1, SumIsInt
  <2>9. Cardinality(T) = old.count /\ Cardinality(S) = old.count + 1
    <3>1. old.count = Cardinality(T)
      BY <2>1, <2>2 DEF Mean
    <3>2. Cardinality(T) = Cardinality(S) - 1
      BY <2>1, <2>2, <2>5, FS_RemoveElement
    <3>3. Cardinality(S) \in Nat
      BY <2>5, FS_CardinalityType
    <3> QED
      BY <3>1, <3>2, <3>3
  <2>10. Near(old.count, 100 * sum - old.count * old.avg)
    BY <2>1, <2>2, <2>9 DEF Mean
  <2>11. Near(old.count + 1, 100 * (stars + sum) - (old.count + 1) * x.avg)
    <3>1. stars \in Nat
      BY <1>4, <2>2
    <3>2. x.avg \in Int /\ x.avg \in Nearest(old.avg * old.count + 100 * stars, old.count + 1)
      BY <1>9, <2>2
    <3> HIDE DEF Nearest, Near
    <3> QED
      BY <1>5, <2>8, <2>10, <3>1, <3>2, Rounding
  <2>12. Mean(reviews, S, r.store)
    BY <1>8, <1>9, <2>7, <2>9, <2>11 DEF Mean
  <2>13. OneEach(reviews, k)
    BY <1>10 DEF RatingOf
  <2> QED
    BY <1>8, <2>2, <2>12, <2>13 DEF RatingOf
<1>11. Holds(s, r) /\ UNCHANGED <<overlapped, dropped>>
  BY <1>6, <1>7, GotoHolds DEF IInv, Goto, history
<1> QED
  BY <1>1, <1>2, <1>8, <1>10, <1>11, MoveIsRated

LEMMA CreateStoreIsRated ==
  ASSUME IInv, RatingInv, IInv', NEW k \in StoreIds, CreateStore(k)
  PROVE  RatingInv'
<1>1. /\ stores[k] = None /\ stores' = [stores EXCEPT ![k] = NewStore]
      /\ UNCHANGED <<reviews, req, overlapped, dropped>>
  BY DEF CreateStore, Put, history
<1>2. /\ stores'[k] = NewStore /\ \A t \in StoreIds : t # k => stores'[t] = stores[t]
      /\ NewStore # None
  BY <1>1, DocumentAssumption DEF IInv, Base, TypeOK, NewStore, Store, StoreStatus
<1>3. Given(reviews, k) = {}
  BY <1>1 DEF Given, RatingInv, ReviewsHaveStores
<1>4. Mean(reviews, {}, NewStore)
  BY FS_EmptySet, SumOfNone DEF Mean, Near, NewStore
<1>5. RatingOf(reviews, k, NewStore, Idle)
  BY <1>3, <1>4, IdleIsFree DEF RatingOf, OneEach, HasStore
<1>6. \A s \in Slots : req[s].key # k
  BY <1>1, KeyAssumption DEF IInv, Base, Known, CoroutinesInv, Keyed, StoreIds
<1>7. ASSUME NEW t \in StoreIds, (stores[t] # None /\ Sound(t))'
      PROVE  RatedWell(t)'
  <2>1. CASE t = k
    BY <1>1, <1>2, <1>5, <1>6, <2>1 DEF RatedWell
  <2>2. CASE t # k
    BY <1>1, <1>2, <1>7, <2>2 DEF RatingInv, RatedWell, Sound, Alone, Quiet
  <2> QED
    BY <2>1, <2>2
<1>8. ReviewsHaveStores'
  <2> SUFFICES ASSUME NEW v \in ReviewIds, reviews[v] # None
               PROVE  stores'[reviews[v].store] # None
    BY <1>1 DEF ReviewsHaveStores
  <2>1. reviews[v].store \in StoreIds /\ stores[reviews[v].store] # None
    BY DEF RatingInv, ReviewsHaveStores, IInv, Base, TypeOK, Maybe, Review
  <2> QED
    BY <1>2, <2>1
<1> QED
  BY <1>7, <1>8 DEF RatingInv

-----------------------------------------------------------------------------
LEMMA InitIsRated == Init => RatingInv
  BY DEF Init, RatingInv, ReviewsHaveStores

LEMMA NextIsRated == IInv /\ RatingInv /\ [Next]_vars /\ IInv' => RatingInv'
<1> SUFFICES ASSUME IInv, RatingInv, [Next]_vars, IInv'
             PROVE  RatingInv'
  OBVIOUS
<1>1. CASE UNCHANGED vars
  BY <1>1 DEF vars, history, RatingInv, ReviewsHaveStores, RatedWell, Sound, Alone, Quiet
<1>2. ASSUME NEW t \in StoreIds, CreateStore(t)
      PROVE  RatingInv'
  BY <1>2, CreateStoreIsRated
<1>3. ASSUME NEW s \in Slots, Begin(s)
      PROVE  RatingInv'
  BY <1>3, BeginBegan, BeganIsRated DEF IInv
<1>4. ASSUME NEW s \in Slots, Serve(s)
      PROVE  RatingInv'
  BY <1>4, SaveStoreIsRated, SubscribingIsRated, InsertReviewIsRated, ReadRatingIsRated DEF Serve
<1>5. ASSUME NEW s \in Slots, Fail(s)
      PROVE  RatingInv'
  BY <1>5, CrashIsRated
<1> QED
  BY <1>1, <1>2, <1>3, <1>4, <1>5 DEF Next

LEMMA StarsAddUp ==
  ASSUME NEW S, S \subseteq ReviewIds, \A v \in S : reviews[v] # None
  PROVE  MapThenSumSet(LAMBDA v : reviews[v].stars, S) = SumOver(StarsIn(reviews), S)
<1> DEFINE g == StarsIn(reviews)
           L(h) == h = [T \in SUBSET S |->
                          IF T = {} THEN 0 ELSE reviews[Pick(T)].stars + h[T \ {Pick(T)}]]
<1>1. MapThenSumSet(LAMBDA v : reviews[v].stars, S) = (CHOOSE h : L(h))[S]
  BY Zenon DEF MapThenSumSet, MapThenFoldSet, Pick
<1>2. ASSUME NEW h PROVE L(h) <=> Sums(g, h, S)
  <2>1. ASSUME NEW T \in SUBSET S
        PROVE  (IF T = {} THEN 0 ELSE reviews[Pick(T)].stars + h[T \ {Pick(T)}]) = Adding(g, h, T)
    BY PickIsElement DEF Adding, StarsIn
  <2> QED
    BY <2>1 DEF Sums
<1> HIDE DEF L
<1>3. (CHOOSE h : L(h)) = (CHOOSE h : Sums(g, h, S))
  BY <1>2, Zenon
<1> QED
  BY <1>1, <1>3, SumIsChosen

\* Reviews of different orders are as many as their orders.
LEMMA AsManyOrders ==
  ASSUME NEW t, OneEach(reviews, t)
  PROVE  Cardinality(ReviewsOf(t)) = Cardinality({reviews[v].order : v \in ReviewsOf(t)})
<1> DEFINE S == ReviewsOf(t)
           T == {reviews[v].order : v \in S}
           f == [v \in S |-> reviews[v].order]
<1>1. IsFiniteSet(S)
  BY ReviewAssumption, FS_Subset DEF ReviewsOf
<1>2. f \in Bijection(S, T)
  <2>1. f \in Injection(S, T)
    BY DEF Injection, IsInjective, OneEach, Given, ReviewsOf
  <2>2. f \in Surjection(S, T)
    BY DEF Surjection
  <2> QED
    BY <2>1, <2>2 DEF Bijection
<1>3. ExistsBijection(S, T)
  BY <1>2 DEF ExistsBijection
<1> HIDE DEF S, T
<1> QED
  BY <1>1, <1>3, FS_Bijection DEF S, T

\* No mix of reviews, edits, subscriptions and suspensions that follow one
\* another makes a store's rating lose, repeat or misweigh a review, however
\* many there are (_apply_rating, recompute_rating).
THEOREM RatingsAreMeans == Spec => []RatingIsTheMean
<1>1. ASSUME IInv, RatingInv
      PROVE  RatingIsTheMean
  <2> SUFFICES ASSUME NEW t \in StoreIds, stores[t] # None, Alone(t), Quiet(t), t \notin dropped,
                      NEW n, n = Cardinality(ReviewsOf(t)),
                      NEW drift, drift = 100 * MapThenSumSet(LAMBDA v : reviews[v].stars, ReviewsOf(t))
                                           - n * stores[t].avg
               PROVE  /\ stores[t].count = n
                      /\ n = Cardinality({reviews[v].order : v \in ReviewsOf(t)})
                      /\ 4 * drift <= n * (n + 1) /\ -4 * drift <= n * (n + 1)
    BY Zenon DEF RatingIsTheMean
  <2>1. OneEach(reviews, t) /\ Mean(reviews, Given(reviews, t), stores[t])
    BY <1>1, IdleIsFree DEF RatingInv, RatedWell, RatingOf, Sound
  <2>2. Given(reviews, t) = ReviewsOf(t)
    BY DEF Given, ReviewsOf
  <2>3. drift = 100 * SumOver(StarsIn(reviews), ReviewsOf(t)) - n * stores[t].avg
    BY StarsAddUp, Zenon DEF ReviewsOf
  <2>4. stores[t].count = n /\ Near(n, drift)
    BY <2>1, <2>2, <2>3 DEF Mean
  <2> QED
    BY <2>1, <2>4, AsManyOrders DEF Near
<1>2. Init => IInv /\ RatingInv
  BY InitIsGood, InitIsRated
<1>3. IInv /\ RatingInv /\ [Next]_vars => IInv' /\ RatingInv'
  BY NextIsGood, NextIsRated
<1> QED
  BY <1>1, <1>2, <1>3, PTL DEF Spec
=============================================================================
