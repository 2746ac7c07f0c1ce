------------------------------- MODULE Stores -------------------------------
(***************************************************************************)
(* The store document and everybody who writes it: its owner and an admin  *)
(* (stores/service.py), the subscription that lowers its commission        *)
(* (subscriptions/service.py) and the reviews that move its rating         *)
(* (reviews/service.py).  Each reads the whole document, changes its own   *)
(* fields and saves the whole document; subscriptions and reviews write a  *)
(* document of their own first.                                            *)
(***************************************************************************)
EXTENDS Coroutines, Pricing, FiniteSets

CONSTANTS
  Orders,       \* orders delivered to their clients, who may review them
  ReviewIds,    \* bound: how many reviews are ever inserted
  Stars         \* bound: the rating that each order's client gives

ASSUME ReviewAssumption == Stars \in [Orders -> 1..5] /\ IsFiniteSet(ReviewIds)
ASSUME SlotsAssumption == IsFiniteSet(Slots)

StoreIds == Keys

VARIABLES
  stores,           \* id -> document or None
  subscriptions,    \* store -> status of its subscription or None (unique index)
  reviews           \* id -> document or None

vars == <<stores, subscriptions, reviews, req, history>>

StoreStatus == {"open", "closed", "suspended"}

\* rate is the store's commission_rate: None for the global default.
Store == [status : StoreStatus, rate : {None, "premium"}, avg : Nat, count : Nat]

\* Nothing sets past_due.
SubscriptionStatus == {"active", "past_due", "cancelled"}

Review == [store : StoreIds, order : Orders, stars : 1..5]

ASSUME DocumentAssumption ==
  None \notin Store \cup Review \cup SubscriptionStatus \cup {"premium"}

NewStore == [status |-> "closed", rate |-> None, avg |-> 0, count |-> 0]

ReviewsOf(t) == {v \in ReviewIds : reviews[v] # None /\ reviews[v].store = t}

Init ==
  /\ CoroutinesInit
  /\ stores = [t \in StoreIds |-> None]
  /\ subscriptions = [t \in StoreIds |-> None]
  /\ reviews = [v \in ReviewIds |-> None]

Documents == <<stores, subscriptions, reviews>>

\* A coroutine that has read the store; admin tells what the caller may do.
Hold(label, t, store, admin) == [pc |-> label, key |-> t, store |-> store, admin |-> admin]

-----------------------------------------------------------------------------
(* Owner and admin *)

CreateStore(t) ==
  /\ stores[t] = None
  /\ stores' = Put(stores, t, NewStore)
  /\ UNCHANGED <<subscriptions, reviews, req, history>>

\* The fields that an update changes play no part here; the rest it writes back.
\* Where an admin may do what the owner may, the caller is called the owner.
UpdateStore(s, t) ==
  /\ Free(s)
  /\ stores[t] # None
  /\ Start(s, Hold("save", t, stores[t], FALSE))
  /\ UNCHANGED Documents

\* Mutant: the owner may always choose between open and closed.
InvolvesNewSuspension(t, status) == status = "suspended"

InvolvesSuspension(t, status) == "suspended" \in {status, stores[t].status}

SetStatus(s, t, status, admin) ==
  /\ Free(s)
  /\ stores[t] # None
  /\ InvolvesSuspension(t, status) => admin
  /\ Start(s, Hold("save", t, [stores[t] EXCEPT !.status = status], admin))
  /\ UNCHANGED Documents

SaveStore(s) ==
  /\ At(s, "save")
  /\ stores' = Put(stores, req[s].key, req[s].store)
  /\ Finish(s)
  /\ UNCHANGED <<subscriptions, reviews>>

-----------------------------------------------------------------------------
(* Subscriptions.  The store is read first and saved last. *)

Subscribe(s, t) ==
  /\ Free(s)
  /\ stores[t] # None
  /\ Start(s, Hold("subscribe", t, stores[t], FALSE))
  /\ UNCHANGED Documents

CancelSubscription(s, t) ==
  /\ Free(s)
  /\ stores[t] # None
  /\ Start(s, Hold("cancel", t, stores[t], FALSE))
  /\ UNCHANGED Documents

\* The coroutine goes on at label with the store's commission_rate changed.
Reprice(s, label, rate) ==
  Goto(s, Hold(label, req[s].key, [req[s].store EXCEPT !.rate = rate], req[s].admin))

FindSubscription(s) ==
  /\ At(s, "subscribe")
  /\ Reprice(s, IF subscriptions[req[s].key] = None THEN "insert_sub" ELSE "activate", "premium")
  /\ UNCHANGED Documents

\* Mutant: a cancelled store keeps its rate until the next order.
FindActiveKeepRate(s) ==
  /\ At(s, "cancel")
  /\ IF subscriptions[req[s].key] = "active" THEN Reprice(s, "deactivate", req[s].store.rate)
                                             ELSE Finish(s)
  /\ UNCHANGED Documents

FindActive(s) ==
  /\ At(s, "cancel")
  /\ IF subscriptions[req[s].key] = "active" THEN Reprice(s, "deactivate", None) ELSE Finish(s)
  /\ UNCHANGED Documents

\* The unique index refuses a second document: the request ends with an error.
InsertSubscription(s) ==
  /\ At(s, "insert_sub")
  /\ IF subscriptions[req[s].key] = None
       THEN /\ subscriptions' = Put(subscriptions, req[s].key, "active")
            /\ Goto(s, [req[s] EXCEPT !.pc = "save"])
       ELSE Finish(s) /\ UNCHANGED subscriptions
  /\ UNCHANGED <<stores, reviews>>

SaveSubscription(s) ==
  /\ \E label \in {"activate", "deactivate"} :
       /\ At(s, label)
       /\ subscriptions' = Put(subscriptions, req[s].key,
                               IF label = "activate" THEN "active" ELSE "cancelled")
  /\ Goto(s, [req[s] EXCEPT !.pc = "save"])
  /\ UNCHANGED <<stores, reviews>>

-----------------------------------------------------------------------------
(* Reviews of a store by the client of one of its delivered orders.  The    *)
(* courier's profile, the other target, is rated by the same statements.    *)

Reviewed(t, o) == \E v \in ReviewsOf(t) : reviews[v].order = o

CreateReview(s, t, o) ==
  /\ Free(s)
  /\ stores[t] # None
  /\ ~Reviewed(t, o)
  /\ Start(s, [pc |-> "insert_review", key |-> t,
               review |-> [store |-> t, order |-> o, stars |-> Stars[o]]])
  /\ UNCHANGED Documents

InsertReview(s) ==
  /\ At(s, "insert_review")
  /\ \E v \in ReviewIds :
       /\ reviews[v] = None
       /\ reviews' = Put(reviews, v, req[s].review)
  /\ Goto(s, [req[s] EXCEPT !.pc = "read_rating"])
  /\ UNCHANGED <<stores, subscriptions>>

\* Mutant: the rating is counted before it is known to be stored, and after.
ReadRatingTwice(s) ==
  /\ At(s, "read_rating")
  /\ LET t == req[s].key
     IN  \E r \in RecomputeRating(stores[t].avg, stores[t].count, req[s].review.stars) :
           Goto(s, Hold("save", t, [stores[t] EXCEPT !.avg = r.avg, !.count = r.count + 1], FALSE))
  /\ UNCHANGED Documents

ReadRating(s) ==
  /\ At(s, "read_rating")
  /\ LET t == req[s].key
     IN  \E r \in RecomputeRating(stores[t].avg, stores[t].count, req[s].review.stars) :
           Goto(s, Hold("save", t, [stores[t] EXCEPT !.avg = r.avg, !.count = r.count], FALSE))
  /\ UNCHANGED Documents

-----------------------------------------------------------------------------
Begin(s) ==
  \E t \in StoreIds :
    \/ UpdateStore(s, t) \/ Subscribe(s, t) \/ CancelSubscription(s, t)
    \/ \E status \in StoreStatus, admin \in BOOLEAN : SetStatus(s, t, status, admin)
    \/ \E o \in Orders : CreateReview(s, t, o)

Serve(s) ==
  \/ SaveStore(s)
  \/ FindSubscription(s) \/ FindActive(s) \/ InsertSubscription(s) \/ SaveSubscription(s)
  \/ InsertReview(s) \/ ReadRating(s)

Fail(s) == Crash(s) /\ UNCHANGED Documents

Next ==
  \/ \E t \in StoreIds : CreateStore(t)
  \/ \E s \in Slots : Begin(s) \/ Serve(s) \/ Fail(s)

Spec == Init /\ [][Next]_vars

-----------------------------------------------------------------------------
(* Properties, under overlapping requests and crashes *)

Held ==
  {Idle} \cup
  [pc : {"save", "subscribe", "cancel", "insert_sub", "activate", "deactivate"},
   key : StoreIds, store : Store, admin : BOOLEAN] \cup
  [pc : {"insert_review", "read_rating"}, key : StoreIds, review : Review]

TypeOK ==
  /\ stores \in [StoreIds -> Maybe(Store)]
  /\ subscriptions \in [StoreIds -> Maybe(SubscriptionStatus)]
  /\ reviews \in [ReviewIds -> Maybe(Review)]
  /\ req \in [Slots -> Held]
  /\ overlapped \subseteq StoreIds
  /\ dropped \subseteq StoreIds

\* "Suspension (and lifting it) is an admin-only moderation action"
\* (set_status): of all who save a suspended store, its owner's edits,
\* subscriptions and the reviews of its clients included, only an admin lifts
\* the suspension, as long as no two of them work on it at the same time.
Suspended(t) == stores[t] # None /\ stores[t].status = "suspended"
SuspensionHolds ==
  [][\A t \in StoreIds :
       (Suspended(t) /\ ~Suspended(t)' /\ Alone(t)) =>
          \E s \in Slots : At(s, "save") /\ req[s].key = t /\ req[s].admin]_vars

\* The commission a store pays is the one its subscription buys, after every
\* sequence of subscribing, cancelling and subscribing again among the other
\* writers of the document, unless two overlapped or one died half-way.
RateFitsSubscription ==
  \A t \in StoreIds :
    (stores[t] # None /\ Alone(t) /\ Quiet(t) /\ t \notin dropped) =>
      (stores[t].rate = "premium" <=> subscriptions[t] = "active")

\* No rating counts more reviews than there are, however the copies of the
\* document overwrite each other (_apply_rating).
RatingIsNotInflated ==
  \A t \in StoreIds : stores[t] # None => stores[t].count <= Cardinality(ReviewsOf(t))

\* Left alone, a store's rating counts one review of each order, and all of
\* them, although no unique index refuses a second one; its average, rounded
\* again with each of them, is within (n + 1) / 4 hundredths of their mean.
RatingIsTheMean ==
  \A t \in StoreIds :
    (stores[t] # None /\ Alone(t) /\ Quiet(t) /\ t \notin dropped) =>
      LET n == Cardinality(ReviewsOf(t))
          drift == 100 * MapThenSumSet(LAMBDA v : reviews[v].stars, ReviewsOf(t))
                     - n * stores[t].avg
      IN  /\ stores[t].count = n
          /\ n = Cardinality({reviews[v].order : v \in ReviewsOf(t)})
          /\ 4 * drift <= n * (n + 1) /\ -4 * drift <= n * (n + 1)
=============================================================================
