# BarriApp: a TLA+ model of the backend

BarriApp is a FastAPI backend over MongoDB (Beanie documents) and Redis. Shops
sell, customers order and pay in cash or through Wompi, couriers
("collaborators") deliver and run errands, everybody reviews everybody, and a
language model answers questions. This directory models the parts of it that keep
state, checks them with TLC and proves about them with TLAPS.

**Why it is worth modelling.** Every handler is an `async` function that reads
whole documents, decides in memory and saves whole documents back, one awaited
database call after another. There is no transaction, no lock, no conditional
update, and no unique index on payments, deliveries or reviews. Any two requests can
interleave at every `await`, and a request can die between two of them. The
tests of the repository run one request at a time.

## 1. Inventory

| Component | State | Operations | Talks to |
|---|---|---|---|
| Requests (`main.py`, asyncio) | coroutines suspended at database calls | begin, resume, die | everything |
| Orders (`orders/`) | `orders` | create, accept, advance, cancel | takes and returns stock of the catalogue |
| Catalogue (`catalog/`) | `products`, `categories` | create, update, delete product; create category | stock shared with orders |
| Payments (`payments/`) | `payments`, `ledger_entries` | intent, Wompi webhook, settle order, settle errand | saves the order; called by deliveries and errands |
| Collaborators (`collaborators/`) | `collaborator_profiles` | become, verify, set availability, match | profile also saved by deliveries and reviews |
| Delivery (`delivery/service.py`) | `deliveries` | assign, advance, location, proof | saves order and profile, settles cash, publishes |
| Live tracking (`delivery/ws.py`) | Redis channel, sockets | snapshot, subscribe, forward | publications of deliveries |
| Errands (`errands/`) | `errands` | create, accept, advance, cancel | settles through payments |
| Settlements (`settlements/`) | `settlements` | generate, mark paid | marks ledger entries |
| Stores, subscriptions, reviews | `stores`, `subscriptions`, `reviews` | create, update, status, subscribe, cancel, review | all save the store document; reviews save the courier's profile too |
| Accounts (`auth/`, `users/`, `admin/`, device tokens) | `users`, codes in Redis, `platform_config` | register, verify, login, refresh, social login, profile, suspend, update | every request starts by reading the user |
| Rate limit (`core/ratelimit.py`) | Redis counters | hit | login, social login and AI chat |
| Assistant (`ai/`) | `ai_conversations`, `ai_knowledge` | chat with tools and a fallback, ingest | reads orders and stores |
| Audit, notifications, configuration, logging | append-only logs and input/output | | called by most handlers |

What makes each correct:

* **Orders**: statuses only move along the life cycle; no piece is lost between the
  shelf and the orders, or sold twice; a cancelled order never ships.
* **Payments**: an order is paid and booked once, nothing is booked before the
  money is there, nothing approved becomes unapproved.
* **Collaborators and delivery**: an order has one courier; a delivery only
  moves forward and its order follows it; a busy courier has a job and gets
  free; a courier who is shown as available can be found.
* **Errands**: one courier per errand, settled once when it is completed.
* **Settlements**: a commission is billed in exactly one statement.
* **Stores**: a suspension is lifted by an admin only; the commission rate fits
  the subscription; ratings count every review once.
* **Accounts**: a code is used once and activates; a suspension survives; the
  windows of the rate limiter end.
* **Live tracking**: a client misses no update between snapshot and stream.
* **Assistant**: nobody reads of another client's orders, an answer reports what
  is so, no answer is lost, a chat ends.

`PROJECT.json` lists what can go wrong, line by line, under `hazards`.

## 2. Modules

    Documents ── Requests ─┬─ Orders ── Payments ─┐
                           └─ Collaborators ──────┴─ Deliveries ── Marketplace
    Marketplace ── MarketplaceInvariant ── MarketplaceProofs
    Marketplace ── DocumentedBehaviour
    Marketplace ──(INSTANCE)── OrderContract

    Coroutines ─┬─ Errands ──(INSTANCE)── ErrandPromise
                ├─ Settlements ── Pricing
                ├─ Stores ── Pricing
                ├─ RateLimit ── Accounts
                ├─ LiveTracking
                └─ Assistant

The marketplace is the group of collections that call each other: one request
writes to several of them, so they are composed in one state machine. The
components below `Coroutines` have documents of their own and one module each.

| Module | Models | Code |
|---|---|---|
| `Documents` | documents, and the tables of the pure logic modules | `*/models.py`, `orders/logic.py`, `delivery/logic.py`, `payments/logic.py` |
| `Requests` | requests in progress, crash | asyncio, FastAPI |
| `Orders` | orders and the stock of products | `orders/service.py`, `catalog/service.py` |
| `Payments` | intents, webhook, settlement, ledger | `payments/service.py` |
| `Collaborators` | couriers and matching | `collaborators/service.py`, `collaborators/repository.py` |
| `Deliveries` | assignment, advance, location, proof | `delivery/service.py` |
| `Marketplace` | all of them together; the properties | |
| `OrderContract` | what the marketplace promises of an order, each operation in one step | |
| `DocumentedBehaviour` | what the documents of the repository say and the code does not keep | |
| `MarketplaceInvariant`, `MarketplaceProofs` | the inductive invariants of overlapping, isolated and serial requests; theorems | |
| `MCMarketplace` | instances for TLC | |
| `Coroutines`, `CoroutineProofs` | slots for requests, overlaps and crashes as history; lemmas about them and about sums | asyncio, FastAPI |
| `Errands`, `ErrandProofs` | errands and their settlement | `errands/service.py`, `payments/service.py` |
| `ErrandPromise` | what an errand promises, each operation in one step | |
| `Pricing` | the arithmetic of amounts, commissions and ratings | `*/logic.py` |
| `Settlements`, `SettlementProofs` | statements over the commissions of a store | `settlements/service.py` |
| `Stores`, `MCStores`, `StoreProofs` | the store document and the four services that save it | `stores/`, `subscriptions/`, `reviews/service.py` |
| `RateLimit` | the fixed window | `core/ratelimit.py` |
| `Accounts`, `AccountProofs` | accounts, one-time codes, sessions, moderation, behind the limiter | `auth/`, `users/`, `admin/`, `notifications/service.py`, `core/deps.py` |
| `LiveTracking`, `MCLiveTracking`, `LiveTrackingProofs` | publications, channel, connections | `delivery/ws.py`, `delivery/service.py` |
| `Assistant`, `MCAssistant`, `AssistantProofs` | the agent's loop and the conversations | `ai/service.py`, `ai/llm.py`, `ai/tools.py` |

### How the code became actions

* **Collections** are functions from ids to documents, `None` where there is no
  document. `save()`, `insert()` and `delete()` replace a whole document
  (`SaveInto`, `Put`). Beanie's `save()` upserts, so a saved document that was deleted
  comes back.
* **A request** occupies a slot: `pc` names the database call it makes next, the
  other fields are the handler's local variables. An action is what a handler
  does from one `await` to the next: it reads or writes one document, and
  tests what it read. `Begin(s)` takes the first read together with the
  guards, `Serve(s)` makes every further call, `Fail(s)` is a crash or an
  exception of a database call.
* **A refused request** that has written nothing is not begun. Only the
  refusals that come later (a product that cannot be sold, no courier found, an
  order already assigned, a code that is gone, a conversation of somebody else)
  free the slot again. Store lookup and ownership, the store's opening, the
  minimum order and the webhook's signature are refusals of this kind and left out.
* **Handlers that call each other** share labels: the last advance of a cash
  delivery goes `save_delivery`, `load_synced`, `save_synced`, `check_payment`,
  `insert_payment`, `save_paid`, `ledger`, `free`, `save_profile`; the webhook
  joins it at `save_paid`. `assign_order` ends in `save_profile` as well.
* **Overlaps and crashes.** In the components on `Coroutines` one run covers all
  environments: the history variables `overlapped` and `dropped` collect the
  documents on which two requests ever overlapped, or a request ever stopped
  half-way. A property that needs calm says so (`Alone(k)`, `k \notin dropped`), and
  speaks of every document that had it.
* **Data** are reduced to what guards and properties tell apart: an order has a
  delivery fee or not, a courier a known position or not, a verification is
  approved or not, a route is not kept, the radius of the search is an open
  choice. `refunded` payments are never written by the code and do not occur.
  A product edit changes the stock or the availability. An account's fields are
  whether it has a password, a linked identity, its role's fields. An answer of
  the assistant is the set of orders it speaks of, each with the status it was read in.
* **Rounding.** Prices are whole pesos and `Pricing` rounds as Python rounds a float
  quotient; where a tie may fall on either side, both are possible.
* The **ledger** of the marketplace counts copies of an entry, so that writing
  twice shows.

### Component by component

* **Errands.** `accept`, `advance_status` and `cancel` read, test and save; the
  completion goes on with `check_payment`, `insert_payment`, `earn` and `save_paid`
  in the same coroutine.
* **Settlements.** Orders are delivered at prices TLC chooses and book their
  commission (`BookCommission`, as `_ledger_for_order` does). A period is an interval of booking
  positions. `covers` remembers what a statement added up, which the code does not.
  Marking saves the entry that was read, but nothing else of an entry ever
  changes, so `MarkEntry` only sets `settled`. The code also leaves sellers' cash
  earnings unsettled for ever and never uses `overdue`.
* **Stores.** Owner, admin, subscription and review each hold a copy of the
  store document; subscriptions and reviews write a document of their own before
  they read or save it. An order is reviewed once by its client, with the stars of `Stars`.
* **Accounts.** A person is a key: the unique indexes on phone and e-mail make a
  second insert fail. A code is live, used or expired. `moderated` remembers that
  an admin decided the status. The limiter (`Hit`, `Expire`, and Redis not
  answering either) stands before login and social login; `window.lost` remembers
  that the EXPIRE of this window never reached Redis.
* **Live tracking.** A courier's request saves the delivery and then publishes
  it. A connection reads the snapshot, sends SUBSCRIBE, sends the snapshot and
  forwards; Redis applies the subscription at some later moment; a client may
  leave at any time.
* **Assistant.** The model answers, calls up to `MaxBlocks` tools at once, or
  fails, at every call; a tool may be asked for any order. Then the conversation is
  loaded or inserted, and saved. Meanwhile `PlaceOrder` inserts orders and `ChangeOrder`
  saves them with any status: the handlers save whole documents they read earlier,
  so an order may also go back, and nothing is assumed of the order in which it goes.
  `since` remembers, for each chat, what was true of the orders since its attempt
  to answer began. Which knowledge is quoted and how the answer is worded are left out.

### Bounds

| Constant | Bounds |
|---|---|
| `Slots` | requests in progress together: 1 (nothing overlaps) or 2 (every interleaving of two; each race found needs two); 3 for errands, where two acceptances meet a cancellation |
| `OrderIds`, `ProductIds`, `CourierIds` | one order for races about one order; two where orders compete for stock, a courier or payments |
| `PaymentIds`, `DeliveryIds` | two, so that one too many is possible; three for errands, one for each request in progress |
| `Carts`, `InitStock` | carts of one or two pieces against a stock of two: one order can use it up and two can exceed it; in `Contract` a cart that names one product twice, around another whose stock is not counted, against a stock of three: each of its two lines passes the check, and so does a second order |
| `Ops` | the operations clients invoke in a run |
| `MaxStock` | no cancellation begins while a stock, on sale or held by a request, is above it: a cancellation that crashes and is repeated would otherwise grow the stock for ever |
| `MaxBatches` | webhooks are not begun once an order was booked so often |
| `NewStocks` | stocks a seller's edit may set |
| `Keys` | one document of the component: its requests share nothing with those about another (the limiter is per address, and one address is enough to fill it) |
| `StatementIds`, `ItemTotals`, `Rates`, `BaseFees`, `FreeOver` | two statements over two orders, one on each side of free delivery, one of which has a commission that is rounded at a tie |
| `ReviewIds`, `Stars` | three reviews that disagree, so that a rounding is rounded again |
| `Limit` | two logins in a window, so that a third is refused |
| `LastStatus`, `MaxPoints` | how far a delivery goes: two steps, so that something may lie between |
| `Status` | the statuses of the assistant's orders: two, so that an order may go forward and back |
| `MaxCalls`, `MaxBlocks`, `MaxExchanges` | two answers of the model (four in the code), two tools in one, two exchanges |

Ids are interchangeable and a symmetry set is used except with liveness.

## 3. What is checked

| Run | Environment | Shows |
|---|---|---|
| `Contract` | marketplace, serial, 2 orders of a cart that names a product twice, a courier who goes on- and offline, fair | `StockConserved` of every step, `PaidInFull`, `BusyCourierHasJob`; the handlers implement `OrderContract` (`KeepsContract`), fairness included; `DeliveryCompletes`: order delivered, cash booked, courier free |
| `IsolatedCrash` | marketplace; requests about one order do not overlap, those about couriers do; crashes | `AtMostOneDelivery`, `PaidOnce`, `OrderFollowsDelivery`, `DeliveryForwardOnly` |
| `OverlapTrade` | marketplace, two overlapping requests that pay, cancel, prepare, assign or deliver one order | `Inv`, the inductive invariant of the proofs; `LedgerIsBacked`, `SellerAfterPlatform`, `TermsAreKept` |
| `OverlapShelf` | marketplace, overlapping, 2 orders, edits, crashes | `StockNeverNegative` |
| `Errands` | 3 requests, 2 couriers, overlaps, crashes, fair | `ErrandsAreCoherent` and `EarningsAreBacked` whatever happens; `PaidOnce` and `KeepsPromise` without overlap; `CompletedIsSettled` without crash either |
| `Settlements` | 2 statements, 2 requests, overlaps, crashes, fair | `TypeOK`; `SettledIsBilled` whatever happens; `BooksBalance` without overlap and crash; `CoveredGetsSettled` without crash |
| `Stores` | 2 requests, 3 reviews, overlaps, crashes | `RatingIsNotInflated` whatever happens; `SuspensionHolds` without overlap; `RateFitsSubscription`, `RatingIsTheMean` without crash either |
| `Accounts` | 2 requests, Redis failing, overlaps, crashes, fair | `AccountsAreCoherent` whatever happens; `EveryWindowEnds` unless its own EXPIRE is lost; `CodeWorksOnce`, `ModerationStands` without overlap; `PendingHasACode`, `CodeActivates` without crash either |
| `LiveTracking` | 2 requests of the courier, 1 connection, overlaps, crashes | `NoOrphans` whatever happens; `NeverGoesBack` without overlap; `HeardIsUpToDate` without crash either |
| `Assistant` | 2 chats by 2 clients, overlaps, crashes, fair | `TranscriptsArePrivate`, `AnswersAreTimely`, `ChatEnds` whatever happens; `TranscriptsAreKept` without overlap |
| `SnapshotGap` | as `LiveTracking` | finds `SnapshotMissesNothing` violated |
| `PrepaidFee` | marketplace, serial | finds `PrepaidFeeIsBooked` violated |

**Refinement.** `Contract` maps an order's status, method, courier, and
whether the seller's entry is in the ledger. Each write of a handler is one step
of `OrderContract` or none; the contract's fairness (a delivered cash order gets
booked) follows from the fairness below. `Errands` maps status, courier and the
earning to `ErrandPromise`, crashes included; an errand that two requests touched
at once is `void` there, and nothing is promised of it any more.

**Fairness.** `FairSpec` asks weak fairness of `Serve(s)` for each slot only: the
event loop resumes a coroutine whose call returned. Nobody must send a
request, and nothing is assumed of `Begin` or `Fail`. `DeliveryCompletes` would
be false if crashes were allowed, and `CompletedIsSettled`, `CoveredGetsSettled`
and `CodeActivates` except the interrupted: the transition tables refuse
to repeat the last step, so nobody resumes what a crash interrupted. `ChatEnds`
holds with crashes, and needs the limit on the model's calls. `Stores` and `LiveTracking`
are checked for safety only.

**Deadlock** is not checked: clients may stop sending requests, so the system
may rest.

### What the code does not keep

Two runs check one sentence of the repository and find it violated.

| Run | What happens |
|---|---|
| `PrepaidFee` | no overlap needed: the courier of a prepaid order is never credited (`docs/COMMISSION_AND_SUBSCRIPTION.md:65`) |
| `SnapshotGap` | the snapshot is read before the subscription, so an update saved and published in between is shown to nobody until the next one; the comment `delivery/ws.py:78` says that none is missed |

Read in the code while modelling, without a run of its own; the properties above say
what holds in spite of it:

* two orders of the last piece both pass the stock check and sell it twice
  (`orders/service.py:121`; `docs/ORDER_FLOW.md:27`); a cart that names a product
  twice takes only what its last line says, and its cancellation gives back both lines
  (`orders/service.py:98`, `orders/service.py:266`), without any overlap (`Charged` and
  `Outstanding` state this);
* the webhook arriving twice at once books the order twice (`payments/service.py:217`;
  `docs/ORDER_FLOW.md:134`); two requests that deliver one order at once insert two payments;
* a cancellation that overlaps assignment and pickup cancels an order that is on its
  way (`orders/service.py:272`; `docs/DATA_MODEL.md:303`, which also lets an order be
  cancelled while it is `assigned`; `CANCELLABLE` does not);
* a location update saves the delivery it read and moves it back over an
  advance (`delivery/service.py:193`; `delivery/logic.py:6`);
* a declined webhook neither cancels the order nor returns its stock, and a Wompi
  order is prepared and shipped unpaid (`docs/ORDER_FLOW.md` says otherwise of both);
* a courier on a delivery may set the availability and be matched again;
* a crash between the insert of a delivery and the save of its order leaves a ready order
  that can never be assigned; one between a payment and its ledger leaves an order
  that is never booked; one between a statement and its marks bills commissions again;
  one between a consumed code and the account leaves an account that no code activates,
  as there is no way to ask for a new one; one between a cancelled subscription
  and its store leaves the reduced rate for good; a lost EXPIRE leaves an address that is
  refused for ever once it reached the limit (`core/ratelimit.py:36`);
* an errand may be accepted by a collaborator whose profile is not approved (`errands/service.py:89`);
* orders take the default commission from the settings (`orders/service.py:108`), not from
  the platform configuration that an admin edits (`docs/COMMISSION_AND_SUBSCRIPTION.md`, section 3).

## 4. What is proved

Each for every value of the constants: any number of requests in progress, of
documents, couriers, connections, prices. Crashes included, of `Spec`, unless the
last column says otherwise: `isolated` is `IsolatedSpec` (requests about one order
do not overlap, those about different orders do, and any may crash); `serial` is
`Spec` under the hypothesis `Serial` (one slot, no crash).

| Module | Theorem | States | Of |
|---|---|---|---|
| `MarketplaceProofs` | `InvIsInvariant` | `[]Inv`, the inductive invariant | |
| | `TypeIsCorrect` | `[]TypeOK` | |
| | `StockStaysNonNegative` | `[]StockNeverNegative` | |
| | `OrdersStayBacked` | `[]OrdersAreBacked` | |
| | `LedgerStaysBacked` | `[]LedgerIsBacked` | |
| | `PaymentsFitOrders` | `[]PaymentFitsOrder` | |
| | `CouriersStayLocated` | `[]AvailableIsLocated` | |
| | `TermsStayKept` | `TermsAreKept` | |
| | `SellersComeAfterPlatform` | `[]SellerAfterPlatform` | |
| | `IsolatedInvIsInvariant` | `[]IsolatedInv`, the inductive invariant | isolated |
| | `OneDeliveryEach` | `[]AtMostOneDelivery` | isolated |
| | `EveryOrderPaidOnce` | `[]PaidOnce` | isolated |
| | `OrdersFollowDeliveries` | `[]OrderFollowsDelivery` | isolated |
| | `DeliveriesGoForward` | `DeliveryForwardOnly` | isolated |
| | `SerialInvIsInvariant` | `[]SerialInv`, the inductive invariant | serial |
| | `PaidOrdersAreBooked` | `[]PaidInFull` | serial |
| | `BusyCouriersHaveJobs` | `[]BusyCourierHasJob` | serial |
| | `TradeKeepsContract` | every step is one of `OrderContract`, or a stutter | serial |
| | `StockStaysConserved` | `StockConserved` | serial, finitely many orders |
| | `CancelledGivesBack` | `Charged` is `Quantity` for a product that one line names | |
| `ErrandProofs` | `TypeIsCorrect` | `[]TypeOK` | |
| | `ErrandsStayCoherent` | `[]ErrandsAreCoherent` | |
| | `ErrandsArePaidOnce` | `[]PaidOnce` | |
| | `EarningsStayBacked` | `[]EarningsAreBacked` | |
| | `ErrandsKeepTheirPromise` | `KeepsPromise`: errands implement `ErrandPromise` | |
| `SettlementProofs` | `AmountsAddUp` | what a buyer pays is what the ledger hands out | |
| | `NothingIsWrittenOff` | `[]SettledIsBilled` | |
| | `TypeIsCorrect` | `[]TypeOK` | |
| | `TheBooksBalance` | `[]BooksBalance` | |
| `StoreProofs` | `TypeIsCorrect` | `[]TypeOK` | |
| | `RatesFitSubscriptions` | `[]RateFitsSubscription` | |
| | `RatingsAreNotInflated` | `[]RatingIsNotInflated` | |
| | `RatingsAreMeans` | `[]RatingIsTheMean` | |
| | `SuspensionsHold` | `SuspensionHolds` | |
| `AccountProofs` | `TypeIsCorrect` | `[]TypeOK` | |
| | `AccountsStayCoherent` | `[]AccountsAreCoherent` | |
| | `PendingHaveCodes` | `[]PendingHasACode` | |
| | `CodesWorkOnce` | `[]CodeWorksOnce` | |
| | `WindowsEnd` | `[]EveryWindowEnds` | |
| | `ModerationsStand` | `ModerationStands` | |
| `LiveTrackingProofs` | `TypeIsCorrect` | `[]TypeOK` | |
| | `UpdatesArrive` | `[]HeardIsUpToDate` | |
| | `SubscriptionsEnd` | `[]NoOrphans` | |
| | `MapsMoveForward` | `NeverGoesBack` | |
| `AssistantProofs` | `TypeIsCorrect` | `[]TypeOK` | |
| | `ConversationsStayPrivate` | `[]TranscriptsArePrivate` | |
| | `AnswersAreKept` | `[]TranscriptsAreKept` | |
| | `AnswersStayTimely` | `[]AnswersAreTimely` | |

### The marketplace's arguments

None of the properties is inductive. What breaks
induction is that a request writes what it read long ago, so the invariant has to
speak of the copies requests hold, not only of the collections.

**Whatever overlaps and crashes: `Inv`.** `RequestInv` says,
label by label, what a held document may be: an order with the terms of the stored
one whose courier has a delivery, a product whose tracked stock covers what will be
taken from it, ledger entries still to be written that are backed already. These
facts survive the writes of all other requests because they only refer to facts no
write undoes: an order, a delivery, a payment keeps its terms and does not disappear
(`Kept`). So the proof shows both at once: `GoodStep` is `Inv'` and `Kept`. One
lemma per collection shows that a write that keeps the terms keeps what the other
requests hold; one lemma per action applies it; `NextIsGood` collects them.

**The order of the ledger: `LedgerInv`.** That a seller is never credited more often
than the platform is a count, over all requests, of settlements that have written the
platform's entry and still owe the seller's. The invariant bounds the number of
such requests by the difference of the two counters; a settlement writes the platform's
entry first, so it joins the count in the step that makes room for it.

**Requests about one order do not overlap: `IsolatedInv`.** It adds to `Inv` what
isolation buys. `Undisturbed` says that what a request found still holds when
it acts on it: no payment, no delivery, a delivery at the status it was read in, an
unbooked ledger. A write touches documents of one order, `Isolated'` makes this
request the only one about that order, and `UndisturbedIsKept` shows that
the others are not affected. `OrderInv` then holds of every order: one delivery,
one payment, each account credited at most once and only after an approval, and
a status its delivery has reached. Crashes cost nothing here: a request that stops leaves what it
has written, and all of these properties are true after every single write.

**One request at a time: `SerialInv`.** The properties that ask for *completeness*
(what is paid is booked, whoever is busy has a job, the order is where its
delivery is) are false after some writes of a handler, so the invariant names the
request that is about to repair each: an order is `Synced` with its delivery, or the request
`Synchronizes` it; it is `PaidOff`, or the request `Settles` it; a busy courier
`HasJob`, or the request `Frees` them. `CashComesLast`, that a cash order has no
payment before it is delivered, is what makes the settlement find the order unpaid.
`NextIsSerial` proves `SerialInv'` together with the step of `OrderContract`, which needs
the invariant: the statuses an order may take next are read off the status that is
stored (`OrderMoves`).

**The account of the stock: `StockInv`.** `StockConserved` is a property of single steps:
what is on the shelf of a product, what its orders have (`OnOrder`) and what the request
in progress has `TakenAway` for an order it has not placed yet, less what it has `PutBack`
of one it has not yet marked cancelled, stays the same, except in the step that saves
another stock a seller chose, and while the product does not exist or is not counted. What an order has
is what the code takes and gives back, for all carts: the handler reads a copy of a
product for every line and saves the copies in turn, so the last line that names the
product counts (`Charged`), while a cancellation goes through the lines one by one
(`Quantity`). `CancelledGivesBack` shows that the two agree when one line names the
product; when two do, what stays `Outstanding` of a cancelled order is the flaw above.
`StockInv` is what a request must know for this. A creation (`Taking`) has read every counted
product of its cart before it saves one, copies of one product are alike, they are what is stored until
the first is saved, and what is charged can be told from the lines to be read or the copies
to be saved. A cancellation (`RestOf`) still has the last lines of the order to put back, and the copy it
holds is what is stored. The hypotheses are that requests come one at a time and do
not crash (`Serial`: two that read one product before either saves it, or a crash
between two saves, sell pieces twice or lose them), and that there are finitely many orders, so that there is a sum.

### The components' arguments

Each `IInv` has a conjunct per slot (`SlotGood`,
`HeldIsGood`) that says two things of the copy a request holds. What is true however
stale it is: a held errand or account is coherent, a held store counts no more reviews
than exist, found commissions are of the statement's store. And, for a document on which
no requests overlapped, that it **is** the stored one up to what the request will
change: a document belongs to the one request that holds it. `CoroutineProofs` has the
step that makes this survive: when a second request starts on a document, the document
is overlapped and the second half is void; as long as it is not, no other slot
holds it. What the second half gives for isolated documents (a suspension that
holds, a code that works once, an answer that is not lost) is what the properties ask.

* `Errands`: `EarningsInv` bounds what couriers were credited for an errand, plus what
  the requests that have inserted a payment have still to credit, by its payments.
  `PromiseInv` relates an errand that no two requests touched to the request
  at work on it, so that each write is one step of `ErrandPromise`; an overlapped errand
  becomes `void` in the step that overlaps it.
* `Settlements`: `BalanceInv` says of a store without overlap and crash that the totals of
  its statements, and the unsettled commissions that no request is about to mark, add up to
  all its cash commissions, and that what a request found is still unsettled.
* `Stores`: `RatingInv` follows the rating through the review that is being counted. Each
  review rounds the average once more, which moves it by half a hundredth at most
  (`Rounding`), so `n` reviews drift by `n (n + 1) / 4` hundredths at most.
* `Accounts`: `PendingInv` says who owes an account its code, or has just used it. A window
  without an end either has the request that counted first still waiting to set it, or
  that request's `lost`; the window is empty again before another request counts first.
* `LiveTracking` adds `ConnectionGood`: what waits in an inbox is ordered, the newest
  message is what is stored or what is about to be published, and what is shown is not
  ahead of what waits, the snapshot included.
* `Assistant` adds `ConversationGood`, what a conversation holds and whose it is, and
  `Timely`: what a chat holds of the orders was true since its attempt began, and what is
  true now is among that, so whatever a tool reads next is too.

**Sums over finite sets.** `MapThenSumSet` is defined by a recursive function over
subsets. What it computes is proved in `CoroutineProofs` from its defining
equation: if it failed for a finite set it would fail for a smallest subset of it, and
taking one element out contradicts that. The sums of two sets that share nothing, of a set
with one element more, and of terms that changed in one place are all the proofs use.

**Assumptions** are those of the modules on their constants: `None` is no document or
id, slots (and for the sums over errands, couriers and payments) are finitely many,
carts have positive quantities (`OrderItemInput.qty`, `ge=1`), initial stocks and
bounds are natural numbers, rates lie between 0 and 100, stars between 1 and 5, a
connection follows one delivery and an order has one owner. TLC evaluates them on every run.
`Serial` is a hypothesis of the theorems marked serial only: the code does
not give it, and the runs with two requests show what happens without it.

**Only model-checked.** Liveness, which is beyond the provers: `DeliveryCompletes`, `CompletedIsSettled`,
`CoveredGetsSettled`, `CodeActivates`, `ChatEnds`, and the fairness that `KeepsContract` promises
besides its steps. Every other property of a passing run is stated by a theorem.

## 5. Not modelled

* **Catalogue**: creating products and categories inserts documents that no guard of a
  modelled handler depends on.
* **Reviews of couriers** run the statements of `Stores` on a profile, and are not
  instantiated a second time. A review that overlaps a delivery saves the profile
  it read, which the marketplace's runs show of other writers of profiles.
* **Accounts**: a change of the e-mail address; logout and refresh change nothing (tokens are not
  stored); hashing and signatures are library calls.
* **Administration**: the platform configuration, which no other handler reads.
* **Notifications**: `notify` inserts and never raises, `mark_read` sets one flag.
* **Assistant**: ingestion and ranking of knowledge, embeddings, wording.
* **Audit log, configuration, database set-up, middleware, logging, error mapping**:
  append-only or set-up and input/output around the handlers.

## 6. Running it

    tlc -workers 2 -config OverlapTrade.cfg MCMarketplace
    tlc -workers 2 -config Accounts.cfg Accounts
    tlapm AccountProofs.tla

`PROJECT.json` names the module of each configuration. A passing run takes between a
half a minute and four minutes with two workers, a violation a few seconds, and the
proofs of a module a few minutes, those of `MarketplaceProofs` a quarter of an hour.
