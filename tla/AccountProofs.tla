---------------------------- MODULE AccountProofs ----------------------------
(***************************************************************************)
(* Theorems about accounts, for any number of persons and requests in      *)
(* progress, with crashes: IInv says what a request in progress may save,  *)
(* PendingInv who has a code while no two requests overlapped about them.  *)
(***************************************************************************)
EXTENDS Accounts, CoroutineProofs

\* The labels at which a request holds a copy of the account.
HasUser == {"insert", "check_code", "consume", "save"}
UserHeld == [pc : HasUser, key : Users, user : User, outcome : Ends]

\* The collections and the counter, without the requests.
StateOK ==
  /\ users \in [Users -> Maybe(User)]
  /\ codes \in [Users -> Maybe(Code)]
  /\ sessions \subseteq Users
  /\ passed \in [Users -> Nat]
  /\ moderated \subseteq Users
  /\ window \in Window

Base == TypeOK /\ CoroutinesInv

-----------------------------------------------------------------------------
(* The inductive invariant: what a request holds may be saved *)

\* An account, or a copy of one, to which there is a way.
Reachable(user) == user.password \/ user.linked

\* A code is only asked of who filled in everything at registration.
Regular(user) == Fitting(user) /\ (user.status = "pending_verification" => user.complete)

\* A copy is regular, or an admin decided its status, or is about to.
CopyFits(r) ==
  r.pc \in HasUser =>
    /\ Reachable(r.user)
    /\ \/ Regular(r.user)
       \/ r.outcome = "moderation" /\ r.pc = "save"
       \/ r.key \in moderated

Exists(r) == r.pc \in {"check_code", "consume", "save", "issue_otp"} => users[r.key] # None

\* The status that a handler other than an admin's may put in place of another.
MayBecome(old, new) ==
  \/ new = old
  \/ old \in {"pending_verification", "profile_incomplete"} /\ new = "active"

\* Unless somebody else is at work on the account, the copy is of today.
CopyStands(r) ==
  Alone(r.key) =>
    /\ r.pc \in {"check_code", "consume"} => r.user.status = users[r.key].status
    /\ r.pc = "save" /\ r.outcome # "moderation" =>
         MayBecome(users[r.key].status, r.user.status)

\* Who is about to consume a code is the first, who issues one comes before.
CodeFits(r) ==
  Alone(r.key) =>
    /\ r.pc = "consume" => codes[r.key] \in {"live", "expired"} /\ passed[r.key] = 0
    /\ r.pc = "issue_otp" => codes[r.key] = None /\ passed[r.key] = 0

SlotGood(r) == CopyFits(r) /\ Exists(r) /\ CopyStands(r) /\ CodeFits(r)

UsersGood ==
  \A u \in Users : users[u] # None =>
    Reachable(users[u]) /\ (Regular(users[u]) \/ u \in moderated)

CodesGood ==
  \A u \in Users : Alone(u) =>
    /\ users[u] = None => codes[u] = None /\ passed[u] = 0
    /\ codes[u] \in {None, "live"} => passed[u] = 0
    /\ passed[u] <= 1

IInv ==
  /\ Base
  /\ \A s \in Slots : SlotGood(req[s])
  /\ UsersGood
  /\ CodesGood
  /\ EveryWindowEnds

-----------------------------------------------------------------------------
(* The shape of steps *)

LEMMA HeldIs ==
  /\ Idle \in Held
  /\ UserHeld \subseteq Held
  /\ \A r \in Held : r.pc \in HasUser => r \in UserHeld
  BY DEF Held, Idle, UserHeld, HasUser

LEMMA SlotHolds ==
  ASSUME TypeOK, NEW s \in Slots
  PROVE  req[s] \in Held /\ (req[s].pc \in HasUser => req[s] \in UserHeld)
  BY HeldIs DEF TypeOK

LEMMA BaseFollows ==
  ASSUME Base, NEW s \in Slots, NEW r \in Held, Holds(s, r), CoroutinesInv', StateOK',
         overlapped' \subseteq Users, dropped' \subseteq Users
  PROVE  Base'
  <1>1. req' \in [Slots -> Held]
    BY DEF Holds, Base, TypeOK, CoroutinesInv, Keyed
  <1> QED
    BY <1>1 DEF StateOK, TypeOK, Base

\* Only u's account, code and count are written, and no account is lost.
WritesOnly(u) ==
  /\ \A v \in Users : v # u => users'[v] = users[v] /\ codes'[v] = codes[v] /\ passed'[v] = passed[v]
  /\ \A v \in Users : users[v] # None => users'[v] # None
  /\ moderated \subseteq moderated'

\* What is stored of the persons that others are alone with does not change.
Spares(s) ==
  \A t \in Slots \ {s} : ~Free(t) /\ Alone(req[t].key) =>
    /\ users'[req[t].key] = users[req[t].key]
    /\ codes'[req[t].key] = codes[req[t].key]
    /\ passed'[req[t].key] = passed[req[t].key]

LEMMA OwnAccountOnly ==
  ASSUME Base, NEW s \in Slots, ~Free(s), WritesOnly(req[s].key)
  PROVE  Spares(s)
  <1> SUFFICES ASSUME NEW t \in Slots, t # s, ~Free(t), Alone(req[t].key)
               PROVE  /\ users'[req[t].key] = users[req[t].key]
                      /\ codes'[req[t].key] = codes[req[t].key]
                      /\ passed'[req[t].key] = passed[req[t].key]
    BY DEF Spares
  <1>1. req[s].key # req[t].key
    BY AloneIsSole DEF Base
  <1>2. req[t].key \in Users
    BY DEF Base, CoroutinesInv, Keyed, Users
  <1> QED
    BY <1>1, <1>2 DEF WritesOnly

LEMMA SlotsFollow ==
  ASSUME IInv, NEW s \in Slots, NEW r, Holds(s, r), Spares(s),
         \A k : Alone(k)' => Alone(k), moderated \subseteq moderated',
         \A v \in Users : users[v] # None => users'[v] # None,
         SlotGood(r)'
  PROVE  \A t \in Slots : SlotGood(req[t])'
  <1> SUFFICES ASSUME NEW t \in Slots
               PROVE  SlotGood(req[t])'
    OBVIOUS
  <1>1. CASE t = s
    BY <1>1 DEF Holds
  <1>2. CASE t # s
    <2>1. PICK q : q = req[t]
      OBVIOUS
    <2>2. req'[t] = q
      BY <1>2, <2>1 DEF Holds
    <2>3. SlotGood(q)
      BY <2>1 DEF IInv
    <2>4. CASE Free(t)
      BY <2>1, <2>2, <2>4
      DEF Free, At, SlotGood, CopyFits, Exists, CopyStands, CodeFits, HasUser
    <2>5. CASE ~Free(t)
      <3>1. q.key \in Users
        BY <2>1, <2>5 DEF IInv, Base, CoroutinesInv, Keyed, Users
      <3>2. Alone(q.key)' => /\ Alone(q.key)
                             /\ users'[q.key] = users[q.key]
                             /\ codes'[q.key] = codes[q.key]
                             /\ passed'[q.key] = passed[q.key]
        BY <1>2, <2>1, <2>5 DEF Spares
      <3>3. CopyFits(q)'
        BY <2>3 DEF SlotGood, CopyFits
      <3>4. Exists(q)'
        BY <2>3, <3>1 DEF SlotGood, Exists
      <3>5. CopyStands(q)'
        BY <2>3, <3>2 DEF SlotGood, CopyStands
      <3>6. CodeFits(q)'
        BY <2>3, <3>2 DEF SlotGood, CodeFits
      <3> QED
        BY <2>2, <3>3, <3>4, <3>5, <3>6 DEF SlotGood
    <2> QED
      BY <2>4, <2>5
  <1> QED
    BY <1>1, <1>2

\* A window stays bounded when the slot that moves was not about to end it.
LEMMA WindowFollows ==
  ASSUME EveryWindowEnds, NEW s \in Slots, NEW r, Holds(s, r),
         ~At(s, "expire"), UNCHANGED window
  PROVE  EveryWindowEnds'
  BY DEF EveryWindowEnds, Holds, At

\* A request goes on as r.
LEMMA MoveIsGood ==
  ASSUME IInv, NEW s \in Slots, NEW r \in Held, ~Free(s), req' = [req EXCEPT ![s] = r],
         UNCHANGED overlapped, dropped' \in {dropped, dropped \cup {req[s].key}},
         r.pc # "idle", r.key = req[s].key, StateOK', WritesOnly(r.key),
         \/ UNCHANGED window /\ ~At(s, "expire")
         \/ EveryWindowEnds',
         SlotGood(r)', UsersGood', CodesGood'
  PROVE  IInv'
  <1>1. req[s].key \in Users
    BY DEF IInv, Base, CoroutinesInv, Keyed, Users
  <1>2. /\ CoroutinesInv'
        /\ Holds(s, r)
        /\ \A k : Alone(k)' = Alone(k)
    BY StepKeeps DEF IInv, Base
  <1>3. overlapped' \subseteq Users /\ dropped' \subseteq Users
    BY <1>1 DEF IInv, Base, TypeOK
  <1>4. Base'
    BY <1>2, <1>3, BaseFollows DEF IInv
  <1>5. Spares(s)
    BY OwnAccountOnly DEF IInv
  <1>6. \A t \in Slots : SlotGood(req[t])'
    BY <1>2, <1>5, SlotsFollow DEF WritesOnly
  <1>7. EveryWindowEnds'
    BY <1>2, WindowFollows DEF IInv
  <1> QED
    BY <1>4, <1>6, <1>7 DEF IInv

\* A request ends or dies.
LEMMA EndIsGood ==
  ASSUME IInv, NEW s \in Slots, ~Free(s), req' = [req EXCEPT ![s] = Idle],
         UNCHANGED overlapped, dropped' \in {dropped, dropped \cup {req[s].key}},
         StateOK', WritesOnly(req[s].key),
         \/ UNCHANGED window /\ ~At(s, "expire")
         \/ EveryWindowEnds',
         UsersGood', CodesGood'
  PROVE  IInv'
  <1>1. /\ CoroutinesInv'
        /\ Holds(s, Idle)
        /\ \A k : Alone(k)' = Alone(k)
    BY EndKeeps DEF IInv, Base
  <1>2. req[s].key \in Users
    BY DEF IInv, Base, CoroutinesInv, Keyed, Users
  <1>3. overlapped' \subseteq Users
    BY DEF IInv, Base, TypeOK
  <1>4. dropped' \subseteq Users
    BY <1>2 DEF IInv, Base, TypeOK
  <1>5. PICK r : r = Idle
    OBVIOUS
  <1>6. r \in Held /\ Holds(s, r) /\ r.pc = "idle"
    BY <1>1, <1>5, HeldIs, IdleIsFree
  <1>7. Base'
    BY <1>1, <1>3, <1>4, <1>6, BaseFollows DEF IInv
  <1>8. Spares(s)
    BY OwnAccountOnly DEF IInv
  <1>9. SlotGood(r)'
    BY <1>6 DEF SlotGood, CopyFits, Exists, CopyStands, CodeFits, HasUser
  <1>10. \A t \in Slots : SlotGood(req[t])'
    BY <1>1, <1>6, <1>8, <1>9, SlotsFollow DEF WritesOnly
  <1>11. EveryWindowEnds'
    BY <1>6, WindowFollows DEF IInv
  <1> QED
    BY <1>7, <1>10, <1>11 DEF IInv

LEMMA UsersKept ==
  ASSUME IInv, UNCHANGED users, moderated \subseteq moderated'
  PROVE  UsersGood'
  BY DEF IInv, UsersGood

LEMMA CodesKept ==
  ASSUME IInv, UNCHANGED <<users, codes, passed>>, \A k : Alone(k)' => Alone(k)
  PROVE  CodesGood'
  BY DEF IInv, CodesGood

-----------------------------------------------------------------------------
(* Requests that begin *)

\* The window ends as it did.
SameEnd == window'.expires = window.expires /\ window'.lost = window.lost

\* The counter is as before, or counts one more in a window that was there, or
\* begins a window whose end the request is going to set.
CountedIn(r) ==
  /\ window' \in Window
  /\ \/ UNCHANGED window
     \/ r.pc = "expire"
     \/ window.count > 0 /\ SameEnd

Began(s, r) ==
  /\ Free(s)
  /\ Start(s, r)
  /\ UNCHANGED accounts
  /\ r \in Held
  /\ r.key \in Users
  /\ r.pc \notin {"idle", "consume", "issue_otp"}
  /\ CopyFits(r) /\ Exists(r) /\ CopyStands(r)
  /\ r.pc = "insert" => r.outcome = "response"
  /\ CountedIn(r)

\* The limiter refuses the request.
Refused ==
  /\ UNCHANGED <<accounts, req, history>>
  /\ window' \in Window
  /\ window.count > 0
  /\ SameEnd

LEMMA ArriveShape ==
  ASSUME IInv, NEW s \in Slots, NEW u \in Users, Arrive(s, u)
  PROVE  Refused \/ \E r : Began(s, r)
  <1>1. PICK label \in {"login", "by_provider"} : Hit(s, u, label) \/ HitUnanswered(s, u, label)
    BY DEF Arrive
  <1>2. Free(s) /\ UNCHANGED accounts
    BY <1>1 DEF Arrive, Hit, HitUnanswered
  <1>3. PICK wait, expire : /\ wait = Waiting(u, label)
                            /\ expire = [pc |-> "expire", key |-> u, then |-> label]
    OBVIOUS
  <1>4. /\ wait \in Held /\ wait.pc = label /\ wait.key = u
        /\ expire \in Held /\ expire.pc = "expire" /\ expire.key = u
    BY <1>3 DEF Waiting, Held
  <1>5. window \in Window /\ Limit \in Nat \ {0}
    BY LimitAssumption DEF IInv, Base, TypeOK
  <1>6. ASSUME Start(s, wait), CountedIn(wait)
        PROVE  Began(s, wait)
    BY <1>2, <1>4, <1>6 DEF Began, CopyFits, Exists, CopyStands, HasUser
  <1>7. CASE HitUnanswered(s, u, label)
    BY <1>3, <1>5, <1>6, <1>7 DEF HitUnanswered, CountedIn
  <1>8. CASE Hit(s, u, label)
    <2>1. /\ window' = [window EXCEPT !.count = Incr]
          /\ \/ Incr = 1 /\ Start(s, expire)
             \/ Incr \in 2..Limit /\ Start(s, wait)
             \/ Incr > Limit /\ UNCHANGED <<req, history>>
      BY <1>3, <1>8 DEF Hit
    <2>2. /\ Incr \in 1..Limit + 1 /\ (Incr # 1 => window.count > 0)
      BY <1>5 DEF Incr, Window
    <2>3. window' \in Window /\ SameEnd
      BY <1>5, <2>1, <2>2 DEF Window, SameEnd
    <2>4. ASSUME Incr = 1, Start(s, expire)
          PROVE  Began(s, expire)
      BY <1>2, <1>4, <2>3, <2>4 DEF Began, CopyFits, Exists, CopyStands, HasUser, CountedIn
    <2>5. ASSUME Incr \in 2..Limit, Start(s, wait)
          PROVE  Began(s, wait)
      BY <1>5, <1>6, <2>2, <2>3, <2>5 DEF CountedIn
    <2>6. ASSUME Incr > Limit, UNCHANGED <<req, history>>
          PROVE  Refused
      BY <1>2, <1>5, <2>2, <2>3, <2>6 DEF Refused
    <2> QED
      BY <2>1, <2>4, <2>5, <2>6
  <1> QED
    BY <1>1, <1>7, <1>8

LEMMA BeginShape ==
  ASSUME IInv, NEW s \in Slots, Begin(s)
  PROVE  Refused \/ \E r : Began(s, r)
  <1>1. PICK u \in Users :
          \/ Register(s, u) \/ VerifyOtp(s, u) \/ Arrive(s, u)
          \/ CompleteProfile(s, u) \/ UpdateAccount(s, u)
          \/ \E status \in UserStatus : SetUserStatus(s, u, status)
    BY DEF Begin
  <1>2. window \in Window
    BY DEF IInv, Base, TypeOK
  <1>3. users[u] # None => /\ users[u] \in User
                           /\ Reachable(users[u])
                           /\ Regular(users[u]) \/ u \in moderated
    BY DEF IInv, Base, TypeOK, Maybe, UsersGood
  \* Every request but Arrive begins with a copy that fits.
  <1>4. ASSUME NEW label \in {"insert", "check_code", "save"}, NEW user \in User, NEW outcome \in Ends,
               Free(s), Start(s, Hold(label, u, user, outcome)), UNCHANGED <<accounts, window>>,
               Reachable(user),
               \/ Regular(user)
               \/ outcome = "moderation" /\ label = "save"
               \/ u \in moderated,
               IF label = "insert" THEN outcome = "response" ELSE users[u] # None,
               label = "check_code" => user = users[u],
               label = "save" => outcome = "moderation" \/ MayBecome(users[u].status, user.status)
        PROVE  \E r : Began(s, r)
    <2>1. PICK r : r = Hold(label, u, user, outcome)
      OBVIOUS
    <2>2. /\ r \in UserHeld /\ r.pc = label /\ r.key = u /\ r.user = user /\ r.outcome = outcome
      BY <1>4, <2>1 DEF Hold, UserHeld, HasUser
    <2>3. r \in Held
      BY <2>2, HeldIs
    <2>4. CopyFits(r) /\ Exists(r) /\ CopyStands(r)
      BY <1>4, <2>2 DEF CopyFits, Exists, CopyStands
    <2>5. Began(s, r)
      BY <1>2, <1>4, <2>1, <2>2, <2>3, <2>4 DEF Began, CountedIn
    <2> QED
      BY <2>5
  <1>5. CASE Register(s, u)
    <2>1. Registered \in User /\ Reachable(Registered) /\ Regular(Registered)
      BY DEF Registered, User, UserStatus, Reachable, Regular, Fitting
    <2> QED
      BY <1>4, <1>5, <2>1 DEF Register, Ends
  <1>6. CASE VerifyOtp(s, u)
    BY <1>3, <1>4, <1>6 DEF VerifyOtp, Ends
  <1>7. CASE CompleteProfile(s, u)
    <2>1. PICK user : user = [users[u] EXCEPT !.complete = TRUE, !.status = "active"]
      OBVIOUS
    <2>2. /\ Free(s) /\ users[u] # None /\ users[u].status = "profile_incomplete"
          /\ Start(s, Hold("save", u, user, "response")) /\ UNCHANGED <<accounts, window>>
      BY <1>7, <2>1 DEF CompleteProfile, HoldsToken
    <2>3. /\ user \in User /\ user.status = "active" /\ user.complete
          /\ user.password = users[u].password /\ user.linked = users[u].linked
      BY <1>3, <2>1, <2>2 DEF User, UserStatus
    <2>4. Reachable(user) /\ Regular(user)
      BY <1>3, <2>2, <2>3 DEF Reachable, Regular, Fitting
    <2> QED
      BY <1>4, <2>2, <2>3, <2>4 DEF Ends, MayBecome
  <1>8. CASE UpdateAccount(s, u)
    <2>1. /\ Free(s) /\ users[u] # None
          /\ Start(s, Hold("save", u, users[u], "response")) /\ UNCHANGED <<accounts, window>>
      BY <1>8 DEF UpdateAccount, HoldsToken
    <2>2. MayBecome(users[u].status, users[u].status)
      BY DEF MayBecome
    <2> QED
      BY <1>3, <1>4, <2>1, <2>2 DEF Ends
  <1>9. ASSUME NEW status \in UserStatus, SetUserStatus(s, u, status)
        PROVE  \E r : Began(s, r)
    <2>1. PICK user : user = [users[u] EXCEPT !.status = status]
      OBVIOUS
    <2>2. /\ Free(s) /\ users[u] # None
          /\ Start(s, Hold("save", u, user, "moderation")) /\ UNCHANGED <<accounts, window>>
      BY <1>9, <2>1 DEF SetUserStatus
    <2>3. /\ user \in User
          /\ user.password = users[u].password /\ user.linked = users[u].linked
      BY <1>3, <2>1, <2>2 DEF User
    <2>4. Reachable(user)
      BY <1>3, <2>2, <2>3 DEF Reachable
    <2> QED
      BY <1>4, <2>2, <2>3, <2>4 DEF Ends
  <1> QED
    BY <1>1, <1>5, <1>6, <1>7, <1>8, <1>9, ArriveShape

LEMMA BeganIsGood ==
  ASSUME IInv, NEW s \in Slots, NEW r, Began(s, r)
  PROVE  IInv'
  <1>1. /\ CoroutinesInv'
        /\ Holds(s, r)
        /\ dropped' = dropped
        /\ \A k : Alone(k)' => Alone(k)
    BY StartKeeps DEF Began, IInv, Base, Users
  <1>2. UNCHANGED <<users, codes, sessions, passed, moderated>> /\ window' \in Window
    BY DEF Began, accounts, CountedIn
  <1>3. StateOK'
    BY <1>2 DEF StateOK, IInv, Base, TypeOK
  <1>4. overlapped' \subseteq Users /\ dropped' \subseteq Users
    BY <1>1 DEF Began, Start, IInv, Base, TypeOK
  <1>5. Base'
    BY <1>1, <1>3, <1>4, BaseFollows DEF Began, IInv
  <1>6. SlotGood(r)'
    <2>1. CopyFits(r)' /\ Exists(r)'
      BY <1>2 DEF Began, CopyFits, Exists
    <2>2. CopyStands(r)'
      BY <1>1, <1>2 DEF Began, CopyStands
    <2>3. CodeFits(r)'
      BY DEF Began, CodeFits
    <2> QED
      BY <2>1, <2>2, <2>3 DEF SlotGood
  <1>7. \A t \in Slots : SlotGood(req[t])'
    BY <1>1, <1>2, <1>6, SlotsFollow DEF Spares
  <1>8. UsersGood' /\ CodesGood'
    BY <1>1, <1>2, UsersKept, CodesKept
  <1>9. EveryWindowEnds'
    <2>1. ASSUME NEW t \in Slots, At(t, "expire")
          PROVE  At(t, "expire")'
      BY <1>1, <2>1 DEF Began, Free, At, Holds
    <2>2. r.pc = "expire" => At(s, "expire")'
      BY <1>1 DEF Holds, At
    <2>3. EveryWindowEnds
      BY DEF IInv
    <2> QED
      BY <1>1, <2>1, <2>2, <2>3 DEF Began, CountedIn, SameEnd, EveryWindowEnds
  <1> QED
    BY <1>5, <1>7, <1>8, <1>9 DEF IInv

LEMMA RefusedIsGood ==
  ASSUME IInv, Refused
  PROVE  IInv'
  <1>1. Base'
    BY DEF IInv, Refused, accounts, history, Base, TypeOK, CoroutinesInv, Keyed, SoleOwner, Free, At
  <1>2. \A s \in Slots : SlotGood(req[s])'
    BY DEF IInv, Refused, accounts, history, SlotGood, CopyFits, Exists, CopyStands, CodeFits, Alone
  <1>3. UsersGood' /\ CodesGood'
    BY DEF IInv, Refused, accounts, history, UsersGood, CodesGood, Alone
  <1>4. EveryWindowEnds'
    BY DEF IInv, Refused, SameEnd, accounts, history, EveryWindowEnds, At
  <1> QED
    BY <1>1, <1>2, <1>3, <1>4 DEF IInv

-----------------------------------------------------------------------------
(* One lemma per action of a request in progress *)

\* What a handler that ends its request has done to it.
LEMMA AnswerShape ==
  ASSUME IInv, NEW s \in Slots, NEW granted \in BOOLEAN, Answer(s, granted), req[s].key \in Users
  PROVE  /\ req' = [req EXCEPT ![s] = Idle]
         /\ UNCHANGED <<overlapped, dropped>>
         /\ sessions' \subseteq Users
  BY DEF Answer, Finish, Goto, history, IInv, Base, TypeOK

LEMMA InsertUserIsGood ==
  ASSUME IInv, NEW s \in Slots, InsertUser(s)
  PROVE  IInv'
  <1>1. PICK q : q = req[s]
    OBVIOUS
  <1>2. q.pc = "insert" /\ ~Free(s) /\ ~At(s, "expire") /\ UNCHANGED <<codes, passed, moderated, window>>
    BY <1>1 DEF InsertUser, At, Free
  <1>3. q \in UserHeld /\ q.key \in Users /\ q.user \in User /\ SlotGood(q)
    BY <1>1, <1>2, SlotHolds DEF IInv, Base, HasUser, UserHeld
  <1>4. CASE users[q.key] # None
    <2>1. req' = [req EXCEPT ![s] = Idle] /\ UNCHANGED <<overlapped, dropped, users, sessions>>
      BY <1>1, <1>4 DEF InsertUser, Finish, Goto, history
    <2>2. StateOK' /\ WritesOnly(q.key)
      BY <1>2, <2>1 DEF StateOK, WritesOnly, IInv, Base, TypeOK
    <2>3. UsersGood' /\ CodesGood'
      BY <1>2, <2>1, UsersKept, CodesKept DEF Alone
    <2> QED
      BY <1>1, <1>2, <2>1, <2>2, <2>3, EndIsGood
  <1>5. CASE users[q.key] = None
    <2>1. users' = [users EXCEPT ![q.key] = q.user] /\ UNCHANGED overlapped
      BY <1>1, <1>5 DEF InsertUser, Put, Answer, Finish, Goto, history
    <2>2. users'[q.key] = q.user
      BY <1>3, <2>1 DEF IInv, Base, TypeOK
    <2>3. UsersGood'
      BY <1>2, <1>3, <2>1, <2>2 DEF IInv, UsersGood, SlotGood, CopyFits, HasUser
    <2>4. CodesGood'
      BY <1>2, <1>5, <2>1 DEF IInv, CodesGood, Alone
    <2>5. users' \in [Users -> Maybe(User)]
      BY <1>3, <2>1 DEF IInv, Base, TypeOK, Maybe
    <2>6. WritesOnly(q.key)
      BY <1>2, <1>5, <2>1 DEF WritesOnly, IInv, Base, TypeOK
    <2>7. CASE q.outcome = "tokens"
      <3>1. Answer(s, TRUE)
        BY <1>1, <1>5, <2>7 DEF InsertUser
      <3>2. /\ req' = [req EXCEPT ![s] = Idle]
            /\ UNCHANGED <<overlapped, dropped>>
            /\ sessions' \subseteq Users
        BY <1>1, <1>3, <3>1, AnswerShape
      <3>3. StateOK'
        BY <1>2, <2>5, <3>2 DEF StateOK, IInv, Base, TypeOK
      <3> QED
        BY <1>1, <1>2, <2>3, <2>4, <2>6, <3>2, <3>3, EndIsGood
    <2>8. CASE q.outcome # "tokens"
      <3>1. PICK r : r = Waiting(q.key, "issue_otp")
        OBVIOUS
      <3>2. /\ req' = [req EXCEPT ![s] = r]
            /\ UNCHANGED <<overlapped, dropped, sessions>>
        BY <1>1, <1>5, <2>8, <3>1 DEF InsertUser, Goto, history
      <3>3. r \in Held /\ r.pc = "issue_otp" /\ r.key = q.key
        BY <1>3, <3>1 DEF Waiting, Held
      <3>4. StateOK'
        BY <1>2, <2>5, <3>2 DEF StateOK, IInv, Base, TypeOK
      <3>5. q.user # None
        BY <1>3, DocumentAssumption
      <3>6. SlotGood(r)'
        BY <1>2, <1>3, <1>5, <2>1, <2>2, <3>3, <3>5
        DEF SlotGood, CopyFits, Exists, CopyStands, CodeFits, HasUser, Alone, IInv, CodesGood
      <3> QED
        BY <1>1, <1>2, <2>3, <2>4, <2>6, <3>2, <3>3, <3>4, <3>6, MoveIsGood
    <2> QED
      BY <2>7, <2>8
  <1> QED
    BY <1>4, <1>5

LEMMA IssueOtpIsGood ==
  ASSUME IInv, NEW s \in Slots, IssueOtp(s)
  PROVE  IInv'
  <1>1. PICK q : q = req[s]
    OBVIOUS
  <1>2. /\ q.pc = "issue_otp" /\ ~Free(s) /\ ~At(s, "expire")
        /\ codes' = [codes EXCEPT ![q.key] = "live"]
        /\ req' = [req EXCEPT ![s] = Idle]
        /\ UNCHANGED <<users, sessions, passed, moderated, window, overlapped, dropped>>
    BY <1>1 DEF IssueOtp, At, Free, Finish, Goto, history
  <1>3. q.key \in Users /\ SlotGood(q)
    BY <1>1, <1>2 DEF IInv, Base, CoroutinesInv, Keyed, Users
  <1>4. StateOK' /\ WritesOnly(q.key)
    BY <1>2, <1>3 DEF StateOK, WritesOnly, Maybe, Code, IInv, Base, TypeOK
  <1>5. UsersGood'
    BY <1>2, UsersKept
  <1>6. CodesGood'
    BY <1>2, <1>3 DEF IInv, CodesGood, Alone, SlotGood, Exists, CodeFits, Base, TypeOK
  <1> QED
    BY <1>1, <1>2, <1>4, <1>5, <1>6, EndIsGood

LEMMA CheckCodeIsGood ==
  ASSUME IInv, NEW s \in Slots, CheckCode(s)
  PROVE  IInv'
  <1>1. PICK q, r : q = req[s] /\ r = [q EXCEPT !.pc = "consume"]
    OBVIOUS
  <1>2. /\ q.pc = "check_code" /\ ~Free(s) /\ ~At(s, "expire")
        /\ UNCHANGED <<users, codes, sessions, passed, moderated, window, overlapped, dropped>>
    BY <1>1 DEF CheckCode, At, Free, Finish, Goto, history, accounts
  <1>3. q \in UserHeld /\ q.key \in Users /\ SlotGood(q)
    BY <1>1, <1>2, SlotHolds DEF IInv, Base, HasUser, UserHeld
  <1>4. StateOK' /\ WritesOnly(q.key)
    BY <1>2 DEF StateOK, WritesOnly, IInv, Base, TypeOK
  <1>5. UsersGood' /\ CodesGood'
    BY <1>2, UsersKept, CodesKept DEF Alone
  <1>6. CASE codes[q.key] = "live" /\ Goto(s, r)
    <2>1. /\ r \in UserHeld /\ r.pc = "consume" /\ r.key = q.key /\ r.user = q.user
          /\ r.outcome = q.outcome
      BY <1>1, <1>3 DEF UserHeld, HasUser
    <2>2. r \in Held /\ req' = [req EXCEPT ![s] = r]
      BY <1>6, <2>1, HeldIs DEF Goto
    <2>3. SlotGood(r)'
      BY <1>2, <1>3, <1>6, <2>1
      DEF SlotGood, CopyFits, Exists, CopyStands, CodeFits, HasUser, Alone, IInv, CodesGood
    <2> QED
      BY <1>1, <1>2, <1>4, <1>5, <2>1, <2>2, <2>3, MoveIsGood
  <1>7. CASE Finish(s)
    <2>1. req' = [req EXCEPT ![s] = Idle]
      BY <1>7 DEF Finish, Goto
    <2> QED
      BY <1>1, <1>2, <1>4, <1>5, <2>1, EndIsGood
  <1> QED
    BY <1>1, <1>6, <1>7 DEF CheckCode

LEMMA ConsumeIsGood ==
  ASSUME IInv, NEW s \in Slots, Consume(s)
  PROVE  IInv'
  <1>1. PICK q : q = req[s]
    OBVIOUS
  <1>2. /\ q.pc = "consume" /\ ~Free(s) /\ ~At(s, "expire")
        /\ codes' = [codes EXCEPT ![q.key] = IF @ = "live" THEN "used" ELSE @]
        /\ passed' = [passed EXCEPT ![q.key] = @ + 1]
        /\ UNCHANGED <<users, moderated, window, overlapped, dropped>>
    BY <1>1 DEF Consume, At, Free, Answer, Finish, Goto, history
  <1>3. q \in UserHeld /\ q.key \in Users /\ q.user \in User /\ SlotGood(q)
    BY <1>1, <1>2, SlotHolds DEF IInv, Base, HasUser, UserHeld
  <1>4. /\ codes' \in [Users -> Maybe(Code)] /\ passed' \in [Users -> Nat] /\ WritesOnly(q.key)
    BY <1>2, <1>3 DEF WritesOnly, Maybe, Code, IInv, Base, TypeOK
  <1>5. UsersGood'
    BY <1>2, UsersKept
  <1>6. CodesGood'
    <2> SUFFICES ASSUME NEW u \in Users, Alone(u)'
                 PROVE  (/\ users[u] = None => codes[u] = None /\ passed[u] = 0
                         /\ codes[u] \in {None, "live"} => passed[u] = 0
                         /\ passed[u] <= 1)'
      BY DEF CodesGood
    <2>1. CASE u = q.key
      <3>1. users[u] # None /\ codes[u] \in {"live", "expired"} /\ passed[u] = 0
        BY <1>2, <1>3, <2>1 DEF SlotGood, Exists, CodeFits, Alone
      <3>2. codes'[u] \in {"used", "expired"} /\ passed'[u] = 1
        BY <1>2, <2>1, <3>1 DEF IInv, Base, TypeOK
      <3> QED
        BY <1>2, <3>1, <3>2, DocumentAssumption DEF Code
    <2>2. CASE u # q.key
      BY <1>2, <2>2 DEF IInv, CodesGood, Alone, Base, TypeOK
    <2> QED
      BY <2>1, <2>2
  <1>7. CASE q.user.status = "pending_verification"
    <2>1. PICK user, r : /\ user = [q.user EXCEPT !.status = "active"]
                         /\ r = Hold("save", q.key, user, "tokens")
      OBVIOUS
    <2>2. req' = [req EXCEPT ![s] = r] /\ UNCHANGED sessions
      BY <1>1, <1>7, <2>1 DEF Consume, Goto
    <2>3. /\ user \in User /\ user.status = "active" /\ user.complete = q.user.complete
          /\ user.password = q.user.password /\ user.linked = q.user.linked
      BY <1>3, <2>1 DEF User, UserStatus
    <2>4. /\ r \in UserHeld /\ r.pc = "save" /\ r.key = q.key /\ r.user = user
          /\ r.outcome = "tokens" /\ r \in Held
      BY <1>3, <2>1, <2>3, HeldIs DEF Hold, UserHeld, HasUser, Ends
    <2>5. StateOK'
      BY <1>2, <1>4, <2>2 DEF StateOK, IInv, Base, TypeOK
    <2>6. CopyFits(r)'
      BY <1>2, <1>3, <1>7, <2>3, <2>4 DEF SlotGood, CopyFits, HasUser, Reachable, Regular, Fitting
    <2>7. Exists(r)' /\ CodeFits(r)'
      BY <1>2, <1>3, <2>4 DEF SlotGood, Exists, CodeFits
    <2>8. CopyStands(r)'
      BY <1>2, <1>3, <1>7, <2>3, <2>4 DEF SlotGood, CopyStands, MayBecome, Alone
    <2>9. SlotGood(r)'
      BY <2>6, <2>7, <2>8 DEF SlotGood
    <2> QED
      BY <1>1, <1>2, <1>4, <1>5, <1>6, <2>2, <2>4, <2>5, <2>9, MoveIsGood
  <1>8. CASE q.user.status # "pending_verification"
    <2>1. Answer(s, TRUE)
      BY <1>1, <1>8 DEF Consume
    <2>2. /\ req' = [req EXCEPT ![s] = Idle]
          /\ sessions' \subseteq Users
      BY <1>1, <1>3, <2>1, AnswerShape
    <2>3. StateOK'
      BY <1>2, <1>4, <2>2 DEF StateOK, IInv, Base, TypeOK
    <2> QED
      BY <1>1, <1>2, <1>4, <1>5, <1>6, <2>2, <2>3, EndIsGood
  <1> QED
    BY <1>7, <1>8

\* A login, or a known identity, only adds a session.
LEMMA AnswerIsGood ==
  ASSUME IInv, NEW s \in Slots, NEW granted \in BOOLEAN, Answer(s, granted),
         ~Free(s), ~At(s, "expire"), UNCHANGED <<users, codes, passed, moderated, window>>
  PROVE  IInv'
  <1>1. PICK q : q = req[s]
    OBVIOUS
  <1>2. q.key \in Users
    BY <1>1 DEF IInv, Base, CoroutinesInv, Keyed, Users
  <1>3. /\ req' = [req EXCEPT ![s] = Idle]
        /\ UNCHANGED <<overlapped, dropped>>
        /\ sessions' \subseteq Users
    BY <1>1, <1>2, AnswerShape
  <1>4. StateOK' /\ WritesOnly(q.key)
    BY <1>3 DEF StateOK, WritesOnly, IInv, Base, TypeOK
  <1>5. UsersGood' /\ CodesGood'
    BY <1>3, UsersKept, CodesKept DEF Alone
  <1> QED
    BY <1>1, <1>3, <1>4, <1>5, EndIsGood

LEMMA LoginIsGood ==
  ASSUME IInv, NEW s \in Slots, Login(s)
  PROVE  IInv'
  <1>1. MayLogin(users[req[s].key]) \in BOOLEAN
    BY DEF MayLogin, IInv, Base, TypeOK
  <1> QED
    BY <1>1, AnswerIsGood DEF Login, At, Free

LEMMA FindByProviderIsGood ==
  ASSUME IInv, NEW s \in Slots, FindByProvider(s)
  PROVE  IInv'
  <1>1. PICK q, r : q = req[s] /\ r = Waiting(q.key, "by_email")
    OBVIOUS
  <1>2. /\ q.pc = "by_provider" /\ ~Free(s) /\ ~At(s, "expire")
        /\ UNCHANGED <<users, codes, passed, moderated, window>>
    BY <1>1 DEF FindByProvider, At, Free
  <1>3. CASE users[q.key] # None /\ users[q.key].linked
    BY <1>1, <1>2, <1>3, AnswerIsGood DEF FindByProvider
  <1>4. CASE ~(users[q.key] # None /\ users[q.key].linked)
    <2>1. q.key \in Users
      BY <1>1, <1>2 DEF IInv, Base, CoroutinesInv, Keyed, Users
    <2>2. r \in Held /\ r.pc = "by_email" /\ r.key = q.key
      BY <1>1, <2>1 DEF Waiting, Held
    <2>3. req' = [req EXCEPT ![s] = r] /\ UNCHANGED <<sessions, overlapped, dropped>>
      BY <1>1, <1>4 DEF FindByProvider, Goto, history
    <2>4. StateOK' /\ WritesOnly(r.key)
      BY <1>2, <2>3 DEF StateOK, WritesOnly, IInv, Base, TypeOK
    <2>5. UsersGood' /\ CodesGood'
      BY <1>2, <2>3, UsersKept, CodesKept DEF Alone
    <2>6. SlotGood(r)'
      BY <2>2 DEF SlotGood, CopyFits, Exists, CopyStands, CodeFits, HasUser
    <2> QED
      BY <1>1, <1>2, <2>2, <2>3, <2>4, <2>5, <2>6, MoveIsGood
  <1> QED
    BY <1>3, <1>4

LEMMA FindByEmailIsGood ==
  ASSUME IInv, NEW s \in Slots, FindByEmail(s)
  PROVE  IInv'
  <1>1. PICK q, user, r :
          /\ q = req[s]
          /\ user = IF users[q.key] # None THEN [users[q.key] EXCEPT !.linked = TRUE] ELSE SignedUp
          /\ r = Hold(IF users[q.key] # None THEN "save" ELSE "insert", q.key, user, "tokens")
    OBVIOUS
  <1>2. /\ q.pc = "by_email" /\ ~Free(s) /\ ~At(s, "expire")
        /\ req' = [req EXCEPT ![s] = r]
        /\ UNCHANGED <<users, codes, sessions, passed, moderated, window, overlapped, dropped>>
    BY <1>1 DEF FindByEmail, At, Free, Goto, history, accounts
  <1>3. q.key \in Users
    BY <1>1, <1>2 DEF IInv, Base, CoroutinesInv, Keyed, Users
  <1>4. StateOK' /\ WritesOnly(q.key)
    BY <1>2 DEF StateOK, WritesOnly, IInv, Base, TypeOK
  <1>5. UsersGood' /\ CodesGood'
    BY <1>2, UsersKept, CodesKept DEF Alone
  <1>6. CASE users[q.key] # None
    <2>1. /\ users[q.key] \in User
          /\ Regular(users[q.key]) \/ q.key \in moderated
      BY <1>3, <1>6 DEF IInv, Base, TypeOK, Maybe, UsersGood
    <2>2. /\ user \in User /\ user.status = users[q.key].status /\ user.linked
          /\ user.complete = users[q.key].complete /\ user.password = users[q.key].password
      BY <1>1, <1>6, <2>1 DEF User
    <2>3. /\ r \in UserHeld /\ r \in Held /\ r.pc = "save" /\ r.key = q.key /\ r.user = user
          /\ r.outcome = "tokens"
      BY <1>1, <1>3, <1>6, <2>2, HeldIs DEF Hold, UserHeld, HasUser, Ends
    <2>4. CopyFits(r)'
      BY <1>2, <2>1, <2>2, <2>3 DEF CopyFits, Reachable, Regular, Fitting
    <2>5. Exists(r)' /\ CopyStands(r)' /\ CodeFits(r)'
      BY <1>2, <1>6, <2>2, <2>3 DEF Exists, CopyStands, CodeFits, MayBecome
    <2> QED
      BY <1>1, <1>2, <1>4, <1>5, <2>3, <2>4, <2>5, MoveIsGood DEF SlotGood
  <1>7. CASE users[q.key] = None
    <2>1. user \in User /\ Reachable(user) /\ Regular(user)
      BY <1>1, <1>7 DEF SignedUp, User, UserStatus, Reachable, Regular, Fitting
    <2>2. /\ r \in UserHeld /\ r \in Held /\ r.pc = "insert" /\ r.key = q.key /\ r.user = user
          /\ r.outcome = "tokens"
      BY <1>1, <1>3, <1>7, <2>1, HeldIs DEF Hold, UserHeld, HasUser, Ends
    <2>3. SlotGood(r)'
      BY <2>1, <2>2 DEF SlotGood, CopyFits, Exists, CopyStands, CodeFits
    <2> QED
      BY <1>1, <1>2, <1>4, <1>5, <2>2, <2>3, MoveIsGood
  <1> QED
    BY <1>6, <1>7

LEMMA SaveUserIsGood ==
  ASSUME IInv, NEW s \in Slots, SaveUser(s)
  PROVE  IInv'
  <1>1. PICK q : q = req[s]
    OBVIOUS
  <1>2. /\ q.pc = "save" /\ ~Free(s) /\ ~At(s, "expire")
        /\ users' = [users EXCEPT ![q.key] = q.user]
        /\ moderated' = IF q.outcome = "moderation" THEN moderated \cup {q.key} ELSE moderated
        /\ Answer(s, q.outcome = "tokens" /\ q.user.status # "suspended")
        /\ UNCHANGED <<codes, passed, window>>
    BY <1>1 DEF SaveUser, Put, At, Free
  <1>3. q \in UserHeld /\ q.key \in Users /\ q.user \in User /\ q.user # None /\ SlotGood(q)
    BY <1>1, <1>2, SlotHolds, DocumentAssumption DEF IInv, Base, HasUser, UserHeld
  <1>4. /\ req' = [req EXCEPT ![s] = Idle]
        /\ UNCHANGED <<overlapped, dropped>>
        /\ sessions' \subseteq Users
    <2>1. (q.outcome = "tokens" /\ q.user.status # "suspended") \in BOOLEAN
      OBVIOUS
    <2> QED
      BY <1>1, <1>2, <1>3, <2>1, AnswerShape
  <1>5. users'[q.key] = q.user /\ users[q.key] # None
    BY <1>2, <1>3 DEF IInv, Base, TypeOK, SlotGood, Exists
  <1>6. StateOK' /\ WritesOnly(q.key)
    BY <1>2, <1>3, <1>4, <1>5 DEF StateOK, WritesOnly, Maybe, IInv, Base, TypeOK
  <1>7. UsersGood'
    BY <1>2, <1>3, <1>5 DEF IInv, UsersGood, SlotGood, CopyFits, HasUser, Base, TypeOK
  <1>8. CodesGood'
    BY <1>2, <1>3, <1>4, <1>5 DEF IInv, CodesGood, Alone, Base, TypeOK
  <1> QED
    BY <1>1, <1>2, <1>4, <1>6, <1>7, <1>8, EndIsGood

\* Redis sets the window's end, or the command is lost; the request goes on.
LEMMA ExpireIsGood ==
  ASSUME IInv, NEW s \in Slots, UNCHANGED accounts,
         \/ Expire(s)
         \/ ExpireLost(s) /\ Goto(s, Waiting(req[s].key, req[s].then))
  PROVE  IInv'
  <1>1. PICK q, r : q = req[s] /\ r = Waiting(q.key, q.then)
    OBVIOUS
  <1>2. /\ q.pc = "expire" /\ ~Free(s)
        /\ req' = [req EXCEPT ![s] = r]
        /\ UNCHANGED <<users, codes, sessions, passed, moderated, overlapped, dropped>>
    BY <1>1 DEF Expire, ExpireLost, At, Free, Goto, history, accounts
  <1>3. q.key \in Users /\ q.then \in {"login", "by_provider"}
    BY <1>1, <1>2 DEF IInv, Base, TypeOK, Held, Idle
  <1>4. r \in Held /\ r.pc \in {"login", "by_provider"} /\ r.key = q.key
    BY <1>1, <1>3 DEF Waiting, Held
  <1>5. window' \in Window
    BY DEF Expire, ExpireLost, IInv, Base, TypeOK, Window
  <1>6. StateOK' /\ WritesOnly(r.key)
    BY <1>2, <1>5 DEF StateOK, WritesOnly, IInv, Base, TypeOK
  <1>7. UsersGood' /\ CodesGood'
    BY <1>2, UsersKept, CodesKept DEF Alone
  <1>8. EveryWindowEnds'
    <2>1. window \in Window
      BY DEF IInv, Base, TypeOK
    <2>2. CASE Expire(s)
      BY <2>1, <2>2 DEF Expire, EveryWindowEnds, Window
    <2>3. CASE ExpireLost(s)
      BY <2>1, <2>3 DEF ExpireLost, EveryWindowEnds, Window
    <2> QED
      BY <2>2, <2>3
  <1>9. SlotGood(r)'
    BY <1>4 DEF SlotGood, CopyFits, Exists, CopyStands, CodeFits, HasUser
  <1> QED
    BY <1>1, <1>2, <1>4, <1>6, <1>7, <1>8, <1>9, MoveIsGood

LEMMA CrashIsGood ==
  ASSUME IInv, NEW s \in Slots, Crash(s), UNCHANGED accounts,
         \/ ~At(s, "expire") /\ UNCHANGED window
         \/ ExpireLost(s)
  PROVE  IInv'
  <1>1. /\ ~Free(s)
        /\ req' = [req EXCEPT ![s] = Idle]
        /\ dropped' = dropped \cup {req[s].key}
        /\ UNCHANGED <<users, codes, sessions, passed, moderated, overlapped>>
    BY DEF Crash, accounts
  <1>2. window \in Window
    BY DEF IInv, Base, TypeOK
  <1>3. window' \in Window /\ (ExpireLost(s) => EveryWindowEnds')
    BY <1>2 DEF ExpireLost, Window, EveryWindowEnds
  <1>4. StateOK' /\ WritesOnly(req[s].key)
    BY <1>1, <1>3 DEF StateOK, WritesOnly, IInv, Base, TypeOK
  <1>5. UsersGood' /\ CodesGood'
    BY <1>1, UsersKept, CodesKept DEF Alone
  <1> QED
    BY <1>1, <1>3, <1>4, <1>5, EndIsGood

\* Time passes: a window or a code ends.
LEMMA TimeIsGood ==
  ASSUME IInv, Time
  PROVE  IInv'
  <1>1. CASE WindowEnds /\ UNCHANGED accounts
    <2>1. /\ window' = NoWindow
          /\ UNCHANGED <<users, codes, sessions, passed, moderated, req, overlapped, dropped>>
      BY <1>1 DEF WindowEnds, accounts, history
    <2>2. window' \in Window /\ window'.count = 0
      BY <2>1, LimitAssumption DEF NoWindow, Window
    <2>3. Base'
      BY <2>1, <2>2 DEF IInv, Base, TypeOK, CoroutinesInv, Keyed, SoleOwner, Free, At
    <2>4. (\A s \in Slots : SlotGood(req[s]))' /\ UsersGood' /\ CodesGood'
      BY <2>1 DEF IInv, SlotGood, CopyFits, Exists, CopyStands, CodeFits, Alone, UsersGood, CodesGood
    <2>5. EveryWindowEnds'
      BY <2>2 DEF EveryWindowEnds
    <2> QED
      BY <2>3, <2>4, <2>5 DEF IInv
  <1>2. ASSUME NEW u \in Users, CodeExpires(u)
        PROVE  IInv'
    <2>1. /\ codes[u] = "live"
          /\ codes' = [codes EXCEPT ![u] = "expired"]
          /\ UNCHANGED <<users, sessions, passed, moderated, window, req, overlapped, dropped>>
      BY <1>2 DEF CodeExpires, history
    <2>2. /\ codes' \in [Users -> Maybe(Code)]
          /\ codes'[u] = "expired" /\ \A v \in Users : v # u => codes'[v] = codes[v]
      BY <2>1 DEF IInv, Base, TypeOK, Maybe, Code
    <2>3. Base'
      BY <2>1, <2>2 DEF IInv, Base, TypeOK, CoroutinesInv, Keyed, SoleOwner, Free, At
    <2>4. ASSUME NEW s \in Slots
          PROVE  SlotGood(req[s])'
      <3>1. PICK q : q = req[s] /\ req'[s] = q
        BY <2>1
      <3>2. SlotGood(q)
        BY <3>1 DEF IInv
      <3>3. CopyFits(q)' /\ Exists(q)' /\ CopyStands(q)'
        BY <2>1, <3>2 DEF SlotGood, CopyFits, Exists, CopyStands, Alone
      <3>4. CodeFits(q)'
        <4>1. CASE q.pc \in {"consume", "issue_otp"}
          <5>1. q.key \in Users
            BY <3>1, <4>1 DEF IInv, Base, CoroutinesInv, Keyed, Users, Free, At
          <5>2. None # "live"
            BY DocumentAssumption DEF Code
          <5> QED
            BY <2>1, <2>2, <3>2, <5>1, <5>2 DEF SlotGood, CodeFits, Alone
        <4>2. CASE q.pc \notin {"consume", "issue_otp"}
          BY <4>2 DEF CodeFits
        <4> QED
          BY <4>1, <4>2
      <3> QED
        BY <3>1, <3>3, <3>4 DEF SlotGood
    <2>5. UsersGood'
      BY <2>1, UsersKept
    <2>6. CodesGood'
      BY <2>1, <2>2, DocumentAssumption DEF IInv, CodesGood, Alone, Code, Base, TypeOK
    <2>7. EveryWindowEnds'
      BY <2>1 DEF IInv, EveryWindowEnds, At
    <2> QED
      BY <2>3, <2>4, <2>5, <2>6, <2>7 DEF IInv
  <1> QED
    BY <1>1, <1>2 DEF Time

-----------------------------------------------------------------------------
(* The theorems *)

LEMMA InitIsGood == Init => IInv
  <1> SUFFICES ASSUME Init
               PROVE  IInv
    OBVIOUS
  <1>1. CoroutinesInv
    BY InitiallyNobody DEF Init
  <1>2. Base
    BY <1>1, HeldIs, LimitAssumption
    DEF Init, CoroutinesInit, WindowInit, NoWindow, Window, Base, TypeOK, Maybe
  <1>3. \A s \in Slots : SlotGood(req[s])
    BY IdleIsFree
    DEF Init, CoroutinesInit, SlotGood, CopyFits, Exists, CopyStands, CodeFits, HasUser
  <1> QED
    BY <1>2, <1>3 DEF Init, WindowInit, NoWindow, IInv, UsersGood, CodesGood, EveryWindowEnds

LEMMA NextIsGood == IInv /\ [Next]_vars => IInv'
  <1> SUFFICES ASSUME IInv, [Next]_vars
               PROVE  IInv'
    OBVIOUS
  <1>1. CASE UNCHANGED vars
    <2>1. UNCHANGED <<users, codes, sessions, passed, moderated, window, req, overlapped, dropped>>
      BY <1>1 DEF vars, history
    <2>2. Base'
      BY <2>1 DEF IInv, Base, TypeOK, CoroutinesInv, Keyed, SoleOwner, Free, At
    <2>3. (\A s \in Slots : SlotGood(req[s]))' /\ UsersGood' /\ CodesGood'
      BY <2>1 DEF IInv, SlotGood, CopyFits, Exists, CopyStands, CodeFits, Alone, UsersGood, CodesGood
    <2>4. EveryWindowEnds'
      BY <2>1 DEF IInv, EveryWindowEnds, At
    <2> QED
      BY <2>2, <2>3, <2>4 DEF IInv
  <1>2. ASSUME NEW s \in Slots, Begin(s)
        PROVE  IInv'
    BY <1>2, BeginShape, BeganIsGood, RefusedIsGood
  <1>3. ASSUME NEW s \in Slots, Serve(s)
        PROVE  IInv'
    BY <1>3, InsertUserIsGood, IssueOtpIsGood, CheckCodeIsGood, ConsumeIsGood, LoginIsGood,
       FindByProviderIsGood, FindByEmailIsGood, SaveUserIsGood, ExpireIsGood DEF Serve
  <1>4. ASSUME NEW s \in Slots, Fail(s)
        PROVE  IInv'
    <2>1. UNCHANGED accounts
      BY <1>4 DEF Fail
    <2>2. \/ Crash(s) /\ ((~At(s, "expire") /\ UNCHANGED window) \/ ExpireLost(s))
          \/ ExpireLost(s) /\ Goto(s, Waiting(req[s].key, req[s].then))
      BY <1>4 DEF Fail, ExpireLost
    <2> QED
      BY <2>1, <2>2, CrashIsGood, ExpireIsGood
  <1>5. CASE Time
    BY <1>5, TimeIsGood
  <1> QED
    BY <1>1, <1>2, <1>3, <1>4, <1>5 DEF Next

\* The inductive invariant holds.
THEOREM InvIsInvariant == Spec => []IInv
  BY InitIsGood, NextIsGood, PTL DEF Spec

\* Accounts, codes, sessions, the counter and requests keep their types.
THEOREM TypeIsCorrect == Spec => []TypeOK
  <1>1. IInv => TypeOK
    BY DEF IInv, Base
  <1> QED
    BY <1>1, InvIsInvariant, PTL

\* Every account can be entered and has a status that fits it, whatever stale
\* copy of it was saved last (auth/service.py, users/service.py).
THEOREM AccountsStayCoherent == Spec => []AccountsAreCoherent
  <1>1. IInv => AccountsAreCoherent
    BY DEF IInv, UsersGood, Reachable, Regular, AccountsAreCoherent
  <1> QED
    BY <1>1, InvIsInvariant, PTL

\* A code lets one request pass, wherever requests crash, unless two about that
\* person overlap (verify_otp).
THEOREM CodesWorkOnce == Spec => []CodeWorksOnce
  <1>1. IInv => CodeWorksOnce
    BY DEF IInv, CodesGood, CodeWorksOnce
  <1> QED
    BY <1>1, InvIsInvariant, PTL

\* For any limit and any number of requests, failures included, a window that
\* has no end and that nobody is about to end is one whose EXPIRE was lost: no
\* other failure, and no order of requests, locks an address out (_hit).
THEOREM WindowsEnd == Spec => []EveryWindowEnds
  <1>1. IInv => EveryWindowEnds
    BY DEF IInv
  <1> QED
    BY <1>1, InvIsInvariant, PTL

\* Only SaveUser changes an account that there is.
LEMMA AccountWriter ==
  ASSUME IInv, [Next]_vars, NEW u \in Users, users[u] # None, users'[u] # users[u]
  PROVE  \E s \in Slots : SaveUser(s) /\ req[s].key = u /\ users'[u] = req[s].user
  <1>1. users \in [Users -> Maybe(User)]
    BY DEF IInv, Base, TypeOK
  <1>2. ~UNCHANGED users
    OBVIOUS
  <1>3. ASSUME NEW s \in Slots, Begin(s)
        PROVE  FALSE
    BY <1>2, <1>3, BeginShape DEF Began, Refused, accounts
  <1>4. ASSUME NEW s \in Slots, Fail(s)
        PROVE  FALSE
    BY <1>2, <1>4 DEF Fail, accounts
  <1>5. ~Time
    BY <1>2 DEF Time, CodeExpires, accounts
  <1>6. PICK s \in Slots : Serve(s)
    BY <1>2, <1>3, <1>4, <1>5 DEF Next, vars
  <1>7. ~InsertUser(s)
    BY <1>1 DEF InsertUser, Put
  <1>8. SaveUser(s)
    BY <1>2, <1>6, <1>7 DEF Serve, IssueOtp, CheckCode, Consume, Login, FindByProvider, FindByEmail,
                            Expire, accounts
  <1> QED
    BY <1>1, <1>8 DEF SaveUser, Put

\* An admin's decision about an account stands against every handler that saves
\* the account, for any number of accounts and requests, as long as no two of
\* them work on that one at a time.
THEOREM ModerationsStand == Spec => ModerationStands
  <1>1. ASSUME IInv, [Next]_vars, NEW u \in Users,
               users[u] # None, users'[u] # users[u], Alone(u)
        PROVE  \/ users'[u].status = users[u].status
               \/ \E s \in Slots : At(s, "save") /\ req[s].key = u /\ req[s].outcome = "moderation"
               \/ /\ users[u].status \in {"pending_verification", "profile_incomplete"}
                  /\ users'[u].status = "active"
    <2>1. PICK s \in Slots : SaveUser(s) /\ req[s].key = u /\ users'[u] = req[s].user
      BY <1>1, AccountWriter
    <2>2. At(s, "save") /\ CopyStands(req[s])
      BY <1>1, <2>1 DEF SaveUser, IInv, SlotGood
    <2> QED
      BY <1>1, <2>1, <2>2 DEF CopyStands, MayBecome, At
  <1>2. IInv /\ [Next]_vars =>
          [\A u \in Users :
             (users[u] # None /\ users'[u] # users[u] /\ Alone(u)) =>
               \/ users'[u].status = users[u].status
               \/ \E s \in Slots : At(s, "save") /\ req[s].key = u /\ req[s].outcome = "moderation"
               \/ /\ users[u].status \in {"pending_verification", "profile_incomplete"}
                  /\ users'[u].status = "active"]_vars
    BY <1>1
  <1> QED
    BY <1>2, InvIsInvariant, PTL DEF Spec, ModerationStands

-----------------------------------------------------------------------------
(* Registration without overlaps: who waits for a code has one               *)

Waits(user, code) == user.status = "pending_verification" => code \in {"live", "expired"}

\* An account and its code, while r is the only request about it: before the
\* code is issued, and before the account is saved that the code has verified,
\* the stored account may wait in vain.
ChanceOf(user, code, r) ==
  /\ r.pc \notin {"issue_otp", "save"} => Waits(user, code)
  /\ r.pc = "save" /\ r.outcome # "moderation" => Waits(r.user, code)

Undisturbed(u) == Alone(u) /\ u \notin dropped \cup moderated

HasAChance(u) ==
  /\ Quiet(u) => ChanceOf(users[u], codes[u], Idle)
  /\ \A s \in Slots : req[s].key = u => ChanceOf(users[u], codes[u], req[s])

\* Who signs up with a provider's identity needs no code.
NoCodeNeeded(r) ==
  r.pc = "insert" /\ r.outcome = "tokens" => r.user.status # "pending_verification"

PendingInv ==
  /\ \A u \in Users : users[u] # None /\ Undisturbed(u) => HasAChance(u)
  /\ \A s \in Slots : NoCodeNeeded(req[s])

-----------------------------------------------------------------------------
\* Slot s, about account k, takes a step.
LEMMA PendingFollows ==
  ASSUME IInv', PendingInv, NEW s \in Slots, NEW r, NEW k \in Users, Holds(s, r),
         req[s].key \in {None, k}, r.key \in {None, k},
         \A t \in Slots \ {s} : req[t].key = k => ~Alone(k)',
         \A u : Alone(u)' => Alone(u), dropped \subseteq dropped', moderated \subseteq moderated',
         \A v \in Users : v # k => users'[v] = users[v] /\ codes'[v] = codes[v],
         NoCodeNeeded(r),
         Undisturbed(k)' /\ users'[k] # None => ChanceOf(users'[k], codes'[k], r)
  PROVE  PendingInv'
<1>1. ASSUME NEW u \in Users, (users[u] # None /\ Undisturbed(u))'
      PROVE  HasAChance(u)'
  <2>1. CASE u = k
    <3>1. ChanceOf(users'[k], codes'[k], r)
      BY <1>1, <2>1
    <3>2. \A t \in Slots \ {s} : req'[t].key # k
      BY <1>1, <2>1 DEF Holds, Undisturbed
    <3>3. ASSUME NEW t \in Slots, req'[t].key = k
          PROVE  ChanceOf(users'[k], codes'[k], req'[t])
      BY <3>1, <3>2, <3>3 DEF Holds
    <3>4. ASSUME Quiet(k)'
          PROVE  ChanceOf(users'[k], codes'[k], Idle)
      <4>1. req'[s].key = None
        BY <3>4 DEF Quiet, Holds
      <4>2. Free(s)'
        BY <4>1, KeyAssumption DEF IInv, Base, CoroutinesInv, Keyed
      <4>3. r \in Held /\ r.pc = "idle"
        BY <4>2 DEF Holds, IInv, Base, TypeOK, Free, At
      <4>4. r = Idle
        BY <4>3 DEF Held, Idle
      <4> QED
        BY <3>1, <4>4
    <3> QED
      BY <2>1, <3>3, <3>4 DEF HasAChance
  <2>2. CASE u # k
    <3>1. users'[u] = users[u] /\ codes'[u] = codes[u]
      BY <2>2
    <3>2. HasAChance(u)
      BY <1>1, <3>1 DEF PendingInv, Undisturbed
    <3>3. \A t \in Slots : (req[t].key = u <=> req'[t].key = u) /\ (req'[t].key = u => req'[t] = req[t])
      BY <2>2, KeyAssumption DEF Holds, Users
    <3>4. Quiet(u)' => Quiet(u)
      BY <3>3 DEF Quiet
    <3> QED
      BY <3>1, <3>2, <3>3, <3>4 DEF HasAChance
  <2> QED
    BY <2>1, <2>2
<1>2. ASSUME NEW t \in Slots
      PROVE  NoCodeNeeded(req'[t])
  BY DEF PendingInv, Holds
<1> QED
  BY <1>1, <1>2 DEF PendingInv, NoCodeNeeded

\* A request in progress goes on as r, or ends.
LEMMA StepIsFollowed ==
  ASSUME IInv, IInv', PendingInv, NEW s \in Slots, NEW q, NEW r, q = req[s], ~Free(s),
         req' = [req EXCEPT ![s] = r], r.key \in {None, q.key}, UNCHANGED overlapped,
         dropped \subseteq dropped', moderated \subseteq moderated',
         \A v \in Users : v # q.key => users'[v] = users[v] /\ codes'[v] = codes[v],
         NoCodeNeeded(r),
         ASSUME q.key \in Users, Undisturbed(q.key)', users'[q.key] # None,
                users[q.key] # None => ChanceOf(users[q.key], codes[q.key], q)
         PROVE  ChanceOf(users'[q.key], codes'[q.key], r)
  PROVE  PendingInv'
<1>1. PICK k : k = q.key
  OBVIOUS
<1>2. k \in Users /\ Holds(s, r)
  BY <1>1 DEF IInv, Base, CoroutinesInv, Keyed, Users, Holds
<1>3. \A t \in Slots \ {s} : req[t].key = k => ~Alone(k)'
  BY <1>1, AloneIsSole DEF IInv, Base, Alone
<1>4. ASSUME Undisturbed(k)', users[k] # None
      PROVE  ChanceOf(users[k], codes[k], q)
  BY <1>1, <1>2, <1>4 DEF Undisturbed, Alone, PendingInv, HasAChance
<1>5. Undisturbed(k)' /\ users'[k] # None => ChanceOf(users'[k], codes'[k], r)
  BY <1>1, <1>2, <1>4
<1> QED
  BY <1>1, <1>2, <1>3, <1>5, PendingFollows DEF Alone

LEMMA BeganIsFollowed ==
  ASSUME IInv, IInv', PendingInv, NEW s \in Slots, NEW r, Began(s, r)
  PROVE  PendingInv'
<1>1. PICK k : k = r.key
  OBVIOUS
<1>2. /\ Holds(s, r)
      /\ dropped' = dropped
      /\ \A u : Alone(u)' => Alone(u)
      /\ Alone(k)' => Quiet(k)
  BY <1>1, StartKeeps DEF Began, IInv, Base, Users
<1>3. /\ UNCHANGED <<users, codes, moderated>>
      /\ k \in Users /\ req[s].key = None
  BY <1>1 DEF Began, accounts, IInv, Base, CoroutinesInv, Keyed
<1>4. \A t \in Slots \ {s} : req[t].key = k => ~Alone(k)'
  BY <1>2 DEF Quiet
<1>5. ASSUME Undisturbed(k)', users'[k] # None
      PROVE  ChanceOf(users'[k], codes'[k], r)
  <2>1. Undisturbed(k) /\ Quiet(k)
    BY <1>2, <1>3, <1>5 DEF Undisturbed
  <2>2. ChanceOf(users[k], codes[k], Idle)
    BY <1>3, <1>5, <2>1 DEF PendingInv, HasAChance
  <2>3. Waits(users[k], codes[k])
    BY <2>2, IdleIsFree DEF ChanceOf
  <2>4. r.pc = "save" /\ r.outcome # "moderation" => Waits(r.user, codes[k])
    BY <1>1, <2>1, <2>3 DEF Began, CopyStands, MayBecome, Waits, Undisturbed
  <2> QED
    BY <1>3, <2>3, <2>4 DEF ChanceOf
<1>6. NoCodeNeeded(r)
  BY DEF Began, NoCodeNeeded
<1> QED
  BY <1>1, <1>2, <1>3, <1>4, <1>5, <1>6, PendingFollows

LEMMA InsertUserIsFollowed ==
  ASSUME IInv, IInv', PendingInv, NEW s \in Slots, InsertUser(s)
  PROVE  PendingInv'
<1>1. PICK q : q = req[s]
  OBVIOUS
<1>2. q.pc = "insert" /\ ~Free(s) /\ UNCHANGED <<codes, moderated, overlapped, dropped>>
  BY <1>1 DEF InsertUser, At, Free, Answer, Finish, Goto, history
<1>3. NoCodeNeeded(q) /\ NoCodeNeeded(Idle)
  BY <1>1, IdleIsFree DEF PendingInv, NoCodeNeeded
<1>4. CASE users[q.key] # None
  <2>1. req' = [req EXCEPT ![s] = Idle] /\ UNCHANGED users
    BY <1>1, <1>4 DEF InsertUser, Finish, Goto
  <2>2. ASSUME ChanceOf(users[q.key], codes[q.key], q)
        PROVE  ChanceOf(users[q.key], codes[q.key], Idle)
    BY <1>2, <2>2, IdleIsFree DEF ChanceOf
  <2> QED
    BY <1>1, <1>2, <1>3, <1>4, <2>1, <2>2, IdleIsFree, StepIsFollowed
<1>5. CASE users[q.key] = None
  <2>1. users' = [users EXCEPT ![q.key] = q.user]
    BY <1>1, <1>5 DEF InsertUser, Put
  <2>2. \A v \in Users : v # q.key => users'[v] = users[v]
    BY <2>1 DEF IInv, Base, TypeOK
  <2>3. q.key \in Users => users'[q.key] = q.user
    BY <2>1 DEF IInv, Base, TypeOK
  <2>4. CASE q.outcome = "tokens"
    <3>1. req' = [req EXCEPT ![s] = Idle]
      BY <1>1, <1>5, <2>4 DEF InsertUser, Answer, Finish, Goto
    <3>2. ChanceOf(q.user, codes[q.key], Idle)
      BY <1>2, <1>3, <2>4, IdleIsFree DEF NoCodeNeeded, ChanceOf, Waits
    <3> QED
      BY <1>1, <1>2, <1>3, <2>2, <2>3, <3>1, <3>2, IdleIsFree, StepIsFollowed
  <2>5. CASE q.outcome # "tokens"
    <3>1. PICK r : r = Waiting(q.key, "issue_otp")
      OBVIOUS
    <3>2. req' = [req EXCEPT ![s] = r]
      BY <1>1, <1>5, <2>5, <3>1 DEF InsertUser, Goto
    <3>3. r.pc = "issue_otp" /\ r.key = q.key
      BY <3>1 DEF Waiting
    <3>4. \A user, code : ChanceOf(user, code, r)
      BY <3>3 DEF ChanceOf
    <3>5. NoCodeNeeded(r)
      BY <3>3 DEF NoCodeNeeded
    <3> QED
      BY <1>1, <1>2, <2>2, <3>2, <3>3, <3>4, <3>5, StepIsFollowed
  <2> QED
    BY <2>4, <2>5
<1> QED
  BY <1>4, <1>5

\* The steps that write neither accounts nor codes, before the save.
LEMMA OnTheWayIsFollowed ==
  ASSUME IInv, IInv', PendingInv, NEW s \in Slots, NEW q, NEW r, q = req[s], ~Free(s),
         req' = [req EXCEPT ![s] = r], r.key \in {None, q.key},
         UNCHANGED <<users, codes, moderated, overlapped>>, dropped \subseteq dropped',
         q.pc \notin {"issue_otp", "save"},
         r.pc \notin {"issue_otp", "insert", "save"}
  PROVE  PendingInv'
<1>1. ASSUME ChanceOf(users[q.key], codes[q.key], q)
      PROVE  ChanceOf(users[q.key], codes[q.key], r)
  BY <1>1 DEF ChanceOf
<1>2. NoCodeNeeded(r)
  BY DEF NoCodeNeeded
<1> QED
  BY <1>1, <1>2, StepIsFollowed

LEMMA IssueOtpIsFollowed ==
  ASSUME IInv, IInv', PendingInv, NEW s \in Slots, IssueOtp(s)
  PROVE  PendingInv'
<1>1. PICK q : q = req[s]
  OBVIOUS
<1>2. /\ ~Free(s) /\ req' = [req EXCEPT ![s] = Idle]
      /\ codes' = [codes EXCEPT ![q.key] = "live"]
      /\ UNCHANGED <<users, moderated, overlapped, dropped>>
  BY <1>1 DEF IssueOtp, At, Free, Finish, Goto, history
<1>3. /\ q.key \in Users => codes'[q.key] = "live"
      /\ \A v \in Users : v # q.key => codes'[v] = codes[v]
  BY <1>2 DEF IInv, Base, TypeOK
<1>4. ASSUME q.key \in Users
      PROVE  ChanceOf(users'[q.key], codes'[q.key], Idle)
  BY <1>3, <1>4, IdleIsFree DEF ChanceOf, Waits
<1>5. NoCodeNeeded(Idle)
  BY IdleIsFree DEF NoCodeNeeded
<1> QED
  BY <1>1, <1>2, <1>3, <1>4, <1>5, IdleIsFree, StepIsFollowed

LEMMA CheckCodeIsFollowed ==
  ASSUME IInv, IInv', PendingInv, NEW s \in Slots, CheckCode(s)
  PROVE  PendingInv'
<1>1. PICK q, r : q = req[s] /\ r = [q EXCEPT !.pc = "consume"]
  OBVIOUS
<1>2. /\ q.pc = "check_code" /\ ~Free(s)
      /\ UNCHANGED <<users, codes, moderated, overlapped, dropped>>
      /\ Goto(s, r) \/ Finish(s)
  BY <1>1 DEF CheckCode, At, Free, Finish, Goto, history, accounts
<1>3. q \in UserHeld
  BY <1>1, <1>2, SlotHolds DEF IInv, Base, HasUser
<1>4. r.pc = "consume" /\ r.key = q.key
  BY <1>1, <1>3 DEF UserHeld
<1>5. req' = [req EXCEPT ![s] = r] \/ req' = [req EXCEPT ![s] = Idle]
  BY <1>2 DEF Goto, Finish
<1> QED
  BY <1>1, <1>2, <1>4, <1>5, IdleIsFree, OnTheWayIsFollowed

LEMMA ConsumeIsFollowed ==
  ASSUME IInv, IInv', PendingInv, NEW s \in Slots, Consume(s)
  PROVE  PendingInv'
<1>1. PICK q : q = req[s]
  OBVIOUS
<1>2. /\ q.pc = "consume" /\ ~Free(s)
      /\ codes' = [codes EXCEPT ![q.key] = IF @ = "live" THEN "used" ELSE @]
      /\ UNCHANGED <<users, moderated, overlapped, dropped>>
  BY <1>1 DEF Consume, At, Free, Answer, Finish, Goto, history
<1>3. q \in UserHeld /\ q.key \in Users /\ q.user \in User /\ SlotGood(q)
  BY <1>1, <1>2, SlotHolds DEF IInv, Base, HasUser, UserHeld
<1>4. \A v \in Users : v # q.key => codes'[v] = codes[v]
  BY <1>2 DEF IInv, Base, TypeOK
<1>5. CASE q.user.status = "pending_verification"
  <2>1. PICK r : r = Hold("save", q.key, [q.user EXCEPT !.status = "active"], "tokens")
    OBVIOUS
  <2>2. req' = [req EXCEPT ![s] = r]
    BY <1>1, <1>5, <2>1 DEF Consume, Goto
  <2>3. r.pc = "save" /\ r.key = q.key /\ r.user.status = "active"
    BY <1>3, <2>1 DEF Hold, User
  <2>4. \A user, code : ChanceOf(user, code, r)
    BY <2>3 DEF ChanceOf, Waits
  <2>5. NoCodeNeeded(r)
    BY <2>3 DEF NoCodeNeeded
  <2> QED
    BY <1>1, <1>2, <1>4, <2>2, <2>3, <2>4, <2>5, StepIsFollowed
<1>6. CASE q.user.status # "pending_verification"
  <2>1. req' = [req EXCEPT ![s] = Idle]
    BY <1>1, <1>6 DEF Consume, Answer, Finish, Goto
  <2>2. ASSUME Undisturbed(q.key)'
        PROVE  \A code : ChanceOf(users[q.key], code, Idle)
    <3>1. Alone(q.key)
      BY <1>2, <2>2 DEF Undisturbed, Alone
    <3>2. users[q.key].status # "pending_verification"
      BY <1>2, <1>3, <1>6, <3>1 DEF SlotGood, CopyStands
    <3> QED
      BY <3>2, IdleIsFree DEF ChanceOf, Waits
  <2>3. NoCodeNeeded(Idle)
    BY IdleIsFree DEF NoCodeNeeded
  <2> QED
    BY <1>1, <1>2, <1>4, <2>1, <2>2, <2>3, IdleIsFree, StepIsFollowed
<1> QED
  BY <1>5, <1>6

LEMMA LoginIsFollowed ==
  ASSUME IInv, IInv', PendingInv, NEW s \in Slots, Login(s) \/ FindByProvider(s)
  PROVE  PendingInv'
<1>1. PICK q, r : q = req[s] /\ r = Waiting(q.key, "by_email")
  OBVIOUS
<1>2. /\ q.pc \in {"login", "by_provider"} /\ ~Free(s)
      /\ UNCHANGED <<users, codes, moderated, overlapped, dropped>>
      /\ req' = [req EXCEPT ![s] = r] \/ req' = [req EXCEPT ![s] = Idle]
  <2>1. CASE Login(s)
    BY <1>1, <2>1 DEF Login, At, Free, Answer, Finish, Goto, history
  <2>2. CASE FindByProvider(s)
    BY <1>1, <2>2 DEF FindByProvider, At, Free, Answer, Finish, Goto, history
  <2> QED
    BY <2>1, <2>2
<1>3. r.pc = "by_email" /\ r.key = q.key
  BY <1>1 DEF Waiting
<1> QED
  BY <1>1, <1>2, <1>3, IdleIsFree, OnTheWayIsFollowed

LEMMA FindByEmailIsFollowed ==
  ASSUME IInv, IInv', PendingInv, NEW s \in Slots, FindByEmail(s)
  PROVE  PendingInv'
<1>1. PICK q : q = req[s]
  OBVIOUS
<1>2. q.pc = "by_email" /\ ~Free(s) /\ UNCHANGED <<users, codes, moderated, overlapped, dropped>>
  BY <1>1 DEF FindByEmail, At, Free, Goto, history, accounts
<1>3. CASE users[q.key] # None
  <2>1. PICK r : r = Hold("save", q.key, [users[q.key] EXCEPT !.linked = TRUE], "tokens")
    OBVIOUS
  <2>2. req' = [req EXCEPT ![s] = r]
    BY <1>1, <1>3, <2>1 DEF FindByEmail, Goto
  <2>3. r.pc = "save" /\ r.key = q.key /\ r.user = [users[q.key] EXCEPT !.linked = TRUE]
    BY <2>1 DEF Hold
  <2>4. ASSUME q.key \in Users, ChanceOf(users[q.key], codes[q.key], q)
        PROVE  ChanceOf(users[q.key], codes[q.key], r)
    <3>1. users[q.key] \in User
      BY <1>3, <2>4 DEF IInv, Base, TypeOK, Maybe
    <3>2. r.user.status = users[q.key].status
      BY <2>3, <3>1 DEF User
    <3>3. Waits(users[q.key], codes[q.key])
      BY <1>2, <2>4 DEF ChanceOf
    <3> QED
      BY <2>3, <3>2, <3>3 DEF ChanceOf, Waits
  <2>5. NoCodeNeeded(r)
    BY <2>3 DEF NoCodeNeeded
  <2> QED
    BY <1>1, <1>2, <1>3, <2>2, <2>3, <2>4, <2>5, StepIsFollowed
<1>4. CASE users[q.key] = None
  <2>1. PICK r : r = Hold("insert", q.key, SignedUp, "tokens")
    OBVIOUS
  <2>2. req' = [req EXCEPT ![s] = r]
    BY <1>1, <1>4, <2>1 DEF FindByEmail, Goto
  <2>3. NoCodeNeeded(r) /\ r.key = q.key
    BY <2>1 DEF Hold, NoCodeNeeded, SignedUp
  <2> QED
    BY <1>1, <1>2, <1>4, <2>2, <2>3, StepIsFollowed
<1> QED
  BY <1>3, <1>4

LEMMA SaveUserIsFollowed ==
  ASSUME IInv, IInv', PendingInv, NEW s \in Slots, SaveUser(s)
  PROVE  PendingInv'
<1>1. PICK q : q = req[s]
  OBVIOUS
<1>2. /\ q.pc = "save" /\ ~Free(s)
      /\ users' = [users EXCEPT ![q.key] = q.user]
      /\ moderated' = IF q.outcome = "moderation" THEN moderated \cup {q.key} ELSE moderated
      /\ req' = [req EXCEPT ![s] = Idle]
      /\ UNCHANGED <<codes, overlapped, dropped>>
  BY <1>1 DEF SaveUser, Put, At, Free, Answer, Finish, Goto, history
<1>3. q.key \in Users /\ users[q.key] # None
  BY <1>1, <1>2 DEF IInv, Base, CoroutinesInv, Keyed, Users, SlotGood, Exists
<1>4. users'[q.key] = q.user /\ \A v \in Users : v # q.key => users'[v] = users[v]
  BY <1>2, <1>3 DEF IInv, Base, TypeOK
<1>5. ASSUME Undisturbed(q.key)', ChanceOf(users[q.key], codes[q.key], q)
      PROVE  ChanceOf(users'[q.key], codes'[q.key], Idle)
  <2>1. q.outcome # "moderation"
    BY <1>2, <1>5 DEF Undisturbed
  <2> QED
    BY <1>2, <1>4, <1>5, <2>1, IdleIsFree DEF ChanceOf
<1>6. NoCodeNeeded(Idle)
  BY IdleIsFree DEF NoCodeNeeded
<1> QED
  BY <1>1, <1>2, <1>3, <1>4, <1>5, <1>6, IdleIsFree, StepIsFollowed

LEMMA ExpireIsFollowed ==
  ASSUME IInv, IInv', PendingInv, NEW s \in Slots, UNCHANGED accounts,
         \/ Expire(s)
         \/ ExpireLost(s) /\ Goto(s, Waiting(req[s].key, req[s].then))
  PROVE  PendingInv'
<1>1. PICK q, r : q = req[s] /\ r = Waiting(q.key, q.then)
  OBVIOUS
<1>2. /\ q.pc = "expire" /\ ~Free(s) /\ req' = [req EXCEPT ![s] = r]
      /\ UNCHANGED <<users, codes, moderated, overlapped, dropped>>
  BY <1>1 DEF Expire, ExpireLost, At, Free, Goto, history, accounts
<1>3. q.then \in {"login", "by_provider"}
  BY <1>1, <1>2 DEF IInv, Base, TypeOK, Held, Idle
<1>4. r.pc \in {"login", "by_provider"} /\ r.key = q.key
  BY <1>1, <1>3 DEF Waiting
<1> QED
  BY <1>1, <1>2, <1>4, OnTheWayIsFollowed

LEMMA CrashIsFollowed ==
  ASSUME IInv, IInv', PendingInv, NEW s \in Slots, Crash(s), UNCHANGED accounts
  PROVE  PendingInv'
<1>1. PICK q : q = req[s]
  OBVIOUS
<1>2. /\ ~Free(s) /\ req' = [req EXCEPT ![s] = Idle] /\ dropped' = dropped \cup {q.key}
      /\ UNCHANGED <<users, codes, moderated, overlapped>>
  BY <1>1 DEF Crash, accounts
<1>3. ~Undisturbed(q.key)' /\ NoCodeNeeded(Idle)
  BY <1>2, IdleIsFree DEF Undisturbed, NoCodeNeeded
<1> QED
  BY <1>1, <1>2, <1>3, IdleIsFree, StepIsFollowed

LEMMA TimeIsFollowed ==
  ASSUME IInv, IInv', PendingInv, Time \/ Refused \/ UNCHANGED vars
  PROVE  PendingInv'
<1>1. UNCHANGED <<users, moderated, req, overlapped, dropped>>
  BY DEF Time, WindowEnds, CodeExpires, Refused, vars, accounts, history
<1>2. ASSUME NEW u \in Users
      PROVE  codes'[u] = codes[u] \/ (codes[u] = "live" /\ codes'[u] = "expired")
  <2>1. CASE UNCHANGED codes
    BY <2>1
  <2>2. CASE \E v \in Users : codes[v] = "live" /\ codes' = [codes EXCEPT ![v] = "expired"]
    BY <2>2 DEF IInv, Base, TypeOK
  <2> QED
    BY <2>1, <2>2 DEF Time, WindowEnds, CodeExpires, Refused, vars, accounts
<1>3. ASSUME NEW u \in Users, NEW user, NEW r, ChanceOf(user, codes[u], r)
      PROVE  ChanceOf(user, codes'[u], r)
  BY <1>2, <1>3 DEF ChanceOf, Waits
<1> QED
  BY <1>1, <1>3 DEF PendingInv, HasAChance, Undisturbed, Alone, Quiet, NoCodeNeeded

-----------------------------------------------------------------------------
LEMMA InitIsPending == Init => PendingInv
  BY IdleIsFree DEF Init, CoroutinesInit, PendingInv, NoCodeNeeded

LEMMA NextIsPending == IInv /\ PendingInv /\ [Next]_vars /\ IInv' => PendingInv'
<1> SUFFICES ASSUME IInv, PendingInv, [Next]_vars, IInv'
             PROVE  PendingInv'
  OBVIOUS
<1>1. CASE UNCHANGED vars \/ Time
  BY <1>1, TimeIsFollowed
<1>2. ASSUME NEW s \in Slots, Begin(s)
      PROVE  PendingInv'
  BY <1>2, BeginShape, BeganIsFollowed, TimeIsFollowed
<1>3. ASSUME NEW s \in Slots, Serve(s)
      PROVE  PendingInv'
  BY <1>3, InsertUserIsFollowed, IssueOtpIsFollowed, CheckCodeIsFollowed, ConsumeIsFollowed,
     LoginIsFollowed, FindByEmailIsFollowed, SaveUserIsFollowed, ExpireIsFollowed DEF Serve
<1>4. ASSUME NEW s \in Slots, Fail(s)
      PROVE  PendingInv'
  <2>1. UNCHANGED accounts
    BY <1>4 DEF Fail
  <2>2. Crash(s) \/ (ExpireLost(s) /\ Goto(s, Waiting(req[s].key, req[s].then)))
    BY <1>4 DEF Fail, ExpireLost
  <2> QED
    BY <2>1, <2>2, CrashIsFollowed, ExpireIsFollowed
<1> QED
  BY <1>1, <1>2, <1>3, <1>4 DEF Next

\* Nobody is left half-way through registration: unless it died, overlapped
\* another request or was moderated, an account that waits for its code has one
\* that works until it expires (register, verify_otp).
THEOREM PendingHaveCodes == Spec => []PendingHasACode
<1>1. IInv /\ PendingInv => PendingHasACode
  BY IdleIsFree DEF PendingInv, HasAChance, ChanceOf, Waits, Undisturbed, PendingHasACode
<1>2. Init => IInv /\ PendingInv
  BY InitIsGood, InitIsPending
<1>3. IInv /\ PendingInv /\ [Next]_vars => IInv' /\ PendingInv'
  BY NextIsGood, NextIsPending
<1> QED
  BY <1>1, <1>2, <1>3, PTL DEF Spec
=============================================================================
