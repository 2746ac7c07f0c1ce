------------------------------ MODULE Accounts ------------------------------
(***************************************************************************)
(* Accounts: registration with a one-time code and login (auth/service.py, *)
(* auth/otp.py), sign-up and login with a Google or Apple identity, the    *)
(* profile (users/service.py), the devices for push notifications          *)
(* (notifications/service.py), and the administrator's moderation          *)
(* (admin/service.py).  Every handler that changes an account saves the    *)
(* whole document it read, which may be the one its authentication read.   *)
(*                                                                         *)
(* A key is a person: one phone number and one e-mail address, which the   *)
(* unique indexes of the collection keep to one account.                   *)
(***************************************************************************)
EXTENDS RateLimit

Users == Keys

VARIABLES
  users,       \* person -> account document or None
  codes,       \* person -> the Redis key of the code, and why it is gone
  sessions,    \* the persons who hold a token
  passed,      \* history: how many verifications passed with the code
  moderated    \* history: the persons whose status an admin decided

accounts == <<users, codes, sessions, passed, moderated>>
vars == <<users, codes, sessions, passed, moderated, window, req, history>>

UserStatus == {"pending_verification", "profile_incomplete", "active", "suspended"}

\* password: was registered with one; linked: google_sub or apple_sub is set;
\* complete: the fields its role requires are there.
User == [status : UserStatus, password : BOOLEAN, linked : BOOLEAN, complete : BOOLEAN]

\* The code's key in Redis: there, or consumed, or gone by its time to live.
Code == {"live", "used", "expired"}

ASSUME DocumentAssumption == None \notin User \cup Code

Registered ==
  [status |-> "pending_verification", password |-> TRUE, linked |-> FALSE, complete |-> TRUE]

SignedUp ==
  [status |-> "profile_incomplete", password |-> FALSE, linked |-> TRUE, complete |-> FALSE]

Init ==
  /\ CoroutinesInit
  /\ WindowInit
  /\ users = [u \in Users |-> None]
  /\ codes = [u \in Users |-> None]
  /\ sessions = {}
  /\ passed = [u \in Users |-> 0]
  /\ moderated = {}

\* A coroutine that holds an account document; what it ends with.
Hold(label, u, user, outcome) ==
  [pc |-> label, key |-> u, user |-> user, outcome |-> outcome]

Ends == {"response", "tokens", "moderation"}

\* The response carries tokens, which a suspended account is refused.
Answer(s, granted) ==
  /\ sessions' = IF granted THEN sessions \cup {req[s].key} ELSE sessions
  /\ Finish(s)

-----------------------------------------------------------------------------
(* Registration and verification *)

Register(s, u) ==
  /\ Free(s)
  /\ users[u] = None
  /\ Start(s, Hold("insert", u, Registered, "response"))
  /\ UNCHANGED <<accounts, window>>

\* A unique index refuses a second account: the request ends with an error.
\* A social sign-up is answered at once, a registration sends a code first.
InsertUser(s) ==
  /\ At(s, "insert")
  /\ LET u == req[s].key
     IN  IF users[u] # None
           THEN Finish(s) /\ UNCHANGED <<users, sessions>>
           ELSE /\ users' = Put(users, u, req[s].user)
                /\ IF req[s].outcome = "tokens"
                     THEN Answer(s, TRUE)
                     ELSE /\ Goto(s, Waiting(u, "issue_otp"))
                          /\ UNCHANGED sessions
  /\ UNCHANGED <<codes, passed, moderated, window>>

\* Mutant: the code is stored before the account, under no phone yet.
IssueOtpNowhere(s) ==
  /\ At(s, "issue_otp")
  /\ Finish(s)
  /\ UNCHANGED <<accounts, window>>

IssueOtp(s) ==
  /\ At(s, "issue_otp")
  /\ codes' = [codes EXCEPT ![req[s].key] = "live"]
  /\ Finish(s)
  /\ UNCHANGED <<users, sessions, passed, moderated, window>>

\* The code was valid for OTP_TTL_SECONDS.
CodeExpires(u) ==
  /\ codes[u] = "live"
  /\ codes' = [codes EXCEPT ![u] = "expired"]
  /\ UNCHANGED <<users, sessions, passed, moderated, window, req, history>>

VerifyOtp(s, u) ==
  /\ Free(s)
  /\ users[u] # None
  /\ Start(s, Hold("check_code", u, users[u], "tokens"))
  /\ UNCHANGED <<accounts, window>>

\* The right code goes on, a wrong one is refused.
CheckCode(s) ==
  /\ At(s, "check_code")
  /\ \/ codes[req[s].key] = "live" /\ Goto(s, [req[s] EXCEPT !.pc = "consume"])
     \/ Finish(s)
  /\ UNCHANGED <<accounts, window>>

\* Mutant: the code is left for its time to live to remove.
ConsumeKept(s) ==
  /\ At(s, "consume")
  /\ passed' = [passed EXCEPT ![req[s].key] = @ + 1]
  /\ IF req[s].user.status = "pending_verification"
       THEN /\ Goto(s, Hold("save", req[s].key, [req[s].user EXCEPT !.status = "active"], "tokens"))
            /\ UNCHANGED sessions
       ELSE Answer(s, TRUE)
  /\ UNCHANGED <<users, codes, moderated, window>>

\* Mutant: the account that was verified is not saved.
ConsumeUnsaved(s) ==
  /\ At(s, "consume")
  /\ codes' = [codes EXCEPT ![req[s].key] = IF @ = "live" THEN "used" ELSE @]
  /\ passed' = [passed EXCEPT ![req[s].key] = @ + 1]
  /\ Answer(s, TRUE)
  /\ UNCHANGED <<users, moderated, window>>

Consume(s) ==
  /\ At(s, "consume")
  /\ codes' = [codes EXCEPT ![req[s].key] = IF @ = "live" THEN "used" ELSE @]
  /\ passed' = [passed EXCEPT ![req[s].key] = @ + 1]
  /\ IF req[s].user.status = "pending_verification"
       THEN /\ Goto(s, Hold("save", req[s].key, [req[s].user EXCEPT !.status = "active"], "tokens"))
            /\ UNCHANGED sessions
       ELSE Answer(s, TRUE)
  /\ UNCHANGED <<users, moderated, window>>

-----------------------------------------------------------------------------
(* Login and social login, behind the rate limiter *)

Arrive(s, u) ==
  /\ \E label \in {"login", "by_provider"} : Hit(s, u, label) \/ HitUnanswered(s, u, label)
  /\ UNCHANGED accounts

\* The password is right; a token shows who was verified, now or before.
MayLogin(user) ==
  user # None /\ user.password /\ user.status \in {"active", "profile_incomplete"}

Login(s) ==
  /\ At(s, "login")
  /\ Answer(s, MayLogin(users[req[s].key]))
  /\ UNCHANGED <<users, codes, passed, moderated, window>>

FindByProvider(s) ==
  /\ At(s, "by_provider")
  /\ LET u == req[s].key
     IN  IF users[u] # None /\ users[u].linked
           THEN Answer(s, users[u].status # "suspended")
           ELSE Goto(s, Waiting(u, "by_email")) /\ UNCHANGED sessions
  /\ UNCHANGED <<users, codes, passed, moderated, window>>

\* The identity is linked to the account of its e-mail address, or signs up.
FindByEmail(s) ==
  /\ At(s, "by_email")
  /\ LET u == req[s].key
     IN  IF users[u] # None
           THEN Goto(s, Hold("save", u, [users[u] EXCEPT !.linked = TRUE], "tokens"))
           ELSE Goto(s, Hold("insert", u, SignedUp, "tokens"))
  /\ UNCHANGED <<accounts, window>>

-----------------------------------------------------------------------------
(* Requests with a token.  The dependency reads the account and refuses a   *)
(* suspended one, and an incomplete one everything but its completion; the  *)
(* handler changes and saves the document that the dependency read.         *)

HoldsToken(u) == u \in sessions /\ users[u] # None /\ users[u].status # "suspended"

\* Mutant: whoever completes a profile is made active.
CompleteProfileAnyStatus(s, u) ==
  /\ Free(s)
  /\ u \in sessions /\ users[u] # None
  /\ Start(s, Hold("save", u, [users[u] EXCEPT !.complete = TRUE, !.status = "active"],
                   "response"))
  /\ UNCHANGED <<accounts, window>>

\* Mutant: the account is activated before its fields are filled in.
CompleteProfileEmpty(s, u) ==
  /\ Free(s)
  /\ HoldsToken(u)
  /\ users[u].status = "profile_incomplete"
  /\ Start(s, Hold("save", u, [users[u] EXCEPT !.status = "active"], "response"))
  /\ UNCHANGED <<accounts, window>>

CompleteProfile(s, u) ==
  /\ Free(s)
  /\ HoldsToken(u)
  /\ users[u].status = "profile_incomplete"
  /\ Start(s, Hold("save", u, [users[u] EXCEPT !.complete = TRUE, !.status = "active"],
                   "response"))
  /\ UNCHANGED <<accounts, window>>

\* update_profile and register_device_token: the fields they change play no
\* part here, the rest they write back.
UpdateAccount(s, u) ==
  /\ Free(s)
  /\ HoldsToken(u)
  /\ users[u].status # "profile_incomplete"
  /\ Start(s, Hold("save", u, users[u], "response"))
  /\ UNCHANGED <<accounts, window>>

SetUserStatus(s, u, status) ==
  /\ Free(s)
  /\ users[u] # None
  /\ Start(s, Hold("save", u, [users[u] EXCEPT !.status = status], "moderation"))
  /\ UNCHANGED <<accounts, window>>

SaveUser(s) ==
  /\ At(s, "save")
  /\ users' = Put(users, req[s].key, req[s].user)
  /\ moderated' = IF req[s].outcome = "moderation" THEN moderated \cup {req[s].key} ELSE moderated
  /\ Answer(s, req[s].outcome = "tokens" /\ req[s].user.status # "suspended")
  /\ UNCHANGED <<codes, passed, window>>

-----------------------------------------------------------------------------
Begin(s) ==
  \E u \in Users :
    \/ Register(s, u) \/ VerifyOtp(s, u) \/ Arrive(s, u)
    \/ CompleteProfile(s, u) \/ UpdateAccount(s, u)
    \/ \E status \in UserStatus : SetUserStatus(s, u, status)

Serve(s) ==
  \/ InsertUser(s) \/ IssueOtp(s)
  \/ CheckCode(s) \/ Consume(s)
  \/ Login(s) \/ FindByProvider(s) \/ FindByEmail(s)
  \/ SaveUser(s)
  \/ Expire(s) /\ UNCHANGED accounts

Fail(s) ==
  /\ \/ Crash(s) /\ ~At(s, "expire") /\ UNCHANGED window
     \/ ExpireLost(s)
  /\ UNCHANGED accounts

Time ==
  \/ WindowEnds /\ UNCHANGED accounts
  \/ \E u \in Users : CodeExpires(u)

Next ==
  \/ \E s \in Slots : Begin(s) \/ Serve(s) \/ Fail(s)
  \/ Time

Spec == Init /\ [][Next]_vars

\* The event loop resumes every coroutine whose call returned.
FairSpec == Spec /\ \A s \in Slots : WF_vars(Serve(s))

-----------------------------------------------------------------------------
(* Properties, under overlapping requests and crashes *)

Held ==
  {Idle}
  \cup [pc : {"expire"}, key : Users, then : {"login", "by_provider"}]
  \cup [pc : {"login", "by_provider", "by_email", "issue_otp"}, key : Users]
  \cup [pc : {"insert", "check_code", "consume", "save"}, key : Users, user : User,
        outcome : Ends]

TypeOK ==
  /\ users \in [Users -> Maybe(User)]
  /\ codes \in [Users -> Maybe(Code)]
  /\ sessions \subseteq Users
  /\ passed \in [Users -> Nat]
  /\ moderated \subseteq Users
  /\ window \in Window
  /\ req \in [Slots -> Held]
  /\ overlapped \subseteq Users
  /\ dropped \subseteq Users

\* Whatever stale document was saved last, there is a way into every account,
\* and its status fits what is known of the person unless an admin decided it:
\* one to be verified has a password, an active one its role's fields, one to
\* be completed lacks them.
Fitting(user) ==
  /\ user.status = "pending_verification" => user.password
  /\ user.status = "active" => user.complete
  /\ user.status = "profile_incomplete" => user.linked /\ ~user.complete
AccountsAreCoherent ==
  \A u \in Users : users[u] # None =>
    /\ users[u].password \/ users[u].linked
    /\ u \in moderated \/ Fitting(users[u])

\* Nobody is left half-way through registration: an account that waits for its
\* code has one that works, until the code expires, unless the registration
\* died or overlapped another request (there is no way to ask for a new code).
PendingHasACode ==
  \A u \in Users :
    /\ users[u] # None /\ users[u].status = "pending_verification"
    /\ Quiet(u) /\ Alone(u) /\ u \notin dropped \cup moderated
    => codes[u] \in {"live", "expired"}

\* "Return True and consume the code" (verify_otp): a code lets one request
\* pass, crashes included, unless two read it before either deletes it.
CodeWorksOnce == \A u \in Users : Alone(u) => passed[u] <= 1

\* An account's status is changed by an admin, by its code or by its profile;
\* an admin's decision stands against everybody else who saves the account, as
\* long as no two requests work on it at the same time.
ModerationStands ==
  [][\A u \in Users :
       (users[u] # None /\ users'[u] # users[u] /\ Alone(u)) =>
         \/ users'[u].status = users[u].status
         \/ \E s \in Slots : At(s, "save") /\ req[s].key = u /\ req[s].outcome = "moderation"
         \/ /\ users[u].status \in {"pending_verification", "profile_incomplete"}
            /\ users'[u].status = "active"]_vars

\* Whoever passed the verification is no longer waiting for it, in the end,
\* unless the request died after the code was consumed or overlapped another.
CodeActivates ==
  \A u \in Users :
    (passed[u] > 0) ~>
       \/ u \in overlapped \cup dropped \cup moderated
       \/ users[u] # None /\ users[u].status # "pending_verification"
=============================================================================
