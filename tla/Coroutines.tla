----------------------------- MODULE Coroutines -----------------------------
(***************************************************************************)
(* Request handlers in progress, for the components whose documents the    *)
(* marketplace does not touch.  A slot holds one coroutine: pc says which  *)
(* database call it makes next, key names the document it is about, the    *)
(* other fields are its local variables and differ from label to label.    *)
(*                                                                         *)
(* Two history variables tell the environments apart in one run:           *)
(* overlapped collects the keys that two coroutines ever held together,    *)
(* dropped the keys of coroutines that stopped between two calls.          *)
(***************************************************************************)
EXTENDS Naturals

CONSTANTS
  None,       \* Python's None, and a missing document
  Keys,       \* what coroutines are about: ids of one collection
  Slots,      \* bound: how many coroutines may be in progress together
  CanCrash    \* may a coroutine stop between two of its database calls?

ASSUME CrashAssumption == CanCrash \in BOOLEAN
ASSUME KeyAssumption == None \notin Keys

VARIABLES req, overlapped, dropped

history == <<overlapped, dropped>>

Maybe(S) == S \cup {None}

\* Beanie's save() and insert(): the whole document at once, whatever the
\* collection holds by then.
Put(collection, id, doc) == [collection EXCEPT ![id] = doc]

Idle == [pc |-> "idle", key |-> None]

CoroutinesInit ==
  /\ req = [s \in Slots |-> Idle]
  /\ overlapped = {}
  /\ dropped = {}

At(s, label) == req[s].pc = label

Free(s) == At(s, "idle")

\* A request arrives and runs up to its first await with something to lose.
Start(s, r) ==
  /\ req' = [req EXCEPT ![s] = r]
  /\ overlapped' = overlapped \cup {k \in {r.key} : \E t \in Slots \ {s} : req[t].key = k}
  /\ UNCHANGED dropped

\* The coroutine of slot s goes on as r, which says what call comes next.
Goto(s, r) ==
  /\ req' = [req EXCEPT ![s] = r]
  /\ UNCHANGED history

\* The response is sent.
Finish(s) == Goto(s, Idle)

\* The process dies, or a call raises: what was written stays written.
Crash(s) ==
  /\ CanCrash
  /\ ~Free(s)
  /\ req' = [req EXCEPT ![s] = Idle]
  /\ dropped' = dropped \cup {req[s].key}
  /\ UNCHANGED overlapped

\* Nobody else is at work on k.
Alone(k) == k \notin overlapped

\* No coroutine is at work on k.
Quiet(k) == \A s \in Slots : req[s].key # k
=============================================================================
