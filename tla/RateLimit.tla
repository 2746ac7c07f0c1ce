----------------------------- MODULE RateLimit -----------------------------
(***************************************************************************)
(* The fixed-window limiter in front of login, social login and the AI     *)
(* chat (core/ratelimit.py), for one client address.  The counter and its  *)
(* time to live are two Redis commands; a request whose command fails is   *)
(* let through.                                                            *)
(***************************************************************************)
EXTENDS Coroutines

CONSTANT Limit    \* requests let through in a window

ASSUME LimitAssumption == Limit \in Nat \ {0}

\* The counter's key in Redis (count 0: there is no key), has it a time to live;
\* history, lost: the command that gives it one never reached Redis.
VARIABLE window

Window == [count : 0..Limit + 1, expires : BOOLEAN, lost : BOOLEAN]

NoWindow == [count |-> 0, expires |-> FALSE, lost |-> FALSE]

WindowInit == window = NoWindow

\* INCR.  Beyond the limit the counter only matters for being there.
Incr == IF window.count > Limit THEN window.count ELSE window.count + 1

\* What the request does when it is let through: it waits at label.
Waiting(u, label) == [pc |-> label, key |-> u]

\* Mutant: the counter gets its time to live when the limit is reached.
HitLate(s, u, label) ==
  /\ Free(s)
  /\ window' = [window EXCEPT !.count = Incr]
  /\ \/ Incr > Limit  /\ Start(s, [pc |-> "expire", key |-> u, then |-> label])
     \/ Incr <= Limit /\ Start(s, Waiting(u, label))

\* A request by u arrives; the first of a window gives the counter its end.
Hit(s, u, label) ==
  /\ Free(s)
  /\ window' = [window EXCEPT !.count = Incr]
  /\ \/ Incr = 1          /\ Start(s, [pc |-> "expire", key |-> u, then |-> label])
     \/ Incr \in 2..Limit /\ Start(s, Waiting(u, label))
     \/ Incr > Limit      /\ UNCHANGED <<req, history>>

\* Redis does not answer INCR.
HitUnanswered(s, u, label) ==
  /\ CanCrash
  /\ Free(s)
  /\ Start(s, Waiting(u, label))
  /\ UNCHANGED window

Expire(s) ==
  /\ At(s, "expire")
  /\ window' = [window EXCEPT !.expires = TRUE]
  /\ Goto(s, Waiting(req[s].key, req[s].then))

\* Redis does not answer EXPIRE and the request goes on, or the process dies
\* before it sends the command.
ExpireLost(s) ==
  /\ CanCrash
  /\ At(s, "expire")
  /\ window' = [window EXCEPT !.lost = TRUE]
  /\ Goto(s, Waiting(req[s].key, req[s].then)) \/ Crash(s)

\* Redis forgets the key when its time is over.
WindowEnds ==
  /\ window.expires
  /\ window' = NoWindow
  /\ UNCHANGED <<req, history>>

\* Only one failure locks a client out for good, the loss of the one EXPIRE of
\* its window: otherwise, whatever else overlaps, dies or goes unanswered, the
\* counter has an end or the request that began the window is about to set it.
EveryWindowEnds ==
  window.count > 0 /\ ~window.expires =>
    window.lost \/ \E s \in Slots : At(s, "expire")
=============================================================================
