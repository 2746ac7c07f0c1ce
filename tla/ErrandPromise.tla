---------------------------- MODULE ErrandPromise ----------------------------
(***************************************************************************)
(* What an errand promises its client and its courier, every operation in  *)
(* one step: it is taken by one courier, who starts and completes it and   *)
(* is credited the fee once, or it is cancelled before it was started.     *)
(* An errand that two requests touched at once is void: nothing is         *)
(* promised of it any more.                                                *)
(***************************************************************************)
CONSTANTS Errands, Couriers, None

VARIABLES
  stage,      \* "none" before the errand is published
  taker,      \* the courier who took it, or None
  credited    \* has the taker been credited the fee?

vars == <<stage, taker, credited>>

Stages == {"none", "open", "assigned", "in_progress", "completed", "cancelled", "void"}

Init ==
  /\ stage = [e \in Errands |-> "none"]
  /\ taker = [e \in Errands |-> None]
  /\ credited = [e \in Errands |-> FALSE]

Move(e, from, to) == stage[e] = from /\ stage' = [stage EXCEPT ![e] = to]

Publish(e) == Move(e, "none", "open") /\ UNCHANGED <<taker, credited>>

Take(e, c) ==
  /\ Move(e, "open", "assigned")
  /\ taker' = [taker EXCEPT ![e] = c]
  /\ UNCHANGED credited

Work(e) ==
  /\ Move(e, "assigned", "in_progress") \/ Move(e, "in_progress", "completed")
  /\ UNCHANGED <<taker, credited>>

Cancel(e) ==
  /\ Move(e, "open", "cancelled") \/ Move(e, "assigned", "cancelled")
  /\ UNCHANGED <<taker, credited>>

Credit(e) ==
  /\ stage[e] = "completed"
  /\ ~credited[e]
  /\ credited' = [credited EXCEPT ![e] = TRUE]
  /\ UNCHANGED <<stage, taker>>

Void(e) ==
  /\ stage[e] # "none"
  /\ stage' = [stage EXCEPT ![e] = "void"]
  /\ taker' = [taker EXCEPT ![e] = None]
  /\ credited' = [credited EXCEPT ![e] = FALSE]

Next ==
  \E e \in Errands :
    \/ Publish(e) \/ Work(e) \/ Cancel(e) \/ Credit(e) \/ Void(e)
    \/ \E c \in Couriers : Take(e, c)

Spec == Init /\ [][Next]_vars
=============================================================================
