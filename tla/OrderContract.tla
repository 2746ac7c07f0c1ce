---------------------------- MODULE OrderContract ----------------------------
(***************************************************************************)
(* What the marketplace promises about one order after another: every      *)
(* operation is a single step.  An order is placed, accepted, prepared,    *)
(* ready, given to one courier, picked up and delivered, or cancelled      *)
(* while it still is in the store; the money it brings is booked once, and *)
(* the money of a cash order when, and soon after, it is delivered.        *)
(***************************************************************************)
CONSTANTS OrderIds, CourierIds, None

VARIABLES
  status,     \* "none" before the order is placed
  cash,       \* is the order paid on delivery?
  courier,    \* who carries it, or None
  booked      \* the ledger has its commission and its seller's earning

vars == <<status, cash, courier, booked>>

InStore == {"pending", "accepted", "preparing", "ready"}

TypeOK ==
  /\ status \in [OrderIds -> InStore \cup
                   {"none", "assigned", "picked_up", "delivered", "cancelled"}]
  /\ cash \in [OrderIds -> BOOLEAN]
  /\ courier \in [OrderIds -> CourierIds \cup {None}]
  /\ booked \in [OrderIds -> BOOLEAN]

Init ==
  /\ status = [o \in OrderIds |-> "none"]
  /\ cash = [o \in OrderIds |-> FALSE]
  /\ courier = [o \in OrderIds |-> None]
  /\ booked = [o \in OrderIds |-> FALSE]

Move(o, from, to) == status[o] = from /\ status' = [status EXCEPT ![o] = to]

Place(o) ==
  /\ Move(o, "none", "pending")
  /\ \E onDelivery \in BOOLEAN : cash' = [cash EXCEPT ![o] = onDelivery]
  /\ UNCHANGED <<courier, booked>>

Prepare(o) ==
  /\ \/ Move(o, "pending", "accepted")
     \/ Move(o, "accepted", "preparing")
     \/ Move(o, "preparing", "ready")
  /\ UNCHANGED <<cash, courier, booked>>

Assign(o, c) ==
  /\ Move(o, "ready", "assigned")
  /\ courier' = [courier EXCEPT ![o] = c]
  /\ UNCHANGED <<cash, booked>>

Carry(o) ==
  /\ Move(o, "assigned", "picked_up") \/ Move(o, "picked_up", "delivered")
  /\ UNCHANGED <<cash, courier, booked>>

Cancel(o) ==
  /\ \E from \in InStore : Move(o, from, "cancelled")
  /\ UNCHANGED <<cash, courier, booked>>

Book(o) ==
  /\ ~booked[o]
  /\ status[o] # "none"
  /\ cash[o] => status[o] = "delivered"
  /\ booked' = [booked EXCEPT ![o] = TRUE]
  /\ UNCHANGED <<status, cash, courier>>

Next ==
  \E o \in OrderIds :
    \/ Place(o) \/ Prepare(o) \/ Carry(o) \/ Cancel(o) \/ Book(o)
    \/ \E c \in CourierIds : Assign(o, c)

\* Booking a delivered cash order is the one thing that must happen.
BookCash(o) == cash[o] /\ Book(o)

Spec == Init /\ [][Next]_vars /\ \A o \in OrderIds : WF_vars(BookCash(o))
=============================================================================
