------------------------- MODULE DocumentedBehaviour -------------------------
(***************************************************************************)
(* What the documentation of the repository says of the marketplace and    *)
(* the code does not keep even when requests do not overlap.  It quotes    *)
(* the line, and a run shows what breaks it.                               *)
(***************************************************************************)
EXTENDS Marketplace

\* "Ledger on delivery+approval: earning(collaborator, D)"
\* (docs/COMMISSION_AND_SUBSCRIPTION.md): the courier who delivered an order
\* paid through the gateway has earned its delivery fee.
PrepaidFeeIsBooked ==
  Quiet => \A o \in OrderIds : \A p \in PaymentsOf(o) :
    payments[p].method = "wompi" /\ payments[p].status = "approved"
        /\ orders[o].status = "delivered" /\ orders[o].fee
      => Credited(o, orders[o].collaborator) = 1
=============================================================================
