----------------------------- MODULE MCAssistant -----------------------------
(***************************************************************************)
(* A small instance of the assistant for TLC: one client has ordered, the  *)
(* other asks about orders and a conversation that are not theirs.         *)
(***************************************************************************)
EXTENDS Assistant

CONSTANTS u1, u2

FirstOrders == [o \in Orders |-> u1]
=============================================================================
