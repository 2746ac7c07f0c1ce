--------------------------- MODULE MCLiveTracking ---------------------------
(***************************************************************************)
(* Constants for checking LiveTracking: every connection follows the one   *)
(* delivery.                                                               *)
(***************************************************************************)
EXTENDS LiveTracking

CONSTANT d1

MCDeliveries == {d1}
MCTrackOf == [c \in Connections |-> d1]
=============================================================================
