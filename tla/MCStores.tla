------------------------------ MODULE MCStores ------------------------------
(***************************************************************************)
(* Constants for checking Stores: three orders whose clients disagree.     *)
(***************************************************************************)
EXTENDS Stores, TLC

CONSTANTS o1, o2, o3

MCOrders == {o1, o2, o3}
MCStars == (o1 :> 2) @@ (o2 :> 5) @@ (o3 :> 3)

\* Slots and the ids of reviews are interchangeable.
IdSymmetry == Permutations(Slots) \cup Permutations(ReviewIds)
=============================================================================
