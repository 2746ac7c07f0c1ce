--------------------------- MODULE MCMarketplace ---------------------------
(***************************************************************************)
(* Small instances of the marketplace for TLC.                             *)
(***************************************************************************)
EXTENDS MarketplaceInvariant, DocumentedBehaviour, TLC

CONSTANTS o1, o2, p1, p2, m1, m2, d1, d2, c1, c2, s1, s2

\* The operations, by who calls them, and what each run lets them call.
CustomerOps == {"create", "cancel", "intent", "webhook"}
SellerOps   == {"accept", "advance", "assign"}
CatalogOps  == {"edit_product", "delete_product"}
CourierOps  == {"advance_delivery", "location", "proof"}
RosterOps   == {"become", "verify", "availability"}

TradeOps    == CustomerOps \cup SellerOps \cup {"advance_delivery"}
ContractOps == TradeOps \cup {"availability"}
ServeOps    == TradeOps \cup CourierOps \cup RosterOps
ShelfOps    == {"create", "cancel", "accept"} \cup CatalogOps

\* Carts: one piece; one or two; a cart that names a product twice.
Item(p, n) == [product |-> p, qty |-> n]
OneOfOne   == { << Item(p1, 1) >> }
OneOrTwo   == { << Item(p1, 1) >>, << Item(p1, 2) >> }
NamedTwice == { << Item(p1, 2), Item(p2, 1), Item(p1, 1) >> }

\* Stocks at the start: not tracked at all, two of each, three of p1 only.
Untracked  == [p \in ProductIds |-> None]
TwoEach    == [p \in ProductIds |-> 2]
ThreeOfOne == [p \in ProductIds |-> IF p = p1 THEN 3 ELSE None]

WithFee   == {TRUE}
NoEdit    == {}
SellOut   == {0}

\* Ids are interchangeable; couriers only where all of them are onboarded or none.
IdSymmetry ==
  Permutations(OrderIds) \cup Permutations(PaymentIds) \cup Permutations(DeliveryIds)
    \cup Permutations(Slots)
=============================================================================
