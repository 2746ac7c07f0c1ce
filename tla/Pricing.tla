------------------------------- MODULE Pricing -------------------------------
(***************************************************************************)
(* The arithmetic of the pure logic modules: what an order costs and how   *)
(* its money is split (orders/logic.py, payments/logic.py), what a store   *)
(* owes (settlements/logic.py), and the running average of a rating        *)
(* (reviews/logic.py).  Amounts are whole pesos, a commission rate is in   *)
(* per cent and an average in hundredths of a star.                        *)
(*                                                                         *)
(* The code rounds floats: a quotient goes to a nearest integer, and at a  *)
(* tie either neighbour may come out, because the float can lie on either  *)
(* side.  So a rounded quotient is a set of one or two integers.           *)
(***************************************************************************)
EXTENDS Integers, FiniteSetsExt

CONSTANT NoThreshold    \* free_over = None: delivery is never free

\* round(num / den), for a natural num and a positive den.
Nearest(num, den) ==
  {n \in {num \div den, (num \div den) + 1} :
     2 * n * den - 2 * num <= den /\ 2 * num - 2 * n * den <= den}

DeliveryFee(itemsTotal, baseFee, freeOver) ==
  IF freeOver # NoThreshold /\ itemsTotal >= freeOver THEN 0 ELSE baseFee

\* Nobody passes a discount: it is 0.
ComputeAmounts(itemsTotal, baseFee, freeOver, rate) ==
  LET delivery == DeliveryFee(itemsTotal, baseFee, freeOver)
  IN  {[items_total |-> itemsTotal, delivery_fee |-> delivery, platform_fee |-> fee,
        total |-> itemsTotal + delivery] : fee \in Nearest(itemsTotal * rate, 100)}

\* What compute_ledger_lines credits to whom, for an order that has a courier.
CourierEarns(amounts) == amounts.delivery_fee
PlatformEarns(amounts) == amounts.platform_fee
SellerEarns(amounts) == amounts.items_total - amounts.platform_fee

\* A statement's commission, over entries given as a function to amounts.
SummarizeCommissions(amountOf) == MapThenSumSet(LAMBDA e : amountOf[e], DOMAIN amountOf)

\* Mutant: the old average is not weighted.
RecomputeRatingUnweighted(avg, count, stars) ==
  {[avg |-> a, count |-> count + 1] : a \in Nearest(avg + 100 * stars, 2)}

RecomputeRating(avg, count, stars) ==
  {[avg |-> a, count |-> count + 1] : a \in Nearest(avg * count + 100 * stars, count + 1)}
=============================================================================
