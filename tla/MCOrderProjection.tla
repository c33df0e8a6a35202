-------------------------- MODULE MCOrderProjection --------------------------
(* Instances of OrderProjection for TLC: one order with a creation, two       *)
(* updates, a payment at the version of the second update, a cancellation,    *)
(* a refund and another aggregate's event.                                    *)
EXTENDS OrderProjection, TLC

CONSTANTS created, updated, repriced, paid, cancelled, refundEur, refundUsd, lead

MCKind ==
  [e \in Events |->
     CASE e = created -> "order_created"
       [] e \in {updated, repriced} -> "order_updated"
       [] e = paid -> "order_paid"
       [] e = cancelled -> "order_cancelled"
       [] e \in {refundEur, refundUsd} -> "refund_created"
       [] OTHER -> "mention"]

\* Created in EUR, repriced in USD, paid in EUR: the currency changes both ways.
MCCurrency ==
  [e \in Events |-> IF e \in {repriced, refundUsd} THEN "USD" ELSE "EUR"]

\* The payment carries the version of the repricing; one update has none.
MCVersion ==
  [e \in Events |->
     CASE e = created -> 1 [] e = updated -> NoValue [] e = cancelled -> 4
       [] e \in {repriced, paid} -> 3 [] OTHER -> 1]

MCOccurredAt ==
  [e \in Events |->
     CASE e = created -> 1 [] e = updated -> 2 [] e = cancelled -> 4
       [] e \in {repriced, paid} -> 3 [] OTHER -> 5]

ASSUME ConsistentAssumption == Consistent
=============================================================================
