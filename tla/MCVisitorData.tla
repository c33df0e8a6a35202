---------------------------- MODULE MCVisitorData ----------------------------
(* Instances of VisitorData for TLC: four visits of one visitor (two in one   *)
(* session, one direct, two at one time), and a lead, an order and a manual   *)
(* sale between them.                                                         *)
EXTENDS VisitorData, TLC

CONSTANTS guest, other, s1, s2, s3, lead, order, sale,
          visit, direct, later, tie,
          leadCreated, leadWon, orderCreated, orderUpdated, orderPaid,
          orderCancelled, saleCreated, saleUpdated, saleMoved, saleCancelled

Visit(s, at, isDirect) ==
  [type |-> "session_started", visitor |-> guest, subject |-> s,
   version |-> NoValue, at |-> at, confirmedAt |-> at,
   sourceDirect |-> isDirect, identifying |-> TRUE]

About(x, type, who, version, at) ==
  [type |-> type, visitor |-> who, subject |-> x, version |-> version,
   at |-> at, confirmedAt |-> at, sourceDirect |-> FALSE, identifying |-> FALSE]

MCBody ==
  [e \in Events |->
     CASE e = visit  -> Visit(s1, 2, FALSE)
       [] e = direct -> Visit(s2, 1, TRUE)
       [] e = later  -> Visit(s1, 6, FALSE)
       [] e = tie    -> Visit(s3, 2, FALSE)
       [] e = leadCreated  -> About(lead, "lead_created", guest, 1, 4)
       [] e = leadWon      -> About(lead, "lead_status_changed", NoValue, 2, 5)
       [] e = orderCreated -> About(order, "order_created", guest, 1, 3)
       [] e = orderUpdated -> About(order, "order_updated", guest, NoValue, 4)
       [] e = orderPaid    -> About(order, "order_paid", guest, 3, 4)
       [] e = orderCancelled -> About(order, "order_cancelled", guest, 4, 5)
       [] e = saleCreated  ->
            [About(sale, "manual_sale_created", guest, 1, 5) EXCEPT !.confirmedAt = 4]
       [] e = saleUpdated  -> About(sale, "manual_sale_updated", guest, 2, 6)
       [] e = saleMoved    -> About(sale, "manual_sale_updated", other, 2, 6)
       [] e = saleCancelled -> About(sale, "manual_sale_cancelled", guest, 3, 7)]

ASSUME OneVisitorAssumption == saleMoved \notin Events => OneVisitor

ASSUME PaidAfterCreatedAssumption == PaidAfterCreated
=============================================================================
