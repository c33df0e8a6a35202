----------------------------- MODULE MCRowLocks -----------------------------
(* Transactions of one visitor, some of which do not name it, and a sale that *)
(* goes to another one.                                                       *)
EXTENDS RowLocks, TLC

Plain == [id |-> 0, type |-> None, visitor |-> None, session |-> None, lead |-> None,
          order |-> None, sale |-> None, fact |-> None]

Event(i, type, names) == names @@ [id |-> i, type |-> type] @@ Plain

MCEvents ==
  {Event(1, "session_started", [visitor |-> "v1", session |-> "s1"]),
   Event(2, "product_viewed", [visitor |-> "v1", session |-> "s2", fact |-> "f2"]),
   Event(3, "lead_created", [visitor |-> "v1", session |-> "s1", lead |-> "l1"]),
   Event(4, "lead_status_changed", [lead |-> "l1", order |-> "o1", sale |-> "m1"]),
   Event(5, "order_paid",
         [visitor |-> "v1", session |-> "s2", lead |-> "l1", order |-> "o1"]),
   Event(6, "order_updated", [lead |-> "l1", order |-> "o1"]),
   Event(7, "manual_sale_updated", [visitor |-> "v2", lead |-> "l1", sale |-> "m1"]),
   Event(8, "refund_created", [order |-> "o1", fact |-> "f8"]),
   Event(9, "contact_received", [visitor |-> "v1", lead |-> "l1", fact |-> "f9"]),
   Event(10, "customer_linked", [visitor |-> "v1", lead |-> "l1", fact |-> "f10"]),
   Event(11, "order_cancelled", [visitor |-> "v1", order |-> "o1"]),
   Event(12, "manual_sale_cancelled", [sale |-> "m1"]),
   Event(13, "anonymize", [visitor |-> "v1"])}

MCStarts ==
  {{}, {"v1"}, {"l1"}, {"v1", "s1"}, {"v1", "l1", "o1"}, {"v1", "v2", "s2", "m1"},
   {"v1", "v2", "s1", "s2", "l1", "o1", "m1"}}

MCWorkloads ==
  {[events |-> E, rows |-> R, owner |-> "v1"] :
     E \in {E \in SUBSET MCEvents : Cardinality(E) = 3}, R \in MCStarts}

ASSUME FewMoveAssumption == FewMove
=============================================================================
