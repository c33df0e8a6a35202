--------------------------- MODULE OrderProjection ---------------------------
(***************************************************************************)
(* The projection of one order: the rows orders, order_lines and refunds   *)
(* of a single order_id, written by concurrent ingest transactions         *)
(* (handlers/order_*.py, handlers/refund_created.py, refund_currency.py,   *)
(* order_lines.py, stubs.py, locking.py).                                  *)
(*                                                                         *)
(* Every event is journaled once (ShopwareDelivery), in any order.  An     *)
(* order event reads the row FOR UPDATE and writes at commit; a refund     *)
(* reads it without a lock and writes later: Postgres at READ COMMITTED.   *)
(* Events that name one visitor wait for its row as well                   *)
(* (persist_validated_event); without that lock, as here, the events name  *)
(* none or different visitors, and there are only more interleavings.      *)
(***************************************************************************)
EXTENDS Versioning

CONSTANTS
  Events,        \* events that name this order_id
  Kind,          \* [Events -> Kinds]: event_type
  Version,       \* [Events -> Nat or NoValue]: aggregate_version
  OccurredAt,    \* [Events -> Nat]
  Currency,      \* [Events -> Currencies]: payload currency
  Currencies,
  NoEvent

Kinds == {"order_created", "order_updated", "order_paid", "order_cancelled",
          "refund_created", "mention"}

ASSUME OrderAssumption ==
  /\ NoEvent \notin Events
  /\ NoValue \notin Currencies
  /\ Kind \in [Events -> Kinds]
  /\ Version \in [Events -> (Nat \ {0}) \cup {NoValue}]
  /\ OccurredAt \in [Events -> Nat]
  /\ Currency \in [Events -> Currencies]

Refunds == {e \in Events : Kind[e] = "refund_created"}
OrderEvents ==
  {e \in Events : Kind[e] \in
     {"order_created", "order_updated", "order_paid", "order_cancelled"}}

VARIABLES
  order,    \* committed row of orders, with the source of its lines
  refund,   \* rows of refunds: absent, or invalid_reason IS NULL or not
  tx,       \* progress of each event's ingest transaction
  seen,     \* the order row an open order transaction has read
  lock      \* event holding FOR UPDATE, or the uncommitted insert, of the row

vars == <<order, refund, tx, seen, lock>>

-----------------------------------------------------------------------------
(* The row *)

\* Columns are named by the event that wrote them where only the origin
\* matters: stateFrom for order_state and payment_state, totalFrom for
\* total_amount, linesFrom for the lines with is_paid_snapshot = false.
Orders ==
  [exists : BOOLEAN,
   version : (Nat \ {0}) \cup {NoValue},        \* aggregate_version
   at : Nat \cup {NoValue},             \* last_event_occurred_at
   currency : Currencies \cup {NoValue},
   createdBy : Events \cup {NoEvent},   \* created_event_id
   createdAt : Nat \cup {NoValue},
   paidBy : Events \cup {NoEvent},      \* paid_event_id, paid_at, paid_amount
   cancelledAt : Nat \cup {NoValue},
   stateFrom : Events \cup {NoEvent},
   totalFrom : Events \cup {NoEvent},
   linesFrom : Events \cup {NoEvent}]

Missing ==
  [exists |-> FALSE, version |-> NoValue, at |-> NoValue, currency |-> NoValue,
   createdBy |-> NoEvent, createdAt |-> NoValue, paidBy |-> NoEvent,
   cancelledAt |-> NoValue, stateFrom |-> NoEvent, totalFrom |-> NoEvent,
   linesFrom |-> NoEvent]

Newer(o, e, allowEqual) ==
  ShouldApply(o.version, Version[e], o.at, OccurredAt[e], TRUE, allowEqual)

\* What every handler that applies its event writes last.
Stamp(o, e) ==
  [o EXCEPT !.exists = TRUE, !.stateFrom = e,
            !.version = Version[e], !.at = OccurredAt[e]]

-----------------------------------------------------------------------------
(* Handlers, as functions from the row read to the row written *)

\* Bug: a stub takes order_created whatever it already knows.
BugCreatedAlwaysApplies(o, e) == TRUE

CreatedApplies(o, e) ==
  /\ o.paidBy = NoEvent
  /\ o.cancelledAt = NoValue
  /\ Newer(o, e, FALSE)

\* Bug: order_created replaces lines a newer order_updated wrote.
BugCreatedReplacesLines(o, e) ==
  IF o.createdBy # NoEvent THEN o
  ELSE LET applies == CreatedApplies(o, e)
           row == IF applies
                  THEN [Stamp(o, e) EXCEPT !.totalFrom = e]
                  ELSE [o EXCEPT !.exists = TRUE]
       IN [row EXCEPT !.createdBy = e, !.createdAt = OccurredAt[e],
                      !.currency = Overlay(@, Currency[e], ~applies),
                      !.linesFrom = e]

\* handle_order_created: identity and creation always, state only if newer,
\* lines if the state applied or there are none yet.
ApplyCreated(o, e) ==
  IF o.createdBy # NoEvent THEN o
  ELSE LET applies == CreatedApplies(o, e)
           row == IF applies
                  THEN [Stamp(o, e) EXCEPT !.totalFrom = e]
                  ELSE [o EXCEPT !.exists = TRUE]
       IN [row EXCEPT !.createdBy = e, !.createdAt = OccurredAt[e],
                      !.currency = Overlay(@, Currency[e], ~applies),
                      !.linesFrom = IF applies \/ @ = NoEvent THEN e ELSE @]

UpdatedApplies(o, e) == o.paidBy = NoEvent /\ Newer(o, e, FALSE)

\* handle_order_updated.
ApplyUpdated(o, e) ==
  IF ~UpdatedApplies(o, e) THEN o
  ELSE [Stamp(o, e) EXCEPT !.totalFrom = e, !.currency = Currency[e],
                           !.linesFrom = e]

\* Bug: order_paid needs a strictly newer version, as other events do.
BugPaidNotEqual(o, e) == o.paidBy = NoEvent /\ Newer(o, e, FALSE)

PaidApplies(o, e) == o.paidBy = NoEvent /\ Newer(o, e, TRUE)

\* handle_order_paid; its lines are a snapshot of their own, never replaced
\* because paidBy is never set twice.
ApplyPaid(o, e) ==
  IF ~PaidApplies(o, e) THEN o
  ELSE [Stamp(o, e) EXCEPT !.paidBy = e, !.currency = Currency[e],
          !.createdAt = Overlay(OccurredAt[e], @, FALSE),
          !.totalFrom = IF @ = NoEvent THEN e ELSE @]

\* handle_order_cancelled: neither total, currency nor lines, though the
\* payload carries them.
ApplyCancelled(o, e) ==
  IF ~Newer(o, e, FALSE) THEN o
  ELSE [Stamp(o, e) EXCEPT !.cancelledAt = OccurredAt[e]]

Handled(o, e) ==
  CASE Kind[e] = "order_created"   -> ApplyCreated(o, e)
    [] Kind[e] = "order_updated"   -> ApplyUpdated(o, e)
    [] Kind[e] = "order_paid"      -> ApplyPaid(o, e)
    [] OTHER                       -> ApplyCancelled(o, e)

\* The handlers that end in sync_refund_currency_validity: the early returns
\* of order_updated and order_paid, and order_cancelled, do not reach it.
Syncs(o, e) ==
  \/ Kind[e] = "order_created" /\ o.createdBy = NoEvent
  \/ Kind[e] = "order_updated" /\ UpdatedApplies(o, e)
  \/ Kind[e] = "order_paid" /\ PaidApplies(o, e)

\* Bug: an order that takes the refund's currency does not clear the mark.
BugSyncOnlyMarks(o) ==
  [r \in Refunds |->
     IF refund[r] = "absent" \/ o.currency = NoValue THEN refund[r]
     ELSE IF Currency[r] # o.currency THEN "invalid" ELSE refund[r]]

\* sync_refund_currency_validity over the refunds committed by now.
SyncRefunds(o) ==
  [r \in Refunds |->
     IF refund[r] = "absent" \/ o.currency = NoValue THEN refund[r]
     ELSE IF Currency[r] # o.currency THEN "invalid" ELSE "valid"]

-----------------------------------------------------------------------------
Init ==
  /\ order = Missing
  /\ refund = [r \in Refunds |-> "absent"]
  /\ tx = [e \in Events |-> "new"]
  /\ seen = [e \in Events |-> Missing]
  /\ lock = NoEvent

(* Order events *)

\* Bug: session.get without with_for_update.
BugReadUnlocked(e) ==
  /\ Kind[e] \notin {"refund_created", "mention"}
  /\ tx[e] = "new"
  /\ order.exists \/ lock = NoEvent
  /\ tx' = [tx EXCEPT ![e] = "locked"]
  /\ seen' = [seen EXCEPT ![e] = [order EXCEPT !.exists = TRUE]]
  /\ UNCHANGED <<order, refund, lock>>

\* ensure_stubs, then get_aggregate_for_update: both wait for the holder.
OrderLock(e) ==
  /\ Kind[e] \notin {"refund_created", "mention"}
  /\ tx[e] = "new"
  /\ lock = NoEvent
  /\ lock' = e
  /\ tx' = [tx EXCEPT ![e] = "locked"]
  /\ seen' = [seen EXCEPT ![e] = [order EXCEPT !.exists = TRUE]]
  /\ UNCHANGED <<order, refund>>

\* The handler's writes and the commit.
OrderCommit(e) ==
  /\ tx[e] = "locked"
  /\ order' = Handled(seen[e], e)
  /\ refund' = IF Syncs(seen[e], e) THEN SyncRefunds(Handled(seen[e], e)) ELSE refund
  /\ tx' = [tx EXCEPT ![e] = "accepted"]
  /\ seen' = [seen EXCEPT ![e] = Missing]
  /\ lock' = IF lock = e THEN NoEvent ELSE lock

(* Refunds *)

\* ensure_stubs inserts the row where it is missing, and then holds it;
\* session.get(Order) reads it without a lock.
RefundCheck(e) ==
  /\ Kind[e] = "refund_created"
  /\ tx[e] = "new"
  /\ order.exists \/ lock = NoEvent
  /\ IF order.currency \in {NoValue, Currency[e]}
     THEN /\ tx' = [tx EXCEPT ![e] = "checked"]
          /\ lock' = IF order.exists THEN lock ELSE e
     ELSE /\ tx' = [tx EXCEPT ![e] = "refused"]
          /\ UNCHANGED lock
  /\ UNCHANGED <<order, refund, seen>>

\* INSERT INTO refunds takes FOR KEY SHARE on the order row, hence waits for
\* an order transaction, and commits.
RefundCommit(e) ==
  /\ Kind[e] = "refund_created"
  /\ tx[e] = "checked"
  /\ lock \in {NoEvent, e}
  /\ order' = [order EXCEPT !.exists = TRUE]
  /\ refund' = [refund EXCEPT ![e] = "valid"]
  /\ tx' = [tx EXCEPT ![e] = "accepted"]
  /\ lock' = NoEvent
  /\ UNCHANGED seen

(* Other *)

\* An event of another aggregate that names the order (payment_failed,
\* lead_created...): ensure_stubs is all it does here.
Mention(e) ==
  /\ Kind[e] = "mention"
  /\ tx[e] = "new"
  /\ order.exists \/ lock = NoEvent
  /\ order' = [order EXCEPT !.exists = TRUE]
  /\ tx' = [tx EXCEPT ![e] = "accepted"]
  /\ UNCHANGED <<refund, seen, lock>>

\* A transient failure or a crash rolls back; the event is delivered again.
Rollback(e) ==
  /\ tx[e] \in {"locked", "checked"}
  /\ tx' = [tx EXCEPT ![e] = "new"]
  /\ seen' = [seen EXCEPT ![e] = Missing]
  /\ lock' = IF lock = e THEN NoEvent ELSE lock
  /\ UNCHANGED <<order, refund>>

Next ==
  \E e \in Events :
    \/ OrderLock(e) \/ OrderCommit(e)
    \/ RefundCheck(e) \/ RefundCommit(e)
    \/ Mention(e) \/ Rollback(e)

Spec == Init /\ [][Next]_vars

-----------------------------------------------------------------------------
(* Properties *)

\* Columns have their types; a row lock belongs to a transaction that is still
\* open, and no order handler works on a row another transaction has locked
\* (get_aggregate_for_update, ensure_stubs).
TypeOK ==
  /\ order \in Orders
  /\ refund \in [Refunds -> {"absent", "valid", "invalid"}]
  /\ tx \in [Events -> {"new", "locked", "checked", "accepted", "refused"}]
  /\ seen \in [Events -> Orders]
  /\ lock \in Events \cup {NoEvent}
  /\ lock # NoEvent => tx[lock] \in {"locked", "checked"}
  /\ \A e \in Events : tx[e] = "locked" => lock = e

\* Versions agree with the times of occurrence: what the producer promises
\* and the two comparisons of should_apply_entity_update rely on.
Consistent ==
  \A e, f \in OrderEvents :
    Version[e] # NoValue /\ Version[f] # NoValue =>
      (Version[e] < Version[f] <=> OccurredAt[e] < OccurredAt[f])

\* While an order is neither paid nor cancelled, its state, total and lines
\* come from the newest of the order_created and order_updated events ingested
\* so far, in whatever order they were ingested (order_created.py:53-97,
\* order_updated.py:34-74).
NewestWins ==
  order.paidBy = NoEvent /\ order.cancelledAt = NoValue =>
    \A e \in OrderEvents :
      tx[e] = "accepted" /\ (e = order.createdBy \/ Kind[e] = "order_updated") =>
        /\ order.at # NoValue /\ order.at >= OccurredAt[e]
        /\ order.totalFrom = order.stateFrom
        /\ order.linesFrom = order.stateFrom

\* An ingested payment or cancellation is on the order, unless an event newer
\* than it was applied first (order_paid.py:36-44, order_cancelled.py:27-34).
FactsRecorded ==
  \A e \in OrderEvents :
    tx[e] = "accepted" =>
      /\ Kind[e] = "order_paid" =>
           \/ order.paidBy # NoEvent
           \/ order.at # NoValue /\ order.at > OccurredAt[e]
      /\ Kind[e] = "order_cancelled" =>
           \/ order.cancelledAt # NoValue
           \/ order.at # NoValue /\ order.at >= OccurredAt[e]

\* A total taken from order_created or order_updated stands beside the lines
\* of the same event, and a created order has lines and its creation time
\* (order_created.py:65-97, order_updated.py:51-74, order_paid.py:61-64).
LinesMatchTotal ==
  /\ order.totalFrom # NoEvent /\ order.totalFrom # order.paidBy =>
       order.linesFrom = order.totalFrom
  /\ order.createdBy # NoEvent =>
       /\ order.linesFrom # NoEvent
       /\ order.createdAt = OccurredAt[order.createdBy]
  /\ order.paidBy # NoEvent => order.createdAt # NoValue

\* A refund is excluded from the reports (currency_mismatch) only while its
\* currency really differs from the order's (refund_currency.py:29-50).
RefundInvalidityRight ==
  \A r \in Refunds :
    refund[r] = "invalid" =>
      order.currency # NoValue /\ order.currency # Currency[r]

\* After payment nothing changes the payment, the currency or the total, not
\* even a transaction that read the row before (order_updated.py:34,
\* order_created.py:53, order_paid.py:34, locking.py:19-24).
PaidFrozen ==
  [][order.paidBy # NoEvent =>
       /\ order'.paidBy = order.paidBy
       /\ order'.currency = order.currency
       /\ order'.totalFrom = order.totalFrom]_vars

\* A stored version is never replaced by a smaller one, whatever the clocks
\* say (versioning.py:35-45).
VersionMonotonic ==
  [][order.version # NoValue /\ order'.version # NoValue =>
       order'.version >= order.version]_vars

\* A refund stored before the order's currency is known is marked invalid once
\* the order has another currency: test_refund_currency.py:102-123 asserts it
\* for a refund ingested before the order.
MismatchMarked ==
  \A r \in Refunds :
    refund[r] = "valid" =>
      order.currency = NoValue \/ order.currency = Currency[r]
=============================================================================
