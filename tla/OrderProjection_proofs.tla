----------------------- MODULE OrderProjection_proofs -----------------------
(***************************************************************************)
(* Proofs about OrderProjection, for any set of events.  A row that an     *)
(* order transaction has read is the committed row until it commits, so a  *)
(* property of the handlers, as functions from row to row, is a property   *)
(* of the system.                                                          *)
(***************************************************************************)
EXTENDS OrderProjection, TLAPS

-----------------------------------------------------------------------------
(* The handlers, as functions *)

\* The columns every applying handler writes last are well typed.
LEMMA StampType ==
  ASSUME NEW o \in Orders, NEW e \in Events
  PROVE  Stamp(o, e) \in Orders
BY OrderAssumption DEF Stamp, Orders

\* Every handler, run on a well-typed row, writes a well-typed row.
LEMMA HandledType ==
  ASSUME NEW o \in Orders, NEW e \in Events
  PROVE  Handled(o, e) \in Orders
<1>t. /\ OccurredAt[e] \in Nat
      /\ Currency[e] \in Currencies
      /\ Version[e] \in (Nat \ {0}) \cup {NoValue}
  BY OrderAssumption
<1>s. Stamp(o, e) \in Orders
  BY StampType
<1>1. ApplyCreated(o, e) \in Orders
  <2> DEFINE row == IF CreatedApplies(o, e)
                    THEN [Stamp(o, e) EXCEPT !.totalFrom = e]
                    ELSE [o EXCEPT !.exists = TRUE]
  <2>0. [o EXCEPT !.exists = TRUE] \in Orders
    BY DEF Orders
  <2>1. \A r \in Orders : [r EXCEPT !.totalFrom = e] \in Orders
    BY DEF Orders
  <2>2. row \in Orders
    BY <1>s, <2>0, <2>1
  <2>3. \A r \in Orders, c \in Currencies \cup {NoValue}, l \in Events \cup {NoEvent} :
          [r EXCEPT !.createdBy = e, !.createdAt = OccurredAt[e],
                    !.currency = c, !.linesFrom = l] \in Orders
    BY <1>t DEF Orders
  <2>4. /\ Overlay(row.currency, Currency[e], ~CreatedApplies(o, e))
             \in Currencies \cup {NoValue}
        /\ row.linesFrom \in Events \cup {NoEvent}
    <3> HIDE DEF row
    <3> QED BY <2>2, <1>t DEF Orders, Overlay
  <2> DEFINE written ==
        [row EXCEPT !.createdBy = e, !.createdAt = OccurredAt[e],
           !.currency = Overlay(@, Currency[e], ~CreatedApplies(o, e)),
           !.linesFrom = IF CreatedApplies(o, e) \/ @ = NoEvent THEN e ELSE @]
  <2>5. written \in Orders
    <3> HIDE DEF row
    <3> QED BY <2>2, <2>3, <2>4
  <2>6. ApplyCreated(o, e) = IF o.createdBy # NoEvent THEN o ELSE written
    BY Zenon DEF ApplyCreated
  <2> HIDE DEF written
  <2> QED BY <2>5, <2>6
<1>2. ApplyUpdated(o, e) \in Orders
  BY <1>t DEF ApplyUpdated, Stamp, Orders
<1>3. ApplyPaid(o, e) \in Orders
  <2>1. \A r \in Orders, n \in Nat \cup {NoValue}, f \in Events \cup {NoEvent} :
          [r EXCEPT !.paidBy = e, !.currency = Currency[e],
                    !.createdAt = n, !.totalFrom = f] \in Orders
    BY <1>t DEF Orders
  <2>2. /\ Overlay(OccurredAt[e], Stamp(o, e).createdAt, FALSE) \in Nat \cup {NoValue}
        /\ Stamp(o, e).totalFrom \in Events \cup {NoEvent}
    BY <1>s, <1>t DEF Orders, Overlay
  <2> QED BY <1>s, <2>1, <2>2 DEF ApplyPaid
<1>4. ApplyCancelled(o, e) \in Orders
  BY <1>t DEF ApplyCancelled, Stamp, Orders
<1> QED BY <1>1, <1>2, <1>3, <1>4 DEF Handled

\* sync_refund_currency_validity leaves every refund in one of its states.
LEMMA SyncType ==
  ASSUME NEW o, refund \in [Refunds -> {"absent", "valid", "invalid"}]
  PROVE  SyncRefunds(o) \in [Refunds -> {"absent", "valid", "invalid"}]
BY DEF SyncRefunds

-----------------------------------------------------------------------------
(* TypeOK *)

\* Type correctness, every row lock has an open owner, and every order handler
\* at work has the lock: for any events.
LEMMA InitTypeOK == Init => TypeOK
<1> SUFFICES ASSUME Init PROVE TypeOK
  OBVIOUS
<1>1. Missing \in Orders
  BY DEF Missing, Orders
<1> QED BY <1>1 DEF Init, TypeOK

\* Every transaction step keeps the types.
LEMMA NextTypeOK == TypeOK /\ [Next]_vars => TypeOK'
<1> SUFFICES ASSUME TypeOK, [Next]_vars PROVE TypeOK'
  OBVIOUS
<1> USE DEF TypeOK
<1>m. Missing \in Orders
  BY DEF Missing, Orders
<1>x. [order EXCEPT !.exists = TRUE] \in Orders
  BY DEF Orders
<1>1. ASSUME NEW e \in Events, OrderLock(e) PROVE TypeOK'
  BY <1>1, <1>x, OrderAssumption DEF OrderLock
<1>2. ASSUME NEW e \in Events, OrderCommit(e) PROVE TypeOK'
  <2>1. order' \in Orders
    BY <1>2, HandledType DEF OrderCommit
  <2>2. refund' \in [Refunds -> {"absent", "valid", "invalid"}]
    BY <1>2, SyncType DEF OrderCommit
  <2>3. /\ tx' \in [Events -> {"new", "locked", "checked", "accepted", "refused"}]
        /\ seen' \in [Events -> Orders]
        /\ lock' \in Events \cup {NoEvent}
    BY <1>2, <1>m DEF OrderCommit
  <2>4. lock' # NoEvent => tx'[lock'] \in {"locked", "checked"}
    BY <1>2 DEF OrderCommit
  <2>5. \A f \in Events : tx'[f] = "locked" => lock' = f
    BY <1>2, OrderAssumption DEF OrderCommit
  <2> QED BY <2>1, <2>2, <2>3, <2>4, <2>5
<1>3. ASSUME NEW e \in Events, RefundCheck(e) PROVE TypeOK'
  BY <1>3, OrderAssumption DEF RefundCheck
<1>4. ASSUME NEW e \in Events, RefundCommit(e) PROVE TypeOK'
  BY <1>4, <1>x DEF RefundCommit
<1>5. ASSUME NEW e \in Events, Mention(e) PROVE TypeOK'
  BY <1>5, <1>x DEF Mention
<1>6. ASSUME NEW e \in Events, Rollback(e) PROVE TypeOK'
  BY <1>6, <1>m DEF Rollback
<1>7. ASSUME UNCHANGED vars PROVE TypeOK'
  BY <1>7 DEF vars
<1> QED BY <1>1, <1>2, <1>3, <1>4, <1>5, <1>6, <1>7 DEF Next

\* The projection keeps its types, its lock has an open owner, and an order
\* handler at work has it, for any events: get_aggregate_for_update and
\* ensure_stubs take it, commit and rollback release it.
THEOREM TypeCorrect == Spec => []TypeOK
BY InitTypeOK, NextTypeOK, PTL DEF Spec

-----------------------------------------------------------------------------
(* What each handler writes, column by column *)

\* handle_order_created: identity and currency always, state, total and lines
\* where the event applies, lines also where there were none.
LEMMA CreatedColumns ==
  ASSUME NEW o \in Orders, NEW e \in Events, o.createdBy = NoEvent
  PROVE  /\ ApplyCreated(o, e).createdBy = e
         /\ ApplyCreated(o, e).createdAt = OccurredAt[e]
         /\ ApplyCreated(o, e).paidBy = o.paidBy
         /\ ApplyCreated(o, e).cancelledAt = o.cancelledAt
         /\ ApplyCreated(o, e).currency
              = Overlay(o.currency, Currency[e], ~CreatedApplies(o, e))
         /\ CreatedApplies(o, e) =>
              /\ ApplyCreated(o, e).version = Version[e]
              /\ ApplyCreated(o, e).at = OccurredAt[e]
              /\ ApplyCreated(o, e).stateFrom = e
              /\ ApplyCreated(o, e).totalFrom = e
              /\ ApplyCreated(o, e).linesFrom = e
         /\ ~CreatedApplies(o, e) =>
              /\ ApplyCreated(o, e).version = o.version
              /\ ApplyCreated(o, e).at = o.at
              /\ ApplyCreated(o, e).stateFrom = o.stateFrom
              /\ ApplyCreated(o, e).totalFrom = o.totalFrom
              /\ ApplyCreated(o, e).linesFrom
                   = IF o.linesFrom = NoEvent THEN e ELSE o.linesFrom
<1>1. CASE CreatedApplies(o, e)
  BY <1>1 DEF ApplyCreated, Stamp, Orders
<1>2. CASE ~CreatedApplies(o, e)
  BY <1>2 DEF ApplyCreated, Orders
<1> QED BY <1>1, <1>2

\* handle_order_updated, where the event applies.
LEMMA UpdatedColumns ==
  ASSUME NEW o \in Orders, NEW e \in Events, UpdatedApplies(o, e)
  PROVE  /\ ApplyUpdated(o, e).createdBy = o.createdBy
         /\ ApplyUpdated(o, e).createdAt = o.createdAt
         /\ ApplyUpdated(o, e).paidBy = o.paidBy
         /\ ApplyUpdated(o, e).cancelledAt = o.cancelledAt
         /\ ApplyUpdated(o, e).currency = Currency[e]
         /\ ApplyUpdated(o, e).version = Version[e]
         /\ ApplyUpdated(o, e).at = OccurredAt[e]
         /\ ApplyUpdated(o, e).stateFrom = e
         /\ ApplyUpdated(o, e).totalFrom = e
         /\ ApplyUpdated(o, e).linesFrom = e
BY DEF ApplyUpdated, Stamp, Orders

\* handle_order_paid, where the event applies.
LEMMA PaidColumns ==
  ASSUME NEW o \in Orders, NEW e \in Events, PaidApplies(o, e)
  PROVE  /\ ApplyPaid(o, e).createdBy = o.createdBy
         /\ ApplyPaid(o, e).createdAt
              = IF o.createdAt = NoValue THEN OccurredAt[e] ELSE o.createdAt
         /\ ApplyPaid(o, e).paidBy = e
         /\ ApplyPaid(o, e).currency = Currency[e]
         /\ ApplyPaid(o, e).cancelledAt = o.cancelledAt
         /\ ApplyPaid(o, e).version = Version[e]
         /\ ApplyPaid(o, e).at = OccurredAt[e]
         /\ ApplyPaid(o, e).stateFrom = e
         /\ ApplyPaid(o, e).totalFrom
              = IF o.totalFrom = NoEvent THEN e ELSE o.totalFrom
         /\ ApplyPaid(o, e).linesFrom = o.linesFrom
BY DEF ApplyPaid, Stamp, Orders, Overlay

\* handle_order_cancelled, where the event applies.
LEMMA CancelledColumns ==
  ASSUME NEW o \in Orders, NEW e \in Events, Newer(o, e, FALSE)
  PROVE  /\ ApplyCancelled(o, e).createdBy = o.createdBy
         /\ ApplyCancelled(o, e).createdAt = o.createdAt
         /\ ApplyCancelled(o, e).paidBy = o.paidBy
         /\ ApplyCancelled(o, e).currency = o.currency
         /\ ApplyCancelled(o, e).cancelledAt = OccurredAt[e]
         /\ ApplyCancelled(o, e).version = Version[e]
         /\ ApplyCancelled(o, e).at = OccurredAt[e]
         /\ ApplyCancelled(o, e).stateFrom = e
         /\ ApplyCancelled(o, e).totalFrom = o.totalFrom
         /\ ApplyCancelled(o, e).linesFrom = o.linesFrom
BY DEF ApplyCancelled, Stamp, Orders

\* A handler that returns early writes nothing.
LEMMA EarlyReturn ==
  ASSUME NEW o, NEW e
  PROVE  /\ o.createdBy # NoEvent => ApplyCreated(o, e) = o
         /\ ~UpdatedApplies(o, e) => ApplyUpdated(o, e) = o
         /\ ~PaidApplies(o, e) => ApplyPaid(o, e) = o
         /\ ~Newer(o, e, FALSE) => ApplyCancelled(o, e) = o
BY Zenon DEF ApplyCreated, ApplyUpdated, ApplyPaid, ApplyCancelled

-----------------------------------------------------------------------------
(* The row lock *)

\* An order transaction that has read the row holds it, and the row it read is
\* the committed one (with its own stub, where there was none).
LockInv ==
  \A e \in Events :
    tx[e] = "locked" =>
      /\ lock = e
      /\ e \in OrderEvents
      /\ seen[e] = [order EXCEPT !.exists = TRUE]

\* No transaction is open initially.
LEMMA InitLockInv == Init => LockInv
BY DEF Init, LockInv

\* Inserting the stub twice is inserting it once.
LEMMA ExistsTwice ==
  ASSUME NEW o \in Orders
  PROVE  [[o EXCEPT !.exists = TRUE] EXCEPT !.exists = TRUE] = [o EXCEPT !.exists = TRUE]
BY DEF Orders

\* No step lets a second order transaction see the row, or changes the row
\* under the one that has read it.
LEMMA NextLockInv == TypeOK /\ LockInv /\ [Next]_vars => LockInv'
<1> SUFFICES ASSUME TypeOK, LockInv, [Next]_vars PROVE LockInv'
  OBVIOUS
<1> USE DEF TypeOK, LockInv
<1>1. ASSUME NEW e \in Events, OrderLock(e) PROVE LockInv'
  BY <1>1, OrderAssumption DEF OrderLock, OrderEvents, Kinds
<1>2. ASSUME NEW e \in Events, OrderCommit(e) PROVE LockInv'
  BY <1>2 DEF OrderCommit
<1>3. ASSUME NEW e \in Events, RefundCheck(e) PROVE LockInv'
  <2>1. lock' = lock \/ lock = NoEvent
    BY <1>3, OrderAssumption DEF RefundCheck
  <2> QED BY <1>3, <2>1, OrderAssumption DEF RefundCheck
<1>4. ASSUME NEW e \in Events, RefundCommit(e) PROVE LockInv'
  BY <1>4, OrderAssumption DEF RefundCommit
<1>5. ASSUME NEW e \in Events, Mention(e) PROVE LockInv'
  BY <1>5, ExistsTwice DEF Mention
<1>6. ASSUME NEW e \in Events, Rollback(e) PROVE LockInv'
  BY <1>6 DEF Rollback
<1>7. ASSUME UNCHANGED vars PROVE LockInv'
  BY <1>7 DEF vars
<1> QED BY <1>1, <1>2, <1>3, <1>4, <1>5, <1>6, <1>7 DEF Next

\* get_aggregate_for_update serializes the order transactions: the row a
\* handler computes from is the committed one.
THEOREM LockInvAlways == Spec => [](TypeOK /\ LockInv)
BY InitTypeOK, NextTypeOK, InitLockInv, NextLockInv, PTL DEF Spec

\* Every step keeps the row, adds the stub, or runs one handler on the row as
\* it is now.
LEMMA RowStep ==
  ASSUME TypeOK, LockInv, [Next]_vars
  PROVE  \/ order' = order
         \/ order' = [order EXCEPT !.exists = TRUE]
         \/ \E e \in OrderEvents :
              /\ OrderCommit(e)
              /\ order' = Handled([order EXCEPT !.exists = TRUE], e)
<1>1. ASSUME NEW e \in Events, OrderCommit(e)
      PROVE  e \in OrderEvents /\ order' = Handled([order EXCEPT !.exists = TRUE], e)
  BY <1>1 DEF OrderCommit, LockInv
<1> QED
  BY <1>1 DEF Next, OrderLock, RefundCheck, RefundCommit, Mention, Rollback, vars

-----------------------------------------------------------------------------
(* Rows a handler can leave behind *)

\* version and last_event_occurred_at are those of the event the state is from.
Stamped(o) ==
  /\ o.stateFrom = NoEvent => o.version = NoValue /\ o.at = NoValue
  /\ o.stateFrom # NoEvent =>
       /\ o.stateFrom \in OrderEvents
       /\ o.version = Version[o.stateFrom]
       /\ o.at = OccurredAt[o.stateFrom]

\* Before payment and cancellation, total and lines are from that event too.
Whole(o) ==
  o.paidBy = NoEvent /\ o.cancelledAt = NoValue /\ o.stateFrom # NoEvent =>
    o.totalFrom = o.stateFrom /\ o.linesFrom = o.stateFrom

\* LinesMatchTotal, of any row.
RowLines(o) ==
  /\ o.totalFrom # NoEvent /\ o.totalFrom # o.paidBy => o.linesFrom = o.totalFrom
  /\ o.createdBy # NoEvent =>
       /\ o.linesFrom # NoEvent
       /\ o.createdAt = OccurredAt[o.createdBy]
  /\ o.paidBy # NoEvent => o.createdAt # NoValue

Origins(o) ==
  /\ o.createdBy # NoEvent => Kind[o.createdBy] = "order_created"
  /\ o.paidBy # NoEvent => o.currency # NoValue

RowInv(o) == Stamped(o) /\ Whole(o) /\ RowLines(o) /\ Origins(o)

\* No row is a good row.
LEMMA MissingRow == RowInv(Missing)
BY DEF RowInv, Missing, Stamped, Whole, RowLines, Origins

\* A stub changes nothing but the row's existence.
LEMMA StubRow ==
  ASSUME NEW o \in Orders, RowInv(o)
  PROVE  /\ [o EXCEPT !.exists = TRUE] \in Orders
         /\ RowInv([o EXCEPT !.exists = TRUE])
         /\ \A f \in DOMAIN Missing \ {"exists"} :
              [o EXCEPT !.exists = TRUE][f] = o[f]
<1>1. [o EXCEPT !.exists = TRUE] \in Orders
  BY DEF Orders
<1>2. RowInv([o EXCEPT !.exists = TRUE])
  BY DEF Orders, RowInv, Stamped, Whole, RowLines, Origins
<1>3. \A f \in DOMAIN Missing \ {"exists"} : [o EXCEPT !.exists = TRUE][f] = o[f]
  BY DEF Orders, Missing
<1> QED BY <1>1, <1>2, <1>3

\* Every handler turns a good row into a good row.
LEMMA HandledRow ==
  ASSUME NEW o \in Orders, RowInv(o), NEW e \in OrderEvents
  PROVE  RowInv(Handled(o, e))
<1> USE DEF RowInv
<1>t. /\ e \in Events
      /\ OccurredAt[e] \in Nat /\ OccurredAt[e] # NoValue
      /\ Currency[e] \in Currencies /\ Currency[e] # NoValue
      /\ e # NoEvent
  BY OrderAssumption, NoValueAssumption DEF OrderEvents
<1>o. /\ o.createdBy \in Events \cup {NoEvent}
      /\ o.createdBy # NoEvent => OccurredAt[o.createdBy] \in Nat
  BY OrderAssumption DEF Orders
<1>1. ASSUME Kind[e] = "order_created", o.createdBy = NoEvent
      PROVE  RowInv(ApplyCreated(o, e))
  <2> DEFINE n == ApplyCreated(o, e)
  <2>1. CASE CreatedApplies(o, e)
    <3>1. Stamped(n)
      BY <1>1, <2>1, <1>t, CreatedColumns DEF Stamped
    <3>2. Whole(n)
      BY <1>1, <2>1, <1>t, CreatedColumns DEF Whole
    <3>4. RowLines(n)
      <4>1. /\ n.createdBy = e /\ n.createdAt = OccurredAt[e]
            /\ n.totalFrom = e /\ n.linesFrom = e /\ n.paidBy = NoEvent
        BY <1>1, <2>1, <1>t, CreatedColumns DEF CreatedApplies
      <4> HIDE DEF n
      <4> QED BY <4>1, <1>t DEF RowLines
    <3>3. Origins(n)
      BY <1>1, <2>1, <1>t, CreatedColumns DEF Origins, CreatedApplies
    <3> QED BY <3>1, <3>2, <3>3, <3>4
  <2>2. CASE ~CreatedApplies(o, e)
    <3>1. o.paidBy = NoEvent /\ o.cancelledAt = NoValue => o.stateFrom # NoEvent
      BY <2>2 DEF CreatedApplies, Newer, ShouldApply, Stamped
    <3>2. Stamped(n)
      BY <1>1, <2>2, <1>t, CreatedColumns DEF Stamped
    <3>3. Whole(n)
      BY <1>1, <2>2, <3>1, <1>t, CreatedColumns, OrderAssumption DEF Whole, Stamped, OrderEvents
    <3>4. RowLines(n)
      BY <1>1, <2>2, <1>t, CreatedColumns, OrderAssumption DEF RowLines
    <3>5. Origins(n)
      BY <1>1, <2>2, <1>t, CreatedColumns DEF Origins, Overlay
    <3> QED BY <3>2, <3>3, <3>4, <3>5
  <2> QED BY <2>1, <2>2
<1>2. ASSUME UpdatedApplies(o, e) PROVE RowInv(ApplyUpdated(o, e))
  <2>1. Stamped(ApplyUpdated(o, e))
    BY <1>2, <1>t, UpdatedColumns DEF Stamped
  <2>2. Whole(ApplyUpdated(o, e))
    BY <1>2, <1>t, UpdatedColumns DEF Whole
  <2>3. RowLines(ApplyUpdated(o, e)) /\ Origins(ApplyUpdated(o, e))
    BY <1>2, <1>t, UpdatedColumns DEF UpdatedApplies, RowLines, Origins
  <2> QED BY <2>1, <2>2, <2>3
<1>3. ASSUME PaidApplies(o, e) PROVE RowInv(ApplyPaid(o, e))
  <2>1. Stamped(ApplyPaid(o, e))
    BY <1>3, <1>t, PaidColumns DEF Stamped
  <2>2. Whole(ApplyPaid(o, e)) /\ Origins(ApplyPaid(o, e))
    BY <1>3, <1>t, PaidColumns DEF Whole, Origins
  <2>3. RowLines(ApplyPaid(o, e))
    <3> DEFINE n == ApplyPaid(o, e)
    <3>1. /\ n.createdBy = o.createdBy /\ n.linesFrom = o.linesFrom /\ n.paidBy = e
          /\ n.createdAt = IF o.createdAt = NoValue THEN OccurredAt[e] ELSE o.createdAt
          /\ n.totalFrom = IF o.totalFrom = NoEvent THEN e ELSE o.totalFrom
          /\ o.paidBy = NoEvent
      BY <1>3, <1>t, PaidColumns DEF PaidApplies
    <3>2. o.createdBy # NoEvent => o.createdAt # NoValue
      BY <1>o, NoValueAssumption DEF RowLines
    <3>3. RowLines(n)
      <4> HIDE DEF n
      <4> QED BY <3>1, <3>2, <1>t DEF RowLines
    <3> QED BY <3>3
  <2> QED BY <2>1, <2>2, <2>3
<1>4. ASSUME Newer(o, e, FALSE) PROVE RowInv(ApplyCancelled(o, e))
  BY <1>4, <1>t, CancelledColumns
     DEF Stamped, Whole, RowLines, Origins
<1> QED
  BY <1>1, <1>2, <1>3, <1>4, EarlyReturn DEF Handled

\* The invariant the theorems below rest on.
IInv == TypeOK /\ LockInv /\ RowInv(order)

\* The invariant holds initially.
LEMMA InitIInv == Init => IInv
BY InitTypeOK, InitLockInv, MissingRow DEF IInv, Init

\* Every step keeps the invariant: it keeps the row, adds the stub, or runs a
\* handler on the row as it is now.
LEMMA NextIInv == IInv /\ [Next]_vars => IInv'
<1> SUFFICES ASSUME IInv, [Next]_vars PROVE IInv'
  OBVIOUS
<1>1. TypeOK' /\ LockInv'
  BY NextTypeOK, NextLockInv DEF IInv
<1>2. order \in Orders
  BY DEF IInv, TypeOK
<1>3. RowInv(order')
  BY <1>2, RowStep, StubRow, HandledRow DEF IInv
<1> QED BY <1>1, <1>3 DEF IInv

\* Types, the lock discipline and the shape of the row hold in every reachable
\* state, whatever the events and their interleaving.
THEOREM IInvAlways == Spec => []IInv
BY InitIInv, NextIInv, PTL DEF Spec

\* Total, lines and creation time of an order belong together, for any events.
THEOREM LinesMatchTotalAlways == Spec => []LinesMatchTotal
<1>1. IInv => LinesMatchTotal
  BY DEF IInv, RowInv, RowLines, LinesMatchTotal
<1> QED BY <1>1, IInvAlways, PTL

-----------------------------------------------------------------------------
(* What no step does *)

\* No handler changes payment, currency or total of a paid row.
LEMMA PaidRow ==
  ASSUME NEW o \in Orders, RowInv(o), NEW e \in OrderEvents, o.paidBy # NoEvent
  PROVE  /\ Handled(o, e).paidBy = o.paidBy
         /\ Handled(o, e).currency = o.currency
         /\ Handled(o, e).totalFrom = o.totalFrom
<1>t. e \in Events
  BY DEF OrderEvents
<1>1. ASSUME o.createdBy = NoEvent
      PROVE  /\ ApplyCreated(o, e).paidBy = o.paidBy
             /\ ApplyCreated(o, e).currency = o.currency
             /\ ApplyCreated(o, e).totalFrom = o.totalFrom
  BY <1>1, <1>t, CreatedColumns DEF CreatedApplies, Overlay, RowInv, Origins
<1>2. ~UpdatedApplies(o, e) /\ ~PaidApplies(o, e)
  BY DEF UpdatedApplies, PaidApplies
<1>3. /\ ApplyCancelled(o, e).paidBy = o.paidBy
      /\ ApplyCancelled(o, e).currency = o.currency
      /\ ApplyCancelled(o, e).totalFrom = o.totalFrom
  <2>1. CASE Newer(o, e, FALSE)
    BY <2>1, <1>t, CancelledColumns
  <2>2. CASE ~Newer(o, e, FALSE)
    BY <2>2, EarlyReturn
  <2> QED BY <2>1, <2>2
<1>4. CASE Kind[e] = "order_created"
  BY <1>1, <1>4, EarlyReturn DEF Handled
<1>5. CASE Kind[e] \in {"order_updated", "order_paid"}
  BY <1>2, <1>5, EarlyReturn DEF Handled
<1>6. CASE Kind[e] \notin {"order_created", "order_updated", "order_paid"}
  BY <1>3, <1>6 DEF Handled
<1> QED
  BY <1>4, <1>5, <1>6

\* After payment no step changes the payment, the currency or the total.
THEOREM PaidFrozenAlways == Spec => PaidFrozen
<1> DEFINE A == order.paidBy # NoEvent =>
                  /\ order'.paidBy = order.paidBy
                  /\ order'.currency = order.currency
                  /\ order'.totalFrom = order.totalFrom
<1>1. IInv /\ [Next]_vars => [A]_vars
  <2> SUFFICES ASSUME IInv, [Next]_vars, order.paidBy # NoEvent PROVE A
    OBVIOUS
  <2>0. /\ order \in Orders /\ RowInv(order) /\ TypeOK /\ LockInv
    BY DEF IInv, TypeOK
  <2> DEFINE stub == [order EXCEPT !.exists = TRUE]
  <2>1. /\ stub \in Orders /\ RowInv(stub)
        /\ stub.paidBy = order.paidBy
        /\ stub.currency = order.currency
        /\ stub.totalFrom = order.totalFrom
    <3>1. stub \in Orders /\ RowInv(stub)
      BY <2>0, StubRow
    <3> QED BY <3>1, <2>0 DEF Orders
  <2>2. \/ order' = order
        \/ order' = stub
        \/ \E e \in OrderEvents : order' = Handled(stub, e)
    BY <2>0, RowStep
  <2> HIDE DEF stub
  <2> QED BY <2>1, <2>2, PaidRow
<1> HIDE DEF A
<1>2. Spec => [][A]_vars
  BY <1>1, IInvAlways, PTL DEF Spec
<1> QED BY <1>2 DEF A, PaidFrozen

\* No handler replaces a version by a smaller one.
LEMMA VersionRow ==
  ASSUME NEW o \in Orders, NEW e \in OrderEvents,
         o.version # NoValue, Handled(o, e).version # NoValue
  PROVE  Handled(o, e).version >= o.version
<1>t. /\ e \in Events
      /\ Version[e] \in (Nat \ {0}) \cup {NoValue}
      /\ o.version \in Nat
  BY OrderAssumption DEF OrderEvents, Orders
<1>1. ASSUME NEW b \in BOOLEAN, Newer(o, e, b), Version[e] # NoValue
      PROVE  Version[e] >= o.version
  BY <1>1, <1>t DEF Newer, ShouldApply
<1>2. ASSUME o.createdBy = NoEvent, ApplyCreated(o, e).version # NoValue
      PROVE  ApplyCreated(o, e).version >= o.version
  <2>1. CASE CreatedApplies(o, e)
    BY <1>t, <1>1, <1>2, <2>1, CreatedColumns DEF CreatedApplies
  <2>2. CASE ~CreatedApplies(o, e)
    <3>1. ApplyCreated(o, e).version = o.version
      BY <1>t, <1>2, <2>2, CreatedColumns
    <3> QED BY <3>1, <1>t
  <2> QED BY <2>1, <2>2
<1>3. ASSUME UpdatedApplies(o, e), ApplyUpdated(o, e).version # NoValue
      PROVE  ApplyUpdated(o, e).version >= o.version
  BY <1>t, <1>1, <1>3, UpdatedColumns DEF UpdatedApplies
<1>4. ASSUME PaidApplies(o, e), ApplyPaid(o, e).version # NoValue
      PROVE  ApplyPaid(o, e).version >= o.version
  BY <1>t, <1>1, <1>4, PaidColumns DEF PaidApplies
<1>5. ASSUME Newer(o, e, FALSE), ApplyCancelled(o, e).version # NoValue
      PROVE  ApplyCancelled(o, e).version >= o.version
  BY <1>t, <1>1, <1>5, CancelledColumns
<1>6. o.version >= o.version
  BY <1>t
<1> QED
  BY <1>2, <1>3, <1>4, <1>5, <1>6, EarlyReturn DEF Handled

\* A known version is never replaced by a smaller one.
THEOREM VersionMonotonicAlways == Spec => VersionMonotonic
<1> DEFINE A == order.version # NoValue /\ order'.version # NoValue =>
                  order'.version >= order.version
<1>1. IInv /\ [Next]_vars => [A]_vars
  <2> SUFFICES ASSUME IInv, [Next]_vars, order.version # NoValue,
                      order'.version # NoValue
               PROVE  order'.version >= order.version
    OBVIOUS
  <2>0. /\ order \in Orders /\ RowInv(order) /\ TypeOK /\ LockInv
        /\ order.version \in Nat
    BY DEF IInv, TypeOK, Orders
  <2> DEFINE stub == [order EXCEPT !.exists = TRUE]
  <2>1. stub \in Orders /\ stub.version = order.version
    BY <2>0 DEF Orders
  <2>2. \/ order' = order
        \/ order' = stub
        \/ \E e \in OrderEvents : order' = Handled(stub, e)
    BY <2>0, RowStep
  <2>3. order.version >= order.version
    BY <2>0
  <2> HIDE DEF stub
  <2> QED BY <2>1, <2>2, <2>3, VersionRow
<1> HIDE DEF A
<1>2. Spec => [][A]_vars
  BY <1>1, IInvAlways, PTL DEF Spec
<1> QED BY <1>2 DEF A, VersionMonotonic

-----------------------------------------------------------------------------
(* Refunds *)

\* A handler that does not synchronise the refunds keeps the currency.
LEMMA UnsyncedCurrency ==
  ASSUME NEW o \in Orders, NEW e \in OrderEvents, ~Syncs(o, e)
  PROVE  Handled(o, e).currency = o.currency
<1>t. e \in Events
  BY DEF OrderEvents
<1>1. ApplyCancelled(o, e).currency = o.currency
  <2>1. CASE Newer(o, e, FALSE)
    BY <2>1, <1>t, CancelledColumns
  <2>2. CASE ~Newer(o, e, FALSE)
    BY <2>2, EarlyReturn
  <2> QED BY <2>1, <2>2
<1>2. CASE Kind[e] = "order_created"
  BY <1>2, EarlyReturn DEF Handled, Syncs
<1>3. CASE Kind[e] = "order_updated"
  BY <1>3, EarlyReturn DEF Handled, Syncs
<1>4. CASE Kind[e] = "order_paid"
  BY <1>4, EarlyReturn DEF Handled, Syncs
<1>5. CASE Kind[e] \notin {"order_created", "order_updated", "order_paid"}
  BY <1>1, <1>5 DEF Handled
<1> QED BY <1>2, <1>3, <1>4, <1>5

\* One that does leaves a currency behind.
LEMMA SyncedCurrency ==
  ASSUME NEW o \in Orders, NEW e \in OrderEvents, Syncs(o, e)
  PROVE  Handled(o, e).currency # NoValue
<1>t. e \in Events /\ Currency[e] \in Currencies /\ Currency[e] # NoValue
  BY OrderAssumption DEF OrderEvents
<1>1. CASE Kind[e] = "order_created" /\ o.createdBy = NoEvent
  BY <1>1, <1>t, CreatedColumns DEF Handled, Overlay
<1>2. CASE Kind[e] = "order_updated" /\ UpdatedApplies(o, e)
  BY <1>2, <1>t, UpdatedColumns DEF Handled
<1>3. CASE Kind[e] = "order_paid" /\ PaidApplies(o, e)
  BY <1>3, <1>t, PaidColumns DEF Handled
<1> QED BY <1>1, <1>2, <1>3 DEF Syncs

\* A refund is marked invalid only while its currency differs from the order's.
THEOREM RefundInvalidityRightAlways == Spec => []RefundInvalidityRight
<1>1. Init => RefundInvalidityRight
  BY DEF Init, RefundInvalidityRight
<1>2. IInv /\ RefundInvalidityRight /\ [Next]_vars => RefundInvalidityRight'
  <2> SUFFICES ASSUME IInv, RefundInvalidityRight, [Next]_vars
               PROVE  RefundInvalidityRight'
    OBVIOUS
  <2>0. order \in Orders /\ TypeOK /\ LockInv
    BY DEF IInv, TypeOK
  <2>1. [order EXCEPT !.exists = TRUE].currency = order.currency
    BY <2>0 DEF Orders
  <2>2. ASSUME NEW e \in Events, OrderCommit(e) PROVE RefundInvalidityRight'
    <3>1. /\ e \in OrderEvents
          /\ seen[e] \in Orders
          /\ seen[e].currency = order.currency
      BY <2>0, <2>1, <2>2 DEF OrderCommit, LockInv, TypeOK
    <3>2. CASE Syncs(seen[e], e)
      <4>1. order'.currency # NoValue
        BY <2>2, <3>1, <3>2, SyncedCurrency DEF OrderCommit
      <4>2. refund' = SyncRefunds(order')
        BY <2>2, <3>2 DEF OrderCommit
      <4> QED BY <4>1, <4>2 DEF SyncRefunds, RefundInvalidityRight
    <3>3. CASE ~Syncs(seen[e], e)
      <4>1. order'.currency = order.currency
        BY <2>2, <3>1, <3>3, UnsyncedCurrency DEF OrderCommit
      <4>2. refund' = refund
        BY <2>2, <3>3 DEF OrderCommit
      <4> QED BY <4>1, <4>2 DEF RefundInvalidityRight
    <3> QED BY <3>2, <3>3
  <2>3. ASSUME NEW e \in Events, RefundCommit(e) PROVE RefundInvalidityRight'
    BY <2>0, <2>1, <2>3 DEF RefundCommit, RefundInvalidityRight, TypeOK
  <2>4. ASSUME NEW e \in Events, Mention(e) PROVE RefundInvalidityRight'
    BY <2>1, <2>4 DEF Mention, RefundInvalidityRight
  <2>5. ASSUME UNCHANGED <<order, refund>> PROVE RefundInvalidityRight'
    BY <2>5 DEF RefundInvalidityRight
  <2> QED
    BY <2>2, <2>3, <2>4, <2>5 DEF Next, OrderLock, RefundCheck, Rollback, vars
<1> QED BY <1>1, <1>2, IInvAlways, PTL DEF Spec

-----------------------------------------------------------------------------
(* Order of arrival does not matter: versions that agree with occurrence *)

\* Where versions agree with the times, both branches of
\* should_apply_entity_update compare the times.
LEMMA NewerIsLater ==
  ASSUME Consistent, NEW o \in Orders, Stamped(o), NEW e \in OrderEvents
  PROVE  /\ Newer(o, e, FALSE) <=> o.at = NoValue \/ OccurredAt[e] > o.at
         /\ Newer(o, e, TRUE) <=> o.at = NoValue \/ OccurredAt[e] >= o.at
<1>t. /\ e \in Events
      /\ OccurredAt[e] \in Nat
      /\ Version[e] \in Nat \cup {NoValue}
  BY OrderAssumption DEF OrderEvents
<1>1. CASE o.stateFrom = NoEvent
  BY <1>1 DEF Stamped, Newer, ShouldApply
<1>2. CASE o.stateFrom # NoEvent
  <2>1. /\ o.stateFrom \in OrderEvents
        /\ o.version = Version[o.stateFrom]
        /\ o.at = OccurredAt[o.stateFrom]
    BY <1>2 DEF Stamped
  <2>2. /\ o.at \in Nat /\ o.at # NoValue
        /\ o.version \in Nat \cup {NoValue}
    BY <2>1, OrderAssumption, NoValueAssumption DEF OrderEvents
  <2>3. o.version # NoValue /\ Version[e] # NoValue =>
          /\ o.version < Version[e] <=> o.at < OccurredAt[e]
          /\ Version[e] < o.version <=> OccurredAt[e] < o.at
    BY <2>1 DEF Consistent
  <2>4. CASE o.version # NoValue /\ Version[e] # NoValue
    <3>1. o.version \in Nat /\ Version[e] \in Nat
      BY <2>2, <2>4, <1>t
    <3> QED BY <2>2, <2>3, <2>4, <3>1, <1>t DEF Newer, ShouldApply
  <2>5. CASE ~(o.version # NoValue /\ Version[e] # NoValue)
    BY <2>2, <2>5, <1>t DEF Newer, ShouldApply
  <2> QED BY <2>4, <2>5
<1> QED BY <1>1, <1>2

\* Row n, written by the handler of e over row o, is no older than o nor than
\* the events it has to be newer than.
Later(o, n, e) ==
  /\ o.at # NoValue => n.at # NoValue /\ n.at >= o.at
  /\ o.paidBy # NoEvent => n.paidBy # NoEvent
  /\ o.cancelledAt # NoValue => n.cancelledAt # NoValue
  /\ Kind[e] = "order_paid" =>
       n.paidBy # NoEvent \/ (n.at # NoValue /\ n.at > OccurredAt[e])
  /\ Kind[e] = "order_cancelled" =>
       n.cancelledAt # NoValue \/ (n.at # NoValue /\ n.at >= OccurredAt[e])
  /\ n.paidBy = NoEvent /\ n.cancelledAt = NoValue =>
       /\ n.createdBy # o.createdBy =>
            n.at # NoValue /\ n.at >= OccurredAt[n.createdBy]
       /\ Kind[e] = "order_updated" => n.at # NoValue /\ n.at >= OccurredAt[e]

\* With consistent versions and times every handler moves the row forward.
LEMMA LaterRow ==
  ASSUME Consistent, NEW o \in Orders, RowInv(o), NEW e \in OrderEvents
  PROVE  Later(o, Handled(o, e), e)
<1>t. /\ e \in Events /\ e # NoEvent
      /\ OccurredAt[e] \in Nat /\ OccurredAt[e] # NoValue
      /\ o.at \in Nat \cup {NoValue}
      /\ Stamped(o)
  BY OrderAssumption, NoValueAssumption DEF OrderEvents, Orders, RowInv
<1>n. /\ Newer(o, e, FALSE) <=> o.at = NoValue \/ OccurredAt[e] > o.at
      /\ Newer(o, e, TRUE) <=> o.at = NoValue \/ OccurredAt[e] >= o.at
  BY <1>t, NewerIsLater
<1>m. /\ ~Newer(o, e, FALSE) => o.at # NoValue /\ o.at >= OccurredAt[e]
      /\ ~Newer(o, e, TRUE) => o.at # NoValue /\ o.at > OccurredAt[e]
  <2>1. CASE o.at = NoValue
    BY <2>1, <1>n
  <2>2. CASE o.at # NoValue
    <3>1. o.at \in Nat
      BY <2>2, <1>t
    <3>2. \A a, b \in Nat : (~(b > a) => a >= b) /\ (~(b >= a) => a > b)
      OBVIOUS
    <3>3. /\ ~(OccurredAt[e] > o.at) => o.at >= OccurredAt[e]
          /\ ~(OccurredAt[e] >= o.at) => o.at > OccurredAt[e]
      BY <3>1, <3>2, <1>t
    <3> QED BY <2>2, <3>3, <1>n, Zenon
  <2> QED BY <2>1, <2>2
<1>r. o.at # NoValue => o.at >= o.at
  BY <1>t
<1>1. ASSUME Kind[e] = "order_created" PROVE Later(o, ApplyCreated(o, e), e)
  <2> DEFINE n == ApplyCreated(o, e)
  <2>1. CASE o.createdBy # NoEvent
    <3>1. n = o
      BY <2>1, EarlyReturn
    <3>9. Later(o, n, e)
      <4> HIDE DEF n
      <4> QED BY <3>1, <1>1, <1>t, <1>r DEF Later
    <3> QED BY <3>9
  <2>2. CASE o.createdBy = NoEvent /\ CreatedApplies(o, e)
    <3>1. n.createdBy = e /\ n.at = OccurredAt[e] /\ o.paidBy = NoEvent /\ o.cancelledAt = NoValue
      BY <2>2, <1>t, CreatedColumns DEF CreatedApplies
    <3>2. o.at # NoValue => OccurredAt[e] > o.at
      BY <2>2, <1>n DEF CreatedApplies
    <3>9. Later(o, n, e)
      <4> HIDE DEF n
      <4> QED BY <3>1, <3>2, <1>1, <1>t, <1>r DEF Later
    <3> QED BY <3>9
  <2>3. CASE o.createdBy = NoEvent /\ ~CreatedApplies(o, e)
    <3>1. /\ n.createdBy = e /\ n.at = o.at
          /\ n.paidBy = o.paidBy /\ n.cancelledAt = o.cancelledAt
      BY <2>3, <1>t, CreatedColumns
    <3>2. o.paidBy = NoEvent /\ o.cancelledAt = NoValue =>
            o.at # NoValue /\ o.at >= OccurredAt[e]
      BY <2>3, <1>m DEF CreatedApplies
    <3>9. Later(o, n, e)
      <4> HIDE DEF n
      <4> QED BY <3>1, <3>2, <1>1, <1>t, <1>r DEF Later
    <3> QED BY <3>9
  <2> QED BY <2>1, <2>2, <2>3
<1>2. ASSUME Kind[e] = "order_updated" PROVE Later(o, ApplyUpdated(o, e), e)
  <2> DEFINE n == ApplyUpdated(o, e)
  <2>1. CASE UpdatedApplies(o, e)
    <3>1. /\ n.createdBy = o.createdBy /\ n.at = OccurredAt[e]
          /\ n.paidBy = o.paidBy /\ n.cancelledAt = o.cancelledAt
      BY <2>1, <1>t, UpdatedColumns
    <3>2. o.at # NoValue => OccurredAt[e] > o.at
      BY <2>1, <1>n DEF UpdatedApplies
    <3>9. Later(o, n, e)
      <4> HIDE DEF n
      <4> QED BY <3>1, <3>2, <1>2, <1>t, <1>r DEF Later
    <3> QED BY <3>9
  <2>2. CASE ~UpdatedApplies(o, e)
    <3>1. n = o
      BY <2>2, EarlyReturn
    <3>2. o.paidBy = NoEvent => o.at # NoValue /\ o.at >= OccurredAt[e]
      BY <2>2, <1>m DEF UpdatedApplies
    <3>9. Later(o, n, e)
      <4> HIDE DEF n
      <4> QED BY <3>1, <3>2, <1>2, <1>t, <1>r DEF Later
    <3> QED BY <3>9
  <2> QED BY <2>1, <2>2
<1>3. ASSUME Kind[e] = "order_paid" PROVE Later(o, ApplyPaid(o, e), e)
  <2> DEFINE n == ApplyPaid(o, e)
  <2>1. CASE PaidApplies(o, e)
    <3>1. /\ n.createdBy = o.createdBy /\ n.at = OccurredAt[e]
          /\ n.paidBy = e /\ n.cancelledAt = o.cancelledAt
      BY <2>1, <1>t, PaidColumns
    <3>2. o.at # NoValue => OccurredAt[e] >= o.at
      BY <2>1, <1>n DEF PaidApplies
    <3>9. Later(o, n, e)
      <4> HIDE DEF n
      <4> QED BY <3>1, <3>2, <1>3, <1>t, <1>r DEF Later
    <3> QED BY <3>9
  <2>2. CASE ~PaidApplies(o, e)
    <3>1. n = o
      BY <2>2, EarlyReturn
    <3>2. o.paidBy = NoEvent => o.at # NoValue /\ o.at > OccurredAt[e]
      BY <2>2, <1>m DEF PaidApplies
    <3>9. Later(o, n, e)
      <4> HIDE DEF n
      <4> QED BY <3>1, <3>2, <1>3, <1>t, <1>r DEF Later
    <3> QED BY <3>9
  <2> QED BY <2>1, <2>2
<1>4. ASSUME Kind[e] = "order_cancelled" PROVE Later(o, ApplyCancelled(o, e), e)
  <2> DEFINE n == ApplyCancelled(o, e)
  <2>1. CASE Newer(o, e, FALSE)
    <3>1. /\ n.createdBy = o.createdBy /\ n.at = OccurredAt[e]
          /\ n.paidBy = o.paidBy /\ n.cancelledAt = OccurredAt[e]
      BY <2>1, <1>t, CancelledColumns
    <3>2. o.at # NoValue => OccurredAt[e] > o.at
      BY <2>1, <1>n
    <3>9. Later(o, n, e)
      <4> HIDE DEF n
      <4> QED BY <3>1, <3>2, <1>4, <1>t, <1>r DEF Later
    <3> QED BY <3>9
  <2>2. CASE ~Newer(o, e, FALSE)
    <3>1. n = o
      BY <2>2, EarlyReturn
    <3>2. o.at # NoValue /\ o.at >= OccurredAt[e]
      BY <2>2, <1>m
    <3>9. Later(o, n, e)
      <4> HIDE DEF n
      <4> QED BY <3>1, <3>2, <1>4, <1>t, <1>r DEF Later
    <3> QED BY <3>9
  <2> QED BY <2>1, <2>2
<1>5. Kind[e] \in {"order_created", "order_updated", "order_paid", "order_cancelled"}
  BY DEF OrderEvents
<1> QED BY <1>1, <1>2, <1>3, <1>4, <1>5 DEF Handled

\* What the row owes to the events accepted so far, whatever their order.
Arrived(row, t) ==
  /\ row.paidBy = NoEvent /\ row.cancelledAt = NoValue =>
       \A e \in OrderEvents :
         e = row.createdBy \/ (t[e] = "accepted" /\ Kind[e] = "order_updated") =>
           row.at # NoValue /\ row.at >= OccurredAt[e]
  /\ \A e \in OrderEvents :
       t[e] = "accepted" =>
         /\ Kind[e] = "order_paid" =>
              row.paidBy # NoEvent \/ (row.at # NoValue /\ row.at > OccurredAt[e])
         /\ Kind[e] = "order_cancelled" =>
              row.cancelledAt # NoValue \/ (row.at # NoValue /\ row.at >= OccurredAt[e])

\* What the row owes to the accepted events is kept by every step.
LEMMA NextArrived ==
  ASSUME Consistent, IInv, Arrived(order, tx), [Next]_vars
  PROVE  Arrived(order', tx')
<1>0. /\ order \in Orders /\ RowInv(order) /\ TypeOK /\ LockInv
  BY DEF IInv, TypeOK
<1> DEFINE stub == [order EXCEPT !.exists = TRUE]
<1>1. /\ stub \in Orders /\ RowInv(stub)
      /\ stub.paidBy = order.paidBy /\ stub.cancelledAt = order.cancelledAt
      /\ stub.createdBy = order.createdBy /\ stub.at = order.at
  <2>1. stub \in Orders /\ RowInv(stub)
    BY <1>0, StubRow
  <2> QED BY <2>1, <1>0 DEF Orders
<1>2. ASSUME order' \in {order, stub},
             \A e \in OrderEvents : tx'[e] = "accepted" => tx[e] = "accepted"
      PROVE  Arrived(order', tx')
  <2>1. /\ order'.paidBy = order.paidBy /\ order'.cancelledAt = order.cancelledAt
        /\ order'.createdBy = order.createdBy /\ order'.at = order.at
    BY <1>1, <1>2
  <2> QED BY <2>1, <1>2 DEF Arrived
<1>3. ASSUME NEW e \in OrderEvents, OrderCommit(e), order' = Handled(stub, e)
      PROVE  Arrived(order', tx')
  <2>1. Later(stub, order', e)
    BY <1>1, <1>3, LaterRow
  <2>2. /\ order' \in Orders
        /\ \A f \in OrderEvents : f # e => tx'[f] = tx[f]
    BY <1>0, <1>1, <1>3, HandledType DEF OrderCommit, TypeOK, OrderEvents
  <2>3. /\ order.at \in Nat \cup {NoValue} /\ order'.at \in Nat \cup {NoValue}
        /\ \A f \in OrderEvents : OccurredAt[f] \in Nat
    BY <1>0, <2>2, OrderAssumption DEF Orders, OrderEvents
  <2>4. \A a, b, c \in Nat : a >= b /\ b >= c => a >= c
    OBVIOUS
  <2>5. \A a, b, c \in Nat : a >= b /\ b > c => a > c
    OBVIOUS
  <2>6. order.at # NoValue =>
          /\ order'.at # NoValue
          /\ \A f \in OrderEvents :
               /\ order.at >= OccurredAt[f] => order'.at >= OccurredAt[f]
               /\ order.at > OccurredAt[f] => order'.at > OccurredAt[f]
    BY <1>1, <2>1, <2>3, <2>4, <2>5 DEF Later
  <2> HIDE DEF stub
  <2>7. ASSUME order'.paidBy = NoEvent, order'.cancelledAt = NoValue,
               NEW f \in OrderEvents,
               f = order'.createdBy \/ (tx'[f] = "accepted" /\ Kind[f] = "order_updated")
        PROVE  order'.at # NoValue /\ order'.at >= OccurredAt[f]
    <3>1. order.paidBy = NoEvent /\ order.cancelledAt = NoValue
      BY <1>1, <2>1, <2>7 DEF Later
    <3>2. CASE f = order'.createdBy
      BY <1>1, <2>1, <2>6, <2>7, <3>1, <3>2 DEF Later, Arrived
    <3>3. CASE tx'[f] = "accepted" /\ Kind[f] = "order_updated"
      BY <1>1, <2>1, <2>2, <2>6, <2>7, <3>1, <3>3 DEF Later, Arrived
    <3> QED BY <2>7, <3>2, <3>3
  <2>8. ASSUME NEW f \in OrderEvents, tx'[f] = "accepted"
        PROVE  /\ Kind[f] = "order_paid" =>
                    order'.paidBy # NoEvent \/ (order'.at # NoValue /\ order'.at > OccurredAt[f])
               /\ Kind[f] = "order_cancelled" =>
                    order'.cancelledAt # NoValue \/ (order'.at # NoValue /\ order'.at >= OccurredAt[f])
    BY <1>1, <2>1, <2>2, <2>6, <2>8 DEF Later, Arrived
  <2> QED BY <2>7, <2>8 DEF Arrived
<1>4. CASE order' \in {order, stub} /\ ~\E e \in Events : OrderCommit(e)
  <2>1. \A e \in OrderEvents : tx'[e] = "accepted" => tx[e] = "accepted"
    BY <1>0, <1>4 DEF TypeOK, Next, OrderLock, RefundCheck, RefundCommit, Mention,
       Rollback, vars, OrderEvents
  <2> QED BY <1>2, <1>4, <2>1
<1>5. CASE \E e \in Events : OrderCommit(e)
  <2> PICK e \in Events : OrderCommit(e)
    BY <1>5
  <2>1. e \in OrderEvents /\ order' = Handled(stub, e)
    BY <1>0 DEF OrderCommit, LockInv
  <2> QED BY <1>3, <2>1
<1>6. order' \in {order, stub} \/ \E e \in Events : OrderCommit(e)
  BY <1>0, RowStep DEF OrderEvents
<1> QED BY <1>4, <1>5, <1>6

\* Where versions agree with the times of occurrence, the state of an unpaid
\* and uncancelled order does not depend on the order of arrival.
THEOREM NewestWinsAlways ==
  ASSUME Consistent
  PROVE  Spec => []NewestWins
<1>1. Init => Arrived(order, tx)
  BY OrderAssumption DEF Init, Arrived, Missing, OrderEvents
<1>2. IInv /\ Arrived(order, tx) /\ [Next]_vars => Arrived(order, tx)'
  BY NextArrived
<1>3. IInv /\ Arrived(order, tx) => NewestWins
  BY OrderAssumption DEF IInv, RowInv, Stamped, Whole, Arrived, NewestWins
<1> QED BY <1>1, <1>2, <1>3, IInvAlways, PTL DEF Spec

\* And a payment or cancellation is lost to newer events only.
THEOREM FactsRecordedAlways ==
  ASSUME Consistent
  PROVE  Spec => []FactsRecorded
<1>1. Init => Arrived(order, tx)
  BY OrderAssumption DEF Init, Arrived, Missing, OrderEvents
<1>2. IInv /\ Arrived(order, tx) /\ [Next]_vars => Arrived(order, tx)'
  BY NextArrived
<1>3. Arrived(order, tx) => FactsRecorded
  BY DEF Arrived, FactsRecorded
<1> QED BY <1>1, <1>2, <1>3, IInvAlways, PTL DEF Spec
=============================================================================
