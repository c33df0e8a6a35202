------------------------------ MODULE RowLocks ------------------------------
(***************************************************************************)
(* The row locks of the analytics transactions: an ingest inserts stubs    *)
(* for the rows its event names, locks the visitor's row and then what its *)
(* handler writes; an anonymization locks the visitor and writes its rows. *)
(* A transaction is its remaining lock requests, in the order of the       *)
(* statements that make them.  Foreign keys take their locks, too: a new   *)
(* row, or a changed key column, locks each row it refers to in key share  *)
(* mode, when the statement ends.                                          *)
(*                                                                         *)
(* The journal's row is left out: it is the first a transaction inserts,   *)
(* so that one which waits for it holds nothing (ShopwareDelivery).        *)
(***************************************************************************)
EXTENDS Naturals, Sequences, FiniteSets

CONSTANTS
  None,        \* a column of the envelope that the event does not have
  Visitors, Sessions, Leads, Orders, Sales, Facts,  \* primary keys, by table
  Workloads    \* sets of transactions that overlap, and the rows they find:
               \* [events, rows], an event is [id, type, visitor, session, lead,
               \* order, sale, fact]; owner is the visitor of the rows

Dependents == Leads \cup Orders \cup Sales
Rows == Visitors \cup Sessions \cup Dependents \cup Facts

ASSUME RowLocksAssumption ==
  /\ IsFiniteSet(Rows) /\ None \notin Rows
  \* a row is of one table
  /\ Visitors \cap Sessions = {} /\ Dependents \cap (Visitors \cup Sessions) = {}
  /\ Leads \cap Orders = {} /\ Sales \cap (Leads \cup Orders) = {}
  /\ Facts \cap (Visitors \cup Sessions \cup Dependents) = {}
  /\ \A w \in Workloads :
       /\ IsFiniteSet(w.events) /\ w.rows \subseteq Rows
       /\ w.owner \in Visitors
       /\ w.rows \cap Sessions # {} => w.owner \in w.rows
       /\ \A e \in w.events :
            /\ e.visitor \in Visitors \cup {None} /\ e.session \in Sessions \cup {None}
            /\ e.lead \in Leads \cup {None} /\ e.order \in Orders \cup {None}
            /\ e.sale \in Sales \cup {None} /\ e.fact \in Facts \cup {None}
            \* a session is named with its visitor: the contract does not demand it
            /\ e.session # None => e.visitor # None
            /\ e.type \in {"session_started", "anonymize"} => e.visitor # None

VARIABLES
  running,   \* transactions that have begun and not ended
  todo,      \* event -> requests its transaction has not made yet
  held,      \* event -> locks held: {<<mode, row>>}
  rows,      \* committed rows
  owner      \* committed visitor_id of sessions and dependents

vars == <<running, todo, held, rows, owner>>

-----------------------------------------------------------------------------
(* Requests *)

\* A row that another transaction has inserted and not committed is waited for
\* by an insert only; nobody else sees it.
Conflicts(mode) ==
  CASE mode = "insert" -> {"insert"}
    [] mode = "key_share" -> {"update"}
    [] mode = "no_key_update" -> {"no_key_update", "update"}
    [] mode = "update" -> {"key_share", "no_key_update", "update"}

Request(mode, row) == IF row = None THEN <<>> ELSE <<[mode |-> mode, row |-> row]>>

\* Rows of a table that belong to a visitor: found first, then written.
WriteOwned(table, v) == <<[mode |-> "select", table |-> table, of |-> v]>>

\* The version rule, by which a handler may return before it writes.
Rule == <<[mode |-> "rule"]>>
Returned == <<[mode |-> "returned"]>>

\* Bug: stubs in the order of the payload, the aggregate's own one first.
BugEnsureStubs(e) ==
  (IF e.visitor = None THEN <<>>
   ELSE Request("insert", e.visitor) \o Request("insert", e.session))
  \o (IF e.type = "lead_status_changed"
      THEN Request("insert", e.order) \o Request("insert", e.lead)
      ELSE Request("insert", e.lead) \o Request("insert", e.order))
  \o Request("insert", e.sale)

\* Bug: the lead an order or a sale names is left to the lead's own events.
BugNoLeadStub(e) ==
  (IF e.visitor = None THEN <<>>
   ELSE Request("insert", e.visitor) \o Request("insert", e.session))
  \o (IF e.order = None /\ e.sale = None THEN Request("insert", e.lead) ELSE <<>>)
  \o Request("insert", e.order) \o Request("insert", e.sale)

EnsureStubs(e) ==
  (IF e.visitor = None THEN <<>>
   ELSE Request("insert", e.visitor) \o Request("insert", e.session))
  \o Request("insert", e.lead) \o Request("insert", e.order)
  \o Request("insert", e.sale)

\* Foreign keys of a new row.
References(e, row) ==
  IF row \in Sessions THEN Request("key_share", e.visitor)
  ELSE IF row \notin Facts THEN <<>>
  ELSE CASE e.type \in {"contact_received", "customer_linked"} ->
              Request("key_share", e.visitor) \o Request("key_share", e.lead)
         [] e.type = "refund_created" -> Request("key_share", e.order)
         [] OTHER -> Request("key_share", e.visitor) \o Request("key_share", e.session)

\* The rows of a visitor, in the order of the statements that write them.
WriteDependents(v) ==
  WriteOwned(Leads, v) \o WriteOwned(Orders, v) \o WriteOwned(Sales, v)

Handler(e) ==
  CASE e.type = "session_started" ->
         Rule \o Request("update", e.session) \o WriteDependents(e.visitor)
    [] e.type \in {"lead_created", "lead_status_changed"} ->
         Request("update", e.lead) \o Rule \o Request("key_share", e.visitor)
         \o (IF e.type = "lead_created" THEN Request("key_share", e.session) ELSE <<>>)
    [] e.type \in {"order_created", "order_updated", "order_paid"} ->
         Request("update", e.order) \o Rule \o Request("key_share", e.visitor)
         \o Request("key_share", e.session) \o Request("key_share", e.lead)
    [] e.type = "order_cancelled" ->
         Request("update", e.order) \o Rule \o Request("key_share", e.visitor)
         \o Request("key_share", e.lead)
    [] e.type \in {"manual_sale_created", "manual_sale_updated"} ->
         Request("update", e.sale) \o Rule \o Request("key_share", e.visitor)
         \o Request("key_share", e.lead)
    [] e.type = "manual_sale_cancelled" -> Request("update", e.sale) \o Rule
    [] OTHER -> Request("insert", e.fact)

\* The row that the handler of e writes the visitor of e to.
Aggregate(e) ==
  CASE e.type = "session_started" -> e.session
    [] e.type \in {"lead_created", "lead_status_changed"} -> e.lead
    [] e.type \in {"order_created", "order_updated", "order_paid",
                   "order_cancelled"} -> e.order
    [] e.type \in {"manual_sale_created", "manual_sale_updated"} -> e.sale
    [] OTHER -> None

Program(e) ==
  IF e.type = "anonymize"
  THEN Request("update", e.visitor) \o WriteOwned(Sessions, e.visitor)
       \o WriteDependents(e.visitor)
  ELSE EnsureStubs(e) \o Request("update", e.visitor) \o Handler(e)

\* The visitors that a row can belong to while a workload runs.
Owners(w, r) ==
  {v \in Visitors :
     \/ v = w.owner /\ {r, v} \subseteq w.rows
     \/ \E e \in w.events : e.visitor = v /\ r \in {e.session, Aggregate(e)}}

Moves(w, r) == \E u, v \in Owners(w, r) : u # v

\* A session belongs to one visitor, and no two rows of a table change hands
\* within one workload.
FewMove ==
  \A w \in Workloads :
    /\ \A s \in Sessions : ~Moves(w, s)
    /\ \A table \in {Leads, Orders, Sales} : \A q, r \in table :
         Moves(w, q) /\ Moves(w, r) => q = r

-----------------------------------------------------------------------------
(* Waiting *)

Next1(e) == Head(todo[e])
AsksForRow(e) ==
  /\ e \in running /\ todo[e] # <<>>
  /\ Next1(e).mode \notin {"select", "rule", "returned"}

Inserted(e) == {r \in Rows : <<"insert", r>> \in held[e]}

Blockers(e) ==
  {o \in running \ {e} :
     \E mode \in Conflicts(Next1(e).mode) : <<mode, Next1(e).row>> \in held[o]}

\* Everyone in D waits for somebody in D.
Deadlocked(D) ==
  /\ D # {}
  /\ \A e \in D : AsksForRow(e) /\ Blockers(e) \cap D # {}

-----------------------------------------------------------------------------
Init ==
  \E w \in Workloads :
    /\ running = w.events
    /\ todo = [e \in w.events |-> Program(e)]
    /\ held = [e \in w.events |-> {}]
    /\ rows = w.rows
    /\ owner = [r \in Sessions \cup Dependents |->
                  IF {r, w.owner} \subseteq w.rows THEN w.owner ELSE None]

\* ON CONFLICT DO NOTHING: the row is there, and no key is checked.
StubExists(e) ==
  /\ AsksForRow(e)
  /\ Next1(e).mode = "insert" /\ Next1(e).row \in rows
  /\ todo' = [todo EXCEPT ![e] = Tail(@)]
  /\ UNCHANGED <<running, held, rows, owner>>

\* Bug: a plain INSERT, for a row that a SELECT has not found.
BugIsNew(row) == TRUE

IsNew(row) == row \notin rows

Insert(e) ==
  /\ AsksForRow(e)
  /\ Next1(e).mode = "insert" /\ IsNew(Next1(e).row)
  /\ Blockers(e) = {}
  /\ held' = [held EXCEPT ![e] = @ \cup {<<"insert", Next1(e).row>>}]
  /\ todo' = [todo EXCEPT ![e] = References(e, Next1(e).row) \o Tail(@)]
  /\ UNCHANGED <<running, rows, owner>>

Lock(e) ==
  /\ AsksForRow(e)
  /\ Next1(e).mode # "insert" /\ Next1(e).row \in rows \cup Inserted(e)
  /\ Blockers(e) = {}
  /\ held' = [held EXCEPT ![e] = @ \cup {<<Next1(e).mode, Next1(e).row>>}]
  /\ todo' = [todo EXCEPT ![e] = Tail(@)]
  /\ UNCHANGED <<running, rows, owner>>

\* The rows are written in whatever order the flush or the scan comes to them.
Select(e) ==
  /\ e \in running /\ todo[e] # <<>> /\ Next1(e).mode = "select"
  /\ LET found == {r \in Next1(e).table \cap rows : owner[r] = Next1(e).of}
         orders == {s \in [1 .. Cardinality(found) -> found] :
                      \A r \in found : \E i \in DOMAIN s : s[i] = r}
     IN \E s \in orders :
          todo' = [todo EXCEPT ![e] =
            [i \in DOMAIN s |-> [mode |-> "no_key_update", row |-> s[i]]] \o Tail(@)]
  /\ UNCHANGED <<running, held, rows, owner>>

Decide(e) ==
  /\ e \in running /\ todo[e] # <<>> /\ Next1(e).mode = "rule"
  /\ \E applies \in BOOLEAN :
       todo' = [todo EXCEPT ![e] = IF applies THEN Tail(@) ELSE Returned]
  /\ UNCHANGED <<running, held, rows, owner>>

Release(e) ==
  /\ running' = running \ {e}
  /\ held' = [held EXCEPT ![e] = {}]
  /\ todo' = [todo EXCEPT ![e] = <<>>]

\* A handler that returned leaves the visitor of the row as it was, and so may
\* one that fills empty columns only.
Commit(e) ==
  /\ e \in running /\ todo[e] \in {<<>>, Returned}
  /\ rows' = rows \cup Inserted(e)
  /\ \E written \in {{}, {Aggregate(e)}} :
       /\ todo[e] = Returned \/ e.visitor = None => written = {}
       /\ owner' = [r \in DOMAIN owner |->
                     IF r \in written \cup (Inserted(e) \cap Sessions)
                     THEN e.visitor ELSE owner[r]]
  /\ Release(e)

\* An error, the process' death, or the deadlock detector's choice of a victim.
Rollback(e) ==
  /\ e \in running
  /\ Release(e)
  /\ UNCHANGED <<rows, owner>>

\* anonymize_visitor raises NotFoundException.
NotFound(e) ==
  /\ AsksForRow(e) /\ e.type = "anonymize"
  /\ Next1(e).mode = "update" /\ Next1(e).row \notin rows
  /\ Release(e)
  /\ UNCHANGED <<rows, owner>>

Next ==
  \E e \in running :
    \/ StubExists(e) \/ Insert(e) \/ Lock(e) \/ Select(e) \/ Decide(e)
    \/ Commit(e) \/ Rollback(e) \/ NotFound(e)

Spec == Init /\ [][Next]_vars

-----------------------------------------------------------------------------
\* Locks held together are compatible, and an open insert is of a row that is
\* not there (stubs.py:22-63).
TypeOK ==
  /\ running \subseteq DOMAIN todo /\ DOMAIN held = DOMAIN todo
  /\ rows \subseteq Rows
  /\ \A r \in DOMAIN owner : owner[r] \in Visitors \cup {None}
  /\ \A e \in DOMAIN held :
       /\ Inserted(e) \cap rows = {}
       /\ e \notin running => held[e] = {}
       /\ \A o \in DOMAIN held \ {e} : \A lock \in held[e] :
            \A other \in held[o] :
              lock[2] = other[2] => lock[1] \notin Conflicts(other[1])

\* Whatever order events come in, and whichever of them are rolled back, a
\* handler finds every row it locks and every row it refers to: no foreign key
\* fails, and require_row raises nothing (stubs.py:21-65, locking.py:17-30).
ReferencesFound ==
  \A e \in running :
    AsksForRow(e) /\ Next1(e).mode # "insert" /\ e.type # "anonymize" =>
      Next1(e).row \in rows \cup Inserted(e)

\* Transactions wait for each other in a circle only where one of them has
\* inserted a session, whose foreign key holds the visitor's row in a mode that
\* another can hold at the same time, but not when both go on to FOR UPDATE
\* (stubs.py:29-36, ingestion/service.py:96-100).  Stubs, aggregates and what
\* they refer to are locked in one order by everybody; the rows of a visitor in
\* any, but under the lock on the visitor (where FewMove).
DeadlockBySessionStub ==
  \A D \in SUBSET running :
    Deadlocked(D) =>
      \E e, o \in D :
        /\ e # o /\ Inserted(o) \cap Sessions # {}
        /\ Next1(e) \in {[mode |-> "update", row |-> v] : v \in Visitors}
        /\ <<"key_share", Next1(e).row>> \in held[o]
=============================================================================
