----------------------------- MODULE VisitorData -----------------------------
(***************************************************************************)
(* What the service keeps of a visitor: the journal, the visitor's row     *)
(* with first and last non-direct touch, sessions, attribution touches and *)
(* the snapshots on leads, orders and manual sales; and its anonymization  *)
(* (ingestion/service.py, handlers/session_started.py, lead_*.py,          *)
(* order_*.py, manual_sale_*.py, domains/attribution, domains/visitors).   *)
(*                                                                         *)
(* An ingest is one transaction: it inserts the event and waits for the    *)
(* row of the visitor it names, then runs its handler and commits.  Leads, *)
(* orders and sales are dependents; of their columns those are kept that   *)
(* the visitor, the snapshot and the version rule depend on.               *)
(***************************************************************************)
EXTENDS Versioning

CONSTANTS
  Visitors, Sessions, Leads, Orders, Sales,
  Events,
  Body,        \* [Events -> Bodies]
  Erasures,    \* visitors whose anonymization is requested
  Repeated     \* bound: the events that are sent again, once each

Dependents == Leads \cup Orders \cup Sales

Types == {"session_started", "lead_created", "lead_status_changed",
          "order_created", "order_updated", "order_paid", "order_cancelled",
          "manual_sale_created", "manual_sale_updated", "manual_sale_cancelled"}

\* subject: the session or dependent; sourceDirect: what classify_source makes
\* of the payload; identifying: it has click ids, utm, referrer, ... ;
\* confirmedAt: of a manual sale.
Bodies ==
  [type : Types, visitor : Visitors \cup {NoValue},
   subject : Sessions \cup Dependents, version : Nat \cup {NoValue},
   at : Nat, confirmedAt : Nat, sourceDirect : BOOLEAN, identifying : BOOLEAN]

\* The table an event's handler writes.
TableOf(type) ==
  CASE type = "session_started" -> Sessions
    [] type \in {"lead_created", "lead_status_changed"} -> Leads
    [] type \in {"order_created", "order_updated", "order_paid",
                 "order_cancelled"} -> Orders
    [] OTHER -> Sales

ASSUME VisitorAssumption ==
  /\ Body \in [Events -> Bodies]
  /\ NoValue \notin Visitors \cup Events
  /\ Erasures \subseteq Visitors
  /\ Orders \cap (Leads \cup Sales) = {}
  /\ \A e \in Events :
       /\ Body[e].subject \in TableOf(Body[e].type)
       /\ Body[e].type = "session_started" => Body[e].visitor # NoValue

VARIABLES
  journal,   \* [Events -> "absent", "stored" or "redacted"]: table events
  visitor,   \* [Visitors -> VisitorRows]
  session,   \* [Sessions -> SessionRows]; stubs count as absent
  touch,     \* [Events -> Touches or NoValue]: table attribution_touches
  dep,       \* [Dependents -> DependentRows]
  pc,        \* progress of each event's ingest
  seen,      \* the visitor's row an ingest has read FOR UPDATE
  lock,      \* ingest holding the visitor's row
  answer     \* what an event sent again was told

tables == <<journal, visitor, session, touch, dep>>
vars == <<journal, visitor, session, touch, dep, pc, seen, lock, answer>>

-----------------------------------------------------------------------------
(* Rows *)

\* The touch of event "of": the columns it fills are its own, except that the
\* identifying ones may have been left empty or erased.
Touches == [of : Events, direct : BOOLEAN, identifying : BOOLEAN]
SomeTouch == Touches \cup {NoValue}

ASSUME NoTouchAssumption == NoValue \notin Touches

VisitorRows == [known : BOOLEAN, anonymized : BOOLEAN, first : SomeTouch,
                last : SomeTouch]

SessionRows == [owner : Visitors \cup {NoValue}, at : Nat \cup {NoValue},
                identifying : BOOLEAN]

DependentRows ==
  [visitor : Visitors \cup {NoValue}, createdBy : Events \cup {NoValue},
   createdAt : Nat \cup {NoValue}, paidBy : Events \cup {NoValue},
   cancelled : BOOLEAN, version : Nat \cup {NoValue},
   at : Nat \cup {NoValue}, first : SomeTouch, last : SomeTouch]

NoVisitorRow == [known |-> FALSE, anonymized |-> FALSE, first |-> NoValue,
                 last |-> NoValue]
NoSessionRow == [owner |-> NoValue, at |-> NoValue, identifying |-> FALSE]
StubRow == [visitor |-> NoValue, createdBy |-> NoValue, createdAt |-> NoValue,
            paidBy |-> NoValue, cancelled |-> FALSE, version |-> NoValue,
            at |-> NoValue, first |-> NoValue, last |-> NoValue]

At(t) == Body[t.of].at

-----------------------------------------------------------------------------
(* Attribution rules (attribution/rules.py) *)

\* Bug: keep_identifiers is not consulted.
BugKeepsIdentifiers(e, w) ==
  [of |-> e, direct |-> Body[e].sourceDirect,
   identifying |-> Body[e].identifying]

\* An anonymized visitor's session leaves an empty, hence direct, touch.
TouchOf(e, w) ==
  [of |-> e,
   direct |-> w.anonymized \/ Body[e].sourceDirect,
   identifying |-> ~w.anonymized /\ Body[e].identifying]

\* Bug: the first touch to arrive stays.
BugFirstArrival(w, t) == IF w.first = NoValue THEN t ELSE w.first

ApplyFirstTouch(w, t) ==
  IF w.first # NoValue /\ At(t) >= At(w.first) THEN w.first ELSE t

ApplyLastNonDirect(w, t) ==
  IF t.direct \/ (w.last # NoValue /\ At(t) < At(w.last)) THEN w.last ELSE t

WithTouch(w, t) ==
  [w EXCEPT !.known = TRUE, !.first = ApplyFirstTouch(w, t),
            !.last = ApplyLastNonDirect(w, t)]

\* copy_attribution_known_at: the visitor's touches as far as they are not
\* later than the dependent, else the incoming one where there is none.
KnownAt(d, asOf, w, t) ==
  [d EXCEPT
     !.first = IF w.first # NoValue /\ At(w.first) <= asOf THEN w.first ELSE @,
     !.last = IF w.last # NoValue /\ At(w.last) <= asOf THEN w.last
              ELSE IF @ = NoValue /\ ~t.direct /\ At(t) <= asOf THEN t ELSE @]

AsOf(d) == IF d.paidBy # NoValue THEN Body[d.paidBy].at ELSE d.createdAt

\* Bug: every dependent takes the visitor's touches, whatever their time.
BugRefreshedAlways(d, v, w, t) ==
  IF d.visitor = v /\ d.createdAt # NoValue
  THEN [d EXCEPT !.first = w.first, !.last = w.last]
  ELSE d

\* Bug: only dependents without a snapshot are refreshed.
BugRefreshedIfMissing(d, v, w, t) ==
  IF d.visitor = v /\ d.createdAt # NoValue /\ d.first = NoValue
  THEN KnownAt(d, AsOf(d), w, t)
  ELSE d

\* refresh_dependent_snapshots: dependents of the visitor not older than the
\* touch.
Refreshed(d, v, w, t) ==
  IF /\ d.visitor = v
     /\ \/ d.createdAt # NoValue /\ d.createdAt >= At(t)
        \/ d.paidBy # NoValue /\ Body[d.paidBy].at >= At(t)
     /\ AsOf(d) # NoValue
  THEN KnownAt(d, AsOf(d), w, t)
  ELSE d

Copy(d, e, w) ==
  IF Body[e].visitor = NoValue THEN d
  ELSE [d EXCEPT !.first = w.first, !.last = w.last]

CopyIfMissing(d, e, w) == IF d.first # NoValue THEN d ELSE Copy(d, e, w)

-----------------------------------------------------------------------------
(* Handlers of dependents: from the row read FOR UPDATE to the row written *)

Newer(d, e, allowEqual) ==
  ShouldApply(d.version, Body[e].version, d.at, Body[e].at, TRUE, allowEqual)

Stamp(d, e) == [d EXCEPT !.version = Body[e].version, !.at = Body[e].at]

WithVisitor(d, e, onlyEmpty) ==
  [d EXCEPT !.visitor = Overlay(@, Body[e].visitor, onlyEmpty)]

\* handle_lead_created, handle_order_created, handle_manual_sale_created.
ApplyCreated(d, e, w) ==
  IF d.createdBy # NoValue THEN d
  ELSE LET applies == /\ d.paidBy = NoValue /\ ~d.cancelled
                      /\ Newer(d, e, FALSE)
           row == IF applies THEN Stamp(d, e) ELSE d
           created == [row EXCEPT
                         !.createdBy = e,
                         !.createdAt = IF Body[e].type = "manual_sale_created"
                                       THEN Body[e].confirmedAt
                                       ELSE Body[e].at]
       IN CopyIfMissing(WithVisitor(created, e, ~applies), e, w)

ApplyLeadStatusChanged(d, e) ==
  IF Newer(d, e, FALSE) THEN WithVisitor(Stamp(d, e), e, TRUE) ELSE d

ApplyOrderUpdated(d, e, w) ==
  IF d.paidBy = NoValue /\ Newer(d, e, FALSE)
  THEN Copy(WithVisitor(Stamp(d, e), e, FALSE), e, w)
  ELSE d

ApplyOrderPaid(d, e, w) ==
  IF d.paidBy = NoValue /\ Newer(d, e, TRUE)
  THEN Copy([WithVisitor(Stamp(d, e), e, FALSE) EXCEPT
               !.paidBy = e, !.createdAt = Overlay(Body[e].at, @, FALSE)],
            e, w)
  ELSE d

ApplyOrderCancelled(d, e) ==
  IF Newer(d, e, FALSE)
  THEN [WithVisitor(Stamp(d, e), e, TRUE) EXCEPT !.cancelled = TRUE]
  ELSE d

\* The visitor may change hands; the snapshot stays.
ApplySaleUpdated(d, e) ==
  IF Newer(d, e, FALSE) THEN WithVisitor(Stamp(d, e), e, FALSE) ELSE d

ApplySaleCancelled(d, e) ==
  IF Newer(d, e, FALSE) THEN [Stamp(d, e) EXCEPT !.cancelled = TRUE] ELSE d

Handled(d, e, w) ==
  CASE Body[e].type \in {"lead_created", "order_created", "manual_sale_created"}
         -> ApplyCreated(d, e, w)
    [] Body[e].type = "lead_status_changed" -> ApplyLeadStatusChanged(d, e)
    [] Body[e].type = "order_updated" -> ApplyOrderUpdated(d, e, w)
    [] Body[e].type = "order_paid" -> ApplyOrderPaid(d, e, w)
    [] Body[e].type = "order_cancelled" -> ApplyOrderCancelled(d, e)
    [] Body[e].type = "manual_sale_updated" -> ApplySaleUpdated(d, e)
    [] Body[e].type = "manual_sale_cancelled" -> ApplySaleCancelled(d, e)

-----------------------------------------------------------------------------
Init ==
  /\ journal = [e \in Events |-> "absent"]
  /\ visitor = [v \in Visitors |-> NoVisitorRow]
  /\ session = [s \in Sessions |-> NoSessionRow]
  /\ touch = [e \in Events |-> NoValue]
  /\ dep = [x \in Dependents |-> StubRow]
  /\ pc = [e \in Events |-> "idle"]
  /\ seen = [e \in Events |-> NoVisitorRow]
  /\ lock = [v \in Visitors |-> NoValue]
  /\ answer = [e \in Events |-> "none"]

\* Bug: the visitor is read without FOR UPDATE.
BugReadVisitor(e) ==
  /\ pc[e] = "idle" /\ journal[e] = "absent"
  /\ pc' = [pc EXCEPT ![e] = "open"]
  /\ seen' = [seen EXCEPT ![e] = IF Body[e].visitor = NoValue THEN NoVisitorRow
                                 ELSE visitor[Body[e].visitor]]
  /\ UNCHANGED <<tables, lock, answer>>

\* INSERT .. ON CONFLICT and ensure_stubs, which no other transaction sees, and
\* the visitor's row read FOR UPDATE, where the event names one.
Begin(e) ==
  LET v == Body[e].visitor IN
  /\ pc[e] = "idle" /\ journal[e] = "absent"
  /\ v # NoValue => lock[v] = NoValue
  /\ lock' = [u \in Visitors |-> IF u = v THEN e ELSE lock[u]]
  /\ seen' = [seen EXCEPT ![e] = IF v = NoValue THEN NoVisitorRow ELSE visitor[v]]
  /\ pc' = [pc EXCEPT ![e] = "open"]
  /\ UNCHANGED <<tables, answer>>

\* The transaction of e is over.
Finish(e) ==
  /\ pc' = [pc EXCEPT ![e] = "idle"]
  /\ seen' = [seen EXCEPT ![e] = NoVisitorRow]
  /\ lock' = [v \in Visitors |-> IF lock[v] = e THEN NoValue ELSE lock[v]]

\* redact_event_body where the visitor is anonymized.
StoredBody(e, w) ==
  IF w.anonymized /\ Body[e].identifying THEN "redacted" ELSE "stored"

\* handle_session_started; an older event of the session changes nothing.
ProjectSession(e) ==
  LET v == Body[e].visitor
      s == Body[e].subject
      t == TouchOf(e, seen[e])
      w == WithTouch(seen[e], t)
  IN IF ShouldApply(NoValue, NoValue, session[s].at, Body[e].at, FALSE, FALSE)
     THEN /\ session' = [session EXCEPT ![s] =
               [owner |-> v, at |-> Body[e].at, identifying |-> t.identifying]]
          /\ visitor' = [visitor EXCEPT ![v] = w]
          /\ touch' = [touch EXCEPT ![e] = t]
          /\ dep' = [x \in Dependents |-> Refreshed(dep[x], v, w, t)]
     ELSE /\ visitor' = [visitor EXCEPT ![v].known = TRUE]
          /\ UNCHANGED <<session, touch, dep>>

ProjectDependent(e) ==
  /\ dep' = [dep EXCEPT ![Body[e].subject] = Handled(@, e, seen[e])]
  /\ visitor' = [v \in Visitors |->
       IF v = Body[e].visitor THEN [visitor[v] EXCEPT !.known = TRUE]
                              ELSE visitor[v]]
  /\ UNCHANGED <<session, touch>>

\* dispatch and COMMIT.
Commit(e) ==
  /\ pc[e] = "open"
  /\ journal' = [journal EXCEPT ![e] = StoredBody(e, seen[e])]
  /\ IF Body[e].type = "session_started" THEN ProjectSession(e)
                                         ELSE ProjectDependent(e)
  /\ Finish(e)
  /\ UNCHANGED answer

\* The transaction fails; the event comes again.
Rollback(e) ==
  /\ pc[e] = "open"
  /\ Finish(e)
  /\ UNCHANGED <<tables, answer>>

\* The event is sent again and compared with the journal (is_same_event).
SendAgain(e) ==
  /\ pc[e] = "idle" /\ journal[e] # "absent"
  /\ e \in Repeated /\ answer[e] = "none"
  /\ answer' = [answer EXCEPT ![e] =
       IF journal[e] = "redacted" THEN "collision" ELSE "duplicate"]
  /\ UNCHANGED <<tables, pc, seen, lock>>

Erase(t) == IF t = NoValue THEN t ELSE [t EXCEPT !.identifying = FALSE]

\* Without identifiers in the first and last touch of a row.
Forgotten(row) ==
  [row EXCEPT !.first = Erase(row.first), !.last = Erase(row.last)]

\* anonymize_visitor, one transaction under the visitor's row lock: it sees
\* what is committed.
Anonymize(v) ==
  /\ v \in Erasures
  /\ lock[v] = NoValue
  /\ visitor[v].known /\ ~visitor[v].anonymized
  /\ visitor' = [visitor EXCEPT
                   ![v] = [Forgotten(visitor[v]) EXCEPT !.anonymized = TRUE]]
  /\ session' = [s \in Sessions |->
       IF session[s].owner = v THEN [session[s] EXCEPT !.identifying = FALSE]
                               ELSE session[s]]
  /\ touch' = [e \in Events |->
       IF Body[e].visitor = v THEN Erase(touch[e]) ELSE touch[e]]
  /\ dep' = [x \in Dependents |->
       IF dep[x].visitor = v THEN Forgotten(dep[x]) ELSE dep[x]]
  /\ journal' = [e \in Events |->
       IF /\ journal[e] = "stored"
          /\ Body[e].visitor = v /\ Body[e].identifying
       THEN "redacted" ELSE journal[e]]
  /\ UNCHANGED <<pc, seen, lock, answer>>

Ingest(e) == Begin(e) \/ Commit(e)

Next ==
  \/ \E e \in Events : Ingest(e) \/ Rollback(e) \/ SendAgain(e)
  \/ \E v \in Visitors : Anonymize(v)

Spec == Init /\ [][Next]_vars

-----------------------------------------------------------------------------
(* Properties *)

\* Variables have their types; the ingest that holds a visitor's row is the
\* one that has read it and not committed (ingestion/service.py:95-104).
TypeOK ==
  /\ journal \in [Events -> {"absent", "stored", "redacted"}]
  /\ visitor \in [Visitors -> VisitorRows]
  /\ session \in [Sessions -> SessionRows]
  /\ touch \in [Events -> SomeTouch]
  /\ dep \in [Dependents -> DependentRows]
  /\ pc \in [Events -> {"idle", "open"}]
  /\ seen \in [Events -> VisitorRows]
  /\ lock \in [Visitors -> Events \cup {NoValue}]
  /\ answer \in [Events -> {"none", "duplicate", "collision"}]
  /\ \A e \in Events, v \in Visitors :
       lock[v] = e <=> pc[e] = "open" /\ Body[e].visitor = v

\* Every dependent is named with one visitor, or with none.
OneVisitor ==
  \A e, f \in Events :
    /\ Body[e].subject = Body[f].subject
    /\ Body[e].visitor # NoValue /\ Body[f].visitor # NoValue
    => Body[e].visitor = Body[f].visitor

\* No order is paid before it is created, by the times its events give.
PaidAfterCreated ==
  \A e, f \in Events :
    /\ Body[e].subject = Body[f].subject
    /\ Body[e].type = "order_created" /\ Body[f].type = "order_paid"
    => Body[e].at <= Body[f].at

Clean(t) == t = NoValue \/ ~t.identifying

\* No row that names an anonymized visitor holds an identifier, where OneVisitor,
\* through every interleaving of its anonymization with ingests (visitors/service.py:29,
\* ingestion/service.py:95-103, session_started.py:54).
Erased ==
  \A v \in Visitors : visitor[v].anonymized =>
    /\ Clean(visitor[v].first) /\ Clean(visitor[v].last)
    /\ \A s \in Sessions : session[s].owner = v => ~session[s].identifying
    /\ \A e \in Events : Body[e].visitor = v =>
         /\ Clean(touch[e])
         /\ Body[e].identifying => journal[e] # "stored"
    /\ \A x \in Dependents : dep[x].visitor = v =>
         Clean(dep[x].first) /\ Clean(dep[x].last)

\* "Erase the identifiers of the visitor" (README.md:906-908): neither does a
\* snapshot taken from its touches, whatever visitor the row names by now.
ErasedInSnapshots ==
  \A x \in Dependents : \A t \in {dep[x].first, dep[x].last} :
    t # NoValue /\ visitor[Body[t.of].visitor].anonymized => ~t.identifying

\* The same event sent again is a duplicate (README.md:261).
RepetitionIsDuplicate == \A e \in Events : answer[e] # "collision"

\* First touch and last non-direct touch are the earliest and the latest of
\* the visitor's touches, whatever their order of arrival (rules.py:65, :85;
\* tests/attribution/test_first_touch_out_of_order.py:7).
TouchesRight ==
  \A v \in Visitors :
    LET of == {e \in Events : touch[e] # NoValue /\ Body[e].visitor = v}
        nonDirect == {e \in of : ~touch[e].direct}
        first == visitor[v].first
        last == visitor[v].last
    IN /\ IF of = {} THEN first = NoValue
          ELSE /\ first # NoValue /\ first.of \in of
               /\ \A e \in of : At(first) <= Body[e].at
       /\ IF nonDirect = {} THEN last = NoValue
          ELSE /\ last # NoValue /\ last.of \in nonDirect
               /\ \A e \in nonDirect : Body[e].at <= At(last)

\* The event that made a dependent a conversion.
Conversion(x) == IF x \in Orders THEN dep[x].paidBy ELSE dep[x].createdBy

\* A conversion that named its visitor carries the visitor's first and last
\* non-direct touch, unless these are later than itself: sessions that come
\* late are caught up with, where OneVisitor (attribution/service.py:16;
\* tests/attribution/test_conversion_snapshot_frozen.py:83, :106).
SnapshotCurrent ==
  \A x \in Dependents :
    LET d == dep[x]
        c == Conversion(x)
    IN c # NoValue /\ d.visitor # NoValue /\ Body[c].visitor = d.visitor =>
         LET w == visitor[d.visitor] IN
         /\ w.first # NoValue /\ At(w.first) <= AsOf(d) => d.first = w.first
         /\ w.last # NoValue /\ At(w.last) <= AsOf(d) => d.last = w.last

\* A session later than a conversion does not change its snapshot, where
\* PaidAfterCreated (test_conversion_snapshot_frozen.py:7, :45, :153).
LateSessionFreezes ==
  [][\A e \in Events, x \in Dependents :
       /\ Body[e].type = "session_started"
       /\ journal[e] = "absent" /\ journal'[e] # "absent"
       /\ Conversion(x) # NoValue /\ AsOf(dep[x]) < Body[e].at
       => dep'[x] = dep[x]]_vars
=============================================================================
