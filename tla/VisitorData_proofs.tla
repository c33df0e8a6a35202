-------------------------- MODULE VisitorData_proofs --------------------------
(***************************************************************************)
(* Type correctness of VisitorData, and that an anonymized visitor's       *)
(* identifiers stay erased and its touches right, for any visitors, events *)
(* and bounds.                                                             *)
(***************************************************************************)
EXTENDS VisitorData, TLAPS

-----------------------------------------------------------------------------
(* Operators *)

\* A body has the fields of the envelope, and NULL is none of their values.
LEMMA BodyFields ==
  ASSUME NEW e \in Events
  PROVE  /\ e # NoValue
         /\ Body[e] \in Bodies
         /\ Body[e].type \in Types
         /\ Body[e].visitor \in Visitors \cup {NoValue}
         /\ Body[e].version \in Nat \cup {NoValue}
         /\ Body[e].at \in Nat /\ Body[e].confirmedAt \in Nat
         /\ Body[e].sourceDirect \in BOOLEAN /\ Body[e].identifying \in BOOLEAN
         /\ Body[e].subject \in Sessions \cup Dependents
         /\ Body[e].type = "session_started" =>
              Body[e].visitor \in Visitors /\ Body[e].subject \in Sessions
         /\ NoValue \notin Nat
BY VisitorAssumption, NoValueAssumption DEF Bodies, TableOf

\* The columns of a dependent's row.
LEMMA RowFields ==
  ASSUME NEW d \in DependentRows
  PROVE  /\ d.visitor \in Visitors \cup {NoValue}
         /\ d.createdBy \in Events \cup {NoValue}
         /\ d.createdAt \in Nat \cup {NoValue}
         /\ d.paidBy \in Events \cup {NoValue}
         /\ d.cancelled \in BOOLEAN
         /\ d.version \in Nat \cup {NoValue}
         /\ d.at \in Nat \cup {NoValue}
         /\ d.first \in SomeTouch /\ d.last \in SomeTouch
BY DEF DependentRows

\* What an ingest may do to a dependent's row: the snapshot stays or becomes
\* the visitor's, the visitor stays or becomes the one the event names, and a
\* row that takes a snapshot names a visitor.
Written(d, n, e, w) ==
  /\ n \in DependentRows
  /\ \/ n.visitor = d.visitor
     \/ n.visitor = Body[e].visitor /\ n.visitor # NoValue
  /\ \/ n.first = d.first /\ n.last = d.last
     \/ /\ n.first = w.first /\ n.last = w.last
        /\ Body[e].visitor # NoValue /\ n.visitor # NoValue

\* Stamping the version and taking the event's visitor write a row.
LEMMA StampWritten ==
  ASSUME NEW d \in DependentRows, NEW e \in Events, NEW w \in VisitorRows,
         NEW onlyEmpty \in BOOLEAN
  PROVE  /\ Stamp(d, e) \in DependentRows
         /\ Stamp(d, e).visitor = d.visitor
         /\ Stamp(d, e).first = d.first /\ Stamp(d, e).last = d.last
         /\ WithVisitor(d, e, onlyEmpty) \in DependentRows
         /\ WithVisitor(d, e, onlyEmpty).visitor
              = Overlay(d.visitor, Body[e].visitor, onlyEmpty)
         /\ WithVisitor(d, e, onlyEmpty).first = d.first
         /\ WithVisitor(d, e, onlyEmpty).last = d.last
  <1>1. Overlay(d.visitor, Body[e].visitor, onlyEmpty) \in Visitors \cup {NoValue}
    BY BodyFields, RowFields DEF Overlay
  <1> QED BY <1>1, BodyFields, RowFields DEF Stamp, WithVisitor, DependentRows

\* Overlay leaves a visitor or takes the event's, and leaves none only where
\* the event has none.
LEMMA OverlayVisitor ==
  ASSUME NEW d \in DependentRows, NEW e \in Events, NEW onlyEmpty \in BOOLEAN
  PROVE  LET n == Overlay(d.visitor, Body[e].visitor, onlyEmpty) IN
         /\ n = d.visitor \/ (n = Body[e].visitor /\ n # NoValue)
         /\ Body[e].visitor # NoValue => n # NoValue
BY DEF Overlay

\* Copying the visitor's touches into a row that names a visitor writes it.
LEMMA CopyWritten ==
  ASSUME NEW d \in DependentRows, NEW e \in Events, NEW w \in VisitorRows
  PROVE  /\ Copy(d, e, w) \in DependentRows
         /\ Copy(d, e, w).visitor = d.visitor
         /\ \/ Copy(d, e, w).first = d.first /\ Copy(d, e, w).last = d.last
            \/ /\ Copy(d, e, w).first = w.first /\ Copy(d, e, w).last = w.last
               /\ Body[e].visitor # NoValue
  <1>1. w.first \in SomeTouch /\ w.last \in SomeTouch
    BY DEF VisitorRows
  <1> QED BY <1>1, RowFields DEF Copy, DependentRows

\* A row that was written stays so under a change of its other columns.
LEMMA SameSnapshot ==
  ASSUME NEW d \in DependentRows, NEW m \in DependentRows, NEW n \in DependentRows,
         NEW e \in Events, NEW w \in VisitorRows,
         Written(d, m, e, w),
         n.visitor = m.visitor, n.first = m.first, n.last = m.last
  PROVE  Written(d, n, e, w)
BY DEF Written

\* Copying into a row with the event's visitor.
LEMMA CopyAfterVisitor ==
  ASSUME NEW d \in DependentRows, NEW m \in DependentRows,
         NEW e \in Events, NEW w \in VisitorRows, NEW onlyEmpty \in BOOLEAN,
         m.visitor = Overlay(d.visitor, Body[e].visitor, onlyEmpty),
         m.first = d.first, m.last = d.last
  PROVE  /\ Written(d, m, e, w)
         /\ Written(d, Copy(m, e, w), e, w)
         /\ Written(d, CopyIfMissing(m, e, w), e, w)
BY CopyWritten, OverlayVisitor DEF Written, CopyIfMissing

\* The handlers of creations write the row.
LEMMA CreatedWritten ==
  ASSUME NEW d \in DependentRows, NEW e \in Events, NEW w \in VisitorRows
  PROVE  Written(d, ApplyCreated(d, e, w), e, w)
  <1>1. CASE d.createdBy # NoValue
    BY <1>1 DEF ApplyCreated, Written
  <1>2. CASE d.createdBy = NoValue
    <2> DEFINE applies == /\ d.paidBy = NoValue /\ ~d.cancelled
                          /\ Newer(d, e, FALSE)
               row == IF applies THEN Stamp(d, e) ELSE d
               at == IF Body[e].type = "manual_sale_created"
                     THEN Body[e].confirmedAt ELSE Body[e].at
               created == [row EXCEPT !.createdBy = e, !.createdAt = at]
    <2>a. applies \in BOOLEAN
      BY DEF Newer, ShouldApply
    <2>1. /\ row \in DependentRows
          /\ row.visitor = d.visitor /\ row.first = d.first /\ row.last = d.last
      BY StampWritten
    <2>2. at \in Nat
      BY BodyFields
    <2> HIDE DEF row, at, applies
    <2>3. /\ created \in DependentRows
          /\ created.visitor = d.visitor
          /\ created.first = d.first /\ created.last = d.last
      BY <2>1, <2>2 DEF DependentRows
    <2> HIDE DEF created
    <2> DEFINE kept == ~applies
    <2>b. kept \in BOOLEAN
      OBVIOUS
    <2> HIDE DEF kept
    <2>4. /\ WithVisitor(created, e, kept) \in DependentRows
          /\ WithVisitor(created, e, kept).visitor
               = Overlay(d.visitor, Body[e].visitor, kept)
          /\ WithVisitor(created, e, kept).first = d.first
          /\ WithVisitor(created, e, kept).last = d.last
      BY <2>b, <2>3, StampWritten
    <2>5. Written(d, CopyIfMissing(WithVisitor(created, e, kept), e, w), e, w)
      BY <2>b, <2>4, CopyAfterVisitor
    <2>6. ApplyCreated(d, e, w)
            = CopyIfMissing(WithVisitor(created, e, kept), e, w)
      BY <1>2 DEF ApplyCreated, created, row, at, applies, kept
    <2> QED BY <2>5, <2>6
  <1> QED BY <1>1, <1>2

\* Every handler writes the row of its dependent.
LEMMA HandledWritten ==
  ASSUME NEW d \in DependentRows, NEW e \in Events, NEW w \in VisitorRows,
         Body[e].type # "session_started"
  PROVE  Written(d, Handled(d, e, w), e, w)
  <1> DEFINE s == Stamp(d, e)
  <1>d. Written(d, d, e, w)
    BY DEF Written
  <1>s. /\ s \in DependentRows
        /\ s.visitor = d.visitor /\ s.first = d.first /\ s.last = d.last
    BY StampWritten
  <1>v. ASSUME NEW b \in BOOLEAN
        PROVE  /\ WithVisitor(s, e, b) \in DependentRows
               /\ WithVisitor(s, e, b).visitor
                    = Overlay(d.visitor, Body[e].visitor, b)
               /\ WithVisitor(s, e, b).first = d.first
               /\ WithVisitor(s, e, b).last = d.last
    BY <1>s, StampWritten
  <1>w. ASSUME NEW b \in BOOLEAN
        PROVE  /\ Written(d, WithVisitor(s, e, b), e, w)
               /\ Written(d, Copy(WithVisitor(s, e, b), e, w), e, w)
    BY <1>v, CopyAfterVisitor
  <1>e. Written(d, s, e, w)
    BY <1>s DEF Written
  <1> HIDE DEF s
  <1>1. Written(d, ApplyLeadStatusChanged(d, e), e, w)
    BY <1>d, <1>w DEF ApplyLeadStatusChanged, s
  <1>2. Written(d, ApplyOrderUpdated(d, e, w), e, w)
    BY <1>d, <1>w DEF ApplyOrderUpdated, s
  <1>3. Written(d, ApplyOrderPaid(d, e, w), e, w)
    <2> DEFINE p == [WithVisitor(s, e, FALSE) EXCEPT
                 !.paidBy = e, !.createdAt = Overlay(Body[e].at, @, FALSE)]
    <2>1. Overlay(Body[e].at, WithVisitor(s, e, FALSE).createdAt, FALSE) \in Nat
      BY <1>v, BodyFields, RowFields DEF Overlay
    <2>2. /\ p \in DependentRows
          /\ p.visitor = Overlay(d.visitor, Body[e].visitor, FALSE)
          /\ p.first = d.first /\ p.last = d.last
      BY <1>v, <2>1 DEF DependentRows
    <2> HIDE DEF p
    <2>3. Written(d, Copy(p, e, w), e, w)
      BY <2>2, CopyAfterVisitor
    <2>4. ApplyOrderPaid(d, e, w) \in {d, Copy(p, e, w)}
      BY DEF ApplyOrderPaid, p, s
    <2> QED BY <1>d, <2>3, <2>4
  <1>4. Written(d, ApplyOrderCancelled(d, e), e, w)
    <2> DEFINE c == [WithVisitor(s, e, TRUE) EXCEPT !.cancelled = TRUE]
    <2>1. /\ c \in DependentRows
          /\ c.visitor = WithVisitor(s, e, TRUE).visitor
          /\ c.first = WithVisitor(s, e, TRUE).first
          /\ c.last = WithVisitor(s, e, TRUE).last
      BY <1>v DEF DependentRows
    <2> HIDE DEF c
    <2>2. Written(d, c, e, w)
      BY <2>1, <1>v, <1>w, SameSnapshot
    <2>3. ApplyOrderCancelled(d, e) \in {d, c}
      BY DEF ApplyOrderCancelled, c, s
    <2> QED BY <1>d, <2>2, <2>3
  <1>5. Written(d, ApplySaleUpdated(d, e), e, w)
    BY <1>d, <1>w DEF ApplySaleUpdated, s
  <1>6. Written(d, ApplySaleCancelled(d, e), e, w)
    <2> DEFINE c == [s EXCEPT !.cancelled = TRUE]
    <2>1. /\ c \in DependentRows
          /\ c.visitor = s.visitor /\ c.first = s.first /\ c.last = s.last
      BY <1>s DEF DependentRows
    <2> HIDE DEF c
    <2>2. Written(d, c, e, w)
      BY <2>1, <1>s, <1>e, SameSnapshot
    <2>3. ApplySaleCancelled(d, e) \in {d, c}
      BY DEF ApplySaleCancelled, c, s
    <2> QED BY <1>d, <2>2, <2>3
  <1>7. Body[e].type \in Types \ {"session_started"}
    BY BodyFields
  <1> QED
    BY <1>1, <1>2, <1>3, <1>4, <1>5, <1>6, <1>7, CreatedWritten
    DEF Handled, Types

\* A session leaves a touch, and the visitor's row with it is one.
LEMMA TouchTypes ==
  ASSUME NEW e \in Events, NEW w \in VisitorRows
  PROVE  /\ TouchOf(e, w) \in Touches
         /\ TouchOf(e, w).of = e
         /\ w.first \in SomeTouch /\ w.last \in SomeTouch
         /\ w.anonymized \in BOOLEAN
         /\ \A t \in Touches :
              /\ WithTouch(w, t) \in VisitorRows
              /\ WithTouch(w, t).anonymized = w.anonymized
              /\ WithTouch(w, t).first \in {w.first, t}
              /\ WithTouch(w, t).last \in {w.last, t}
              /\ t.of \in Events /\ t.direct \in BOOLEAN
              /\ t.identifying \in BOOLEAN
  <1>1. /\ w.first \in SomeTouch /\ w.last \in SomeTouch
        /\ w.anonymized \in BOOLEAN /\ w.known \in BOOLEAN
    BY DEF VisitorRows
  <1>2. TouchOf(e, w) \in Touches /\ TouchOf(e, w).of = e
    BY <1>1, BodyFields DEF TouchOf, Touches
  <1>3. ASSUME NEW t \in Touches
        PROVE  /\ ApplyFirstTouch(w, t) \in SomeTouch \cap {w.first, t}
               /\ ApplyLastNonDirect(w, t) \in SomeTouch \cap {w.last, t}
    BY <1>1 DEF ApplyFirstTouch, ApplyLastNonDirect, SomeTouch
  <1>4. ASSUME NEW t \in Touches
        PROVE  /\ WithTouch(w, t) \in VisitorRows
               /\ WithTouch(w, t).anonymized = w.anonymized
               /\ WithTouch(w, t).first \in {w.first, t}
               /\ WithTouch(w, t).last \in {w.last, t}
    BY <1>1, <1>3 DEF WithTouch, VisitorRows
  <1>5. ASSUME NEW t \in Touches
        PROVE  t.of \in Events /\ t.direct \in BOOLEAN /\ t.identifying \in BOOLEAN
    BY DEF Touches
  <1> QED BY <1>1, <1>2, <1>4, <1>5

\* A refresh leaves a row of the same visitor, whose touches were there, are
\* the visitor's or the incoming one, and changes only rows of that visitor.
LEMMA RefreshedRow ==
  ASSUME NEW d \in DependentRows, NEW v \in Visitors, NEW w \in VisitorRows,
         NEW t \in Touches
  PROVE  /\ Refreshed(d, v, w, t) \in DependentRows
         /\ Refreshed(d, v, w, t).visitor = d.visitor
         /\ Refreshed(d, v, w, t).first \in {d.first, w.first}
         /\ Refreshed(d, v, w, t).last \in {d.last, w.last, t}
         /\ d.visitor # v => Refreshed(d, v, w, t) = d
  <1> DEFINE k == KnownAt(d, AsOf(d), w, t)
             first == IF w.first # NoValue /\ At(w.first) <= AsOf(d)
                      THEN w.first ELSE d.first
             last == IF w.last # NoValue /\ At(w.last) <= AsOf(d) THEN w.last
                     ELSE IF d.last = NoValue /\ ~t.direct /\ At(t) <= AsOf(d)
                          THEN t ELSE d.last
  <1>1. /\ first \in SomeTouch \cap {d.first, w.first}
        /\ last \in SomeTouch \cap {d.last, w.last, t}
    BY RowFields DEF VisitorRows, SomeTouch
  <1>2. k = [d EXCEPT !.first = first, !.last = last]
    BY DEF KnownAt
  <1> HIDE DEF first, last
  <1>3. /\ k \in DependentRows /\ k.visitor = d.visitor
        /\ k.first = first /\ k.last = last
    BY <1>1, <1>2 DEF DependentRows
  <1> HIDE DEF k
  <1>4. Refreshed(d, v, w, t) \in {d, k}
    BY DEF Refreshed, k
  <1>5. d.visitor # v => Refreshed(d, v, w, t) = d
    BY DEF Refreshed
  <1> QED BY <1>1, <1>3, <1>4, <1>5

\* Erasing keeps a touch one.
LEMMA EraseTouch ==
  ASSUME NEW t \in SomeTouch
  PROVE  /\ Erase(t) \in SomeTouch
         /\ Clean(Erase(t))
         /\ t = NoValue <=> Erase(t) = NoValue
         /\ t # NoValue => /\ Erase(t).of = t.of /\ Erase(t).direct = t.direct
                           /\ t \in Touches /\ Erase(t) \in Touches
BY NoTouchAssumption DEF Erase, Clean, SomeTouch, Touches

\* Anonymizing a visitor's row keeps it one and cleans its touches.
LEMMA AnonymizedRow ==
  ASSUME NEW w \in VisitorRows
  PROVE  LET n == [Forgotten(w) EXCEPT !.anonymized = TRUE] IN
         /\ n \in VisitorRows
         /\ n.first = Erase(w.first) /\ n.last = Erase(w.last)
         /\ n.anonymized
  <1> DEFINE f == Forgotten(w)
  <1>1. w.first \in SomeTouch /\ w.last \in SomeTouch
    BY DEF VisitorRows
  <1>2. Erase(w.first) \in SomeTouch /\ Erase(w.last) \in SomeTouch
    BY <1>1, EraseTouch
  <1>3. f \in VisitorRows /\ f.first = Erase(w.first) /\ f.last = Erase(w.last)
    BY <1>2 DEF Forgotten, VisitorRows
  <1> HIDE DEF f
  <1>4. ASSUME NEW r \in VisitorRows
        PROVE  LET n == [r EXCEPT !.anonymized = TRUE] IN
               /\ n \in VisitorRows /\ n.anonymized
               /\ n.first = r.first /\ n.last = r.last
    BY DEF VisitorRows
  <1> QED BY <1>3, <1>4 DEF f

\* Erasing the touches of a dependent's row keeps it one, of the same visitor.
LEMMA ForgottenDependent ==
  ASSUME NEW d \in DependentRows
  PROVE  /\ Forgotten(d) \in DependentRows
         /\ Forgotten(d).visitor = d.visitor
         /\ Forgotten(d).first = Erase(d.first)
         /\ Forgotten(d).last = Erase(d.last)
  <1>1. Erase(d.first) \in SomeTouch /\ Erase(d.last) \in SomeTouch
    BY RowFields, EraseTouch
  <1> QED BY <1>1 DEF Forgotten, DependentRows

-----------------------------------------------------------------------------
(* Types, the row lock and the freshness of open ingests *)

\* An ingest past its SELECT .. FOR UPDATE has read the row as it still is.
SeenInv ==
  \A e \in Events : pc[e] = "open" /\ Body[e].visitor # NoValue =>
    seen[e] = visitor[Body[e].visitor]

\* An open ingest's event is not in the journal, nor a touch of it recorded.
FreshInv ==
  \A e \in Events :
    /\ pc[e] # "idle" => journal[e] = "absent"
    /\ journal[e] = "absent" => touch[e] = NoValue
    /\ touch[e] # NoValue => touch[e].of = e

TypeInv == TypeOK /\ SeenInv /\ FreshInv

\* Nothing is stored, read or locked initially.
LEMMA InitTypeInv == Init => TypeInv
  <1> SUFFICES ASSUME Init PROVE TypeInv
    OBVIOUS
  <1>1. NoVisitorRow \in VisitorRows
    BY DEF NoVisitorRow, VisitorRows, SomeTouch
  <1>2. NoSessionRow \in SessionRows
    BY DEF NoSessionRow, SessionRows
  <1>3. StubRow \in DependentRows
    BY DEF StubRow, DependentRows, SomeTouch
  <1>4. TypeOK
    BY <1>1, <1>2, <1>3, BodyFields, VisitorAssumption
    DEF Init, TypeOK, SomeTouch
  <1> QED BY <1>4 DEF Init, TypeInv, SeenInv, FreshInv

\* The end of a transaction releases its lock and forgets its row.
LEMMA FinishTypes ==
  ASSUME TypeInv, NEW e \in Events, Finish(e)
  PROVE  /\ pc' \in [Events -> {"idle", "open"}]
         /\ seen' \in [Events -> VisitorRows]
         /\ lock' \in [Visitors -> Events \cup {NoValue}]
         /\ \A f \in Events, v \in Visitors :
              lock'[v] = f <=> pc'[f] = "open" /\ Body[f].visitor = v
         /\ pc'[e] = "idle"
         /\ \A f \in Events \ {e} : pc'[f] = pc[f] /\ seen'[f] = seen[f]
  <1>1. NoVisitorRow \in VisitorRows
    BY DEF NoVisitorRow, VisitorRows, SomeTouch
  <1> QED BY <1>1, BodyFields DEF Finish, TypeInv, TypeOK

\* A commit writes rows of their types, and of visitors only its own.
LEMMA CommitTypes ==
  ASSUME TypeInv, NEW e \in Events, Commit(e)
  PROVE  /\ journal' \in [Events -> {"absent", "stored", "redacted"}]
         /\ visitor' \in [Visitors -> VisitorRows]
         /\ session' \in [Sessions -> SessionRows]
         /\ touch' \in [Events -> SomeTouch]
         /\ dep' \in [Dependents -> DependentRows]
         /\ \A v \in Visitors : v # Body[e].visitor => visitor'[v] = visitor[v]
         /\ journal' = [journal EXCEPT ![e] = StoredBody(e, seen[e])]
         /\ journal'[e] # "absent"
         /\ \A f \in Events \ {e} : touch'[f] = touch[f]
         /\ touch'[e] # NoValue => touch'[e].of = e
  <1>t. /\ journal \in [Events -> {"absent", "stored", "redacted"}]
        /\ visitor \in [Visitors -> VisitorRows]
        /\ session \in [Sessions -> SessionRows]
        /\ touch \in [Events -> SomeTouch]
        /\ dep \in [Dependents -> DependentRows]
        /\ seen[e] \in VisitorRows
        /\ touch[e] # NoValue => touch[e].of = e
    BY DEF TypeInv, TypeOK, FreshInv
  <1>j. /\ StoredBody(e, seen[e]) \in {"stored", "redacted"}
        /\ journal' = [journal EXCEPT ![e] = StoredBody(e, seen[e])]
    BY DEF Commit, StoredBody
  <1>k. \A v \in Visitors : [visitor[v] EXCEPT !.known = TRUE] \in VisitorRows
    BY <1>t DEF VisitorRows
  <1>1. CASE Body[e].type = "session_started"
    <2> DEFINE v == Body[e].visitor
               n == Body[e].subject
               t == TouchOf(e, seen[e])
               w == WithTouch(seen[e], t)
    <2>v. v \in Visitors /\ n \in Sessions
      BY <1>1, BodyFields
    <2>t. t \in Touches /\ t.of = e /\ w \in VisitorRows /\ t.identifying \in BOOLEAN
      BY <1>t, TouchTypes
    <2>n. t # NoValue /\ t \in SomeTouch
      BY <2>t, NoTouchAssumption DEF SomeTouch
    <2>r. [owner |-> v, at |-> Body[e].at, identifying |-> t.identifying]
            \in SessionRows
      BY <2>v, <2>t, BodyFields DEF SessionRows
    <2>d. \A x \in Dependents : Refreshed(dep[x], v, w, t) \in DependentRows
      BY <1>t, <2>v, <2>t, RefreshedRow
    <2>p. ProjectSession(e)
      BY <1>1 DEF Commit
    <2>1. \/ /\ session' = [session EXCEPT ![n] = [owner |-> v, at |-> Body[e].at,
                                                  identifying |-> t.identifying]]
             /\ visitor' = [visitor EXCEPT ![v] = w]
             /\ touch' = [touch EXCEPT ![e] = t]
             /\ dep' = [x \in Dependents |-> Refreshed(dep[x], v, w, t)]
          \/ /\ visitor' = [visitor EXCEPT ![v].known = TRUE]
             /\ UNCHANGED <<session, touch, dep>>
      BY <2>p DEF ProjectSession
    <2> HIDE DEF v, n, t, w
    <2>2. CASE /\ visitor' = [visitor EXCEPT ![v].known = TRUE]
               /\ UNCHANGED <<session, touch, dep>>
      <3>1. visitor'[v] = [visitor[v] EXCEPT !.known = TRUE]
        BY <1>t, <2>2, <2>v
      <3>2. visitor' \in [Visitors -> VisitorRows]
        BY <1>t, <1>k, <2>2, <2>v, <3>1
      <3> QED BY <1>t, <1>j, <2>2, <2>v, <3>2 DEF v
    <2>3. CASE /\ session' = [session EXCEPT ![n] = [owner |-> v, at |-> Body[e].at,
                                                    identifying |-> t.identifying]]
               /\ visitor' = [visitor EXCEPT ![v] = w]
               /\ touch' = [touch EXCEPT ![e] = t]
               /\ dep' = [x \in Dependents |-> Refreshed(dep[x], v, w, t)]
      BY <1>t, <1>j, <2>3, <2>v, <2>t, <2>n, <2>r, <2>d DEF v
    <2> QED BY <2>1, <2>2, <2>3
  <1>2. CASE Body[e].type # "session_started"
    <2> DEFINE x == Body[e].subject
               h == Handled(dep[x], e, seen[e])
    <2>1. /\ dep' = [dep EXCEPT ![x] = h]
          /\ visitor' = [v \in Visitors |->
               IF v = Body[e].visitor THEN [visitor[v] EXCEPT !.known = TRUE]
                                      ELSE visitor[v]]
          /\ UNCHANGED <<session, touch>>
      BY <1>2 DEF Commit, ProjectDependent
    <2>2. x \in Dependents => h \in DependentRows
      BY <1>t, <1>2, HandledWritten DEF Written
    <2> HIDE DEF h, x
    <2>3. dep' \in [Dependents -> DependentRows]
      BY <1>t, <2>1, <2>2
    <2> QED BY <1>t, <1>j, <1>k, <2>1, <2>3
  <1> QED BY <1>1, <1>2

\* Every step keeps the types, the lock with its owner, and what it has read.
LEMMA NextTypeInv == TypeInv /\ [Next]_vars => TypeInv'
  <1> SUFFICES ASSUME TypeInv, [Next]_vars PROVE TypeInv'
    OBVIOUS
  <1>t. TypeOK /\ SeenInv /\ FreshInv
    BY DEF TypeInv
  <1>0. CASE UNCHANGED vars
    BY <1>0, <1>t DEF vars, TypeInv, TypeOK, SeenInv, FreshInv
  <1>1. ASSUME NEW e \in Events, Begin(e) PROVE TypeInv'
    <2> DEFINE v == Body[e].visitor
               w == IF v = NoValue THEN NoVisitorRow ELSE visitor[v]
    <2>1. /\ pc[e] = "idle" /\ journal[e] = "absent"
          /\ v # NoValue => v \in Visitors /\ lock[v] = NoValue
          /\ lock' = [u \in Visitors |-> IF u = v THEN e ELSE lock[u]]
          /\ seen' = [seen EXCEPT ![e] = w]
          /\ pc' = [pc EXCEPT ![e] = "open"]
          /\ UNCHANGED <<tables, answer>>
      BY <1>1, BodyFields DEF Begin
    <2>2. w \in VisitorRows
      BY <1>t, <2>1 DEF TypeOK, NoVisitorRow, VisitorRows, SomeTouch
    <2>3. \A f \in Events, u \in Visitors :
            lock'[u] = f <=> pc'[f] = "open" /\ Body[f].visitor = u
      BY <1>t, <2>1, BodyFields, VisitorAssumption DEF TypeOK
    <2>4. v # NoValue => w = visitor[v]
      OBVIOUS
    <2> HIDE DEF w
    <2>5. TypeOK'
      BY <1>t, <2>1, <2>2, <2>3 DEF TypeOK, tables
    <2>6. SeenInv' /\ FreshInv'
      BY <1>t, <2>1, <2>4 DEF SeenInv, FreshInv, TypeOK, tables
    <2> QED BY <2>5, <2>6 DEF TypeInv
  <1>2. ASSUME NEW e \in Events, Commit(e) PROVE TypeInv'
    <2>f. Finish(e) /\ UNCHANGED answer
      BY <1>2 DEF Commit
    <2>1. TypeOK'
      BY <1>t, <1>2, <2>f, FinishTypes, CommitTypes DEF TypeOK
    <2>3. \A f \in Events \ {e} : pc[f] = "open" /\ Body[f].visitor # NoValue =>
            Body[f].visitor \in Visitors /\ Body[f].visitor # Body[e].visitor
      BY <1>2, <1>t, BodyFields DEF Commit, TypeOK
    <2>4. SeenInv'
      BY <1>t, <1>2, <2>3, <2>f, FinishTypes, CommitTypes DEF SeenInv
    <2>5. FreshInv'
      BY <1>t, <1>2, <2>f, FinishTypes, CommitTypes DEF FreshInv, TypeOK
    <2> QED BY <2>1, <2>4, <2>5 DEF TypeInv
  <1>3. ASSUME NEW e \in Events, Rollback(e) PROVE TypeInv'
    <2>f. Finish(e) /\ UNCHANGED <<tables, answer>>
      BY <1>3 DEF Rollback
    <2>1. TypeOK'
      BY <1>t, <2>f, FinishTypes DEF TypeOK, TypeInv, tables
    <2>2. SeenInv' /\ FreshInv'
      BY <1>t, <2>f, FinishTypes DEF SeenInv, FreshInv, tables
    <2> QED BY <2>1, <2>2 DEF TypeInv
  <1>4. ASSUME NEW e \in Events, SendAgain(e) PROVE TypeInv'
    <2>1. /\ UNCHANGED <<tables, pc, seen, lock>>
          /\ answer' = [answer EXCEPT ![e] =
               IF journal[e] = "redacted" THEN "collision" ELSE "duplicate"]
      BY <1>4 DEF SendAgain
    <2>2. answer' \in [Events -> {"none", "duplicate", "collision"}]
      BY <1>t, <2>1 DEF TypeOK
    <2>4. TypeOK'
      BY <1>t, <2>1, <2>2 DEF TypeOK, tables
    <2>5. SeenInv' /\ FreshInv'
      BY <1>t, <2>1 DEF SeenInv, FreshInv, tables
    <2> QED BY <2>4, <2>5 DEF TypeInv
  <1>5. ASSUME NEW v \in Visitors, Anonymize(v) PROVE TypeInv'
    <2>1. \A t \in SomeTouch : Erase(t) \in SomeTouch
      BY EraseTouch
    <2>2. visitor' \in [Visitors -> VisitorRows]
      <3>1. visitor \in [Visitors -> VisitorRows]
        BY <1>t DEF TypeOK
      <3> DEFINE n == [Forgotten(visitor[v]) EXCEPT !.anonymized = TRUE]
      <3>2. n \in VisitorRows
        BY <3>1, AnonymizedRow
      <3>3. visitor' = [visitor EXCEPT ![v] = n]
        BY <1>5 DEF Anonymize
      <3> HIDE DEF n
      <3> QED BY <3>1, <3>2, <3>3
    <2>3. session' \in [Sessions -> SessionRows]
      <3>1. \A r \in SessionRows : [r EXCEPT !.identifying = FALSE] \in SessionRows
        BY DEF SessionRows
      <3>2. session' = [s \in Sessions |->
              IF session[s].owner = v THEN [session[s] EXCEPT !.identifying = FALSE]
                                      ELSE session[s]]
        BY <1>5 DEF Anonymize
      <3> QED BY <1>t, <3>1, <3>2 DEF TypeOK
    <2>4. /\ touch' \in [Events -> SomeTouch]
          /\ journal' \in [Events -> {"absent", "stored", "redacted"}]
      BY <1>5, <1>t, <2>1 DEF Anonymize, TypeOK
    <2>d. \A d \in DependentRows : Forgotten(d) \in DependentRows
      BY ForgottenDependent
    <2>5. dep' \in [Dependents -> DependentRows]
      BY <1>5, <1>t, <2>d DEF Anonymize, TypeOK
    <2>6. UNCHANGED <<pc, seen, lock, answer>>
      BY <1>5 DEF Anonymize
    <2>7. TypeOK'
      BY <1>t, <2>2, <2>3, <2>4, <2>5, <2>6 DEF TypeOK
    <2>8. SeenInv'
      <3>1. \A e \in Events : pc[e] = "open" => Body[e].visitor # v
        <4>1. lock[v] = NoValue /\ \A e \in Events : e # NoValue
          BY <1>5, VisitorAssumption DEF Anonymize
        <4> QED BY <1>t, <4>1 DEF TypeOK
      <3>2. \A u \in Visitors \ {v} : visitor'[u] = visitor[u]
        BY <1>5, <1>t DEF Anonymize, TypeOK
      <3> QED BY <1>t, <2>6, <3>1, <3>2, BodyFields DEF SeenInv
    <2>9. FreshInv'
      <3>1. \A e \in Events : /\ touch'[e] = touch[e] \/ touch'[e] = Erase(touch[e])
                              /\ journal'[e] = "absent" <=> journal[e] = "absent"
        BY <1>5, <1>t DEF Anonymize, TypeOK
      <3>2. \A e \in Events : /\ touch'[e] = NoValue <=> touch[e] = NoValue
                              /\ touch[e] # NoValue => touch'[e].of = touch[e].of
        BY <1>t, <3>1, EraseTouch DEF TypeOK
      <3> QED BY <1>t, <2>6, <3>1, <3>2 DEF FreshInv
    <2> QED BY <2>7, <2>8, <2>9 DEF TypeInv
  <1> QED
    BY <1>0, <1>1, <1>2, <1>3, <1>4, <1>5 DEF Next, Ingest

\* Every reachable state satisfies TypeInv.
THEOREM TypeInvAlways == Spec => []TypeInv
BY InitTypeInv, NextTypeInv, PTL DEF Spec

\* Variables keep their types, and a visitor's row its one lock owner, for any
\* visitors, events and bounds (TypeOK).
THEOREM TypeCorrect == Spec => []TypeOK
  <1>1. TypeInv => TypeOK
    BY DEF TypeInv
  <1> QED BY <1>1, TypeInvAlways, PTL

-----------------------------------------------------------------------------
(* Erasure *)

\* A row without a visitor has no snapshot; one with a visitor is not named
\* with another.
LinkInv ==
  \A x \in Dependents :
    /\ dep[x].visitor = NoValue =>
         dep[x].first = NoValue /\ dep[x].last = NoValue
    /\ dep[x].visitor # NoValue =>
         \A e \in Events : Body[e].subject = x /\ Body[e].visitor # NoValue
                           => Body[e].visitor = dep[x].visitor

ErasureInv == TypeInv /\ Erased /\ LinkInv

\* A session of an anonymized visitor leaves nothing identifying.
LEMMA CleanTouch ==
  ASSUME NEW e \in Events, NEW w \in VisitorRows,
         w.anonymized => Clean(w.first) /\ Clean(w.last)
  PROVE  LET t == TouchOf(e, w) IN
         w.anonymized => /\ ~t.identifying /\ Clean(t)
                         /\ Clean(WithTouch(w, t).first)
                         /\ Clean(WithTouch(w, t).last)
  <1> DEFINE t == TouchOf(e, w)
  <1>1. w.anonymized => ~t.identifying
    BY DEF TouchOf
  <1>2. /\ WithTouch(w, t).first \in {w.first, t}
        /\ WithTouch(w, t).last \in {w.last, t}
    BY TouchTypes
  <1> HIDE DEF t
  <1> QED BY <1>1, <1>2 DEF Clean, t

\* The commit of a session keeps ErasureInv.
LEMMA SessionErasure ==
  ASSUME ErasureInv, NEW e \in Events, Commit(e),
         Body[e].type = "session_started"
  PROVE  Erased' /\ LinkInv'
  <1> DEFINE v == Body[e].visitor
             n == Body[e].subject
             t == TouchOf(e, seen[e])
             w == WithTouch(seen[e], t)
  <1>i. TypeInv /\ TypeOK /\ SeenInv /\ Erased /\ LinkInv
    BY DEF ErasureInv, TypeInv
  <1>v. v \in Visitors /\ n \in Sessions /\ v # NoValue
    BY BodyFields, VisitorAssumption
  <1>s. seen[e] = visitor[v] /\ seen[e] \in VisitorRows
    BY <1>i, <1>v DEF Commit, SeenInv, TypeOK
  <1>t. /\ t \in Touches /\ w \in VisitorRows
        /\ w.anonymized = visitor[v].anonymized
    <2>1. t \in Touches
      BY <1>s, TouchTypes
    <2> HIDE DEF t
    <2>2. w \in VisitorRows /\ w.anonymized = seen[e].anonymized
      BY <1>s, <2>1, TouchTypes
    <2> QED BY <1>s, <2>1, <2>2
  <1>a. visitor[v].anonymized => Clean(visitor[v].first) /\ Clean(visitor[v].last)
    BY <1>i, <1>v DEF Erased
  <1>c. visitor[v].anonymized =>
          ~t.identifying /\ Clean(t) /\ Clean(w.first) /\ Clean(w.last)
    BY <1>s, <1>a, CleanTouch
  <1>d. \A x \in Dependents :
          LET m == Refreshed(dep[x], v, w, t) IN
          /\ m.visitor = dep[x].visitor
          /\ m.first \in {dep[x].first, w.first}
          /\ m.last \in {dep[x].last, w.last, t}
          /\ dep[x].visitor # v => m = dep[x]
    BY <1>i, <1>v, <1>t, RefreshedRow DEF TypeOK
  <1>j. /\ journal' = [journal EXCEPT ![e] = StoredBody(e, seen[e])]
        /\ visitor[v].anonymized /\ Body[e].identifying
             => StoredBody(e, seen[e]) # "stored"
    BY <1>s DEF Commit, StoredBody
  <1>J. \A u \in Visitors, f \in Events :
          visitor[u].anonymized /\ Body[f].visitor = u /\ Body[f].identifying
            => journal'[f] # "stored"
    BY <1>i, <1>j DEF Erased, TypeOK
  <1>1. \/ /\ session' = [session EXCEPT ![n] = [owner |-> v, at |-> Body[e].at,
                                                identifying |-> t.identifying]]
           /\ visitor' = [visitor EXCEPT ![v] = w]
           /\ touch' = [touch EXCEPT ![e] = t]
           /\ dep' = [x \in Dependents |-> Refreshed(dep[x], v, w, t)]
        \/ /\ visitor' = [visitor EXCEPT ![v].known = TRUE]
           /\ UNCHANGED <<session, touch, dep>>
    BY DEF Commit, ProjectSession
  <1> HIDE DEF v, n, t, w
  <1>2. CASE /\ visitor' = [visitor EXCEPT ![v].known = TRUE]
             /\ UNCHANGED <<session, touch, dep>>
    <2>1. \A u \in Visitors : /\ visitor'[u].anonymized = visitor[u].anonymized
                              /\ visitor'[u].first = visitor[u].first
                              /\ visitor'[u].last = visitor[u].last
      BY <1>i, <1>2, <1>v DEF TypeOK, VisitorRows
    <2>2. Erased'
      BY <1>i, <1>2, <1>J, <2>1 DEF Erased
    <2> QED BY <1>i, <1>2, <2>2 DEF LinkInv
  <1>3. CASE /\ session' = [session EXCEPT ![n] = [owner |-> v, at |-> Body[e].at,
                                                  identifying |-> t.identifying]]
             /\ visitor' = [visitor EXCEPT ![v] = w]
             /\ touch' = [touch EXCEPT ![e] = t]
             /\ dep' = [x \in Dependents |-> Refreshed(dep[x], v, w, t)]
    <2>l. LinkInv'
      BY <1>i, <1>3, <1>d, <1>v DEF LinkInv
    <2>1. SUFFICES ASSUME NEW u \in Visitors, visitor'[u].anonymized
                   PROVE  /\ Clean(visitor'[u].first) /\ Clean(visitor'[u].last)
                          /\ \A s \in Sessions :
                               session'[s].owner = u => ~session'[s].identifying
                          /\ \A f \in Events : Body[f].visitor = u =>
                               /\ Clean(touch'[f])
                               /\ Body[f].identifying => journal'[f] # "stored"
                          /\ \A x \in Dependents : dep'[x].visitor = u =>
                               Clean(dep'[x].first) /\ Clean(dep'[x].last)
      BY <2>l DEF Erased, Clean
    <2>2. visitor[u].anonymized
      BY <1>i, <1>3, <1>t, <1>v, <2>1 DEF TypeOK
    <2>3. /\ Clean(visitor[u].first) /\ Clean(visitor[u].last)
          /\ \A s \in Sessions : session[s].owner = u => ~session[s].identifying
          /\ \A f \in Events : Body[f].visitor = u => Clean(touch[f])
          /\ \A x \in Dependents : dep[x].visitor = u =>
               Clean(dep[x].first) /\ Clean(dep[x].last)
      BY <1>i, <2>2 DEF Erased
    <2>4. Clean(visitor'[u].first) /\ Clean(visitor'[u].last)
      BY <1>i, <1>3, <1>c, <1>v, <2>2, <2>3 DEF TypeOK
    <2>5. \A s \in Sessions : session'[s].owner = u => ~session'[s].identifying
      BY <1>i, <1>3, <1>c, <2>2, <2>3 DEF TypeOK
    <2>6. \A f \in Events : Body[f].visitor = u => Clean(touch'[f])
      BY <1>i, <1>3, <1>c, <2>2, <2>3 DEF TypeOK, v
    <2>7. \A x \in Dependents : dep'[x].visitor = u =>
            Clean(dep'[x].first) /\ Clean(dep'[x].last)
      BY <1>3, <1>c, <1>d, <2>2, <2>3
    <2> QED BY <1>J, <2>2, <2>4, <2>5, <2>6, <2>7
  <1> QED BY <1>1, <1>2, <1>3

\* The commit of an event of a dependent keeps ErasureInv.
LEMMA DependentErasure ==
  ASSUME ErasureInv, OneVisitor, NEW e \in Events, Commit(e),
         Body[e].type # "session_started"
  PROVE  Erased' /\ LinkInv'
  <1> DEFINE x == Body[e].subject
             b == Body[e].visitor
             n == Handled(dep[x], e, seen[e])
  <1>i. TypeInv /\ TypeOK /\ SeenInv /\ Erased /\ LinkInv
    BY DEF ErasureInv, TypeInv
  <1>s. /\ seen[e] \in VisitorRows
        /\ b # NoValue => b \in Visitors /\ seen[e] = visitor[b]
    BY <1>i, BodyFields DEF Commit, SeenInv, TypeOK
  <1>w. x \in Dependents => Written(dep[x], n, e, seen[e])
    BY <1>i, <1>s, HandledWritten DEF TypeOK
  <1>1. /\ dep' = [dep EXCEPT ![x] = n]
        /\ visitor' = [v \in Visitors |->
             IF v = b THEN [visitor[v] EXCEPT !.known = TRUE] ELSE visitor[v]]
        /\ UNCHANGED <<session, touch>>
    BY DEF Commit, ProjectDependent
  <1>j. /\ journal' = [journal EXCEPT ![e] = StoredBody(e, seen[e])]
        /\ seen[e].anonymized /\ Body[e].identifying
             => StoredBody(e, seen[e]) # "stored"
    BY DEF Commit, StoredBody
  <1>n. \A u \in Visitors : u # NoValue
    BY VisitorAssumption
  <1>o. \A f \in Events : Body[f].subject = x /\ Body[f].visitor # NoValue
          => Body[f].visitor = b \/ b = NoValue
    BY DEF OneVisitor
  <1> HIDE DEF n, x, b
  <1>2. /\ \A y \in Dependents \ {x} : dep'[y] = dep[y]
        /\ x \in Dependents => dep'[x] = n
    BY <1>i, <1>1 DEF TypeOK
  <1>3. \A u \in Visitors : /\ visitor'[u].anonymized = visitor[u].anonymized
                            /\ visitor'[u].first = visitor[u].first
                            /\ visitor'[u].last = visitor[u].last
    BY <1>i, <1>1 DEF TypeOK, VisitorRows
  <1>4. LinkInv'
    <2>1. ASSUME x \in Dependents
          PROVE  /\ n.visitor = NoValue => n.first = NoValue /\ n.last = NoValue
                 /\ n.visitor # NoValue =>
                      \A f \in Events : Body[f].subject = x /\ Body[f].visitor # NoValue
                                        => Body[f].visitor = n.visitor
      BY <1>i, <1>w, <1>o, <2>1 DEF LinkInv, Written, b
    <2> QED BY <1>i, <1>2, <2>1 DEF LinkInv
  <1>5. ASSUME NEW u \in Visitors, visitor[u].anonymized,
               x \in Dependents, n.visitor = u
        PROVE  Clean(n.first) /\ Clean(n.last)
    <2>1. /\ Clean(visitor[u].first) /\ Clean(visitor[u].last)
          /\ dep[x].visitor = u => Clean(dep[x].first) /\ Clean(dep[x].last)
      BY <1>i, <1>5 DEF Erased
    <2>2. b # NoValue /\ dep[x].visitor # NoValue => b = dep[x].visitor
      BY <1>i, <1>5 DEF LinkInv, x, b
    <2>3. CASE n.first = dep[x].first /\ n.last = dep[x].last
      BY <1>i, <1>n, <1>w, <1>5, <2>1, <2>2, <2>3 DEF LinkInv, Written, Clean, b
    <2>4. CASE /\ n.first = seen[e].first /\ n.last = seen[e].last
               /\ b # NoValue
      BY <1>n, <1>s, <1>w, <1>5, <2>1, <2>2, <2>4 DEF Written, b
    <2> QED BY <1>w, <1>5, <2>3, <2>4 DEF Written, b
  <1>6. Erased'
    <2>1. \A u \in Visitors, f \in Events :
            visitor[u].anonymized /\ Body[f].visitor = u /\ Body[f].identifying
              => journal'[f] # "stored"
      BY <1>i, <1>s, <1>j, <1>n DEF Erased, TypeOK, b
    <2>2. \A u \in Visitors, y \in Dependents :
            visitor[u].anonymized /\ dep'[y].visitor = u
              => Clean(dep'[y].first) /\ Clean(dep'[y].last)
      BY <1>i, <1>2, <1>5 DEF Erased
    <2> QED BY <1>i, <1>1, <1>3, <2>1, <2>2 DEF Erased, Clean
  <1> QED BY <1>4, <1>6

\* Anonymizing a visitor establishes its part and keeps the others'.
LEMMA AnonymizeErasure ==
  ASSUME ErasureInv, NEW v \in Visitors, Anonymize(v)
  PROVE  Erased' /\ LinkInv'
  <1>i. TypeInv /\ TypeOK /\ Erased /\ LinkInv
    BY DEF ErasureInv, TypeInv
  <1>t. /\ visitor \in [Visitors -> VisitorRows]
        /\ session \in [Sessions -> SessionRows]
        /\ touch \in [Events -> SomeTouch]
        /\ dep \in [Dependents -> DependentRows]
        /\ v # NoValue
    BY <1>i, VisitorAssumption DEF TypeOK
  <1> DEFINE w == [Forgotten(visitor[v]) EXCEPT !.anonymized = TRUE]
  <1>w. Clean(w.first) /\ Clean(w.last)
    <2>1. visitor[v].first \in SomeTouch /\ visitor[v].last \in SomeTouch
      BY <1>t DEF VisitorRows
    <2>2. w.first = Erase(visitor[v].first) /\ w.last = Erase(visitor[v].last)
      BY <1>t, AnonymizedRow
    <2> HIDE DEF w
    <2> QED BY <2>1, <2>2, EraseTouch
  <1>v. visitor' = [visitor EXCEPT ![v] = w]
    BY DEF Anonymize
  <1> HIDE DEF w
  <1>1. /\ Clean(visitor'[v].first) /\ Clean(visitor'[v].last)
        /\ \A u \in Visitors \ {v} : visitor'[u] = visitor[u]
    BY <1>t, <1>v, <1>w
  <1>2. \A s \in Sessions : /\ session'[s].owner = session[s].owner
                            /\ session[s].owner = v => ~session'[s].identifying
                            /\ session'[s].identifying => session[s].identifying
    BY <1>t DEF Anonymize, SessionRows
  <1>3. \A e \in Events :
          /\ Body[e].visitor = v => Clean(touch'[e])
          /\ Body[e].visitor # v => touch'[e] = touch[e]
    BY <1>t, EraseTouch DEF Anonymize
  <1>4. \A e \in Events :
          /\ Body[e].visitor = v /\ Body[e].identifying => journal'[e] # "stored"
          /\ Body[e].visitor # v => journal'[e] = journal[e]
    BY <1>i DEF Anonymize, TypeOK
  <1>5. \A x \in Dependents :
          /\ dep'[x].visitor = dep[x].visitor
          /\ dep[x].visitor = v => Clean(dep'[x].first) /\ Clean(dep'[x].last)
          /\ dep[x].visitor # v => dep'[x] = dep[x]
    <2> SUFFICES ASSUME NEW x \in Dependents
                 PROVE  /\ dep'[x].visitor = dep[x].visitor
                        /\ dep[x].visitor = v =>
                             Clean(dep'[x].first) /\ Clean(dep'[x].last)
                        /\ dep[x].visitor # v => dep'[x] = dep[x]
      OBVIOUS
    <2>1. dep'[x] = IF dep[x].visitor = v THEN Forgotten(dep[x]) ELSE dep[x]
      BY DEF Anonymize
    <2>2. /\ Forgotten(dep[x]).visitor = dep[x].visitor
          /\ Clean(Forgotten(dep[x]).first) /\ Clean(Forgotten(dep[x]).last)
      BY <1>t, ForgottenDependent, RowFields, EraseTouch
    <2> QED BY <2>1, <2>2
  <1>6. LinkInv'
    BY <1>i, <1>t, <1>5 DEF LinkInv
  <1>7. Erased'
    <2> SUFFICES ASSUME NEW u \in Visitors, visitor'[u].anonymized
                 PROVE  /\ Clean(visitor'[u].first) /\ Clean(visitor'[u].last)
                        /\ \A s \in Sessions :
                             session'[s].owner = u => ~session'[s].identifying
                        /\ \A e \in Events : Body[e].visitor = u =>
                             /\ Clean(touch'[e])
                             /\ Body[e].identifying => journal'[e] # "stored"
                        /\ \A x \in Dependents : dep'[x].visitor = u =>
                             Clean(dep'[x].first) /\ Clean(dep'[x].last)
      BY DEF Erased, Clean
    <2>o. u # v =>
            /\ visitor'[u] = visitor[u]
            /\ Clean(visitor[u].first) /\ Clean(visitor[u].last)
            /\ \A s \in Sessions : session[s].owner = u => ~session[s].identifying
            /\ \A e \in Events : Body[e].visitor = u =>
                 /\ Clean(touch[e])
                 /\ Body[e].identifying => journal[e] # "stored"
            /\ \A x \in Dependents : dep[x].visitor = u =>
                 Clean(dep[x].first) /\ Clean(dep[x].last)
      BY <1>i, <1>1 DEF Erased
    <2>1. Clean(visitor'[u].first) /\ Clean(visitor'[u].last)
      BY <1>1, <2>o
    <2>2. \A s \in Sessions : session'[s].owner = u => ~session'[s].identifying
      BY <1>2, <2>o
    <2>3. \A e \in Events : Body[e].visitor = u => Clean(touch'[e])
      BY <1>3, <2>o
    <2>4. \A e \in Events :
            Body[e].visitor = u /\ Body[e].identifying => journal'[e] # "stored"
      BY <1>4, <2>o
    <2>5. \A x \in Dependents : dep'[x].visitor = u =>
            Clean(dep'[x].first) /\ Clean(dep'[x].last)
      BY <1>5, <2>o
    <2> QED BY <2>1, <2>2, <2>3, <2>4, <2>5
  <1> QED BY <1>6, <1>7

\* Nothing is anonymized initially, and no dependent has a snapshot.
LEMMA InitErasure == Init => ErasureInv
BY InitTypeInv
DEF Init, ErasureInv, Erased, LinkInv, NoVisitorRow, StubRow, OneVisitor

\* Every step keeps the erasure.
LEMMA NextErasure ==
  ASSUME OneVisitor
  PROVE  ErasureInv /\ [Next]_vars => ErasureInv'
  <1> SUFFICES ASSUME ErasureInv, [Next]_vars PROVE ErasureInv'
    OBVIOUS
  <1>i. TypeInv /\ Erased /\ LinkInv
    BY DEF ErasureInv
  <1>t. TypeInv'
    BY <1>i, NextTypeInv
  <1>u. UNCHANGED tables => Erased' /\ LinkInv'
    BY <1>i DEF tables, Erased, LinkInv, Clean
  <1>0. CASE UNCHANGED vars
    BY <1>0, <1>t, <1>u DEF vars, tables, ErasureInv
  <1>1. ASSUME NEW e \in Events, Begin(e) PROVE ErasureInv'
    BY <1>1, <1>t, <1>u DEF Begin, ErasureInv
  <1>2. ASSUME NEW e \in Events, Commit(e) PROVE ErasureInv'
    BY <1>2, <1>t, SessionErasure, DependentErasure DEF ErasureInv
  <1>3. ASSUME NEW e \in Events, Rollback(e) \/ SendAgain(e) PROVE ErasureInv'
    BY <1>3, <1>t, <1>u DEF Rollback, SendAgain, ErasureInv
  <1>4. ASSUME NEW v \in Visitors, Anonymize(v) PROVE ErasureInv'
    BY <1>4, <1>t, AnonymizeErasure DEF ErasureInv
  <1> QED BY <1>0, <1>1, <1>2, <1>3, <1>4 DEF Next, Ingest

\* Once a visitor is anonymized, no row that names it holds an identifier: no
\* ingest, open at that time or later, brings one back (Erased), where every
\* dependent is named with one visitor.
THEOREM ErasedAlways ==
  ASSUME OneVisitor
  PROVE  Spec => []Erased
  <1>1. ErasureInv => Erased
    BY DEF ErasureInv
  <1>2. ErasureInv /\ [Next]_vars => ErasureInv'
    BY NextErasure
  <1> QED BY <1>1, <1>2, InitErasure, PTL DEF Spec

-----------------------------------------------------------------------------
(* First and last non-direct touch *)

\* The sessions of a visitor that left a touch, and those not direct.
Left(v) == {e \in Events : touch[e] # NoValue /\ Body[e].visitor = v}
LeftNonDirect(v) == {e \in Left(v) : ~touch[e].direct}

FirstRight(v) ==
  IF Left(v) = {} THEN visitor[v].first = NoValue
  ELSE /\ visitor[v].first # NoValue /\ visitor[v].first.of \in Left(v)
       /\ \A e \in Left(v) : At(visitor[v].first) <= Body[e].at

LastRight(v) ==
  IF LeftNonDirect(v) = {} THEN visitor[v].last = NoValue
  ELSE /\ visitor[v].last # NoValue /\ visitor[v].last.of \in LeftNonDirect(v)
       /\ \A e \in LeftNonDirect(v) : Body[e].at <= At(visitor[v].last)

\* TouchesRight, visitor by visitor.
LEMMA TouchesByVisitor ==
  /\ TouchesRight <=> \A v \in Visitors : FirstRight(v) /\ LastRight(v)
  /\ TouchesRight' <=> \A v \in Visitors : FirstRight(v)' /\ LastRight(v)'
BY DEF TouchesRight, FirstRight, LastRight, Left, LeftNonDirect

\* A visitor whose touches stay, up to their identifiers, and whose sessions'
\* touches stay, keeps the right ones.
LEMMA SameTouches ==
  ASSUME NEW v \in Visitors, FirstRight(v), LastRight(v),
         LET before == visitor[v]
             after == visitor'[v]
         IN /\ before.first = NoValue <=> after.first = NoValue
            /\ before.first # NoValue => after.first.of = before.first.of
            /\ before.last = NoValue <=> after.last = NoValue
            /\ before.last # NoValue => after.last.of = before.last.of,
         \A e \in Events : Body[e].visitor = v =>
           /\ touch[e] = NoValue <=> touch'[e] = NoValue
           /\ touch[e] # NoValue => touch'[e].direct = touch[e].direct
  PROVE  FirstRight(v)' /\ LastRight(v)'
  <1>1. Left(v)' = Left(v) /\ LeftNonDirect(v)' = LeftNonDirect(v)
    BY DEF Left, LeftNonDirect
  <1>2. FirstRight(v)'
    BY <1>1 DEF FirstRight, At
  <1>3. LastRight(v)'
    BY <1>1 DEF LastRight, At
  <1> QED BY <1>2, <1>3

\* The commit of a session keeps every visitor's touches right.
LEMMA SessionTouches ==
  ASSUME TypeInv, TouchesRight, NEW e \in Events, Commit(e),
         Body[e].type = "session_started"
  PROVE  TouchesRight'
  <1> DEFINE v == Body[e].visitor
             n == Body[e].subject
             t == TouchOf(e, seen[e])
             w == WithTouch(seen[e], t)
  <1>i. TypeOK /\ SeenInv /\ FreshInv
    BY DEF TypeInv
  <1>v. v \in Visitors /\ v # NoValue
    BY BodyFields, VisitorAssumption
  <1>s. /\ seen[e] = visitor[v] /\ seen[e] \in VisitorRows
        /\ touch[e] = NoValue
    BY <1>i, <1>v DEF Commit, SeenInv, FreshInv, TypeOK
  <1>t. /\ t \in Touches /\ t.of = e /\ t # NoValue
    BY <1>s, TouchTypes, NoTouchAssumption
  <1>w. /\ w.first = ApplyFirstTouch(visitor[v], t)
        /\ w.last = ApplyLastNonDirect(visitor[v], t)
    BY <1>s DEF WithTouch, VisitorRows
  <1>r. \A u \in Visitors : FirstRight(u) /\ LastRight(u)
    BY TouchesByVisitor
  <1>n. \A f \in Events : Body[f].at \in Nat
    BY BodyFields
  <1>1. \/ /\ visitor' = [visitor EXCEPT ![v] = w]
           /\ touch' = [touch EXCEPT ![e] = t]
        \/ /\ visitor' = [visitor EXCEPT ![v].known = TRUE]
           /\ UNCHANGED touch
    BY DEF Commit, ProjectSession
  <1>e. Body[e].visitor = v
    OBVIOUS
  <1> HIDE DEF v, n, t, w
  <1>2. CASE visitor' = [visitor EXCEPT ![v].known = TRUE] /\ UNCHANGED touch
    <2>1. \A u \in Visitors : /\ visitor'[u].first = visitor[u].first
                              /\ visitor'[u].last = visitor[u].last
      BY <1>i, <1>2 DEF TypeOK, VisitorRows
    <2>2. \A u \in Visitors : FirstRight(u)' /\ LastRight(u)'
      BY <1>2, <1>r, <2>1, SameTouches
    <2> QED BY <2>2, TouchesByVisitor
  <1>3. CASE visitor' = [visitor EXCEPT ![v] = w] /\ touch' = [touch EXCEPT ![e] = t]
    <2>t. /\ touch'[e] = t
          /\ \A f \in Events \ {e} : touch'[f] = touch[f]
          /\ visitor'[v] = w
          /\ \A u \in Visitors \ {v} : visitor'[u] = visitor[u]
      BY <1>i, <1>3, <1>v DEF TypeOK
    <2>1. ASSUME NEW u \in Visitors \ {v} PROVE FirstRight(u)' /\ LastRight(u)'
      <3>1. \A f \in Events : Body[f].visitor = u => touch'[f] = touch[f]
        BY <2>t, <1>e
      <3> QED BY <1>r, <2>t, <3>1, SameTouches
    <2>2. FirstRight(v)'
      <3>1. Left(v)' = Left(v) \cup {e}
        BY <1>t, <1>e, <2>t DEF Left
      <3>2. CASE visitor[v].first = NoValue
        <4>1. Left(v) = {} /\ w.first = t
          BY <1>r, <1>v, <1>w, <3>2 DEF FirstRight, ApplyFirstTouch
        <4> QED BY <1>n, <1>t, <2>t, <3>1, <4>1 DEF FirstRight, At
      <3>3. CASE visitor[v].first # NoValue
        <4>1. /\ visitor[v].first.of \in Left(v)
              /\ visitor[v].first.of \in Events
              /\ \A f \in Left(v) : At(visitor[v].first) <= Body[f].at
          BY <1>r, <1>v, <3>3 DEF FirstRight, Left
        <4>2. CASE At(t) >= At(visitor[v].first)
          <5>1. w.first = visitor[v].first
            BY <1>w, <3>3, <4>2 DEF ApplyFirstTouch
          <5> QED BY <1>t, <2>t, <3>1, <3>3, <4>1, <4>2, <5>1 DEF FirstRight, At
        <4>3. CASE ~(At(t) >= At(visitor[v].first))
          <5>1. w.first = t
            BY <1>w, <3>3, <4>3 DEF ApplyFirstTouch
          <5>2. \A f \in Left(v) \cup {e} : Body[e].at <= Body[f].at
            BY <1>n, <1>t, <4>1, <4>3 DEF At, Left
          <5> QED BY <1>t, <2>t, <3>1, <5>1, <5>2 DEF FirstRight, At
        <4> QED BY <4>2, <4>3
      <3> QED BY <3>2, <3>3
    <2>3. LastRight(v)'
      <3>1. LeftNonDirect(v)' = LeftNonDirect(v) \cup (IF t.direct THEN {} ELSE {e})
        BY <1>t, <1>s, <1>e, <2>t DEF LeftNonDirect, Left
      <3>2. CASE t.direct
        <4>1. w.last = visitor[v].last
          BY <1>w, <3>2 DEF ApplyLastNonDirect
        <4> QED BY <1>r, <1>v, <2>t, <3>1, <3>2, <4>1 DEF LastRight, At
      <3>3. CASE ~t.direct /\ visitor[v].last = NoValue
        <4>1. LeftNonDirect(v) = {} /\ w.last = t
          BY <1>r, <1>v, <1>w, <3>3 DEF LastRight, ApplyLastNonDirect
        <4> QED BY <1>n, <1>t, <2>t, <3>1, <3>3, <4>1 DEF LastRight, At
      <3>4. CASE ~t.direct /\ visitor[v].last # NoValue
        <4>1. /\ visitor[v].last.of \in LeftNonDirect(v)
              /\ visitor[v].last.of \in Events
              /\ \A f \in LeftNonDirect(v) : Body[f].at <= At(visitor[v].last)
          BY <1>r, <1>v, <3>4 DEF LastRight, LeftNonDirect, Left
        <4>2. CASE At(t) < At(visitor[v].last)
          <5>1. w.last = visitor[v].last
            BY <1>w, <3>4, <4>2 DEF ApplyLastNonDirect
          <5>2. Body[e].at <= At(visitor[v].last)
            BY <1>n, <1>t, <4>1, <4>2 DEF At
          <5> QED BY <2>t, <3>1, <3>4, <4>1, <5>1, <5>2 DEF LastRight, At
        <4>3. CASE ~(At(t) < At(visitor[v].last))
          <5>1. w.last = t
            BY <1>w, <3>4, <4>3 DEF ApplyLastNonDirect
          <5>2. \A f \in LeftNonDirect(v) \cup {e} : Body[f].at <= Body[e].at
            BY <1>n, <1>t, <4>1, <4>3 DEF At, LeftNonDirect, Left
          <5> QED BY <1>t, <2>t, <3>1, <3>4, <5>1, <5>2 DEF LastRight, At
        <4> QED BY <4>2, <4>3
      <3> QED BY <3>2, <3>3, <3>4
    <2> QED BY <2>1, <2>2, <2>3, TouchesByVisitor
  <1> QED BY <1>1, <1>2, <1>3

\* Every step keeps the touches right.
LEMMA NextTouches ==
  TypeInv /\ TouchesRight /\ [Next]_vars => TouchesRight'
  <1> SUFFICES ASSUME TypeInv, TouchesRight, [Next]_vars PROVE TouchesRight'
    OBVIOUS
  <1>i. TypeOK /\ \A u \in Visitors : FirstRight(u) /\ LastRight(u)
    BY TouchesByVisitor DEF TypeInv
  <1>u. UNCHANGED <<visitor, touch>> => TouchesRight'
    BY DEF TouchesRight, At
  <1>1. ASSUME NEW e \in Events, Commit(e), Body[e].type # "session_started"
        PROVE  TouchesRight'
    <2>1. \A u \in Visitors : /\ visitor'[u].first = visitor[u].first
                              /\ visitor'[u].last = visitor[u].last
      BY <1>1, <1>i DEF Commit, ProjectDependent, TypeOK, VisitorRows
    <2>2. UNCHANGED touch
      BY <1>1 DEF Commit, ProjectDependent
    <2>3. \A u \in Visitors : FirstRight(u)' /\ LastRight(u)'
      BY <1>i, <2>1, <2>2, SameTouches
    <2> QED BY <2>3, TouchesByVisitor
  <1>2. ASSUME NEW v \in Visitors, Anonymize(v) PROVE TouchesRight'
    <2> DEFINE w == [Forgotten(visitor[v]) EXCEPT !.anonymized = TRUE]
    <2>1. /\ visitor[v] \in VisitorRows
          /\ visitor[v].first \in SomeTouch /\ visitor[v].last \in SomeTouch
      BY <1>i DEF TypeOK, VisitorRows
    <2>2. w.first = Erase(visitor[v].first) /\ w.last = Erase(visitor[v].last)
      BY <2>1, AnonymizedRow
    <2>3. visitor' = [visitor EXCEPT ![v] = w]
      BY <1>2 DEF Anonymize
    <2> HIDE DEF w
    <2>4. visitor'[v] = w /\ \A u \in Visitors \ {v} : visitor'[u] = visitor[u]
      BY <1>i, <2>3 DEF TypeOK
    <2>5. \A e \in Events : touch'[e] = touch[e] \/ touch'[e] = Erase(touch[e])
      BY <1>2 DEF Anonymize
    <2>6. \A e \in Events :
            /\ touch[e] = NoValue <=> touch'[e] = NoValue
            /\ touch[e] # NoValue => touch'[e].direct = touch[e].direct
      BY <1>i, <2>5, EraseTouch DEF TypeOK
    <2>7. /\ visitor[v].first = NoValue <=> w.first = NoValue
          /\ visitor[v].first # NoValue => w.first.of = visitor[v].first.of
          /\ visitor[v].last = NoValue <=> w.last = NoValue
          /\ visitor[v].last # NoValue => w.last.of = visitor[v].last.of
      BY <2>1, <2>2, EraseTouch
    <2>8. \A u \in Visitors : FirstRight(u)' /\ LastRight(u)'
      BY <1>i, <2>4, <2>6, <2>7, SameTouches
    <2> QED BY <2>8, TouchesByVisitor
  <1>3. CASE UNCHANGED vars
    BY <1>3, <1>u DEF vars
  <1>4. ASSUME NEW e \in Events,
               Begin(e) \/ Rollback(e) \/ SendAgain(e)
        PROVE  TouchesRight'
    BY <1>4, <1>u DEF Begin, Rollback, SendAgain, tables
  <1>5. ASSUME NEW e \in Events, Commit(e) PROVE TouchesRight'
    BY <1>1, <1>5, SessionTouches
  <1> QED BY <1>2, <1>3, <1>4, <1>5 DEF Next, Ingest

\* The visitor's first touch is the earliest of its sessions and its last
\* non-direct touch the latest not direct one, in whatever order the sessions
\* arrive and whatever is rolled back or anonymized between (TouchesRight).
THEOREM TouchesRightAlways == Spec => []TouchesRight
  <1>1. Init => TouchesRight
    BY DEF Init, TouchesRight, NoVisitorRow
  <1>2. TypeInv /\ TouchesRight /\ [Next]_vars => TouchesRight'
    BY NextTouches
  <1> QED BY <1>1, <1>2, TypeInvAlways, PTL DEF Spec

-----------------------------------------------------------------------------
(* Snapshots of conversions *)

\* The columns that make a dependent a conversion.
Kept(d, n) ==
  n.createdBy = d.createdBy /\ n.createdAt = d.createdAt /\ n.paidBy = d.paidBy

\* Stamps, visitors and snapshots are other columns.
LEMMA KeptColumns ==
  ASSUME NEW d \in DependentRows, NEW e \in Events, NEW w \in VisitorRows,
         NEW onlyEmpty \in BOOLEAN
  PROVE  /\ Kept(d, Stamp(d, e))
         /\ Kept(d, WithVisitor(d, e, onlyEmpty))
         /\ Kept(d, Copy(d, e, w))
BY DEF Kept, Stamp, WithVisitor, Copy, DependentRows

\* Copying takes the visitor's snapshot where the event names one.
LEMMA CopyTakes ==
  ASSUME NEW d \in DependentRows, NEW e \in Events, NEW w \in VisitorRows,
         Body[e].visitor # NoValue
  PROVE  Copy(d, e, w).first = w.first /\ Copy(d, e, w).last = w.last
BY DEF Copy, DependentRows

CreationTime(e) ==
  IF Body[e].type = "manual_sale_created" THEN Body[e].confirmedAt ELSE Body[e].at

\* A creation fills the columns of the creation, and a missing snapshot.
LEMMA CreatedRow ==
  ASSUME NEW d \in DependentRows, NEW e \in Events, NEW w \in VisitorRows,
         d.createdBy = NoValue
  PROVE  LET n == ApplyCreated(d, e, w) IN
         /\ n.createdBy = e /\ n.createdAt = CreationTime(e)
         /\ n.paidBy = d.paidBy
         /\ Body[e].visitor # NoValue => n.visitor # NoValue
         /\ Body[e].visitor # NoValue /\ d.first = NoValue =>
              n.first = w.first /\ n.last = w.last
  <1> DEFINE applies == /\ d.paidBy = NoValue /\ ~d.cancelled
                        /\ Newer(d, e, FALSE)
             row == IF applies THEN Stamp(d, e) ELSE d
             kept == ~applies
             created == [row EXCEPT !.createdBy = e, !.createdAt = CreationTime(e)]
             m == WithVisitor(created, e, kept)
  <1>1. /\ row \in DependentRows /\ Kept(d, row)
        /\ row.visitor = d.visitor /\ row.first = d.first /\ row.last = d.last
    BY StampWritten, KeptColumns DEF Kept
  <1>2. CreationTime(e) \in Nat
    BY BodyFields DEF CreationTime
  <1>k. kept \in BOOLEAN
    OBVIOUS
  <1>6. ApplyCreated(d, e, w) = CopyIfMissing(m, e, w)
    BY DEF ApplyCreated, CreationTime
  <1> HIDE DEF row, applies, kept
  <1>3. /\ created \in DependentRows
        /\ created.createdBy = e /\ created.createdAt = CreationTime(e)
        /\ created.paidBy = d.paidBy
        /\ created.visitor = d.visitor /\ created.first = d.first
    BY <1>1, <1>2 DEF DependentRows, Kept
  <1> HIDE DEF created
  <1>4. /\ m \in DependentRows /\ Kept(created, m)
        /\ Body[e].visitor # NoValue => m.visitor # NoValue
        /\ m.first = d.first
    BY <1>3, <1>k, StampWritten, KeptColumns, OverlayVisitor
  <1> HIDE DEF m
  <1>5. /\ Kept(m, CopyIfMissing(m, e, w))
        /\ CopyIfMissing(m, e, w).visitor = m.visitor
        /\ Body[e].visitor # NoValue /\ m.first = NoValue =>
             /\ CopyIfMissing(m, e, w).first = w.first
             /\ CopyIfMissing(m, e, w).last = w.last
    BY <1>4, KeptColumns, CopyWritten, CopyTakes DEF CopyIfMissing, Kept
  <1> QED BY <1>3, <1>4, <1>5, <1>6 DEF Kept

\* A payment fills its column, the creation's where it is empty, and takes the
\* visitor's snapshot.
LEMMA PaidRow ==
  ASSUME NEW d \in DependentRows, NEW e \in Events, NEW w \in VisitorRows
  PROVE  LET n == ApplyOrderPaid(d, e, w) IN
         \/ n = d
         \/ /\ d.paidBy = NoValue /\ n.paidBy = e
            /\ n.createdBy = d.createdBy
            /\ n.createdAt = IF d.createdAt = NoValue THEN Body[e].at ELSE d.createdAt
            /\ Body[e].visitor # NoValue =>
                 n.visitor # NoValue /\ n.first = w.first /\ n.last = w.last
  <1> DEFINE m == Stamp(d, e)
             s == WithVisitor(m, e, FALSE)
             p == [s EXCEPT !.paidBy = e,
                            !.createdAt = Overlay(Body[e].at, @, FALSE)]
  <1>1. m \in DependentRows /\ Kept(d, m)
    BY StampWritten, KeptColumns
  <1>6. ApplyOrderPaid(d, e, w)
          = IF d.paidBy = NoValue /\ Newer(d, e, TRUE) THEN Copy(p, e, w) ELSE d
    BY DEF ApplyOrderPaid
  <1> HIDE DEF m
  <1>2. /\ s \in DependentRows /\ Kept(d, s)
        /\ Body[e].visitor # NoValue => s.visitor # NoValue
    <2>1. s \in DependentRows /\ s.visitor = Overlay(m.visitor, Body[e].visitor, FALSE)
      BY <1>1, StampWritten
    <2>2. Kept(m, s)
      BY <1>1, KeptColumns
    <2>3. Body[e].visitor # NoValue => s.visitor # NoValue
      BY <2>1 DEF Overlay
    <2> QED BY <1>1, <2>1, <2>2, <2>3 DEF Kept
  <1> HIDE DEF s
  <1>3. Overlay(Body[e].at, s.createdAt, FALSE)
          = IF d.createdAt = NoValue THEN Body[e].at ELSE d.createdAt
    BY <1>2 DEF Overlay, Kept
  <1>4. /\ p \in DependentRows /\ p.paidBy = e /\ p.visitor = s.visitor
        /\ p.createdBy = d.createdBy
        /\ p.createdAt = IF d.createdAt = NoValue THEN Body[e].at ELSE d.createdAt
    BY <1>2, <1>3, BodyFields, RowFields DEF DependentRows, Kept
  <1> HIDE DEF p
  <1>5. /\ Kept(p, Copy(p, e, w)) /\ Copy(p, e, w).visitor = p.visitor
        /\ Body[e].visitor # NoValue =>
             Copy(p, e, w).first = w.first /\ Copy(p, e, w).last = w.last
    BY <1>4, KeptColumns, CopyWritten, CopyTakes
  <1> QED BY <1>2, <1>4, <1>5, <1>6 DEF Kept

\* Events that neither create nor pay leave the columns of a conversion, and
\* all but an order's update the snapshot as well.
LEMMA HandledKept ==
  ASSUME NEW d \in DependentRows, NEW e \in Events, NEW w \in VisitorRows,
         Body[e].type \in {"lead_status_changed", "order_updated", "order_cancelled",
                           "manual_sale_updated", "manual_sale_cancelled"}
  PROVE  LET n == Handled(d, e, w) IN
         /\ Kept(d, n)
         /\ Body[e].type # "order_updated" => n.first = d.first /\ n.last = d.last
  <1> DEFINE n == Handled(d, e, w)
             s == Stamp(d, e)
             Same(m) == Kept(d, m) /\ m.first = d.first /\ m.last = d.last
  <1>d. Same(d)
    BY DEF Kept
  <1>s. s \in DependentRows /\ Same(s)
    BY StampWritten, KeptColumns
  <1>v. ASSUME NEW b \in BOOLEAN
        PROVE  WithVisitor(s, e, b) \in DependentRows /\ Same(WithVisitor(s, e, b))
    BY <1>s, StampWritten, KeptColumns DEF Kept
  <1>c. ASSUME NEW m \in DependentRows, Same(m)
        PROVE  Same([m EXCEPT !.cancelled = TRUE])
    BY <1>c DEF Kept, DependentRows
  <1>1. CASE Body[e].type = "lead_status_changed"
    <2>1. n \in {d, WithVisitor(s, e, TRUE)}
      BY <1>1 DEF Handled, ApplyLeadStatusChanged
    <2> QED BY <2>1, <1>v, <1>d
  <1>2. CASE Body[e].type = "manual_sale_updated"
    <2>1. n \in {d, WithVisitor(s, e, FALSE)}
      BY <1>2 DEF Handled, ApplySaleUpdated
    <2> QED BY <2>1, <1>v, <1>d
  <1>3. CASE Body[e].type = "manual_sale_cancelled"
    <2>1. n \in {d, [s EXCEPT !.cancelled = TRUE]}
      BY <1>3 DEF Handled, ApplySaleCancelled
    <2> QED BY <2>1, <1>s, <1>c, <1>d
  <1>4. CASE Body[e].type = "order_cancelled"
    <2>1. n \in {d, [WithVisitor(s, e, TRUE) EXCEPT !.cancelled = TRUE]}
      BY <1>4 DEF Handled, ApplyOrderCancelled
    <2> QED BY <2>1, <1>v, <1>c, <1>d
  <1>5. CASE Body[e].type = "order_updated"
    <2> DEFINE m == WithVisitor(s, e, FALSE)
    <2>1. n \in {d, Copy(m, e, w)}
      BY <1>5 DEF Handled, ApplyOrderUpdated
    <2>2. m \in DependentRows /\ Kept(d, m)
      BY <1>v
    <2> HIDE DEF m
    <2>3. Kept(d, Copy(m, e, w))
      BY <2>2, KeptColumns DEF Kept
    <2> QED BY <2>1, <2>3, <1>5, <1>d
  <1> QED BY <1>1, <1>2, <1>3, <1>4, <1>5

\* A dependent that is no order is a conversion since its creation; until then
\* it has no snapshot.
Uncreated(d) ==
  /\ d.paidBy = NoValue
  /\ IF d.createdBy = NoValue
     THEN d.createdAt = NoValue /\ d.first = NoValue /\ d.last = NoValue
     ELSE d.createdAt # NoValue

\* The conversion of a row of dependent x.
ConversionOf(x, d) == IF x \in Orders THEN d.paidBy ELSE d.createdBy

\* A handler leaves the conversion as it was, or makes the row one of its event
\* and gives it the snapshot of the visitor the event names.
LEMMA HandledConversion ==
  ASSUME NEW x \in Dependents, NEW e \in Events, NEW d \in DependentRows,
         NEW w \in VisitorRows,
         Body[e].type # "session_started", Body[e].subject = x,
         x \notin Orders => Uncreated(d)
  PROVE  LET n == Handled(d, e, w) IN
         /\ \/ /\ ConversionOf(x, n) = ConversionOf(x, d)
               /\ ConversionOf(x, d) # NoValue => AsOf(n) = AsOf(d)
            \/ /\ ConversionOf(x, n) = e
               /\ Body[e].visitor # NoValue =>
                    n.visitor # NoValue /\ n.first = w.first /\ n.last = w.last
         /\ x \notin Orders => Uncreated(n)
  <1> DEFINE n == Handled(d, e, w)
  <1>t. Body[e].type \in Types /\ e # NoValue /\ NoValue \notin Nat
    BY BodyFields
  <1>o. x \in Orders <=> Body[e].type \in {"order_created", "order_updated",
                                           "order_paid", "order_cancelled"}
    <2>1. x \in TableOf(Body[e].type) /\ Orders \cap (Leads \cup Sales) = {}
      BY VisitorAssumption
    <2> QED BY <2>1 DEF TableOf
  <1> DEFINE Same(m) == Kept(d, m) /\ (x \notin Orders => m.first = d.first
                                                          /\ m.last = d.last)
  <1>q. Same(n) => /\ ConversionOf(x, n) = ConversionOf(x, d) /\ AsOf(n) = AsOf(d)
                   /\ x \notin Orders => Uncreated(n)
    BY DEF Kept, ConversionOf, AsOf, Uncreated
  <1>d. Same(d)
    BY DEF Kept
  <1>1. CASE Body[e].type \in {"lead_status_changed", "order_updated",
                              "order_cancelled", "manual_sale_updated",
                              "manual_sale_cancelled"}
    <2>1. Kept(d, n) /\ (x \notin Orders => n.first = d.first /\ n.last = d.last)
      BY <1>1, <1>o, HandledKept
    <2> QED BY <2>1, <1>q
  <1>2. CASE Body[e].type = "order_paid"
    <2>1. n = ApplyOrderPaid(d, e, w) /\ x \in Orders
      BY <1>2, <1>o DEF Handled
    <2> HIDE DEF n
    <2>2. \/ n = d
          \/ /\ n.paidBy = e
             /\ Body[e].visitor # NoValue =>
                  n.visitor # NoValue /\ n.first = w.first /\ n.last = w.last
      BY <2>1, PaidRow
    <2> QED BY <2>1, <2>2 DEF ConversionOf, n
  <1>3. CASE Body[e].type \in {"lead_created", "order_created", "manual_sale_created"}
    <2>1. n = ApplyCreated(d, e, w)
      BY <1>3 DEF Handled
    <2>2. CASE d.createdBy # NoValue
      <3>1. n = d
        BY <2>1, <2>2 DEF ApplyCreated
      <3> QED BY <3>1, <1>d, <1>q
    <2>3. CASE d.createdBy = NoValue
      <3> HIDE DEF n
      <3>1. /\ n.createdBy = e /\ n.createdAt = CreationTime(e)
            /\ n.paidBy = d.paidBy
            /\ Body[e].visitor # NoValue => n.visitor # NoValue
            /\ Body[e].visitor # NoValue /\ d.first = NoValue =>
                 n.first = w.first /\ n.last = w.last
        BY <2>1, <2>3, CreatedRow
      <3>2. CreationTime(e) \in Nat
        BY BodyFields DEF CreationTime
      <3> QED BY <2>3, <3>1, <3>2, <1>t DEF ConversionOf, Uncreated, AsOf, n
    <2> QED BY <2>2, <2>3
  <1> QED
    BY <1>1, <1>2, <1>3, <1>t
    DEF Types

\* The dependents a session's touch may reach.
Due(d, v, t) ==
  /\ d.visitor = v
  /\ \/ d.createdAt # NoValue /\ d.createdAt >= At(t)
     \/ d.paidBy # NoValue /\ Body[d.paidBy].at >= At(t)
  /\ AsOf(d) # NoValue

\* They take the visitor's touches as far as these were known; the others stay.
LEMMA RefreshedColumns ==
  ASSUME NEW d \in DependentRows, NEW v \in Visitors, NEW w \in VisitorRows,
         NEW t \in Touches
  PROVE  LET n == Refreshed(d, v, w, t) IN
         /\ Kept(d, n) /\ n.visitor = d.visitor
         /\ Due(d, v, t) =>
              /\ w.first # NoValue /\ At(w.first) <= AsOf(d) => n.first = w.first
              /\ w.last # NoValue /\ At(w.last) <= AsOf(d) => n.last = w.last
         /\ ~Due(d, v, t) => n = d
  <1> DEFINE k == KnownAt(d, AsOf(d), w, t)
             first == IF w.first # NoValue /\ At(w.first) <= AsOf(d)
                      THEN w.first ELSE d.first
             last == IF w.last # NoValue /\ At(w.last) <= AsOf(d) THEN w.last
                     ELSE IF d.last = NoValue /\ ~t.direct /\ At(t) <= AsOf(d)
                          THEN t ELSE d.last
  <1>2. k = [d EXCEPT !.first = first, !.last = last]
    BY DEF KnownAt
  <1>3. Refreshed(d, v, w, t) = IF Due(d, v, t) THEN k ELSE d
    BY DEF Refreshed, Due
  <1>4. /\ w.first # NoValue /\ At(w.first) <= AsOf(d) => first = w.first
        /\ w.last # NoValue /\ At(w.last) <= AsOf(d) => last = w.last
    OBVIOUS
  <1> HIDE DEF first, last, k
  <1>5. Kept(d, k) /\ k.visitor = d.visitor /\ k.first = first /\ k.last = last
    BY <1>2 DEF Kept, DependentRows
  <1> QED BY <1>3, <1>4, <1>5 DEF Kept

\* A conversion that names a visitor is a row of one.
Named(x, d) ==
  LET c == ConversionOf(x, d)
  IN c # NoValue /\ Body[c].visitor # NoValue => d.visitor # NoValue

\* SnapshotCurrent for one row, where the visitors' rows are ws.
Current(x, d, ws) ==
  LET c == ConversionOf(x, d)
      w == ws[d.visitor]
  IN c # NoValue /\ d.visitor # NoValue /\ Body[c].visitor = d.visitor =>
       /\ w.first # NoValue /\ At(w.first) <= AsOf(d) => d.first = w.first
       /\ w.last # NoValue /\ At(w.last) <= AsOf(d) => d.last = w.last

RowInv ==
  \A x \in Dependents : /\ x \notin Orders => Uncreated(dep[x])
                        /\ Named(x, dep[x])
                        /\ Current(x, dep[x], visitor)

\* The inductive invariant behind SnapshotCurrent.
SnapshotInv == ErasureInv /\ RowInv

LEMMA CurrentIsSnapshotCurrent == RowInv => SnapshotCurrent
BY DEF RowInv, Current, SnapshotCurrent, Conversion, ConversionOf

\* A conversion has a time.
LEMMA ConversionTime ==
  ASSUME NEW x \in Dependents, NEW d \in DependentRows,
         x \notin Orders => Uncreated(d), ConversionOf(x, d) # NoValue
  PROVE  AsOf(d) \in Nat /\ AsOf(d) # NoValue
BY RowFields, BodyFields DEF ConversionOf, Uncreated, AsOf

\* Rows whose touches stay, up to their identifiers, keep RowInv.
LEMMA SameRows ==
  ASSUME RowInv, UNCHANGED dep,
         \A v \in Visitors \cup {NoValue} :
           v # NoValue => /\ visitor'[v].first = visitor[v].first
                          /\ visitor'[v].last = visitor[v].last,
         dep \in [Dependents -> DependentRows]
  PROVE  RowInv'
  <1>1. \A x \in Dependents : dep[x].visitor \in Visitors \cup {NoValue}
    BY RowFields
  <1>2. ASSUME NEW x \in Dependents PROVE Current(x, dep[x], visitor')
    BY <1>1 DEF RowInv, Current
  <1> QED BY <1>2 DEF RowInv

\* A session's touch reaches every conversion it is not later than.
LEMMA SessionSnapshots ==
  ASSUME SnapshotInv, NEW e \in Events, Commit(e),
         Body[e].type = "session_started"
  PROVE  RowInv'
  <1> DEFINE v == Body[e].visitor
             t == TouchOf(e, seen[e])
             w == WithTouch(seen[e], t)
  <1>i. TypeOK /\ SeenInv /\ RowInv
    BY DEF SnapshotInv, ErasureInv, TypeInv
  <1>v. v \in Visitors /\ v # NoValue
    BY BodyFields, VisitorAssumption
  <1>s. seen[e] = visitor[v] /\ seen[e] \in VisitorRows
    BY <1>i, <1>v DEF Commit, SeenInv, TypeOK
  <1>t. t \in Touches /\ t.of = e
    BY <1>s, TouchTypes
  <1>1. \/ /\ visitor' = [visitor EXCEPT ![v] = w]
           /\ dep' = [x \in Dependents |-> Refreshed(dep[x], v, w, t)]
        \/ /\ visitor' = [visitor EXCEPT ![v].known = TRUE]
           /\ UNCHANGED dep
    BY DEF Commit, ProjectSession
  <1> HIDE DEF v, t
  <1>w. /\ w \in VisitorRows
        /\ w.first \in {visitor[v].first, t} /\ w.last \in {visitor[v].last, t}
    BY <1>s, <1>t, TouchTypes
  <1>n. At(t) \in Nat
    BY <1>t, BodyFields DEF At
  <1> HIDE DEF w
  <1>2. CASE visitor' = [visitor EXCEPT ![v].known = TRUE] /\ UNCHANGED dep
    <2>1. \A u \in Visitors : /\ visitor'[u].first = visitor[u].first
                              /\ visitor'[u].last = visitor[u].last
      BY <1>i, <1>2 DEF TypeOK, VisitorRows
    <2> QED BY <1>i, <1>2, <2>1, SameRows DEF TypeOK
  <1>3. CASE /\ visitor' = [visitor EXCEPT ![v] = w]
             /\ dep' = [x \in Dependents |-> Refreshed(dep[x], v, w, t)]
    <2> SUFFICES ASSUME NEW x \in Dependents
                 PROVE  /\ x \notin Orders => Uncreated(dep'[x])
                        /\ Named(x, dep'[x])
                        /\ Current(x, dep'[x], visitor')
      BY DEF RowInv
    <2> DEFINE d == dep[x]
               n == dep'[x]
    <2>1. /\ d \in DependentRows /\ d.visitor \in Visitors \cup {NoValue}
          /\ x \notin Orders => Uncreated(d)
          /\ Named(x, d) /\ Current(x, d, visitor)
      BY <1>i, RowFields DEF TypeOK, RowInv
    <2>2. /\ Kept(d, n) /\ n.visitor = d.visitor
          /\ Due(d, v, t) =>
               /\ w.first # NoValue /\ At(w.first) <= AsOf(d) => n.first = w.first
               /\ w.last # NoValue /\ At(w.last) <= AsOf(d) => n.last = w.last
          /\ ~Due(d, v, t) => n = d
      BY <1>3, <1>v, <1>w, <1>t, <2>1, RefreshedColumns
    <2>3. /\ visitor'[v] = w
          /\ \A u \in Visitors \ {v} : visitor'[u] = visitor[u]
      BY <1>3, <1>i, <1>v DEF TypeOK
    <2> HIDE DEF d, n
    <2>4. ConversionOf(x, n) = ConversionOf(x, d) /\ AsOf(n) = AsOf(d)
      BY <2>2 DEF Kept, ConversionOf, AsOf
    <2>5. Named(x, n)
      BY <2>1, <2>2, <2>4 DEF Named
    <2>6. x \notin Orders => Uncreated(n)
      <3>1. CASE Due(d, v, t)
        <4>1. d.createdAt # NoValue \/ d.paidBy # NoValue
          BY <3>1 DEF Due
        <4> QED BY <2>1, <2>2, <4>1 DEF Uncreated, Kept
      <3> QED BY <3>1, <2>1, <2>2
    <2>7. Current(x, n, visitor')
      <3> SUFFICES ASSUME ConversionOf(x, d) # NoValue, d.visitor # NoValue,
                          Body[ConversionOf(x, d)].visitor = d.visitor
                   PROVE  LET u == visitor'[d.visitor] IN
                          /\ u.first # NoValue /\ At(u.first) <= AsOf(d)
                               => n.first = u.first
                          /\ u.last # NoValue /\ At(u.last) <= AsOf(d)
                               => n.last = u.last
        BY <2>2, <2>4 DEF Current
      <3>1. AsOf(d) \in Nat /\ AsOf(d) # NoValue
        BY <2>1, ConversionTime
      <3>2. LET u == visitor[d.visitor] IN
            /\ u.first # NoValue /\ At(u.first) <= AsOf(d) => d.first = u.first
            /\ u.last # NoValue /\ At(u.last) <= AsOf(d) => d.last = u.last
        BY <2>1 DEF Current
      <3>3. CASE d.visitor # v
        BY <3>2, <3>3, <2>1, <2>2, <2>3 DEF Due
      <3>4. CASE d.visitor = v /\ Due(d, v, t)
        BY <3>4, <2>2, <2>3
      <3>5. CASE d.visitor = v /\ ~Due(d, v, t)
        <4>1. ~(AsOf(d) >= At(t))
          BY <3>1, <3>5, BodyFields DEF Due, AsOf
        <4>2. ~(At(t) <= AsOf(d))
          BY <4>1, <3>1, <1>n
        <4> QED BY <3>2, <3>5, <4>2, <1>w, <2>2, <2>3
      <3> QED BY <3>3, <3>4, <3>5
    <2> QED BY <2>5, <2>6, <2>7 DEF n
  <1> QED BY <1>1, <1>2, <1>3

\* The handler of a dependent keeps the snapshot of its conversion current.
LEMMA DependentSnapshots ==
  ASSUME SnapshotInv, LinkInv', NEW e \in Events, Commit(e),
         Body[e].type # "session_started"
  PROVE  RowInv'
  <1> DEFINE y == Body[e].subject
             b == Body[e].visitor
  <1>i. TypeOK /\ SeenInv /\ RowInv /\ LinkInv
    BY DEF SnapshotInv, ErasureInv, TypeInv
  <1>s. /\ seen[e] \in VisitorRows
        /\ b # NoValue => b \in Visitors /\ seen[e] = visitor[b]
    BY <1>i, BodyFields DEF Commit, SeenInv, TypeOK
  <1>1. /\ dep' = [dep EXCEPT ![y] = Handled(@, e, seen[e])]
        /\ visitor' = [v \in Visitors |->
             IF v = b THEN [visitor[v] EXCEPT !.known = TRUE] ELSE visitor[v]]
    BY DEF Commit, ProjectDependent
  <1>v. \A u \in Visitors : /\ visitor'[u].first = visitor[u].first
                            /\ visitor'[u].last = visitor[u].last
    BY <1>i, <1>1 DEF TypeOK, VisitorRows
  <1> SUFFICES ASSUME NEW x \in Dependents
               PROVE  /\ x \notin Orders => Uncreated(dep'[x])
                      /\ Named(x, dep'[x])
                      /\ Current(x, dep'[x], visitor')
    BY DEF RowInv
  <1> DEFINE d == dep[x]
             n == dep'[x]
  <1>d. /\ d \in DependentRows /\ d.visitor \in Visitors \cup {NoValue}
        /\ x \notin Orders => Uncreated(d)
        /\ Named(x, d) /\ Current(x, d, visitor)
    BY <1>i, RowFields DEF TypeOK, RowInv
  <1>2. CASE x # y
    <2>1. n = d
      BY <1>i, <1>1, <1>2 DEF TypeOK
    <2> HIDE DEF n, d
    <2>2. Current(x, d, visitor')
      BY <1>d, <1>v DEF Current
    <2> QED BY <2>1, <2>2, <1>d DEF n
  <1>3. CASE x = y
    <2>1. n = Handled(d, e, seen[e])
      BY <1>i, <1>1, <1>3 DEF TypeOK
    <2>2. Written(d, n, e, seen[e])
      BY <1>d, <1>s, <2>1, HandledWritten
    <2>3. /\ \/ /\ ConversionOf(x, n) = ConversionOf(x, d)
                /\ ConversionOf(x, d) # NoValue => AsOf(n) = AsOf(d)
             \/ /\ ConversionOf(x, n) = e
                /\ Body[e].visitor # NoValue =>
                     n.visitor # NoValue /\ n.first = seen[e].first
                     /\ n.last = seen[e].last
          /\ x \notin Orders => Uncreated(n)
      BY <1>d, <1>s, <1>3, <2>1, HandledConversion
    <2>4. /\ d.visitor # NoValue =>
               \A f \in Events : Body[f].subject = x /\ Body[f].visitor # NoValue
                                 => Body[f].visitor = d.visitor
          /\ n.visitor # NoValue =>
               \A f \in Events : Body[f].subject = x /\ Body[f].visitor # NoValue
                                 => Body[f].visitor = n.visitor
      BY <1>i DEF LinkInv
    <2> HIDE DEF n, d
    <2>5. /\ d.visitor # NoValue => n.visitor = d.visitor
          /\ n.visitor \in Visitors \cup {NoValue}
      BY <2>2, <2>4, <1>3, RowFields DEF Written
    <2>6. CASE /\ ConversionOf(x, n) = ConversionOf(x, d)
               /\ ConversionOf(x, d) # NoValue => AsOf(n) = AsOf(d)
      <3>1. Named(x, n)
        BY <1>d, <2>5, <2>6 DEF Named
      <3>2. CASE n.first = d.first /\ n.last = d.last
        <4>1. Current(x, n, visitor')
          BY <1>d, <1>v, <2>5, <2>6, <3>2 DEF Current, Named
        <4> QED BY <3>1, <4>1, <2>3 DEF n
      <3>3. CASE /\ n.first = seen[e].first /\ n.last = seen[e].last
                 /\ Body[e].visitor # NoValue /\ n.visitor # NoValue
        <4>1. seen[e] = visitor[n.visitor]
          BY <1>s, <1>3, <2>4, <3>3
        <4>2. Current(x, n, visitor')
          BY <1>v, <2>5, <3>3, <4>1 DEF Current
        <4> QED BY <3>1, <4>2, <2>3 DEF n
      <3> QED BY <3>2, <3>3, <2>2 DEF Written
    <2>7. CASE /\ ConversionOf(x, n) = e
               /\ Body[e].visitor # NoValue =>
                    n.visitor # NoValue /\ n.first = seen[e].first
                    /\ n.last = seen[e].last
      <3>1. Named(x, n)
        BY <2>7 DEF Named
      <3>2. Current(x, n, visitor')
        BY <1>s, <1>v, <2>5, <2>7 DEF Current
      <3> QED BY <3>1, <3>2, <2>3 DEF n
    <2> QED BY <2>3, <2>6, <2>7
  <1> QED BY <1>2, <1>3

\* Erasing keeps the columns that make a conversion.
LEMMA ForgottenKept ==
  ASSUME NEW d \in DependentRows
  PROVE  Kept(d, Forgotten(d))
BY DEF Kept, Forgotten, DependentRows

\* Erasing the identifiers of a visitor erases them in the snapshots of its
\* dependents alike.
LEMMA AnonymizeSnapshots ==
  ASSUME SnapshotInv, NEW v \in Visitors, Anonymize(v)
  PROVE  RowInv'
  <1>i. TypeOK /\ RowInv
    BY DEF SnapshotInv, ErasureInv, TypeInv
  <1> DEFINE w == [Forgotten(visitor[v]) EXCEPT !.anonymized = TRUE]
  <1>1. /\ visitor' = [visitor EXCEPT ![v] = w]
        /\ dep' = [x \in Dependents |->
             IF dep[x].visitor = v THEN Forgotten(dep[x]) ELSE dep[x]]
    BY DEF Anonymize
  <1>2. /\ visitor[v].first \in SomeTouch /\ visitor[v].last \in SomeTouch
        /\ w.first = Erase(visitor[v].first) /\ w.last = Erase(visitor[v].last)
    BY <1>i, AnonymizedRow DEF TypeOK, VisitorRows
  <1> HIDE DEF w
  <1>3. visitor'[v] = w /\ \A u \in Visitors \ {v} : visitor'[u] = visitor[u]
    BY <1>i, <1>1 DEF TypeOK
  <1>4. \A t \in SomeTouch : t # NoValue => At(Erase(t)) = At(t)
    BY EraseTouch DEF At
  <1> SUFFICES ASSUME NEW x \in Dependents
               PROVE  /\ x \notin Orders => Uncreated(dep'[x])
                      /\ Named(x, dep'[x])
                      /\ Current(x, dep'[x], visitor')
    BY DEF RowInv
  <1> DEFINE d == dep[x]
             n == dep'[x]
  <1>d. /\ d \in DependentRows /\ d.visitor \in Visitors \cup {NoValue}
        /\ d.first \in SomeTouch /\ d.last \in SomeTouch
        /\ x \notin Orders => Uncreated(d)
        /\ Named(x, d) /\ Current(x, d, visitor)
    BY <1>i, RowFields DEF TypeOK, RowInv
  <1>5. CASE d.visitor # v
    <2>1. n = d
      BY <1>1, <1>5
    <2> HIDE DEF n, d
    <2>2. Current(x, d, visitor')
      BY <1>d, <1>3, <1>5 DEF Current
    <2> QED BY <1>d, <2>1, <2>2 DEF n
  <1>6. CASE d.visitor = v
    <2>1. n = Forgotten(d)
      BY <1>1, <1>6
    <2>2. /\ Kept(d, n) /\ n.visitor = d.visitor
          /\ n.first = Erase(d.first) /\ n.last = Erase(d.last)
      BY <1>d, <2>1, ForgottenKept, ForgottenDependent
    <2> HIDE DEF n, d
    <2>3. ConversionOf(x, n) = ConversionOf(x, d) /\ AsOf(n) = AsOf(d)
      BY <2>2 DEF Kept, ConversionOf, AsOf
    <2>4. Named(x, n) /\ (x \notin Orders => Uncreated(n))
      BY <1>d, <2>2, <2>3, EraseTouch DEF Named, Uncreated, Kept
    <2>5. /\ w.first # NoValue =>
               visitor[v].first # NoValue /\ At(w.first) = At(visitor[v].first)
          /\ w.last # NoValue =>
               visitor[v].last # NoValue /\ At(w.last) = At(visitor[v].last)
      BY <1>2, <1>4, EraseTouch
    <2>6. Current(x, n, visitor')
      BY <1>d, <1>2, <1>3, <1>6, <2>2, <2>3, <2>5 DEF Current
    <2> QED BY <2>4, <2>6 DEF n
  <1> QED BY <1>5, <1>6

\* Nothing is a conversion initially.
LEMMA InitSnapshot == Init => SnapshotInv
  <1> SUFFICES ASSUME Init PROVE SnapshotInv
    OBVIOUS
  <1>1. \A x \in Dependents : dep[x] = StubRow
    BY DEF Init
  <1>2. RowInv
    BY <1>1 DEF RowInv, Uncreated, Named, Current, ConversionOf, StubRow
  <1> QED BY <1>2, InitErasure DEF SnapshotInv

\* Every step keeps the snapshots current.
LEMMA NextSnapshot ==
  ASSUME OneVisitor
  PROVE  SnapshotInv /\ [Next]_vars => SnapshotInv'
  <1> SUFFICES ASSUME SnapshotInv, [Next]_vars PROVE SnapshotInv'
    OBVIOUS
  <1>e. ErasureInv'
    BY NextErasure DEF SnapshotInv
  <1>l. LinkInv'
    BY <1>e DEF ErasureInv
  <1>u. UNCHANGED tables => RowInv'
    BY DEF tables, SnapshotInv, RowInv, Uncreated, Named, Current, ConversionOf, AsOf, At
  <1>0. CASE UNCHANGED vars
    BY <1>0, <1>e, <1>u DEF vars, tables, SnapshotInv
  <1>1. ASSUME NEW e \in Events, Begin(e) \/ Rollback(e) \/ SendAgain(e)
        PROVE  SnapshotInv'
    BY <1>1, <1>e, <1>u DEF Begin, Rollback, SendAgain, SnapshotInv
  <1>2. ASSUME NEW e \in Events, Commit(e) PROVE SnapshotInv'
    BY <1>2, <1>e, <1>l, SessionSnapshots, DependentSnapshots DEF SnapshotInv
  <1>3. ASSUME NEW v \in Visitors, Anonymize(v) PROVE SnapshotInv'
    BY <1>3, <1>e, AnonymizeSnapshots DEF SnapshotInv
  <1> QED BY <1>0, <1>1, <1>2, <1>3 DEF Next, Ingest

\* Whatever order sessions and conversions come in, and whatever is erased or
\* rolled back between, a conversion carries its visitor's touches as far as
\* they are not later than itself (SnapshotCurrent), where every dependent is
\* named with one visitor.
THEOREM SnapshotCurrentAlways ==
  ASSUME OneVisitor
  PROVE  Spec => []SnapshotCurrent
  <1>1. SnapshotInv => SnapshotCurrent
    BY CurrentIsSnapshotCurrent DEF SnapshotInv
  <1>2. SnapshotInv /\ [Next]_vars => SnapshotInv'
    BY NextSnapshot
  <1> QED BY <1>1, <1>2, InitSnapshot, PTL DEF Spec

-----------------------------------------------------------------------------
(* Sessions later than a conversion *)

\* An order's times are those of the events that created and paid it.
OrderTimes(x, d) ==
  /\ d.createdBy # NoValue =>
       /\ Body[d.createdBy].subject = x /\ Body[d.createdBy].type = "order_created"
       /\ d.createdAt = Body[d.createdBy].at
  /\ d.createdAt # NoValue => d.createdBy # NoValue \/ d.paidBy # NoValue
  /\ d.paidBy # NoValue =>
       /\ Body[d.paidBy].subject = x /\ Body[d.paidBy].type = "order_paid"
       /\ d.createdAt # NoValue /\ d.createdAt <= Body[d.paidBy].at

Timed(x, d) == IF x \in Orders THEN OrderTimes(x, d) ELSE Uncreated(d)

\* The inductive invariant behind LateSessionFreezes.
TimesInv == TypeInv /\ \A x \in Dependents : Timed(x, dep[x])

\* Steps that leave the columns of a conversion, and a missing snapshot of a row
\* that is none, leave the times.
LEMMA KeptTimed ==
  ASSUME NEW x \in Dependents, NEW d \in DependentRows, NEW n \in DependentRows,
         Timed(x, d), Kept(d, n),
         d.createdAt = NoValue /\ d.paidBy = NoValue =>
           (d.first = NoValue => n.first = NoValue)
           /\ (d.last = NoValue => n.last = NoValue)
  PROVE  Timed(x, n)
BY DEF Timed, OrderTimes, Uncreated, Kept

\* A handler writes the times of its event, where no order is paid before it is
\* created.
LEMMA HandledTimed ==
  ASSUME PaidAfterCreated, NEW x \in Dependents, NEW e \in Events,
         NEW d \in DependentRows, NEW w \in VisitorRows,
         Body[e].type # "session_started", Body[e].subject = x, Timed(x, d)
  PROVE  Timed(x, Handled(d, e, w))
  <1> DEFINE n == Handled(d, e, w)
  <1>1. CASE x \notin Orders
    BY <1>1, HandledConversion DEF Timed
  <1>2. CASE x \in Orders
    <2>t. Body[e].type \in {"order_created", "order_updated", "order_paid",
                            "order_cancelled"}
      <3>1. x \in TableOf(Body[e].type) /\ Orders \cap (Leads \cup Sales) = {}
        BY VisitorAssumption
      <3> QED BY <1>2, <3>1 DEF TableOf
    <2>o. OrderTimes(x, d)
      BY <1>2 DEF Timed
    <2>n. /\ d.createdBy \in Events \cup {NoValue} /\ d.paidBy \in Events \cup {NoValue}
          /\ d.createdAt \in Nat \cup {NoValue}
          /\ \A f \in Events : Body[f].at \in Nat
          /\ e # NoValue /\ NoValue \notin Nat
      BY RowFields, BodyFields
    <2>1. CASE Body[e].type \in {"order_updated", "order_cancelled"}
      <3>1. Kept(d, n)
        BY <2>1, HandledKept
      <3> QED BY <1>2, <2>o, <3>1 DEF Timed, OrderTimes, Kept
    <2>2. CASE Body[e].type = "order_paid"
      <3>1. n = ApplyOrderPaid(d, e, w)
        BY <2>2 DEF Handled
      <3> HIDE DEF n
      <3>2. \/ n = d
            \/ /\ d.paidBy = NoValue /\ n.paidBy = e
               /\ n.createdBy = d.createdBy
               /\ n.createdAt = IF d.createdAt = NoValue THEN Body[e].at
                                ELSE d.createdAt
        BY <3>1, PaidRow
      <3>3. d.paidBy = NoValue /\ d.createdAt # NoValue => d.createdAt <= Body[e].at
        BY <2>2, <2>o, <2>n DEF OrderTimes, PaidAfterCreated
      <3>4. OrderTimes(x, n)
        BY <2>2, <2>o, <2>n, <3>2, <3>3 DEF OrderTimes
      <3> QED BY <1>2, <3>4 DEF Timed, n
    <2>3. CASE Body[e].type = "order_created"
      <3>1. n = ApplyCreated(d, e, w)
        BY <2>3 DEF Handled
      <3>2. CASE d.createdBy # NoValue
        <4>1. n = d
          BY <3>1, <3>2 DEF ApplyCreated
        <4> QED BY <4>1
      <3>3. CASE d.createdBy = NoValue
        <4> HIDE DEF n
        <4>1. n.createdBy = e /\ n.createdAt = CreationTime(e) /\ n.paidBy = d.paidBy
          BY <3>1, <3>3, CreatedRow
        <4>2. n.createdAt = Body[e].at
          BY <2>3, <4>1 DEF CreationTime
        <4>3. d.paidBy # NoValue => Body[e].at <= Body[d.paidBy].at
          BY <2>3, <2>o, <2>n DEF OrderTimes, PaidAfterCreated
        <4>4. OrderTimes(x, n)
          BY <2>3, <2>o, <2>n, <4>1, <4>2, <4>3 DEF OrderTimes
        <4> QED BY <1>2, <4>4 DEF Timed, n
      <3> QED BY <3>2, <3>3
    <2> QED BY <2>t, <2>1, <2>2, <2>3
  <1> QED BY <1>1, <1>2

\* A touch later than a conversion does not reach it.
LEMMA LateTouch ==
  ASSUME NEW x \in Dependents, NEW d \in DependentRows, NEW v \in Visitors,
         NEW t \in Touches, Timed(x, d), ConversionOf(x, d) # NoValue,
         AsOf(d) < At(t)
  PROVE  ~Due(d, v, t)
  <1>1. At(t) \in Nat
    BY BodyFields DEF At, Touches
  <1>2. /\ d.createdAt \in Nat \cup {NoValue}
        /\ d.paidBy \in Events \cup {NoValue}
        /\ \A f \in Events : Body[f].at \in Nat
    BY RowFields, BodyFields
  <1> QED BY <1>1, <1>2 DEF Timed, OrderTimes, Uncreated, ConversionOf, AsOf, Due

\* No order is created or paid initially.
LEMMA InitTimes == Init => TimesInv
  <1> SUFFICES ASSUME Init PROVE TimesInv
    OBVIOUS
  <1>1. \A x \in Dependents : dep[x] = StubRow
    BY DEF Init
  <1> QED BY <1>1, InitTypeInv DEF TimesInv, Timed, OrderTimes, Uncreated, StubRow

\* Every step keeps the times.
LEMMA NextTimes ==
  ASSUME PaidAfterCreated
  PROVE  TimesInv /\ [Next]_vars => TimesInv'
  <1> SUFFICES ASSUME TimesInv, [Next]_vars PROVE TimesInv'
    OBVIOUS
  <1>i. TypeInv /\ TypeOK /\ SeenInv /\ \A x \in Dependents : Timed(x, dep[x])
    BY DEF TimesInv, TypeInv
  <1>t. TypeInv' /\ dep' \in [Dependents -> DependentRows]
    BY <1>i, NextTypeInv DEF TypeInv, TypeOK
  <1>u. UNCHANGED dep => TimesInv'
    BY <1>i, <1>t DEF TimesInv
  <1>1. ASSUME NEW e \in Events, Commit(e), Body[e].type # "session_started"
        PROVE  TimesInv'
    <2>1. dep' = [dep EXCEPT ![Body[e].subject] = Handled(@, e, seen[e])]
      BY <1>1 DEF Commit, ProjectDependent
    <2>2. seen[e] \in VisitorRows
      BY <1>i DEF TypeOK
    <2>3. ASSUME NEW x \in Dependents PROVE Timed(x, dep'[x])
      <3>1. dep[x] \in DependentRows
        BY <1>i DEF TypeOK
      <3>2. dep'[x] = IF x = Body[e].subject THEN Handled(dep[x], e, seen[e])
                                             ELSE dep[x]
        BY <1>i, <2>1 DEF TypeOK
      <3>3. CASE x = Body[e].subject
        <4>1. Timed(x, Handled(dep[x], e, seen[e]))
          BY <1>1, <1>i, <2>2, <3>1, <3>3, HandledTimed
        <4> QED BY <3>2, <3>3, <4>1
      <3>4. CASE x # Body[e].subject
        BY <1>i, <3>2, <3>4
      <3> QED BY <3>3, <3>4
    <2> QED BY <1>t, <2>3 DEF TimesInv
  <1>2. ASSUME NEW e \in Events, Commit(e), Body[e].type = "session_started"
        PROVE  TimesInv'
    <2> DEFINE v == Body[e].visitor
               t == TouchOf(e, seen[e])
               w == WithTouch(seen[e], t)
    <2>1. \/ UNCHANGED dep
          \/ dep' = [x \in Dependents |-> Refreshed(dep[x], v, w, t)]
      BY <1>2 DEF Commit, ProjectSession
    <2>2. v \in Visitors /\ t \in Touches /\ seen[e] \in VisitorRows
      BY <1>2, <1>i, BodyFields, VisitorAssumption, TouchTypes DEF TypeOK
    <2> HIDE DEF v, t
    <2>3. w \in VisitorRows
      BY <2>2, TouchTypes
    <2> HIDE DEF w
    <2>4. CASE dep' = [x \in Dependents |-> Refreshed(dep[x], v, w, t)]
      <3>1. ASSUME NEW x \in Dependents PROVE Timed(x, dep'[x])
        <4>1. dep[x] \in DependentRows /\ dep'[x] \in DependentRows
          BY <1>i, <1>t DEF TypeOK
        <4>2. Kept(dep[x], dep'[x]) /\ (~Due(dep[x], v, t) => dep'[x] = dep[x])
          BY <2>2, <2>3, <2>4, <4>1, RefreshedColumns
        <4>3. dep[x].createdAt = NoValue /\ dep[x].paidBy = NoValue =>
                ~Due(dep[x], v, t)
          BY DEF Due
        <4> QED BY <1>i, <4>1, <4>2, <4>3, KeptTimed
      <3> QED BY <1>t, <3>1 DEF TimesInv
    <2> QED BY <1>u, <2>1, <2>4
  <1>3. ASSUME NEW v \in Visitors, Anonymize(v) PROVE TimesInv'
    <2>1. ASSUME NEW x \in Dependents PROVE Timed(x, dep'[x])
      <3>1. /\ dep[x] \in DependentRows /\ dep'[x] \in DependentRows
            /\ dep[x].first \in SomeTouch /\ dep[x].last \in SomeTouch
        BY <1>i, <1>t, RowFields DEF TypeOK
      <3>2. dep'[x] = IF dep[x].visitor = v THEN Forgotten(dep[x]) ELSE dep[x]
        BY <1>3 DEF Anonymize
      <3>3. CASE dep[x].visitor = v
        <4>1. /\ Kept(dep[x], dep'[x])
              /\ dep'[x].first = Erase(dep[x].first)
              /\ dep'[x].last = Erase(dep[x].last)
          BY <3>1, <3>2, <3>3, ForgottenKept, ForgottenDependent
        <4> QED BY <1>i, <3>1, <4>1, EraseTouch, KeptTimed
      <3>4. CASE dep[x].visitor # v
        BY <1>i, <3>2, <3>4
      <3> QED BY <3>3, <3>4
    <2> QED BY <1>t, <2>1 DEF TimesInv
  <1>4. ASSUME NEW e \in Events, Begin(e) \/ Rollback(e) \/ SendAgain(e)
        PROVE  TimesInv'
    BY <1>4, <1>u DEF Begin, Rollback, SendAgain, tables
  <1>5. CASE UNCHANGED vars
    BY <1>5, <1>u DEF vars
  <1> QED BY <1>1, <1>2, <1>3, <1>4, <1>5 DEF Next, Ingest

\* A session that is later than a conversion leaves its row as it is.
LEMMA LateSessionStep ==
  ASSUME TimesInv, [Next]_vars, NEW e \in Events, NEW x \in Dependents,
         Body[e].type = "session_started",
         journal[e] = "absent", journal'[e] # "absent",
         Conversion(x) # NoValue, AsOf(dep[x]) < Body[e].at
  PROVE  dep'[x] = dep[x]
  <1>i. TypeOK /\ SeenInv /\ Timed(x, dep[x])
    BY DEF TimesInv, TypeInv
  <1>1. Commit(e)
    <2>1. UNCHANGED journal => FALSE
      OBVIOUS
    <2>2. ASSUME NEW f \in Events, Commit(f) PROVE f = e
      BY <2>2, <1>i DEF Commit, TypeOK
    <2>3. \A v \in Visitors : ~Anonymize(v)
      BY <1>i DEF Anonymize, TypeOK
    <2> QED
      BY <2>1, <2>2, <2>3
      DEF Next, Ingest, Begin, Rollback, SendAgain, tables, vars
  <1> DEFINE v == Body[e].visitor
             t == TouchOf(e, seen[e])
             w == WithTouch(seen[e], t)
  <1>2. \/ UNCHANGED dep
        \/ dep' = [y \in Dependents |-> Refreshed(dep[y], v, w, t)]
    BY <1>1 DEF Commit, ProjectSession
  <1>3. /\ v \in Visitors /\ t \in Touches /\ t.of = e
        /\ seen[e] \in VisitorRows /\ dep[x] \in DependentRows
    BY <1>i, BodyFields, VisitorAssumption, TouchTypes DEF TypeOK
  <1> HIDE DEF v, t
  <1>4. w \in VisitorRows
    BY <1>3, TouchTypes
  <1> HIDE DEF w
  <1>5. ~Due(dep[x], v, t)
    BY <1>i, <1>3, LateTouch DEF At, Conversion, ConversionOf
  <1> QED BY <1>2, <1>3, <1>4, <1>5, RefreshedColumns

\* A session that comes after a conversion, and is later than it, leaves its
\* snapshot as it is (LateSessionFreezes), where no order is paid before it is
\* created.
THEOREM LateSessionFreezesAlways ==
  ASSUME PaidAfterCreated
  PROVE  Spec => LateSessionFreezes
  <1>1. TimesInv /\ [Next]_vars =>
          \A e \in Events, x \in Dependents :
            /\ Body[e].type = "session_started"
            /\ journal[e] = "absent" /\ journal'[e] # "absent"
            /\ Conversion(x) # NoValue /\ AsOf(dep[x]) < Body[e].at
            => dep'[x] = dep[x]
    BY LateSessionStep
  <1>2. TimesInv /\ [Next]_vars => TimesInv'
    BY NextTimes
  <1> QED BY <1>1, <1>2, InitTimes, PTL DEF Spec, LateSessionFreezes
=============================================================================
