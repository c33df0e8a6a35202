--------------------------- MODULE RowLocks_proofs ---------------------------
(***************************************************************************)
(* Theorems about RowLocks for any rows and any number of transactions.    *)
(*                                                                         *)
(* What a transaction asks for is given a level, and what it holds a level *)
(* that all it still asks for has at least reached: transactions lock      *)
(* upwards.  The one request out of line is the key share lock on the      *)
(* visitor's row, which a new session takes early and a changed dependent  *)
(* late.  In a circle of transactions each would wait at a lower level     *)
(* than another, unless a new session's share of the visitor's row is what *)
(* the other has to wait for.                                              *)
(***************************************************************************)
EXTENDS RowLocks, TLAPS, FiniteSetTheorems, SequenceTheorems

-----------------------------------------------------------------------------
(* Requests and their levels *)

\* The rows that an event names, each of which has a stub.
Named(e) == {e.visitor, e.session, e.lead, e.order, e.sale} \ {None}

\* The rows that can belong to the visitor of e.
Owned(w, e) == {r \in Sessions \cup Dependents : e.visitor \in Owners(w, r)}

\* The requests of a program.
Planned(e) ==
  [mode : {"insert"}, row : (Named(e) \cup {e.fact}) \ {None}]
  \cup [mode : {"update"}, row : Named(e)]
  \cup [mode : {"key_share"}, row : Named(e) \ Sales]
  \cup [mode : {"select"}, table : {Sessions, Leads, Orders, Sales},
        of : {e.visitor} \cap Visitors]
  \cup {[mode |-> "rule"], [mode |-> "returned"]}

\* Those of a transaction under way, which may have found rows to write.
Requests(w, e) ==
  Planned(e) \cup [mode : {"no_key_update"}, row : Owned(w, e)]

RowRequests(w, e) == {q \in Requests(w, e) : q.mode \notin {"select", "rule", "returned"}}

\* The requests for rows that q turns into.
Asks(e, q) ==
  CASE q.mode = "insert" ->
         {q} \cup {References(e, q.row)[i] : i \in DOMAIN References(e, q.row)}
    [] q.mode = "select" -> {[mode |-> "no_key_update", row |-> r] : r \in q.table}
    [] OTHER -> {q}

\* The level at which a transaction waits that asks for q.
At(q) ==
  CASE q.mode = "insert" ->
         (CASE q.row \in Visitors -> 1 [] q.row \in Sessions -> 2
            [] q.row \in Leads -> 3 [] q.row \in Orders -> 4
            [] q.row \in Sales -> 5 [] OTHER -> 12)
    [] q.mode = "update" ->
         (CASE q.row \in Visitors -> 6 [] q.row \in Sessions -> 7 [] OTHER -> 8)
    [] q.mode = "no_key_update" ->
         (CASE q.row \in Sessions -> 7 [] q.row \in Leads -> 9
            [] q.row \in Orders -> 10 [] OTHER -> 11)
    [] q.mode = "key_share" ->
         (CASE q.row \in Visitors -> 6 [] q.row \in Orders -> 13
            [] q.row \in Leads -> 14 [] OTHER -> 15)
    [] OTHER -> 16

\* The level below which a transaction that has q asks for nothing more.
Past(q) ==
  CASE q.mode = "insert" ->
         (CASE q.row \in Visitors -> 2 [] q.row \in Sessions -> 3
            [] q.row \in Leads -> 4 [] q.row \in Orders -> 5
            [] q.row \in Sales -> 6 [] OTHER -> 13)
    [] q.mode = "update" ->
         (CASE q.row \in Visitors -> 7 [] q.row \in Sessions -> 9
            [] q.row \in Leads -> 15 [] OTHER -> 14)
    [] q.mode = "no_key_update" ->
         (CASE q.row \in Sessions -> 7 [] q.row \in Leads -> 9
            [] q.row \in Orders -> 10 [] OTHER -> 11)
    [] q.mode = "key_share" ->
         (CASE q.row \in Visitors -> 3 [] q.row \in Sessions -> 14 [] OTHER -> 16)
    [] OTHER -> 7

SharesVisitor(q) == q.mode = "key_share" /\ q.row \in Visitors

Precedes(a, b) == SharesVisitor(b) \/ Past(a) <= At(b)

InOrder(e, q) ==
  \A i, j \in DOMAIN q :
    i < j => \A a \in Asks(e, q[i]), b \in Asks(e, q[j]) : Precedes(a, b)

-----------------------------------------------------------------------------
(* The invariant *)

Granted(lock) == [mode |-> lock[1], row |-> lock[2]]
Locking(row) == [mode |-> "update", row |-> row]

\* Locks are ones that e asks for, and what it still asks for comes after them.
Upwards(w, e) ==
  /\ todo[e] \in Seq(Requests(w, e))
  /\ InOrder(e, todo[e])
  /\ \A lock \in held[e] :
       /\ lock = <<lock[1], lock[2]>> /\ Granted(lock) \in RowRequests(w, e)
       /\ \A i \in DOMAIN todo[e] : \A b \in Asks(e, todo[e][i]) :
            Precedes(Granted(lock), b)

\* The visitor's row is locked, or will be.
VisitorLocked(e) ==
  e.visitor # None =>
    \/ <<"update", e.visitor>> \in held[e]
    \/ \E i \in DOMAIN todo[e] : todo[e][i] = Locking(e.visitor)

\* Every row that e names is there, or will be.
Stubbed(e) ==
  e.type # "anonymize" =>
    \A r \in Named(e) :
      \/ r \in rows \cup Inserted(e)
      \/ \E i \in DOMAIN todo[e] : todo[e][i] = [mode |-> "insert", row |-> r]

\* A visitor's row is shared before it is locked only for a new session.
SharedForSession(e) ==
  Inserted(e) \cap Sessions = {} =>
    /\ \A i, j \in DOMAIN todo[e] :
         i < j /\ SharesVisitor(todo[e][i]) => todo[e][j] # Locking(e.visitor)
    /\ <<"key_share", e.visitor>> \in held[e] =>
         \A i \in DOMAIN todo[e] : todo[e][i] # Locking(e.visitor)

\* Rows of a visitor are written once they have been found.
WritesFound(e) ==
  \A i \in DOMAIN todo[e] :
    todo[e][i].mode = "no_key_update" => todo[e][i].row \in rows

Disciplined(w, e) ==
  /\ Upwards(w, e) /\ VisitorLocked(e) /\ Stubbed(e)
  /\ SharedForSession(e) /\ WritesFound(e)

OwnersKnown(w) ==
  /\ DOMAIN owner = Sessions \cup Dependents
  /\ \A r \in DOMAIN owner : owner[r] \in Owners(w, r) \cup {None}

LockInv(w) ==
  /\ DOMAIN todo = w.events /\ OwnersKnown(w)
  /\ \A e \in running : Disciplined(w, e)

Inv == TypeOK /\ \E w \in Workloads : LockInv(w)

-----------------------------------------------------------------------------
(* Sequences of requests *)

\* What follows the head of a sequence.
LEMMA TailOf ==
  ASSUME NEW S, NEW q \in Seq(S), q # <<>>
  PROVE  /\ Head(q) \in S /\ Tail(q) \in Seq(S)
         /\ 1 \in DOMAIN q /\ q[1] = Head(q)
         /\ \A i \in DOMAIN Tail(q) :
              i + 1 \in DOMAIN q /\ 1 < i + 1 /\ Tail(q)[i] = q[i + 1]
         /\ \A i \in DOMAIN q : i = 1 \/ \E j \in DOMAIN Tail(q) : i = j + 1
<1>1. Head(q) \in S /\ Tail(q) \in Seq(S) /\ Len(q) \in Nat \ {0}
  BY HeadTailProperties, EmptySeq
<1>2. DOMAIN q = 1 .. Len(q) /\ DOMAIN Tail(q) = 1 .. Len(q) - 1
  BY <1>1, HeadTailProperties, LenProperties
<1>3. \A i \in 1 .. Len(q) - 1 : Tail(q)[i] = q[i + 1]
  BY HeadTailProperties
<1>4. \A i \in DOMAIN q : i = 1 \/ (i - 1 \in DOMAIN Tail(q) /\ i = (i - 1) + 1)
  BY <1>1, <1>2
<1> QED BY <1>1, <1>2, <1>3, <1>4

\* An element of p \o q is one of p, or one of q and after those of p.
LEMMA Joined ==
  ASSUME NEW S, NEW p \in Seq(S), NEW q \in Seq(S)
  PROVE  /\ p \o q \in Seq(S)
         /\ \A i \in DOMAIN p : i \in DOMAIN (p \o q) /\ (p \o q)[i] = p[i]
         /\ \A i \in DOMAIN q :
              Len(p) + i \in DOMAIN (p \o q) /\ (p \o q)[Len(p) + i] = q[i]
         /\ \A i \in DOMAIN (p \o q) :
              \/ i \in DOMAIN p
              \/ i - Len(p) \in DOMAIN q /\ (p \o q)[i] = q[i - Len(p)]
         /\ \A i, j \in DOMAIN (p \o q) : i < j =>
              \/ i \in DOMAIN p /\ j \in DOMAIN p
              \/ i \in DOMAIN p /\ j - Len(p) \in DOMAIN q
              \/ /\ i - Len(p) \in DOMAIN q /\ j - Len(p) \in DOMAIN q
                 /\ i - Len(p) < j - Len(p)
<1>1. /\ p \o q \in Seq(S) /\ Len(p) \in Nat /\ Len(q) \in Nat
      /\ DOMAIN p = 1 .. Len(p) /\ DOMAIN q = 1 .. Len(q)
      /\ DOMAIN (p \o q) = 1 .. Len(p) + Len(q)
  BY ConcatProperties, LenProperties
<1>2. \A i \in 1 .. Len(p) + Len(q) :
        (p \o q)[i] = IF i <= Len(p) THEN p[i] ELSE q[i - Len(p)]
  BY ConcatProperties
<1>3. \A i \in DOMAIN p : i \in DOMAIN (p \o q) /\ (p \o q)[i] = p[i]
  BY <1>1, <1>2
<1>4. ASSUME NEW i \in DOMAIN q
      PROVE  Len(p) + i \in DOMAIN (p \o q) /\ (p \o q)[Len(p) + i] = q[i]
  <2>1. /\ Len(p) + i \in 1 .. Len(p) + Len(q) /\ ~(Len(p) + i <= Len(p))
        /\ (Len(p) + i) - Len(p) = i
    BY <1>1
  <2> QED BY <1>1, <1>2, <2>1
<1>5. ASSUME NEW i \in DOMAIN (p \o q), i \notin DOMAIN p
      PROVE  i - Len(p) \in DOMAIN q /\ (p \o q)[i] = q[i - Len(p)]
  <2>1. ~(i <= Len(p)) /\ i - Len(p) \in 1 .. Len(q)
    BY <1>1, <1>5
  <2> QED BY <1>1, <1>2, <2>1
<1>6. \A i, j \in DOMAIN (p \o q) : i < j =>
        \/ i \in DOMAIN p /\ j \in DOMAIN p
        \/ i \in DOMAIN p /\ j - Len(p) \in DOMAIN q
        \/ /\ i - Len(p) \in DOMAIN q /\ j - Len(p) \in DOMAIN q
           /\ i - Len(p) < j - Len(p)
  BY <1>1
<1> QED BY <1>1, <1>3, <1>4, <1>5, <1>6

LEMMA Levels == \A q : At(q) \in 1 .. 16 /\ Past(q) \in 2 .. 16
BY DEF At, Past

\* A part of a program, between two levels.
Span(e, q, lo, hi) ==
  /\ q \in Seq(Planned(e)) /\ InOrder(e, q)
  /\ \A i \in DOMAIN q : \A a \in Asks(e, q[i]) :
       (SharesVisitor(a) \/ lo <= At(a)) /\ Past(a) <= hi

LEMMA SpanJoin ==
  ASSUME NEW e, NEW p, NEW q, NEW lo \in Nat, NEW mid \in Nat, NEW hi \in Nat,
         lo <= mid, mid <= hi, Span(e, p, lo, mid), Span(e, q, mid, hi)
  PROVE  Span(e, p \o q, lo, hi)
<1> DEFINE pq == p \o q
<1>s. p \in Seq(Planned(e)) /\ q \in Seq(Planned(e))
  BY DEF Span
<1>j. /\ pq \in Seq(Planned(e))
      /\ \A i \in DOMAIN p : i \in DOMAIN pq /\ pq[i] = p[i]
      /\ \A i \in DOMAIN pq :
           i \in DOMAIN p \/ (i - Len(p) \in DOMAIN q /\ pq[i] = q[i - Len(p)])
      /\ \A i, j \in DOMAIN pq : i < j =>
           \/ i \in DOMAIN p /\ j \in DOMAIN p
           \/ i \in DOMAIN p /\ j - Len(p) \in DOMAIN q
           \/ /\ i - Len(p) \in DOMAIN q /\ j - Len(p) \in DOMAIN q
              /\ i - Len(p) < j - Len(p)
  BY <1>s, Joined
<1>q. \A i \in DOMAIN pq : i - Len(p) \in DOMAIN q => pq[i] = q[i - Len(p)]
  BY <1>s, ConcatProperties, LenProperties
<1>l. /\ \A i \in DOMAIN p : \A a \in Asks(e, p[i]) :
           (SharesVisitor(a) \/ lo <= At(a)) /\ Past(a) <= mid
      /\ \A i \in DOMAIN q : \A a \in Asks(e, q[i]) :
           (SharesVisitor(a) \/ mid <= At(a)) /\ Past(a) <= hi
  BY DEF Span
<1> HIDE DEF pq
<1>1. ASSUME NEW i \in DOMAIN pq, NEW a \in Asks(e, pq[i])
      PROVE  (SharesVisitor(a) \/ lo <= At(a)) /\ Past(a) <= hi
  <2>1. At(a) \in Nat /\ Past(a) \in Nat
    BY Levels
  <2>2. \/ (SharesVisitor(a) \/ lo <= At(a)) /\ Past(a) <= mid
        \/ (SharesVisitor(a) \/ mid <= At(a)) /\ Past(a) <= hi
    BY <1>j, <1>l
  <2> QED BY <2>1, <2>2
<1>2. ASSUME NEW i \in DOMAIN pq, NEW j \in DOMAIN pq, i < j,
             NEW a \in Asks(e, pq[i]), NEW b \in Asks(e, pq[j])
      PROVE  Precedes(a, b)
  <2>1. CASE i \in DOMAIN p /\ j \in DOMAIN p
    BY <2>1, <1>2, <1>j DEF Span, InOrder
  <2>2. CASE i \in DOMAIN p /\ j - Len(p) \in DOMAIN q
    <3>1. Past(a) <= mid /\ (SharesVisitor(b) \/ mid <= At(b))
      BY <2>2, <1>2, <1>j, <1>q, <1>l
    <3>2. Past(a) \in Nat /\ At(b) \in Nat
      BY Levels
    <3> QED BY <3>1, <3>2 DEF Precedes
  <2>3. CASE /\ i - Len(p) \in DOMAIN q /\ j - Len(p) \in DOMAIN q
             /\ i - Len(p) < j - Len(p)
    <3>1. pq[i] = q[i - Len(p)] /\ pq[j] = q[j - Len(p)]
      BY <2>3, <1>q
    <3> QED BY <2>3, <3>1, <1>2 DEF Span, InOrder
  <2> QED BY <1>2, <2>1, <2>2, <2>3, <1>j
<1> QED BY <1>1, <1>2, <1>j DEF Span, InOrder, pq

LEMMA SpanNone ==
  ASSUME NEW e, NEW lo, NEW hi
  PROVE  Span(e, <<>>, lo, hi)
BY EmptySeq DEF Span, InOrder

LEMMA SpanOne ==
  ASSUME NEW e, NEW lo, NEW hi, NEW q \in Planned(e),
         \A a \in Asks(e, q) : (SharesVisitor(a) \/ lo <= At(a)) /\ Past(a) <= hi
  PROVE  Span(e, <<q>>, lo, hi)
<1>1. <<q>> \in Seq(Planned(e)) /\ DOMAIN <<q>> = {1} /\ <<q>>[1] = q
  OBVIOUS
<1> QED BY <1>1 DEF Span, InOrder

-----------------------------------------------------------------------------
(* Programs lock upwards *)

\* The rows an event names are of the tables that their columns refer to.
LEMMA Columns ==
  ASSUME NEW w \in Workloads, NEW e \in w.events
  PROVE  /\ e.visitor \in Visitors \cup {None} /\ e.session \in Sessions \cup {None}
         /\ e.lead \in Leads \cup {None} /\ e.order \in Orders \cup {None}
         /\ e.sale \in Sales \cup {None} /\ e.fact \in Facts \cup {None}
         /\ e.session # None => e.visitor # None
         /\ e.type \in {"session_started", "anonymize"} => e.visitor # None
         /\ None \notin Rows
BY RowLocksAssumption

LEMMA Tables ==
  /\ Visitors \cap Sessions = {} /\ Visitors \cap Leads = {} /\ Visitors \cap Orders = {}
  /\ Visitors \cap Sales = {} /\ Visitors \cap Facts = {} /\ Sessions \cap Leads = {}
  /\ Sessions \cap Orders = {} /\ Sessions \cap Sales = {} /\ Sessions \cap Facts = {}
  /\ Leads \cap Orders = {} /\ Leads \cap Sales = {} /\ Leads \cap Facts = {}
  /\ Orders \cap Sales = {} /\ Orders \cap Facts = {} /\ Sales \cap Facts = {}
  /\ None \notin Visitors \cup Sessions \cup Leads \cup Orders \cup Sales \cup Facts
BY RowLocksAssumption DEF Dependents, Rows

LEMMA InsertLevels ==
  ASSUME NEW row
  PROVE  LET q == [mode |-> "insert", row |-> row]
         IN  /\ row \in Visitors => At(q) = 1 /\ Past(q) = 2
             /\ row \in Sessions => At(q) = 2 /\ Past(q) = 3
             /\ row \in Leads => At(q) = 3 /\ Past(q) = 4
             /\ row \in Orders => At(q) = 4 /\ Past(q) = 5
             /\ row \in Sales => At(q) = 5 /\ Past(q) = 6
             /\ row \in Facts => At(q) = 12 /\ Past(q) = 13
BY Tables DEF At, Past

LEMMA UpdateLevels ==
  ASSUME NEW row
  PROVE  LET q == [mode |-> "update", row |-> row]
         IN  /\ row \in Visitors => At(q) = 6 /\ Past(q) = 7
             /\ row \in Sessions => At(q) = 7 /\ Past(q) = 9
             /\ row \in Leads => At(q) = 8 /\ Past(q) = 15
             /\ row \in Orders \cup Sales => At(q) = 8 /\ Past(q) = 14
BY Tables DEF At, Past

LEMMA WriteLevels ==
  ASSUME NEW row
  PROVE  LET q == [mode |-> "no_key_update", row |-> row]
         IN  /\ row \in Sessions => At(q) = 7 /\ Past(q) = 7
             /\ row \in Leads => At(q) = 9 /\ Past(q) = 9
             /\ row \in Orders => At(q) = 10 /\ Past(q) = 10
             /\ row \in Sales => At(q) = 11 /\ Past(q) = 11
BY Tables DEF At, Past

LEMMA ShareLevels ==
  ASSUME NEW row
  PROVE  LET q == [mode |-> "key_share", row |-> row]
         IN  /\ row \in Visitors => At(q) = 6 /\ Past(q) = 3 /\ SharesVisitor(q)
             /\ row \in Orders => At(q) = 13 /\ Past(q) = 16
             /\ row \in Leads => At(q) = 14 /\ Past(q) = 16
             /\ row \in Sessions => At(q) = 15 /\ Past(q) = 14
BY Tables DEF At, Past, SharesVisitor

LEMMA RequestSpan ==
  ASSUME NEW e, NEW mode, NEW row, NEW lo, NEW hi,
         row # None =>
           /\ [mode |-> mode, row |-> row] \in Planned(e)
           /\ \A a \in Asks(e, [mode |-> mode, row |-> row]) :
                (SharesVisitor(a) \/ lo <= At(a)) /\ Past(a) <= hi
  PROVE  Span(e, Request(mode, row), lo, hi)
BY SpanNone, SpanOne DEF Request

\* A key share lock on a row that the event names.
LEMMA ShareSpan ==
  ASSUME NEW w \in Workloads, NEW e \in w.events,
         NEW lo \in Nat, NEW hi \in Nat
  PROVE  /\ 3 <= hi => Span(e, Request("key_share", e.visitor), lo, hi)
         /\ lo <= 13 /\ 16 <= hi => Span(e, Request("key_share", e.order), lo, hi)
         /\ lo <= 14 /\ 16 <= hi => Span(e, Request("key_share", e.lead), lo, hi)
         /\ lo <= 15 /\ 14 <= hi => Span(e, Request("key_share", e.session), lo, hi)
<1>c. /\ e.visitor \in Visitors \cup {None} /\ e.session \in Sessions \cup {None}
      /\ e.lead \in Leads \cup {None} /\ e.order \in Orders \cup {None}
      /\ Sales \cap (Visitors \cup Sessions \cup Leads \cup Orders) = {}
  BY Columns, Tables
<1> DEFINE ks(row) == [mode |-> "key_share", row |-> row]
<1>a. \A row : Asks(e, ks(row)) = {ks(row)}
  BY DEF Asks
<1>r. ASSUME NEW row \in {e.visitor, e.session, e.lead, e.order}, row # None
      PROVE  ks(row) \in Planned(e)
  <2>1. row \in Named(e) \ Sales
    BY <1>r, <1>c DEF Named
  <2> QED BY <2>1 DEF Planned
<1>s. ASSUME NEW row \in {e.visitor, e.session, e.lead, e.order},
             row # None => /\ SharesVisitor(ks(row)) \/ lo <= At(ks(row))
                           /\ Past(ks(row)) <= hi
      PROVE  Span(e, Request("key_share", row), lo, hi)
  <2>1. row # None =>
          /\ ks(row) \in Planned(e)
          /\ \A a \in Asks(e, ks(row)) :
               (SharesVisitor(a) \/ lo <= At(a)) /\ Past(a) <= hi
    BY <1>s, <1>r, <1>a
  <2> HIDE DEF ks
  <2> QED BY <2>1, RequestSpan DEF ks
<1>1. e.visitor # None => SharesVisitor(ks(e.visitor)) /\ Past(ks(e.visitor)) = 3
  BY <1>c, ShareLevels
<1>2. e.order # None => At(ks(e.order)) = 13 /\ Past(ks(e.order)) = 16
  BY <1>c, ShareLevels
<1>3. e.lead # None => At(ks(e.lead)) = 14 /\ Past(ks(e.lead)) = 16
  BY <1>c, ShareLevels
<1>4. e.session # None => At(ks(e.session)) = 15 /\ Past(ks(e.session)) = 14
  BY <1>c, ShareLevels
<1> HIDE DEF ks
<1>5. ASSUME 3 <= hi PROVE Span(e, Request("key_share", e.visitor), lo, hi)
  BY <1>5, <1>s, <1>1
<1>6. ASSUME lo <= 13, 16 <= hi PROVE Span(e, Request("key_share", e.order), lo, hi)
  BY <1>6, <1>s, <1>2
<1>7. ASSUME lo <= 14, 16 <= hi PROVE Span(e, Request("key_share", e.lead), lo, hi)
  BY <1>7, <1>s, <1>3
<1>8. ASSUME lo <= 15, 14 <= hi PROVE Span(e, Request("key_share", e.session), lo, hi)
  BY <1>8, <1>s, <1>4
<1> QED BY <1>5, <1>6, <1>7, <1>8

\* What the foreign keys of a new row lock.
LEMMA ReferencesSpan ==
  ASSUME NEW w \in Workloads, NEW e \in w.events, NEW row
  PROVE  /\ row \in Sessions => Span(e, References(e, row), 3, 3)
         /\ row \in Facts => Span(e, References(e, row), 13, 16)
         /\ row \notin Sessions \cup Facts => References(e, row) = <<>>
         /\ \A i \in DOMAIN References(e, row) : References(e, row)[i].mode = "key_share"
<1> DEFINE R == References(e, row)
           Shares(q) == \A i \in DOMAIN q : q[i].mode = "key_share"
<1>r. ASSUME NEW r PROVE Shares(Request("key_share", r))
  <2>1. CASE r = None
    BY <2>1 DEF Request
  <2>2. CASE r # None
    <3> DEFINE q == [mode |-> "key_share", row |-> r]
    <3>1. Request("key_share", r) = <<q>> /\ q.mode = "key_share"
      BY <2>2 DEF Request
    <3> HIDE DEF q
    <3> QED BY <3>1
  <2> QED BY <2>1, <2>2
<1>j. ASSUME NEW p \in Seq(Planned(e)), NEW q \in Seq(Planned(e)),
             Shares(p), Shares(q)
      PROVE  Shares(p \o q)
  <2> DEFINE pq == p \o q
  <2>1. ASSUME NEW i \in DOMAIN pq PROVE pq[i].mode = "key_share"
    <3>1. \/ i \in DOMAIN p /\ pq[i] = p[i]
          \/ i - Len(p) \in DOMAIN q /\ pq[i] = q[i - Len(p)]
      BY Joined
    <3> QED BY <3>1, <1>j
  <2> QED BY <2>1
<1>s. \A q, lo, hi : Span(e, q, lo, hi) => q \in Seq(Planned(e))
  BY DEF Span
<1> HIDE DEF Shares
<1> SUFFICES /\ row \in Sessions => Span(e, R, 3, 3)
             /\ row \in Facts => Span(e, R, 13, 16)
             /\ row \notin Sessions \cup Facts => R = <<>>
             /\ Shares(R)
  BY DEF Shares
<1> HIDE DEF R
<1>1. CASE row \in Sessions
  <2>1. R = Request("key_share", e.visitor) /\ row \notin Facts
    BY <1>1, Tables DEF References, R
  <2>2. Span(e, Request("key_share", e.visitor), 3, 3)
    BY ShareSpan
  <2> QED BY <1>1, <2>1, <2>2, <1>r
<1>2. CASE row \in Facts /\ e.type \in {"contact_received", "customer_linked"}
  <2>1. R = Request("key_share", e.visitor) \o Request("key_share", e.lead)
    BY <1>2, Tables DEF References, R
  <2>2. /\ Span(e, Request("key_share", e.visitor), 13, 13)
        /\ Span(e, Request("key_share", e.lead), 13, 16)
    BY ShareSpan
  <2>3. Span(e, R, 13, 16)
    BY <2>1, <2>2, SpanJoin
  <2>4. Shares(R)
    BY <2>1, <2>2, <1>r, <1>j, <1>s
  <2> QED BY <1>2, <2>3, <2>4, Tables
<1>3. CASE row \in Facts /\ e.type = "refund_created"
  <2>1. R = Request("key_share", e.order)
    BY <1>3, Tables DEF References, R
  <2> QED BY <1>3, <2>1, <1>r, ShareSpan, Tables
<1>4. CASE row \in Facts
           /\ e.type \notin {"contact_received", "customer_linked", "refund_created"}
  <2>1. R = Request("key_share", e.visitor) \o Request("key_share", e.session)
    BY <1>4, Tables DEF References, R
  <2>2. /\ Span(e, Request("key_share", e.visitor), 13, 13)
        /\ Span(e, Request("key_share", e.session), 13, 16)
    BY ShareSpan
  <2>3. Span(e, R, 13, 16)
    BY <2>1, <2>2, SpanJoin
  <2>4. Shares(R)
    BY <2>1, <2>2, <1>r, <1>j, <1>s
  <2> QED BY <1>4, <2>3, <2>4, Tables
<1>5. CASE row \notin Sessions \cup Facts
  BY <1>5 DEF References, R, Shares
<1> QED BY <1>1, <1>2, <1>3, <1>4, <1>5

\* The insert of a row and what its foreign keys lock.
LEMMA InsertSpan ==
  ASSUME NEW w \in Workloads, NEW e \in w.events
  PROVE  /\ Span(e, Request("insert", e.visitor), 1, 2)
         /\ Span(e, Request("insert", e.session), 2, 3)
         /\ Span(e, Request("insert", e.lead), 3, 4)
         /\ Span(e, Request("insert", e.order), 4, 5)
         /\ Span(e, Request("insert", e.sale), 5, 6)
         /\ Span(e, Request("insert", e.fact), 7, 16)
<1>c. /\ e.visitor \in Visitors \cup {None} /\ e.session \in Sessions \cup {None}
      /\ e.lead \in Leads \cup {None} /\ e.order \in Orders \cup {None}
      /\ e.sale \in Sales \cup {None} /\ e.fact \in Facts \cup {None}
  BY Columns
<1> DEFINE ins(row) == [mode |-> "insert", row |-> row]
           Rs(row) == References(e, row)
<1>q. ASSUME NEW row \in {e.visitor, e.session, e.lead, e.order, e.sale, e.fact},
             row # None
      PROVE  ins(row) \in Planned(e)
  BY <1>q DEF Planned, Named
<1>a. ASSUME NEW row, NEW a \in Asks(e, ins(row))
      PROVE  a = ins(row) \/ \E i \in DOMAIN Rs(row) : a \in Asks(e, Rs(row)[i])
  <2>1. a = ins(row) \/ \E i \in DOMAIN Rs(row) : a = Rs(row)[i]
    BY <1>a DEF Asks
  <2>2. \A i \in DOMAIN Rs(row) : Rs(row)[i].mode = "key_share"
    BY ReferencesSpan
  <2>3. \A i \in DOMAIN Rs(row) : Asks(e, Rs(row)[i]) = {Rs(row)[i]}
    BY <2>2 DEF Asks
  <2> QED BY <2>1, <2>3
<1>s. ASSUME NEW row \in {e.visitor, e.session, e.lead, e.order, e.sale, e.fact},
             NEW lo \in Nat, NEW hi \in Nat,
             row # None =>
               /\ lo <= At(ins(row)) /\ Past(ins(row)) <= hi
               /\ \A i \in DOMAIN Rs(row) : \A a \in Asks(e, Rs(row)[i]) :
                    (SharesVisitor(a) \/ lo <= At(a)) /\ Past(a) <= hi
      PROVE  Span(e, Request("insert", row), lo, hi)
  <2>1. ASSUME row # None, NEW a \in Asks(e, ins(row))
        PROVE  (SharesVisitor(a) \/ lo <= At(a)) /\ Past(a) <= hi
    BY <2>1, <1>s, <1>a
  <2>2. row # None => ins(row) \in Planned(e)
    BY <1>q
  <2> HIDE DEF Rs
  <2> QED BY <2>1, <2>2, RequestSpan
<1>n. \A row : row \in Visitors \cup Leads \cup Orders \cup Sales => DOMAIN Rs(row) = {}
  <2>1. ASSUME NEW row \in Visitors \cup Leads \cup Orders \cup Sales
        PROVE  Rs(row) = <<>>
    BY ReferencesSpan, Tables
  <2> QED BY <2>1
<1>f. /\ e.session # None => Span(e, Rs(e.session), 3, 3)
      /\ e.fact # None => Span(e, Rs(e.fact), 13, 16)
  BY <1>c, ReferencesSpan
<1>g. ASSUME NEW row, NEW lo, NEW hi, Span(e, Rs(row), lo, hi)
      PROVE  \A i \in DOMAIN Rs(row) : \A a \in Asks(e, Rs(row)[i]) :
               (SharesVisitor(a) \/ lo <= At(a)) /\ Past(a) <= hi
  BY <1>g DEF Span
<1> HIDE DEF Rs, ins
<1>1. Span(e, Request("insert", e.visitor), 1, 2)
  BY <1>c, <1>s, <1>n, InsertLevels DEF ins
<1>2. Span(e, Request("insert", e.session), 2, 3)
  <2>1. e.session # None => At(ins(e.session)) = 2 /\ Past(ins(e.session)) = 3
    BY <1>c, InsertLevels DEF ins
  <2>2. e.session # None =>
          \A i \in DOMAIN Rs(e.session) : \A a \in Asks(e, Rs(e.session)[i]) :
            (SharesVisitor(a) \/ 2 <= At(a)) /\ Past(a) <= 3
    <3>1. \A x \in Nat : 3 <= x => 2 <= x
      OBVIOUS
    <3> QED BY <3>1, <1>f, <1>g, Levels
  <2> QED BY <2>1, <2>2, <1>s
<1>3. Span(e, Request("insert", e.lead), 3, 4)
  BY <1>c, <1>s, <1>n, InsertLevels DEF ins
<1>4. Span(e, Request("insert", e.order), 4, 5)
  BY <1>c, <1>s, <1>n, InsertLevels DEF ins
<1>5. Span(e, Request("insert", e.sale), 5, 6)
  BY <1>c, <1>s, <1>n, InsertLevels DEF ins
<1>6. Span(e, Request("insert", e.fact), 7, 16)
  <2>1. e.fact # None => At(ins(e.fact)) = 12 /\ Past(ins(e.fact)) = 13
    BY <1>c, InsertLevels DEF ins
  <2>2. e.fact # None =>
          \A i \in DOMAIN Rs(e.fact) : \A a \in Asks(e, Rs(e.fact)[i]) :
            (SharesVisitor(a) \/ 7 <= At(a)) /\ Past(a) <= 16
    <3>1. \A x \in Nat : 13 <= x => 7 <= x
      OBVIOUS
    <3> QED BY <3>1, <1>f, <1>g, Levels
  <2> QED BY <2>1, <2>2, <1>s
<1> QED BY <1>1, <1>2, <1>3, <1>4, <1>5, <1>6

\* The stubs of an event: all that it names, the visitor before the session.
LEMMA StubsSpan ==
  ASSUME NEW w \in Workloads, NEW e \in w.events
  PROVE  /\ Span(e, EnsureStubs(e), 1, 6)
         /\ \A i \in DOMAIN EnsureStubs(e) : EnsureStubs(e)[i].mode = "insert"
         /\ \A r \in Named(e) : \E i \in DOMAIN EnsureStubs(e) :
              EnsureStubs(e)[i] = [mode |-> "insert", row |-> r]
<1> DEFINE S == Planned(e)
           ins(row) == Request("insert", row)
           Inserts(q) == \A i \in DOMAIN q : q[i].mode = "insert"
           Has(q, r) == \E i \in DOMAIN q : q[i] = [mode |-> "insert", row |-> r]
           first == IF e.visitor = None THEN <<>> ELSE ins(e.visitor) \o ins(e.session)
           second == first \o ins(e.lead)
           third == second \o ins(e.order)
<1>s. /\ Span(e, ins(e.visitor), 1, 2) /\ Span(e, ins(e.session), 2, 3)
      /\ Span(e, ins(e.lead), 3, 4) /\ Span(e, ins(e.order), 4, 5)
      /\ Span(e, ins(e.sale), 5, 6)
  BY InsertSpan
<1>i. ASSUME NEW row PROVE Inserts(ins(row)) /\ (row # None => Has(ins(row), row))
  BY DEF Request
<1>q. \A q, lo, hi : Span(e, q, lo, hi) => q \in Seq(S)
  BY DEF Span
<1>j. ASSUME NEW p \in Seq(S), NEW q \in Seq(S), Inserts(p), Inserts(q)
      PROVE  /\ Inserts(p \o q)
             /\ \A r : Has(p, r) \/ Has(q, r) => Has(p \o q, r)
  <2> DEFINE pq == p \o q
  <2>1. \A i \in DOMAIN pq :
          (i \in DOMAIN p /\ pq[i] = p[i])
          \/ (i - Len(p) \in DOMAIN q /\ pq[i] = q[i - Len(p)])
    BY Joined
  <2>2. /\ \A i \in DOMAIN p : i \in DOMAIN pq /\ pq[i] = p[i]
        /\ \A i \in DOMAIN q : Len(p) + i \in DOMAIN pq /\ pq[Len(p) + i] = q[i]
    BY Joined
  <2> HIDE DEF pq
  <2>3. Inserts(pq)
    BY <2>1, <1>j
  <2>4. \A r : Has(p, r) \/ Has(q, r) => Has(pq, r)
    BY <2>2
  <2> QED BY <2>3, <2>4 DEF pq
<1> HIDE DEF ins, S, Inserts, Has
<1>0. Inserts(<<>>)
  BY DEF Inserts
<1>1. /\ Span(e, first, 1, 3) /\ Inserts(first)
      /\ \A r \in {e.visitor, e.session} : r # None => Has(first, r)
  <2>1. CASE e.visitor = None
    <3>1. first = <<>> /\ e.session = None
      BY <2>1, Columns
    <3> HIDE DEF first
    <3> QED BY <2>1, <3>1, <1>0, SpanNone
  <2>2. CASE e.visitor # None
    <3>1. first = ins(e.visitor) \o ins(e.session)
      BY <2>2
    <3> HIDE DEF first
    <3>2. Span(e, first, 1, 3)
      BY <3>1, <1>s, SpanJoin
    <3> QED BY <3>1, <3>2, <1>s, <1>i, <1>j, <1>q
  <2> QED BY <2>1, <2>2
<1> HIDE DEF first
<1>2. /\ Span(e, second, 1, 4) /\ Inserts(second)
      /\ \A r \in {e.visitor, e.session, e.lead} : r # None => Has(second, r)
  <2>1. Span(e, second, 1, 4)
    BY <1>1, <1>s, SpanJoin
  <2> QED BY <2>1, <1>1, <1>s, <1>i, <1>j, <1>q
<1> HIDE DEF second
<1>3. /\ Span(e, third, 1, 5) /\ Inserts(third)
      /\ \A r \in {e.visitor, e.session, e.lead, e.order} : r # None => Has(third, r)
  <2>1. Span(e, third, 1, 5)
    BY <1>2, <1>s, SpanJoin
  <2> QED BY <2>1, <1>2, <1>s, <1>i, <1>j, <1>q
<1> HIDE DEF third
<1>4. EnsureStubs(e) = third \o ins(e.sale)
  BY DEF EnsureStubs, third, second, first, ins
<1>5. Span(e, EnsureStubs(e), 1, 6)
  BY <1>3, <1>4, <1>s, SpanJoin
<1>6. /\ Inserts(EnsureStubs(e))
      /\ \A r \in {e.visitor, e.session, e.lead, e.order, e.sale} :
           r # None => Has(EnsureStubs(e), r)
  BY <1>3, <1>4, <1>s, <1>i, <1>j, <1>q
<1> QED BY <1>5, <1>6 DEF Named, Inserts, Has

LEMMA UpdateSpan ==
  ASSUME NEW w \in Workloads, NEW e \in w.events
  PROVE  /\ Span(e, Request("update", e.visitor), 6, 7)
         /\ Span(e, Request("update", e.session), 7, 9)
         /\ Span(e, Request("update", e.lead), 7, 15)
         /\ Span(e, Request("update", e.order), 7, 14)
         /\ Span(e, Request("update", e.sale), 7, 14)
<1>c. /\ e.visitor \in Visitors \cup {None} /\ e.session \in Sessions \cup {None}
      /\ e.lead \in Leads \cup {None} /\ e.order \in Orders \cup {None}
      /\ e.sale \in Sales \cup {None}
  BY Columns
<1> DEFINE up(row) == [mode |-> "update", row |-> row]
<1>s. ASSUME NEW row \in {e.visitor, e.session, e.lead, e.order, e.sale},
             NEW lo \in Nat, NEW hi \in Nat,
             row # None => lo <= At(up(row)) /\ Past(up(row)) <= hi
      PROVE  Span(e, Request("update", row), lo, hi)
  <2>1. Asks(e, up(row)) = {up(row)}
    BY DEF Asks
  <2>2. row # None => up(row) \in Planned(e)
    BY DEF Planned, Named
  <2> HIDE DEF up
  <2>3. row # None => /\ up(row) \in Planned(e)
                      /\ \A a \in Asks(e, up(row)) :
                           (SharesVisitor(a) \/ lo <= At(a)) /\ Past(a) <= hi
    BY <2>1, <2>2, <1>s
  <2> QED BY <2>3, RequestSpan DEF up
<1>1. e.visitor # None => At(up(e.visitor)) = 6 /\ Past(up(e.visitor)) = 7
  BY <1>c, UpdateLevels
<1>2. e.session # None => At(up(e.session)) = 7 /\ Past(up(e.session)) = 9
  BY <1>c, UpdateLevels
<1>3. e.lead # None => At(up(e.lead)) = 8 /\ Past(up(e.lead)) = 15
  BY <1>c, UpdateLevels
<1>4. e.order # None => At(up(e.order)) = 8 /\ Past(up(e.order)) = 14
  BY <1>c, UpdateLevels
<1>5. e.sale # None => At(up(e.sale)) = 8 /\ Past(up(e.sale)) = 14
  BY <1>c, UpdateLevels
<1> HIDE DEF up
<1> QED BY <1>s, <1>1, <1>2, <1>3, <1>4, <1>5

\* The rows of the visitor, table by table.
LEMMA SelectSpan ==
  ASSUME NEW w \in Workloads, NEW e \in w.events, e.visitor # None
  PROVE  /\ Span(e, WriteOwned(Sessions, e.visitor), 7, 9)
         /\ Span(e, WriteDependents(e.visitor), 9, 16)
<1>v. e.visitor \in Visitors
  BY Columns
<1> DEFINE sel(table) == [mode |-> "select", table |-> table, of |-> e.visitor]
           nku(row) == [mode |-> "no_key_update", row |-> row]
<1>s. ASSUME NEW table \in {Sessions, Leads, Orders, Sales},
             NEW lo \in Nat, NEW hi \in Nat,
             \A r \in table : lo <= At(nku(r)) /\ Past(nku(r)) <= hi
      PROVE  Span(e, WriteOwned(table, e.visitor), lo, hi)
  <2>1. Asks(e, sel(table)) = {nku(r) : r \in table}
    BY DEF Asks
  <2>2. sel(table) \in Planned(e)
    BY <1>v DEF Planned
  <2>3. WriteOwned(table, e.visitor) = <<sel(table)>>
    BY DEF WriteOwned
  <2> HIDE DEF sel, nku
  <2>4. \A a \in Asks(e, sel(table)) : lo <= At(a) /\ Past(a) <= hi
    BY <2>1, <1>s
  <2> QED BY <2>2, <2>3, <2>4, SpanOne
<1>t. /\ \A r \in Sessions : At(nku(r)) = 7 /\ Past(nku(r)) = 7
      /\ \A r \in Leads : At(nku(r)) = 9 /\ Past(nku(r)) = 9
      /\ \A r \in Orders : At(nku(r)) = 10 /\ Past(nku(r)) = 10
      /\ \A r \in Sales : At(nku(r)) = 11 /\ Past(nku(r)) = 11
  BY WriteLevels
<1> HIDE DEF nku
<1>1. Span(e, WriteOwned(Sessions, e.visitor), 7, 9)
  BY <1>s, <1>t
<1>2. Span(e, WriteOwned(Leads, e.visitor), 9, 9)
  BY <1>s, <1>t
<1>3. Span(e, WriteOwned(Orders, e.visitor), 9, 10)
  BY <1>s, <1>t
<1>4. Span(e, WriteOwned(Sales, e.visitor), 10, 16)
  BY <1>s, <1>t
<1>5. Span(e, WriteOwned(Leads, e.visitor) \o WriteOwned(Orders, e.visitor), 9, 10)
  BY <1>2, <1>3, SpanJoin
<1> QED BY <1>1, <1>4, <1>5, SpanJoin DEF WriteDependents

\* What a handler asks for comes after the visitor's row.
LEMMA HandlerSpan ==
  ASSUME NEW w \in Workloads, NEW e \in w.events
  PROVE  Span(e, Handler(e), 7, 16)
<1> DEFINE ks(row) == Request("key_share", row)
           up(row) == Request("update", row)
           lead == e.type \in {"lead_created", "lead_status_changed"}
           order == e.type \in {"order_created", "order_updated", "order_paid"}
           sale == e.type \in {"manual_sale_created", "manual_sale_updated"}
<1>r. ASSUME NEW lo \in Nat, NEW hi \in Nat, lo <= 16, 7 <= hi
      PROVE  Span(e, Rule, lo, hi)
  <2> DEFINE q == [mode |-> "rule"]
  <2>1. q \in Planned(e) /\ Asks(e, q) = {q} /\ At(q) = 16 /\ Past(q) = 7
    BY DEF Planned, Asks, At, Past
  <2>2. Rule = <<q>>
    BY DEF Rule
  <2> HIDE DEF q
  <2> QED BY <2>1, <2>2, <1>r, SpanOne
<1>k. ASSUME NEW lo \in Nat, NEW hi \in Nat
      PROVE  /\ 3 <= hi => Span(e, ks(e.visitor), lo, hi)
             /\ lo <= 14 /\ 16 <= hi => Span(e, ks(e.lead), lo, hi)
             /\ lo <= 15 /\ 14 <= hi => Span(e, ks(e.session), lo, hi)
  BY ShareSpan
<1>u. /\ Span(e, up(e.session), 7, 9) /\ Span(e, up(e.lead), 7, 15)
      /\ Span(e, up(e.order), 7, 14) /\ Span(e, up(e.sale), 7, 14)
  BY UpdateSpan
<1> HIDE DEF ks, up
<1>1. CASE e.type = "session_started"
  <2>1. Span(e, WriteDependents(e.visitor), 9, 16)
    BY <1>1, Columns, SelectSpan
  <2>2. Span(e, Rule \o up(e.session), 7, 9)
    BY <1>r, <1>u, SpanJoin
  <2>3. Handler(e) = (Rule \o up(e.session)) \o WriteDependents(e.visitor)
    BY <1>1 DEF Handler, up
  <2> QED BY <2>1, <2>2, <2>3, SpanJoin
<1>2. CASE lead
  <2> DEFINE last == IF e.type = "lead_created" THEN ks(e.session) ELSE <<>>
  <2>1. Span(e, last, 15, 16)
    BY <1>k, SpanNone
  <2>2. Span(e, up(e.lead) \o Rule, 7, 15)
    BY <1>r, <1>u, SpanJoin
  <2>3. Span(e, (up(e.lead) \o Rule) \o ks(e.visitor), 7, 15)
    BY <2>2, <1>k, SpanJoin
  <2>4. Handler(e) = ((up(e.lead) \o Rule) \o ks(e.visitor)) \o last
    BY <1>2 DEF Handler, up, ks
  <2> HIDE DEF last
  <2> QED BY <2>1, <2>3, <2>4, SpanJoin
<1>3. CASE order
  <2>2. Span(e, up(e.order) \o Rule, 7, 14)
    BY <1>r, <1>u, SpanJoin
  <2>3. Span(e, (up(e.order) \o Rule) \o ks(e.visitor), 7, 14)
    BY <2>2, <1>k, SpanJoin
  <2>4. Span(e, ((up(e.order) \o Rule) \o ks(e.visitor)) \o ks(e.session), 7, 14)
    BY <2>3, <1>k, SpanJoin
  <2>5. Handler(e) =
          (((up(e.order) \o Rule) \o ks(e.visitor)) \o ks(e.session)) \o ks(e.lead)
    BY <1>3 DEF Handler, up, ks
  <2> QED BY <2>4, <2>5, <1>k, SpanJoin
<1>4. CASE e.type = "order_cancelled"
  <2>2. Span(e, up(e.order) \o Rule, 7, 14)
    BY <1>r, <1>u, SpanJoin
  <2>3. Span(e, (up(e.order) \o Rule) \o ks(e.visitor), 7, 14)
    BY <2>2, <1>k, SpanJoin
  <2>4. Handler(e) = ((up(e.order) \o Rule) \o ks(e.visitor)) \o ks(e.lead)
    BY <1>4 DEF Handler, up, ks
  <2> QED BY <2>3, <2>4, <1>k, SpanJoin
<1>5. CASE sale
  <2>2. Span(e, up(e.sale) \o Rule, 7, 14)
    BY <1>r, <1>u, SpanJoin
  <2>3. Span(e, (up(e.sale) \o Rule) \o ks(e.visitor), 7, 14)
    BY <2>2, <1>k, SpanJoin
  <2>4. Handler(e) = ((up(e.sale) \o Rule) \o ks(e.visitor)) \o ks(e.lead)
    BY <1>5 DEF Handler, up, ks
  <2> QED BY <2>3, <2>4, <1>k, SpanJoin
<1>6. CASE e.type = "manual_sale_cancelled"
  <2>1. Handler(e) = up(e.sale) \o Rule
    BY <1>6 DEF Handler, up
  <2> QED BY <2>1, <1>r, <1>u, SpanJoin
<1>7. CASE /\ ~lead /\ ~order /\ ~sale
           /\ e.type \notin {"session_started", "order_cancelled", "manual_sale_cancelled"}
  <2>1. Handler(e) = Request("insert", e.fact)
    BY <1>7 DEF Handler
  <2> QED BY <2>1, InsertSpan
<1> QED BY <1>1, <1>2, <1>3, <1>4, <1>5, <1>6, <1>7

\* The visitor's row is not asked for again, once it is locked.
LEMMA VisitorBefore ==
  ASSUME NEW w \in Workloads, NEW e \in w.events, NEW q, NEW lo \in Nat, NEW hi,
         7 <= lo, Span(e, q, lo, hi)
  PROVE  \A i \in DOMAIN q : q[i] # Locking(e.visitor)
<1> SUFFICES ASSUME NEW i \in DOMAIN q, q[i] = Locking(e.visitor) PROVE FALSE
  OBVIOUS
<1>1. q \in Seq(Planned(e)) /\ q[i] \in Planned(e)
  BY ElementOfSeq, LenProperties DEF Span
<1>2. e.visitor \in Visitors
  <2>1. e.visitor # None
    BY <1>1 DEF Planned, Locking, Named
  <2> QED BY <2>1, Columns
<1>3. Asks(e, q[i]) = {q[i]} /\ ~SharesVisitor(q[i])
  BY DEF Asks, Locking, SharesVisitor
<1>4. At(q[i]) = 6
  BY <1>2, UpdateLevels DEF Locking
<1> QED BY <1>3, <1>4 DEF Span

\* What holds of a program before its first step.
LEMMA ProgramFits ==
  ASSUME NEW w \in Workloads, NEW e \in w.events
  PROVE  /\ Program(e) \in Seq(Planned(e)) /\ InOrder(e, Program(e))
         /\ e.visitor # None =>
              \E i \in DOMAIN Program(e) : Program(e)[i] = Locking(e.visitor)
         /\ e.type # "anonymize" =>
              \A r \in Named(e) : \E i \in DOMAIN Program(e) :
                Program(e)[i] = [mode |-> "insert", row |-> r]
         /\ \A i, j \in DOMAIN Program(e) :
              i < j /\ SharesVisitor(Program(e)[i]) => Program(e)[j] # Locking(e.visitor)
<1> DEFINE u == Request("update", e.visitor)
           Has(q, r) == \E i \in DOMAIN q : q[i] = r
           Quiet(q) == \A i \in DOMAIN q : ~SharesVisitor(q[i])
           Apart(q) == \A i, j \in DOMAIN q :
                         i < j /\ SharesVisitor(q[i]) => q[j] # Locking(e.visitor)
<1>u. /\ Span(e, u, 6, 7) /\ Quiet(u)
      /\ e.visitor # None => Has(u, Locking(e.visitor))
  <2>1. CASE e.visitor = None
    <3>1. u = <<>>
      BY <2>1 DEF Request
    <3> HIDE DEF u
    <3> QED BY <2>1, <3>1, SpanNone
  <2>2. CASE e.visitor # None
    <3>1. u = <<Locking(e.visitor)>> /\ ~SharesVisitor(Locking(e.visitor))
      BY <2>2 DEF Request, Locking, SharesVisitor
    <3>2. Span(e, u, 6, 7)
      BY UpdateSpan
    <3> HIDE DEF u
    <3> QED BY <3>1, <3>2
  <2> QED BY <2>1, <2>2
<1>s. \A q, lo, hi : Span(e, q, lo, hi) => q \in Seq(Planned(e))
  BY DEF Span
<1> HIDE DEF u
<1>j. ASSUME NEW p \in Seq(Planned(e)), NEW q \in Seq(Planned(e)), Quiet(p)
      PROVE  /\ Quiet(q) => Quiet(p \o q)
             /\ (\A i \in DOMAIN q : q[i] # Locking(e.visitor)) => Apart(p \o q)
             /\ \A r : Has(p, r) \/ Has(q, r) => Has(p \o q, r)
  <2> DEFINE pq == p \o q
  <2>1. \A i \in DOMAIN pq :
          (i \in DOMAIN p /\ pq[i] = p[i])
          \/ (i - Len(p) \in DOMAIN q /\ pq[i] = q[i - Len(p)])
    BY Joined
  <2>2. /\ \A i \in DOMAIN p : i \in DOMAIN pq /\ pq[i] = p[i]
        /\ \A i \in DOMAIN q : Len(p) + i \in DOMAIN pq /\ pq[Len(p) + i] = q[i]
    BY Joined
  <2>3. \A i, j \in DOMAIN pq : i < j /\ i \notin DOMAIN p => j \notin DOMAIN p
    BY LenProperties, ConcatProperties
  <2> HIDE DEF pq
  <2>4. Quiet(q) => Quiet(pq)
    BY <2>1, <1>j
  <2>5. \A r : Has(p, r) \/ Has(q, r) => Has(pq, r)
    BY <2>2
  <2>6. ASSUME \A i \in DOMAIN q : q[i] # Locking(e.visitor),
               NEW i \in DOMAIN pq, NEW k \in DOMAIN pq, i < k, SharesVisitor(pq[i])
        PROVE  pq[k] # Locking(e.visitor)
    <3>1. i \notin DOMAIN p
      BY <2>2, <2>6, <1>j
    <3> QED BY <3>1, <2>1, <2>3, <2>6
  <2> QED BY <2>4, <2>5, <2>6 DEF pq
<1> HIDE DEF Has, Quiet, Apart
<1>1. CASE e.type = "anonymize"
  <2> DEFINE found == WriteOwned(Sessions, e.visitor)
             first == u \o found
  <2>1. e.visitor # None
    BY <1>1, Columns
  <2>2. Span(e, found, 7, 9) /\ Span(e, WriteDependents(e.visitor), 9, 16)
    BY <2>1, SelectSpan
  <2>3. Quiet(found)
    BY DEF WriteOwned, Quiet, SharesVisitor
  <2> HIDE DEF found
  <2>4. Span(e, first, 6, 9) /\ Quiet(first) /\ Has(first, Locking(e.visitor))
    BY <2>1, <2>2, <2>3, <1>u, <1>s, <1>j, SpanJoin
  <2> HIDE DEF first
  <2>5. Program(e) = first \o WriteDependents(e.visitor)
    BY <1>1 DEF Program, first, found, u
  <2>6. Span(e, Program(e), 6, 16)
    BY <2>2, <2>4, <2>5, SpanJoin
  <2>7. /\ Apart(Program(e)) /\ Has(Program(e), Locking(e.visitor))
    BY <2>2, <2>4, <2>5, <1>s, <1>j, VisitorBefore
  <2> QED BY <1>1, <2>6, <2>7 DEF Span, Apart, Has
<1>2. CASE e.type # "anonymize"
  <2> DEFINE stubs == EnsureStubs(e)
             first == stubs \o u
  <2>1. /\ Span(e, stubs, 1, 6) /\ Quiet(stubs)
        /\ \A r \in Named(e) : Has(stubs, [mode |-> "insert", row |-> r])
    BY StubsSpan DEF Quiet, Has, SharesVisitor
  <2> HIDE DEF stubs
  <2>2. /\ Span(e, first, 1, 7) /\ Quiet(first)
        /\ e.visitor # None => Has(first, Locking(e.visitor))
        /\ \A r \in Named(e) : Has(first, [mode |-> "insert", row |-> r])
    BY <2>1, <1>u, <1>s, <1>j, SpanJoin
  <2> HIDE DEF first
  <2>3. Program(e) = first \o Handler(e)
    BY <1>2 DEF Program, first, stubs, u
  <2>4. Span(e, Handler(e), 7, 16)
    BY HandlerSpan
  <2>5. Span(e, Program(e), 1, 16)
    BY <2>2, <2>3, <2>4, SpanJoin
  <2>6. \A i \in DOMAIN Handler(e) : Handler(e)[i] # Locking(e.visitor)
    BY <2>4, VisitorBefore
  <2>7. /\ Apart(Program(e))
        /\ e.visitor # None => Has(Program(e), Locking(e.visitor))
        /\ \A r \in Named(e) : Has(Program(e), [mode |-> "insert", row |-> r])
    BY <2>2, <2>3, <2>4, <2>6, <1>s, <1>j
  <2> QED BY <1>2, <2>5, <2>7 DEF Span, Apart, Has
<1> QED BY <1>1, <1>2

-----------------------------------------------------------------------------
(* The invariant holds initially *)

\* Whatever workload is chosen, and whatever rows it finds.
LEMMA InitInv == Init => Inv
<1> SUFFICES ASSUME Init PROVE Inv
  OBVIOUS
<1>1. PICK w \in Workloads :
        /\ running = w.events
        /\ todo = [e \in w.events |-> Program(e)]
        /\ held = [e \in w.events |-> {}]
        /\ rows = w.rows
        /\ owner = [r \in Sessions \cup Dependents |->
                      IF {r, w.owner} \subseteq w.rows THEN w.owner ELSE None]
  BY DEF Init
<1>2. w.rows \subseteq Rows /\ w.owner \in Visitors
  BY RowLocksAssumption
<1>3. \A e \in w.events : Inserted(e) = {}
  BY <1>1 DEF Inserted
<1>4. TypeOK
  BY <1>1, <1>2, <1>3 DEF TypeOK
<1>5. OwnersKnown(w)
  BY <1>1, <1>2 DEF OwnersKnown, Owners
<1>6. ASSUME NEW e \in w.events PROVE Disciplined(w, e)
  <2>1. /\ Program(e) \in Seq(Planned(e)) /\ InOrder(e, Program(e))
        /\ e.visitor # None =>
             \E i \in DOMAIN Program(e) : Program(e)[i] = Locking(e.visitor)
        /\ e.type # "anonymize" =>
             \A r \in Named(e) : \E i \in DOMAIN Program(e) :
               Program(e)[i] = [mode |-> "insert", row |-> r]
        /\ \A i, j \in DOMAIN Program(e) :
             i < j /\ SharesVisitor(Program(e)[i]) => Program(e)[j] # Locking(e.visitor)
    BY ProgramFits
  <2>2. todo[e] = Program(e) /\ held[e] = {}
    BY <1>1
  <2>3. Program(e) \in Seq(Requests(w, e))
    BY <2>1, SeqMonotonic DEF Requests
  <2>4. \A i \in DOMAIN Program(e) : Program(e)[i] \in Planned(e)
    BY <2>1, ElementOfSeq, LenProperties
  <2>5. \A q \in Planned(e) : q.mode # "no_key_update"
    BY DEF Planned
  <2>6. Upwards(w, e)
    BY <2>1, <2>2, <2>3 DEF Upwards
  <2>7. VisitorLocked(e) /\ Stubbed(e) /\ SharedForSession(e)
    BY <2>1, <2>2 DEF VisitorLocked, Stubbed, SharedForSession
  <2>8. WritesFound(e)
    BY <2>2, <2>4, <2>5 DEF WritesFound
  <2> QED BY <2>6, <2>7, <2>8 DEF Disciplined
<1>7. LockInv(w)
  BY <1>1, <1>5, <1>6 DEF LockInv
<1> QED BY <1>4, <1>7 DEF Inv

-----------------------------------------------------------------------------
(* Steps of one transaction *)

\* n is p and what follows the head of q.
Continues(q, p, n) ==
  /\ \A i \in DOMAIN n :
       \/ i \in DOMAIN p /\ n[i] = p[i]
       \/ \E j \in DOMAIN q : 1 < j /\ n[i] = q[j]
  /\ \A j \in DOMAIN q : 1 < j => \E i \in DOMAIN n : n[i] = q[j]
  /\ \A i, k \in DOMAIN n : i < k =>
       \/ i \in DOMAIN p /\ n[i] = p[i]
       \/ \E j, l \in DOMAIN q : 1 < j /\ j < l /\ n[i] = q[j] /\ n[k] = q[l]

\* A request is replaced by some that it stands for.
LEMMA Advance ==
  ASSUME NEW S, NEW e, NEW q \in Seq(S), q # <<>>, InOrder(e, q),
         NEW p \in Seq(S), InOrder(e, p),
         \A i \in DOMAIN p : Asks(e, p[i]) \subseteq Asks(e, q[1])
  PROVE  /\ p \o Tail(q) \in Seq(S) /\ InOrder(e, p \o Tail(q))
         /\ Continues(q, p, p \o Tail(q))
<1> DEFINE t == Tail(q)
           n == p \o t
<1>t. /\ t \in Seq(S) /\ 1 \in DOMAIN q
      /\ \A i \in DOMAIN t : i + 1 \in DOMAIN q /\ 1 < i + 1 /\ t[i] = q[i + 1]
      /\ \A i \in DOMAIN q : i = 1 \/ \E j \in DOMAIN t : i = j + 1
  BY TailOf
<1>d. /\ \A i \in DOMAIN t : i \in Nat
      /\ \A i \in DOMAIN q : i \in Nat
  BY <1>t, LenProperties
<1> HIDE DEF t
<1>n. /\ n \in Seq(S)
      /\ \A i \in DOMAIN t : Len(p) + i \in DOMAIN n /\ n[Len(p) + i] = t[i]
      /\ \A i \in DOMAIN p : i \in DOMAIN n /\ n[i] = p[i]
      /\ \A i \in DOMAIN n :
           i \in DOMAIN p \/ (i - Len(p) \in DOMAIN t /\ n[i] = t[i - Len(p)])
      /\ \A i, j \in DOMAIN n : i < j =>
           \/ i \in DOMAIN p /\ j \in DOMAIN p
           \/ i \in DOMAIN p /\ j - Len(p) \in DOMAIN t
           \/ /\ i - Len(p) \in DOMAIN t /\ j - Len(p) \in DOMAIN t
              /\ i - Len(p) < j - Len(p)
  BY <1>t, Joined
<1>m. \A i \in DOMAIN n : i - Len(p) \in DOMAIN t => n[i] = t[i - Len(p)]
  BY <1>t, ConcatProperties, LenProperties
<1> HIDE DEF n
<1>1. \A i \in DOMAIN n :
        \/ i \in DOMAIN p /\ n[i] = p[i]
        \/ \E j \in DOMAIN q : 1 < j /\ n[i] = q[j]
  BY <1>n, <1>t
<1>2. ASSUME NEW j \in DOMAIN q, 1 < j PROVE \E i \in DOMAIN n : n[i] = q[j]
  <2>0. j # 1
    BY <1>2, <1>d
  <2>1. PICK k \in DOMAIN t : j = k + 1
    BY <2>0, <1>t
  <2> QED BY <2>1, <1>n, <1>t
<1>3. ASSUME NEW i \in DOMAIN n, NEW k \in DOMAIN n, i < k
      PROVE  \/ i \in DOMAIN p /\ n[i] = p[i] /\ k \in DOMAIN p /\ n[k] = p[k]
             \/ /\ i \in DOMAIN p /\ n[i] = p[i]
                /\ \E l \in DOMAIN q : 1 < l /\ n[k] = q[l]
             \/ \E j, l \in DOMAIN q : 1 < j /\ j < l /\ n[i] = q[j] /\ n[k] = q[l]
  <2>1. CASE i \in DOMAIN p /\ k \in DOMAIN p
    BY <2>1, <1>n
  <2>2. CASE i \in DOMAIN p /\ k - Len(p) \in DOMAIN t
    BY <2>2, <1>n, <1>m, <1>t
  <2>3. CASE /\ i - Len(p) \in DOMAIN t /\ k - Len(p) \in DOMAIN t
             /\ i - Len(p) < k - Len(p)
    <3> DEFINE a == i - Len(p)
               b == k - Len(p)
    <3>1. n[i] = t[a] /\ n[k] = t[b] /\ a \in DOMAIN t /\ b \in DOMAIN t /\ a < b
      BY <2>3, <1>m
    <3> HIDE DEF a, b
    <3>2. /\ a + 1 \in DOMAIN q /\ b + 1 \in DOMAIN q /\ 1 < a + 1 /\ a + 1 < b + 1
          /\ n[i] = q[a + 1] /\ n[k] = q[b + 1]
      BY <3>1, <1>t, <1>d
    <3> QED BY <3>2
  <2> QED BY <1>3, <1>n, <2>1, <2>2, <2>3
<1>4. ASSUME NEW i \in DOMAIN n, NEW k \in DOMAIN n, i < k,
             NEW a \in Asks(e, n[i]), NEW b \in Asks(e, n[k])
      PROVE  Precedes(a, b)
  <2>1. CASE i \in DOMAIN p /\ n[i] = p[i] /\ k \in DOMAIN p /\ n[k] = p[k]
    BY <2>1, <1>4 DEF InOrder
  <2>2. CASE /\ i \in DOMAIN p /\ n[i] = p[i]
             /\ \E l \in DOMAIN q : 1 < l /\ n[k] = q[l]
    <3>1. a \in Asks(e, q[1])
      BY <2>2
    <3> QED BY <2>2, <3>1, <1>t DEF InOrder
  <2>3. CASE \E j, l \in DOMAIN q : 1 < j /\ j < l /\ n[i] = q[j] /\ n[k] = q[l]
    BY <2>3 DEF InOrder
  <2> QED BY <1>3, <1>4, <2>1, <2>2, <2>3
<1>5. InOrder(e, n)
  BY <1>4 DEF InOrder
<1>6. Continues(q, p, n)
  BY <1>1, <1>2, <1>3 DEF Continues
<1> QED BY <1>5, <1>6, <1>n DEF n, t

\* What Disciplined says of the request at hand.
LEMMA AtHand ==
  ASSUME NEW w, NEW e, Disciplined(w, e), todo[e] # <<>>
  PROVE  /\ todo[e] \in Seq(Requests(w, e)) /\ Next1(e) \in Requests(w, e)
         /\ 1 \in DOMAIN todo[e] /\ todo[e][1] = Next1(e)
         /\ \A i \in DOMAIN todo[e] : i = 1 \/ 1 < i
         /\ \A i \in DOMAIN todo[e] : todo[e][i] \in Requests(w, e)
<1>1. todo[e] \in Seq(Requests(w, e))
  BY DEF Disciplined, Upwards
<1> QED BY <1>1, TailOf, LenProperties, ElementOfSeq DEF Next1

\* A transaction goes on to the requests p and what followed the one at hand,
\* with that lock or without.
LEMMA StaysUpwards ==
  ASSUME NEW w, NEW e, Disciplined(w, e), todo[e] # <<>>,
         NEW p \in Seq(Requests(w, e)), InOrder(e, p),
         \A i \in DOMAIN p : Asks(e, p[i]) \subseteq Asks(e, Next1(e)),
         todo'[e] = p \o Tail(todo[e]),
         \/ held'[e] = held[e]
         \/ /\ AsksForRow(e)
            /\ held'[e] = held[e] \cup {<<Next1(e).mode, Next1(e).row>>}
            /\ \A i \in DOMAIN p : \A b \in Asks(e, p[i]) : Precedes(Next1(e), b)
  PROVE  Upwards(w, e)'
<1> DEFINE q == todo[e]
           n == p \o Tail(q)
           lock == <<Next1(e).mode, Next1(e).row>>
<1>q. /\ q \in Seq(Requests(w, e)) /\ InOrder(e, q) /\ 1 \in DOMAIN q /\ q[1] = Next1(e)
      /\ Next1(e) \in Requests(w, e)
  BY AtHand DEF Disciplined, Upwards
<1>n. /\ n \in Seq(Requests(w, e)) /\ InOrder(e, n)
      /\ \A i \in DOMAIN n :
           \/ i \in DOMAIN p /\ n[i] = p[i]
           \/ \E j \in DOMAIN q : 1 < j /\ n[i] = q[j]
  <2>1. Continues(q, p, n) /\ n \in Seq(Requests(w, e)) /\ InOrder(e, n)
    BY <1>q, Advance
  <2> HIDE DEF n, q
  <2> QED BY <2>1 DEF Continues
<1>h. \A l \in held[e] :
        /\ l = <<l[1], l[2]>> /\ Granted(l) \in RowRequests(w, e)
        /\ \A i \in DOMAIN q : \A b \in Asks(e, q[i]) : Precedes(Granted(l), b)
  BY DEF Disciplined, Upwards
<1>t. todo'[e] = n
  OBVIOUS
<1> HIDE DEF n, q
<1>1. ASSUME NEW l \in held[e], NEW i \in DOMAIN n, NEW b \in Asks(e, n[i])
      PROVE  Precedes(Granted(l), b)
  <2>1. b \in Asks(e, q[1]) \/ \E j \in DOMAIN q : b \in Asks(e, q[j])
    BY <1>n, <1>q, <1>1
  <2> QED BY <2>1, <1>h, <1>q
<1>2. ASSUME AsksForRow(e)
      PROVE  /\ lock = <<lock[1], lock[2]>> /\ Granted(lock) = Next1(e)
             /\ Granted(lock) \in RowRequests(w, e)
  <2>1. Next1(e).mode \notin {"select", "rule", "returned"}
    BY <1>2 DEF AsksForRow
  <2>2. Next1(e) = [mode |-> Next1(e).mode, row |-> Next1(e).row]
    BY <2>1, <1>q DEF Requests, Planned
  <2>3. Granted(lock) = [mode |-> Next1(e).mode, row |-> Next1(e).row]
    BY DEF Granted
  <2> QED BY <2>1, <2>2, <2>3, <1>q DEF RowRequests
<1>3. ASSUME AsksForRow(e),
             \A i \in DOMAIN p : \A b \in Asks(e, p[i]) : Precedes(Next1(e), b),
             NEW i \in DOMAIN n, NEW b \in Asks(e, n[i])
      PROVE  Precedes(Next1(e), b)
  <2>1. Next1(e) \in Asks(e, q[1])
    BY <1>3, <1>q DEF AsksForRow, Asks
  <2>2. CASE i \in DOMAIN p /\ n[i] = p[i]
    BY <2>2, <1>3
  <2>3. CASE \E j \in DOMAIN q : 1 < j /\ n[i] = q[j]
    BY <2>1, <2>3, <1>3, <1>q DEF InOrder
  <2> QED BY <2>2, <2>3, <1>n
<1> HIDE DEF lock
<1>4. ASSUME NEW l \in held'[e]
      PROVE  /\ l = <<l[1], l[2]>> /\ Granted(l) \in RowRequests(w, e)
             /\ \A i \in DOMAIN n : \A b \in Asks(e, n[i]) : Precedes(Granted(l), b)
  <2>1. CASE l \in held[e]
    BY <2>1, <1>1, <1>h
  <2>2. CASE l \notin held[e]
    <3>1. /\ AsksForRow(e) /\ l = lock
          /\ \A i \in DOMAIN p : \A b \in Asks(e, p[i]) : Precedes(Next1(e), b)
      BY <2>2, <1>4 DEF lock
    <3> QED BY <3>1, <1>2, <1>3
  <2> QED BY <2>1, <2>2
<1> QED BY <1>4, <1>n, <1>t DEF Upwards

\* A request that needs no others in its place.
LEMMA StaysUpwardsAlone ==
  ASSUME NEW w, NEW e, Disciplined(w, e), todo[e] # <<>>,
         todo'[e] = Tail(todo[e]),
         \/ held'[e] = held[e]
         \/ /\ AsksForRow(e)
            /\ held'[e] = held[e] \cup {<<Next1(e).mode, Next1(e).row>>}
  PROVE  Upwards(w, e)'
<1>1. <<>> \in Seq(Requests(w, e)) /\ InOrder(e, <<>>)
  BY EmptySeq DEF InOrder
<1> DEFINE p == <<>>
<1>2. p \o Tail(todo[e]) = Tail(todo[e])
  BY AtHand, TailOf, ConcatEmptySeq
<1>3. \A i \in DOMAIN p : FALSE
  OBVIOUS
<1> HIDE DEF p
<1>4. p \in Seq(Requests(w, e)) /\ InOrder(e, p)
  BY <1>1 DEF p
<1> QED BY <1>2, <1>3, <1>4, StaysUpwards

\* Its requests but for the one at hand are those it had.
LEMMA Shortened ==
  ASSUME NEW w, NEW e, Disciplined(w, e), todo[e] # <<>>, todo'[e] = Tail(todo[e])
  PROVE  /\ \A i \in DOMAIN todo'[e] :
              i + 1 \in DOMAIN todo[e] /\ todo'[e][i] = todo[e][i + 1] /\ 1 < i + 1
         /\ \A i, j \in DOMAIN todo'[e] : i < j => i + 1 < j + 1
         /\ \A i \in DOMAIN todo[e] :
              todo[e][i] = Next1(e) \/ \E j \in DOMAIN todo'[e] : todo'[e][j] = todo[e][i]
<1>1. todo[e] \in Seq(Requests(w, e)) /\ todo[e][1] = Next1(e)
  BY AtHand
<1>2. \A i \in DOMAIN Tail(todo[e]) : i \in Nat
  BY <1>1, TailOf, LenProperties
<1> QED BY <1>1, <1>2, TailOf

\* What others do leaves a transaction as it is; rows are only added.
LEMMA OthersStay ==
  ASSUME NEW w, NEW e, Disciplined(w, e), todo'[e] = todo[e], held'[e] = held[e],
         rows \subseteq rows'
  PROVE  Disciplined(w, e)'
<1>1. Inserted(e)' = Inserted(e)
  BY DEF Inserted
<1>2. Upwards(w, e)' /\ VisitorLocked(e)'
  BY DEF Disciplined, Upwards, VisitorLocked
<1>3. Stubbed(e)' /\ SharedForSession(e)' /\ WritesFound(e)'
  BY <1>1 DEF Disciplined, Stubbed, SharedForSession, WritesFound
<1> QED BY <1>2, <1>3 DEF Disciplined

\* What a request of each mode is about.
LEMMA Shapes ==
  ASSUME NEW w, NEW e, NEW q \in Requests(w, e)
  PROVE  /\ q.mode \in {"insert", "update", "key_share", "no_key_update", "select",
                        "rule", "returned"}
         /\ q.mode \notin {"select", "rule", "returned"} =>
              q = [mode |-> q.mode, row |-> q.row]
         /\ q.mode = "insert" => q.row \in (Named(e) \cup {e.fact}) \ {None}
         /\ q.mode = "update" => q.row \in Named(e)
         /\ q.mode = "key_share" => q.row \in Named(e) \ Sales
         /\ q.mode = "no_key_update" => q.row \in Owned(w, e)
         /\ q.mode = "select" => /\ q.table \in {Sessions, Leads, Orders, Sales}
                                 /\ q.of = e.visitor /\ e.visitor \in Visitors
<1>1. CASE q \in [mode : {"insert"}, row : (Named(e) \cup {e.fact}) \ {None}]
  BY <1>1
<1>2. CASE q \in [mode : {"update"}, row : Named(e)]
  BY <1>2
<1>3. CASE q \in [mode : {"key_share"}, row : Named(e) \ Sales]
  BY <1>3
<1>4. CASE q \in [mode : {"select"}, table : {Sessions, Leads, Orders, Sales},
                  of : {e.visitor} \cap Visitors]
  BY <1>4
<1>5. CASE q \in {[mode |-> "rule"], [mode |-> "returned"]}
  BY <1>5
<1>6. CASE q \in [mode : {"no_key_update"}, row : Owned(w, e)]
  BY <1>6
<1> QED BY <1>1, <1>2, <1>3, <1>4, <1>5, <1>6 DEF Requests, Planned

\* What is at hand comes before all that follows.
LEMMA Follows ==
  ASSUME NEW w, NEW e, Disciplined(w, e), todo[e] # <<>>,
         NEW a \in Asks(e, Next1(e)), NEW i \in DOMAIN todo[e], 1 < i,
         NEW b \in Asks(e, todo[e][i])
  PROVE  SharesVisitor(b) \/ Past(a) <= At(b)
BY AtHand DEF Disciplined, Upwards, InOrder, Precedes

\* Past the visitor's row, its lock is not asked for any more, nor are stubs.
LEMMA FollowsVisitor ==
  ASSUME NEW w \in Workloads, NEW e \in w.events, Disciplined(w, e), todo[e] # <<>>,
         NEW a \in Asks(e, Next1(e)), 7 <= Past(a),
         NEW i \in DOMAIN todo[e], 1 < i
  PROVE  /\ todo[e][i] # Locking(e.visitor)
         /\ \A r \in Named(e) : todo[e][i] # [mode |-> "insert", row |-> r]
<1>1. ASSUME todo[e][i] = Locking(e.visitor) PROVE FALSE
  <2>1. e.visitor # None
    BY <1>1, AtHand, Shapes DEF Locking, Named
  <2>2. At(todo[e][i]) = 6
    BY <1>1, <2>1, Columns, UpdateLevels DEF Locking
  <2>3. todo[e][i] \in Asks(e, todo[e][i]) /\ ~SharesVisitor(todo[e][i])
    BY <1>1 DEF Asks, Locking, SharesVisitor
  <2> QED BY <2>2, <2>3, Follows, Levels
<1>2. ASSUME NEW r \in Named(e), todo[e][i] = [mode |-> "insert", row |-> r] PROVE FALSE
  <2>1. r \in Visitors \cup Sessions \cup Leads \cup Orders \cup Sales
    BY Columns DEF Named
  <2>2. At(todo[e][i]) <= 5
    BY <1>2, <2>1, InsertLevels
  <2>3. todo[e][i] \in Asks(e, todo[e][i]) /\ ~SharesVisitor(todo[e][i])
    BY <1>2 DEF Asks, SharesVisitor
  <2> QED BY <2>2, <2>3, Follows, Levels
<1> QED BY <1>1, <1>2

LEMMA StubExistsStep ==
  ASSUME NEW w \in Workloads, NEW e \in w.events, Disciplined(w, e), e \in DOMAIN todo,
         StubExists(e)
  PROVE  Disciplined(w, e)'
<1>1. /\ todo[e] # <<>> /\ Next1(e).mode = "insert" /\ Next1(e).row \in rows
      /\ todo'[e] = Tail(todo[e]) /\ held' = held /\ rows' = rows
  BY DEF StubExists, AsksForRow
<1>2. Inserted(e)' = Inserted(e)
  BY <1>1 DEF Inserted
<1>3. Upwards(w, e)'
  BY <1>1, StaysUpwardsAlone
<1>s. /\ \A i \in DOMAIN todo'[e] :
           i + 1 \in DOMAIN todo[e] /\ todo'[e][i] = todo[e][i + 1] /\ 1 < i + 1
      /\ \A i, j \in DOMAIN todo'[e] : i < j => i + 1 < j + 1
      /\ \A i \in DOMAIN todo[e] :
           todo[e][i] = Next1(e) \/ \E j \in DOMAIN todo'[e] : todo'[e][j] = todo[e][i]
  BY <1>1, Shortened
<1>4. VisitorLocked(e)'
  <2>1. Next1(e) # Locking(e.visitor)
    BY <1>1 DEF Locking
  <2> QED BY <2>1, <1>1, <1>s DEF Disciplined, VisitorLocked
<1>5. Stubbed(e)'
  BY <1>1, <1>2, <1>s DEF Disciplined, Stubbed
<1>6. SharedForSession(e)'
  BY <1>1, <1>2, <1>s DEF Disciplined, SharedForSession
<1>7. WritesFound(e)'
  BY <1>1, <1>s DEF Disciplined, WritesFound
<1> QED BY <1>3, <1>4, <1>5, <1>6, <1>7 DEF Disciplined

LEMMA LockStep ==
  ASSUME NEW w \in Workloads, NEW e \in w.events, Disciplined(w, e),
         e \in DOMAIN todo, e \in DOMAIN held, Lock(e)
  PROVE  Disciplined(w, e)'
<1>1. /\ AsksForRow(e) /\ todo[e] # <<>> /\ Next1(e).mode # "insert"
      /\ todo'[e] = Tail(todo[e]) /\ rows' = rows
      /\ held'[e] = held[e] \cup {<<Next1(e).mode, Next1(e).row>>}
  BY DEF Lock, AsksForRow
<1>2. Inserted(e)' = Inserted(e)
  BY <1>1 DEF Inserted
<1>3. Upwards(w, e)'
  BY <1>1, StaysUpwardsAlone
<1>s. /\ \A i \in DOMAIN todo'[e] :
           i + 1 \in DOMAIN todo[e] /\ todo'[e][i] = todo[e][i + 1] /\ 1 < i + 1
      /\ \A i, j \in DOMAIN todo'[e] : i < j => i + 1 < j + 1
      /\ \A i \in DOMAIN todo[e] :
           todo[e][i] = Next1(e) \/ \E j \in DOMAIN todo'[e] : todo'[e][j] = todo[e][i]
  BY <1>1, Shortened
<1>4. VisitorLocked(e)'
  <2>1. Next1(e) = Locking(e.visitor) => <<"update", e.visitor>> \in held'[e]
    BY <1>1 DEF Locking
  <2> QED BY <2>1, <1>1, <1>s DEF Disciplined, VisitorLocked
<1>5. Stubbed(e)'
  BY <1>1, <1>2, <1>s DEF Disciplined, Stubbed
<1>6. SharedForSession(e)'
  <2> SUFFICES ASSUME Inserted(e) \cap Sessions = {}
               PROVE  /\ \A i, j \in DOMAIN todo'[e] :
                           i < j /\ SharesVisitor(todo'[e][i])
                             => todo'[e][j] # Locking(e.visitor)
                      /\ <<"key_share", e.visitor>> \in held'[e] =>
                           \A i \in DOMAIN todo'[e] : todo'[e][i] # Locking(e.visitor)
    BY <1>2 DEF SharedForSession
  <2>1. /\ \A i, j \in DOMAIN todo[e] :
             i < j /\ SharesVisitor(todo[e][i]) => todo[e][j] # Locking(e.visitor)
        /\ <<"key_share", e.visitor>> \in held[e] =>
             \A i \in DOMAIN todo[e] : todo[e][i] # Locking(e.visitor)
    BY DEF Disciplined, SharedForSession
  <2>2. ASSUME <<"key_share", e.visitor>> = <<Next1(e).mode, Next1(e).row>>,
               NEW i \in DOMAIN todo[e], 1 < i
        PROVE  todo[e][i] # Locking(e.visitor)
    <3>1. Next1(e).mode = "key_share" /\ Next1(e).row = e.visitor
      BY <2>2
    <3>2. e.visitor # None
      BY <1>1, <3>1, AtHand, Shapes DEF Named
    <3>3. SharesVisitor(Next1(e))
      BY <3>1, <3>2, Columns DEF SharesVisitor
    <3> QED BY <1>1, <2>1, <2>2, <3>3, AtHand
  <2> QED BY <1>1, <1>s, <2>1, <2>2
<1>7. WritesFound(e)'
  BY <1>1, <1>s DEF Disciplined, WritesFound
<1> QED BY <1>3, <1>4, <1>5, <1>6, <1>7 DEF Disciplined

LEMMA InsertStep ==
  ASSUME NEW w \in Workloads, NEW e \in w.events, Disciplined(w, e),
         e \in DOMAIN todo, e \in DOMAIN held, Insert(e)
  PROVE  Disciplined(w, e)'
<1> DEFINE row == Next1(e).row
           p == References(e, row)
           n == p \o Tail(todo[e])
<1>1. /\ AsksForRow(e) /\ todo[e] # <<>> /\ Next1(e).mode = "insert"
      /\ todo'[e] = n /\ rows' = rows
      /\ held'[e] = held[e] \cup {<<"insert", row>>}
  BY DEF Insert, AsksForRow
<1>r. /\ Next1(e) = [mode |-> "insert", row |-> row] /\ row \in Rows
      /\ row \in Named(e) \cup Facts
  <2>1. /\ Next1(e) = [mode |-> "insert", row |-> row]
        /\ row \in (Named(e) \cup {e.fact}) \ {None}
    BY <1>1, AtHand, Shapes
  <2> QED BY <2>1, Columns DEF Named, Rows, Dependents
<1>2. Inserted(e)' = Inserted(e) \cup {row}
  BY <1>1, <1>r DEF Inserted
<1>3. /\ row \in Sessions => Span(e, p, 3, 3)
      /\ row \in Facts => Span(e, p, 13, 16)
      /\ row \notin Sessions \cup Facts => p = <<>>
      /\ \A i \in DOMAIN p : p[i].mode = "key_share"
  BY ReferencesSpan
<1>a. /\ \A i \in DOMAIN p : p[i] \in Asks(e, Next1(e)) /\ Asks(e, p[i]) = {p[i]}
      /\ Next1(e) \in Asks(e, Next1(e))
  BY <1>1, <1>3 DEF Asks
<1> HIDE DEF p, row
<1>4. p \in Seq(Requests(w, e)) /\ InOrder(e, p)
  <2>1. p \in Seq(Planned(e)) /\ InOrder(e, p)
    BY <1>3, SpanNone DEF Span
  <2> QED BY <2>1, SeqMonotonic DEF Requests
<1>5. ASSUME NEW i \in DOMAIN p, NEW b \in Asks(e, p[i]) PROVE Precedes(Next1(e), b)
  <2>1. CASE row \in Sessions
    <3>1. Past(Next1(e)) = 3
      BY <1>r, <2>1, InsertLevels
    <3>2. SharesVisitor(b) \/ 3 <= At(b)
      BY <1>3, <1>5, <2>1 DEF Span
    <3> QED BY <3>1, <3>2 DEF Precedes
  <2>2. CASE row \in Facts
    <3>1. Past(Next1(e)) = 13
      BY <1>r, <2>2, InsertLevels
    <3>2. SharesVisitor(b) \/ 13 <= At(b)
      BY <1>3, <1>5, <2>2 DEF Span
    <3> QED BY <3>1, <3>2 DEF Precedes
  <2>3. CASE row \notin Sessions \cup Facts
    BY <1>3, <1>5, <2>3
  <2> QED BY <2>1, <2>2, <2>3
<1>6. Upwards(w, e)'
  BY <1>1, <1>4, <1>5, <1>a, StaysUpwards DEF row
<1>q. /\ todo[e] \in Seq(Requests(w, e)) /\ InOrder(e, todo[e])
      /\ todo[e][1] = Next1(e)
      /\ \A i \in DOMAIN todo[e] : i = 1 \/ 1 < i
  BY <1>1, AtHand DEF Disciplined, Upwards
<1>c. Continues(todo[e], p, n)
  BY <1>1, <1>4, <1>a, <1>q, Advance
<1> HIDE DEF n
<1>n. /\ \A i \in DOMAIN n :
           \/ i \in DOMAIN p /\ n[i] = p[i]
           \/ \E j \in DOMAIN todo[e] : 1 < j /\ n[i] = todo[e][j]
      /\ \A j \in DOMAIN todo[e] : 1 < j => \E i \in DOMAIN n : n[i] = todo[e][j]
      /\ \A i, k \in DOMAIN n : i < k =>
           \/ i \in DOMAIN p /\ n[i] = p[i]
           \/ \E j, l \in DOMAIN todo[e] :
                1 < j /\ j < l /\ n[i] = todo[e][j] /\ n[k] = todo[e][l]
  BY <1>c DEF Continues
<1>7. VisitorLocked(e)'
  <2>1. Next1(e) # Locking(e.visitor)
    BY <1>1 DEF Locking
  <2> QED BY <2>1, <1>1, <1>n, <1>q DEF Disciplined, VisitorLocked
<1>8. Stubbed(e)'
  <2>1. \A r : Next1(e) = [mode |-> "insert", row |-> r] => r \in Inserted(e)'
    BY <1>2, <1>r
  <2> QED BY <2>1, <1>1, <1>2, <1>n, <1>q DEF Disciplined, Stubbed
<1>9. SharedForSession(e)'
  <2> SUFFICES ASSUME Inserted(e) \cap Sessions = {}, row \notin Sessions
               PROVE  /\ \A i, k \in DOMAIN n :
                           i < k /\ SharesVisitor(n[i]) => n[k] # Locking(e.visitor)
                      /\ <<"key_share", e.visitor>> \in held'[e] =>
                           \A i \in DOMAIN n : n[i] # Locking(e.visitor)
    BY <1>1, <1>2 DEF SharedForSession
  <2>1. /\ \A i, j \in DOMAIN todo[e] :
             i < j /\ SharesVisitor(todo[e][i]) => todo[e][j] # Locking(e.visitor)
        /\ <<"key_share", e.visitor>> \in held[e] =>
             \A i \in DOMAIN todo[e] : todo[e][i] # Locking(e.visitor)
    BY DEF Disciplined, SharedForSession
  <2>2. \A i \in DOMAIN p : p[i] # Locking(e.visitor)
    BY <1>3 DEF Locking
  <2>3. ASSUME NEW i \in DOMAIN p, NEW j \in DOMAIN todo[e], 1 < j
        PROVE  todo[e][j] # Locking(e.visitor)
    <3>1. row \in Facts
      BY <1>3, <2>3
    <3>2. Past(Next1(e)) = 13
      BY <1>r, <3>1, InsertLevels
    <3> QED BY <3>2, <1>1, <1>a, <2>3, FollowsVisitor
  <2>4. <<"key_share", e.visitor>> \in held'[e] => <<"key_share", e.visitor>> \in held[e]
    BY <1>1
  <2> QED BY <2>1, <2>2, <2>3, <2>4, <1>n
<1>10. WritesFound(e)'
  BY <1>1, <1>3, <1>n DEF Disciplined, WritesFound
<1> QED BY <1>6, <1>7, <1>8, <1>9, <1>10 DEF Disciplined

\* Writes to rows of one table, in any order.
Writes(table, p) ==
  \A i \in DOMAIN p : \E r \in table : p[i] = [mode |-> "no_key_update", row |-> r]

LEMMA WritesInOrder ==
  ASSUME NEW e, NEW table \in {Sessions, Leads, Orders, Sales}, NEW p, Writes(table, p)
  PROVE  InOrder(e, p)
<1>1. \A i \in DOMAIN p : Asks(e, p[i]) = {p[i]} /\ ~SharesVisitor(p[i])
  BY DEF Asks, SharesVisitor, Writes
<1> DEFINE write(r) == [mode |-> "no_key_update", row |-> r]
<1>2. PICK level \in Nat : \A r \in table : At(write(r)) = level /\ Past(write(r)) = level
  <2>1. /\ \A r \in Sessions : At(write(r)) = 7 /\ Past(write(r)) = 7
        /\ \A r \in Leads : At(write(r)) = 9 /\ Past(write(r)) = 9
        /\ \A r \in Orders : At(write(r)) = 10 /\ Past(write(r)) = 10
        /\ \A r \in Sales : At(write(r)) = 11 /\ Past(write(r)) = 11
    BY WriteLevels
  <2> HIDE DEF write
  <2> QED BY <2>1
<1>w. \A i \in DOMAIN p : \E r \in table : p[i] = write(r)
  BY DEF Writes
<1> HIDE DEF write
<1>3. \A i, j \in DOMAIN p : Past(p[i]) <= At(p[j])
  BY <1>2, <1>w
<1> QED BY <1>1, <1>3 DEF InOrder, Precedes

LEMMA SelectStep ==
  ASSUME NEW w \in Workloads, NEW e \in w.events, Disciplined(w, e), OwnersKnown(w),
         rows \subseteq Rows, e \in DOMAIN todo, Select(e)
  PROVE  Disciplined(w, e)'
<1> DEFINE found == {r \in Next1(e).table \cap rows : owner[r] = Next1(e).of}
           write(r) == [mode |-> "no_key_update", row |-> r]
<1>0. /\ todo[e] # <<>> /\ Next1(e).mode = "select"
      /\ held' = held /\ rows' = rows
      /\ \E s \in [1 .. Cardinality(found) -> found] :
           todo'[e] = [i \in DOMAIN s |-> write(s[i])] \o Tail(todo[e])
  BY DEF Select
<1>z. todo[e] # <<>> /\ Next1(e).mode = "select" /\ held' = held /\ rows' = rows
  BY <1>0
<1>1. PICK s \in [1 .. Cardinality(found) -> found] :
        todo'[e] = [i \in DOMAIN s |-> write(s[i])] \o Tail(todo[e])
  BY <1>0
<1> DEFINE p == [i \in DOMAIN s |-> write(s[i])]
           n == p \o Tail(todo[e])
<1>2. /\ Next1(e).table \in {Sessions, Leads, Orders, Sales}
      /\ Next1(e).of = e.visitor /\ e.visitor \in Visitors
  BY <1>0, AtHand, Shapes
<1>3. \A r \in found : r \in Owned(w, e) /\ r \in rows /\ r \in Next1(e).table
  <2>1. ASSUME NEW r \in found PROVE r \in Owned(w, e)
    <3>1. r \in Sessions \cup Dependents
      BY <1>2 DEF Dependents
    <3>2. owner[r] \in Owners(w, r) \cup {None} /\ owner[r] = e.visitor
      BY <1>2, <3>1 DEF OwnersKnown
    <3>3. e.visitor # None
      BY <1>2, Tables
    <3> QED BY <3>1, <3>2, <3>3 DEF Owned
  <2> QED BY <2>1
<1>4. Cardinality(found) \in Nat
  <2>1. IsFiniteSet(found)
    BY FS_Subset, RowLocksAssumption
  <2> QED BY <2>1, FS_CardinalityType
<1> HIDE DEF found
<1>5. \A i \in DOMAIN p : \E r \in found : p[i] = write(r)
  BY <1>1
<1>6. p \in Seq(Requests(w, e))
  <2>1. \A r \in found : write(r) \in Requests(w, e)
    BY <1>3 DEF Requests
  <2>2. p \in [1 .. Cardinality(found) -> Requests(w, e)]
    BY <1>1, <2>1
  <2> QED BY <1>4, <2>2
<1>7. /\ InOrder(e, p)
      /\ \A i \in DOMAIN p : Asks(e, p[i]) = {p[i]} /\ ~SharesVisitor(p[i])
  <2>1. Writes(Next1(e).table, p)
    BY <1>3, <1>5 DEF Writes
  <2> HIDE DEF p
  <2>2. InOrder(e, p)
    BY <2>1, <1>2, WritesInOrder
  <2> QED BY <2>2, <1>5 DEF Asks, SharesVisitor
<1>8. \A i \in DOMAIN p : Asks(e, p[i]) \subseteq Asks(e, Next1(e))
  <2>1. Asks(e, Next1(e)) = {write(r) : r \in Next1(e).table}
    BY <1>0 DEF Asks
  <2> HIDE DEF p
  <2> QED BY <2>1, <1>3, <1>5, <1>7
<1>9. \A i \in DOMAIN p : /\ p[i].mode = "no_key_update" /\ p[i].row \in rows
                          /\ p[i] # Locking(e.visitor)
  <2> HIDE DEF p
  <2> QED BY <1>3, <1>5 DEF Locking
<1>t. todo'[e] = n
  BY <1>1
<1> HIDE DEF p
<1>10. Upwards(w, e)'
  BY <1>z, <1>t, <1>6, <1>7, <1>8, StaysUpwards
<1>q. /\ todo[e] \in Seq(Requests(w, e)) /\ InOrder(e, todo[e])
      /\ todo[e][1] = Next1(e)
      /\ \A i \in DOMAIN todo[e] : i = 1 \/ 1 < i
  BY <1>z, AtHand DEF Disciplined, Upwards
<1>c. Continues(todo[e], p, n)
  BY <1>z, <1>6, <1>7, <1>8, <1>q, Advance
<1> HIDE DEF n
<1>n. /\ \A i \in DOMAIN n :
           \/ i \in DOMAIN p /\ n[i] = p[i]
           \/ \E j \in DOMAIN todo[e] : 1 < j /\ n[i] = todo[e][j]
      /\ \A j \in DOMAIN todo[e] : 1 < j => \E i \in DOMAIN n : n[i] = todo[e][j]
      /\ \A i, k \in DOMAIN n : i < k =>
           \/ i \in DOMAIN p /\ n[i] = p[i]
           \/ \E j, l \in DOMAIN todo[e] :
                1 < j /\ j < l /\ n[i] = todo[e][j] /\ n[k] = todo[e][l]
  BY <1>c DEF Continues
<1>i. Inserted(e)' = Inserted(e)
  BY <1>z DEF Inserted
<1>11. VisitorLocked(e)'
  <2>1. Next1(e) # Locking(e.visitor)
    BY <1>z DEF Locking
  <2> QED BY <2>1, <1>z, <1>t, <1>n, <1>q DEF Disciplined, VisitorLocked
<1>12. Stubbed(e)'
  BY <1>z, <1>i, <1>t, <1>n, <1>q DEF Disciplined, Stubbed
<1>13. SharedForSession(e)'
  BY <1>z, <1>i, <1>t, <1>n, <1>7, <1>9 DEF Disciplined, SharedForSession
<1>14. WritesFound(e)'
  BY <1>z, <1>t, <1>n, <1>9 DEF Disciplined, WritesFound
<1> QED BY <1>10, <1>11, <1>12, <1>13, <1>14 DEF Disciplined

LEMMA DecideStep ==
  ASSUME NEW w \in Workloads, NEW e \in w.events, Disciplined(w, e), e \in DOMAIN todo,
         Decide(e)
  PROVE  Disciplined(w, e)'
<1>1. /\ todo[e] # <<>> /\ Next1(e).mode = "rule" /\ held' = held /\ rows' = rows
      /\ todo'[e] = Tail(todo[e]) \/ todo'[e] = Returned
  BY DEF Decide
<1>2. Inserted(e)' = Inserted(e)
  BY <1>1 DEF Inserted
<1>3. CASE todo'[e] = Tail(todo[e])
  <2>1. Upwards(w, e)'
    BY <1>1, <1>3, StaysUpwardsAlone
  <2>s. /\ \A i \in DOMAIN todo'[e] :
             i + 1 \in DOMAIN todo[e] /\ todo'[e][i] = todo[e][i + 1] /\ 1 < i + 1
        /\ \A i, j \in DOMAIN todo'[e] : i < j => i + 1 < j + 1
        /\ \A i \in DOMAIN todo[e] :
             todo[e][i] = Next1(e) \/ \E j \in DOMAIN todo'[e] : todo'[e][j] = todo[e][i]
    BY <1>1, <1>3, Shortened
  <2>2. VisitorLocked(e)'
    <3>1. Next1(e) # Locking(e.visitor)
      BY <1>1 DEF Locking
    <3> QED BY <3>1, <1>1, <2>s DEF Disciplined, VisitorLocked
  <2>3. Stubbed(e)'
    BY <1>1, <1>2, <2>s DEF Disciplined, Stubbed
  <2>4. SharedForSession(e)'
    BY <1>1, <1>2, <2>s DEF Disciplined, SharedForSession
  <2>5. WritesFound(e)'
    BY <1>1, <2>s DEF Disciplined, WritesFound
  <2> QED BY <2>1, <2>2, <2>3, <2>4, <2>5 DEF Disciplined
<1>4. CASE todo'[e] = Returned
  <2> DEFINE q == [mode |-> "returned"]
  <2>q. /\ Returned = <<q>> /\ DOMAIN <<q>> = {1} /\ <<q>>[1] = q
        /\ q \in Requests(w, e) /\ Asks(e, q) = {q} /\ At(q) = 16
        /\ q.mode = "returned" /\ ~SharesVisitor(q) /\ q # Locking(e.visitor)
    BY DEF Returned, Requests, Planned, Asks, At, SharesVisitor, Locking
  <2> HIDE DEF q
  <2>1. Upwards(w, e)'
    <3>1. <<q>> \in Seq(Requests(w, e)) /\ InOrder(e, <<q>>)
      BY <2>q DEF InOrder
    <3>2. \A a : Precedes(a, q)
      BY <2>q, Levels DEF Precedes
    <3> QED BY <1>1, <1>4, <2>q, <3>1, <3>2 DEF Disciplined, Upwards
  <2>f. ASSUME NEW i \in DOMAIN todo[e]
        PROVE  /\ todo[e][i] # Locking(e.visitor)
               /\ \A r \in Named(e) : todo[e][i] # [mode |-> "insert", row |-> r]
    <3>1. CASE i = 1
      BY <3>1, <1>1, AtHand DEF Locking
    <3>2. CASE 1 < i
      <4>1. Next1(e) \in Asks(e, Next1(e)) /\ Past(Next1(e)) = 7
        BY <1>1 DEF Asks, Past
      <4> QED BY <3>2, <4>1, <1>1, FollowsVisitor
    <3> QED BY <3>1, <3>2, <1>1, AtHand
  <2>2. VisitorLocked(e)'
    BY <1>1, <2>f DEF Disciplined, VisitorLocked
  <2>3. Stubbed(e)'
    BY <1>1, <1>2, <2>f DEF Disciplined, Stubbed
  <2>4. SharedForSession(e)'
    BY <1>4, <2>q DEF SharedForSession
  <2>5. WritesFound(e)'
    BY <1>4, <2>q DEF WritesFound
  <2> QED BY <2>1, <2>2, <2>3, <2>4, <2>5 DEF Disciplined
<1> QED BY <1>1, <1>3, <1>4

-----------------------------------------------------------------------------
(* Every step keeps the invariant *)

Modes == {"insert", "key_share", "no_key_update", "update"}

LEMMA ConflictsSymmetric ==
  \A a, b \in Modes : a \in Conflicts(b) <=> b \in Conflicts(a)
BY DEF Modes, Conflicts

\* Locks are of what a transaction has asked for.
LEMMA HeldShapes ==
  ASSUME NEW w, NEW e, Disciplined(w, e), NEW lock \in held[e]
  PROVE  /\ lock = <<lock[1], lock[2]>> /\ lock[1] \in Modes
         /\ lock[1] = "insert" => lock[2] \in (Named(e) \cup {e.fact}) \ {None}
         /\ lock[1] = "update" => lock[2] \in Named(e)
         /\ lock[1] = "key_share" => lock[2] \in Named(e) \ Sales
         /\ lock[1] = "no_key_update" => lock[2] \in Owned(w, e)
<1>1. lock = <<lock[1], lock[2]>> /\ Granted(lock) \in RowRequests(w, e)
  BY DEF Disciplined, Upwards
<1>2. Granted(lock) \in Requests(w, e) /\ Granted(lock).mode \notin {"select", "rule", "returned"}
  BY <1>1 DEF RowRequests
<1>3. Granted(lock).mode = lock[1] /\ Granted(lock).row = lock[2]
  BY DEF Granted
<1> QED BY <1>1, <1>2, <1>3, Shapes DEF Modes

\* A session that a transaction inserts is the one its event names.
LEMMA InsertedSession ==
  ASSUME NEW w \in Workloads, NEW e \in w.events, Disciplined(w, e),
         NEW r \in Inserted(e)
  PROVE  /\ r \in Named(e) \cup Facts
         /\ r \in Sessions => r = e.session
<1>1. r \in (Named(e) \cup {e.fact}) \ {None}
  <2>1. <<"insert", r>> \in held[e]
    BY DEF Inserted
  <2> QED BY <2>1, HeldShapes
<1> QED BY <1>1, Columns, Tables DEF Named

\* A step that leaves the locks and the rows as they are.
LEMMA TypeKept ==
  ASSUME TypeOK, DOMAIN todo' = DOMAIN todo, UNCHANGED <<running, held, rows, owner>>
  PROVE  TypeOK'
<1>1. \A e : Inserted(e)' = Inserted(e)
  BY DEF Inserted
<1> QED BY <1>1 DEF TypeOK

\* A lock that nobody's stands in the way of.
LEMMA TypeGranted ==
  ASSUME TypeOK, NEW w \in Workloads, LockInv(w), NEW e \in running, AsksForRow(e),
         Blockers(e) = {}, Next1(e).mode = "insert" => Next1(e).row \notin rows,
         held' = [held EXCEPT ![e] = @ \cup {<<Next1(e).mode, Next1(e).row>>}],
         DOMAIN todo' = DOMAIN todo, UNCHANGED <<running, rows, owner>>
  PROVE  TypeOK'
<1> DEFINE mode == Next1(e).mode
           row == Next1(e).row
<1>0. e \in DOMAIN held
  BY DEF TypeOK
<1>1. mode \in Modes
  <2>1. Disciplined(w, e) /\ todo[e] # <<>>
    BY DEF LockInv, AsksForRow
  <2>2. Next1(e) \in Requests(w, e)
    BY <2>1, AtHand
  <2>3. mode \notin {"select", "rule", "returned"}
    BY DEF AsksForRow
  <2> QED BY <2>2, <2>3, Shapes DEF Modes
<1>2. \A o \in DOMAIN held : o # e => held'[o] = held[o] /\ Inserted(o)' = Inserted(o)
  BY DEF Inserted
<1>3. held'[e] = held[e] \cup {<<mode, row>>}
  BY <1>0
<1>4. Inserted(e)' \cap rows = {}
  <2>1. \A r \in Inserted(e)' : r \in Inserted(e) \/ (mode = "insert" /\ r = row)
    BY <1>3 DEF Inserted
  <2> QED BY <2>1, <1>0 DEF TypeOK
<1>5. ASSUME NEW o \in DOMAIN held \ {e}, NEW other \in held[o], other[2] = row
      PROVE  mode \notin Conflicts(other[1]) /\ other[1] \notin Conflicts(mode)
  <2>1. o \in running /\ Disciplined(w, o)
    BY <1>5 DEF TypeOK, LockInv
  <2>2. other = <<other[1], other[2]>> /\ other[1] \in Modes
    BY <2>1, HeldShapes
  <2>3. other[1] \notin Conflicts(mode)
    BY <2>1, <2>2, <1>5 DEF Blockers
  <2> QED BY <2>2, <2>3, <1>1, ConflictsSymmetric
<1> HIDE DEF mode, row
<1>6. ASSUME NEW a \in DOMAIN held, NEW o \in DOMAIN held \ {a},
             NEW lock \in held'[a], NEW other \in held'[o], lock[2] = other[2]
      PROVE  lock[1] \notin Conflicts(other[1])
  <2>1. CASE lock \in held[a] /\ other \in held[o]
    BY <2>1, <1>6 DEF TypeOK
  <2>2. CASE lock \notin held[a]
    <3>1. a = e /\ lock = <<mode, row>>
      BY <2>2, <1>6, <1>2, <1>3
    <3>2. o \in DOMAIN held \ {e} /\ other \in held[o]
      BY <3>1, <1>6, <1>2
    <3> QED BY <3>1, <3>2, <1>5, <1>6
  <2>3. CASE other \notin held[o]
    <3>1. o = e /\ other = <<mode, row>>
      BY <2>3, <1>6, <1>2, <1>3
    <3>2. a \in DOMAIN held \ {e} /\ lock \in held[a]
      BY <3>1, <1>6, <1>2
    <3> QED BY <3>1, <3>2, <1>5, <1>6
  <2> QED BY <2>1, <2>2, <2>3
<1>7. DOMAIN held' = DOMAIN held
  OBVIOUS
<1>8. \A o \in DOMAIN held' : Inserted(o)' \cap rows' = {} /\ (o \notin running' => held'[o] = {})
  BY <1>2, <1>4, <1>7 DEF TypeOK
<1> QED BY <1>6, <1>7, <1>8 DEF TypeOK

\* A transaction that ends, and may have committed its rows.
LEMMA TypeReleased ==
  ASSUME TypeOK, NEW e \in running, Release(e),
         \/ rows' = rows
         \/ rows' = rows \cup Inserted(e),
         \A r \in DOMAIN owner' : owner'[r] \in Visitors \cup {None}
  PROVE  TypeOK'
<1>1. /\ running' = running \ {e} /\ held' = [held EXCEPT ![e] = {}]
      /\ todo' = [todo EXCEPT ![e] = <<>>]
      /\ e \in DOMAIN held
  BY DEF Release, TypeOK
<1>2. \A o \in DOMAIN held : o # e => held'[o] = held[o] /\ Inserted(o)' = Inserted(o)
  BY <1>1 DEF Inserted
<1>3. held'[e] = {} /\ Inserted(e)' = {}
  BY <1>1 DEF Inserted
<1>4. DOMAIN held' = DOMAIN held /\ DOMAIN todo' = DOMAIN todo
  BY <1>1
<1>5. ASSUME NEW o \in DOMAIN held, o # e, NEW r \in Inserted(o) PROVE r \notin rows'
  <2>1. r \notin rows
    BY <1>5 DEF TypeOK
  <2>2. ASSUME r \in Inserted(e) PROVE FALSE
    <3> DEFINE lock == <<"insert", r>>
    <3>1. /\ lock \in held[o] /\ lock \in held[e] /\ lock[2] = lock[2]
          /\ lock[1] \in Conflicts(lock[1]) /\ o \in DOMAIN held \ {e}
      BY <1>5, <2>2 DEF Inserted, Conflicts
    <3> HIDE DEF lock
    <3> QED BY <3>1, <1>1 DEF TypeOK
  <2> QED BY <2>1, <2>2
<1>6. \A o \in DOMAIN held' : Inserted(o)' \cap rows' = {} /\ (o \notin running' => held'[o] = {})
  BY <1>1, <1>2, <1>3, <1>4, <1>5 DEF TypeOK
<1>7. rows' \subseteq Rows
  BY DEF TypeOK, Inserted
<1>8. ASSUME NEW a \in DOMAIN held, NEW o \in DOMAIN held \ {a},
             NEW lock \in held'[a], NEW other \in held'[o], lock[2] = other[2]
      PROVE  lock[1] \notin Conflicts(other[1])
  <2>1. a # e /\ o # e
    BY <1>3, <1>8
  <2> QED BY <2>1, <1>2, <1>8 DEF TypeOK
<1>9. running' \subseteq DOMAIN todo' /\ DOMAIN held' = DOMAIN todo'
  BY <1>1, <1>4 DEF TypeOK
<1> QED BY <1>4, <1>6, <1>7, <1>8, <1>9 DEF TypeOK

LEMMA NextInv == Inv /\ [Next]_vars => Inv'
<1> SUFFICES ASSUME Inv, [Next]_vars PROVE Inv'
  OBVIOUS
<1>w. PICK w \in Workloads : LockInv(w)
  BY DEF Inv
<1>i. /\ TypeOK /\ DOMAIN todo = w.events /\ OwnersKnown(w)
      /\ \A e \in running : Disciplined(w, e) /\ e \in w.events /\ e \in DOMAIN todo /\ e \in DOMAIN held
  BY <1>w DEF Inv, LockInv, TypeOK
<1>u. CASE UNCHANGED vars
  <2>1. /\ UNCHANGED <<running, held, rows, owner>> /\ todo' = todo
    BY <1>u DEF vars
  <2>2. TypeOK'
    BY <2>1, <1>i, TypeKept
  <2>3. \A e \in running : Disciplined(w, e)'
    BY <2>1, <1>i, OthersStay
  <2>4. OwnersKnown(w)'
    BY <2>1, <1>i DEF OwnersKnown
  <2> QED BY <2>1, <2>2, <2>3, <2>4, <1>i DEF Inv, LockInv
<1>a. ASSUME NEW e \in running,
             StubExists(e) \/ Insert(e) \/ Lock(e) \/ Select(e) \/ Decide(e)
      PROVE  Inv'
  <2>1. /\ running' = running /\ rows' = rows /\ owner' = owner
        /\ DOMAIN todo' = DOMAIN todo /\ \A o \in running : o # e => todo'[o] = todo[o]
    BY <1>a, <1>i DEF StubExists, Insert, Lock, Select, Decide
  <2>2. \A o \in running : o # e => held'[o] = held[o]
    BY <1>a, <1>i DEF StubExists, Insert, Lock, Select, Decide
  <2>3. TypeOK'
    <3>1. CASE StubExists(e) \/ Select(e) \/ Decide(e)
      <4>1. UNCHANGED <<running, held, rows, owner>>
        BY <3>1 DEF StubExists, Select, Decide
      <4> QED BY <4>1, <2>1, <1>i, TypeKept
    <3>2. CASE Insert(e) \/ Lock(e)
      <4>1. /\ AsksForRow(e) /\ Blockers(e) = {}
            /\ Next1(e).mode = "insert" => Next1(e).row \notin rows
            /\ held' = [held EXCEPT ![e] = @ \cup {<<Next1(e).mode, Next1(e).row>>}]
            /\ UNCHANGED <<running, rows, owner>>
        BY <3>2 DEF Insert, Lock, IsNew
      <4> QED BY <4>1, <2>1, <1>a, <1>i, <1>w, TypeGranted
    <3> QED BY <1>a, <3>1, <3>2
  <2>4. Disciplined(w, e)'
    <3>1. rows \subseteq Rows
      BY <1>i DEF TypeOK
    <3> QED BY <3>1, <1>a, <1>i, StubExistsStep, InsertStep, LockStep, SelectStep, DecideStep
  <2>5. ASSUME NEW o \in running, o # e PROVE Disciplined(w, o)'
    BY <2>1, <2>2, <2>5, <1>i, OthersStay
  <2>6. OwnersKnown(w)'
    BY <2>1, <1>i DEF OwnersKnown
  <2> QED BY <2>1, <2>3, <2>4, <2>5, <2>6, <1>i DEF Inv, LockInv
<1>b. ASSUME NEW e \in running, Commit(e) \/ Rollback(e) \/ NotFound(e) PROVE Inv'
  <2>1. Release(e)
    BY <1>b DEF Commit, Rollback, NotFound
  <2>2. /\ running' = running \ {e} /\ DOMAIN todo' = DOMAIN todo
        /\ \A o \in running : o # e => todo'[o] = todo[o] /\ held'[o] = held[o]
    BY <2>1, <1>i DEF Release
  <2>3. rows' = rows \/ rows' = rows \cup Inserted(e)
    BY <1>b DEF Commit, Rollback, NotFound
  <2>4. /\ DOMAIN owner' = DOMAIN owner
        /\ \A r \in DOMAIN owner :
             \/ owner'[r] = owner[r]
             \/ /\ owner'[r] = e.visitor
                /\ r = Aggregate(e) \/ (r \in Inserted(e) /\ r \in Sessions)
    BY <1>b DEF Commit, Rollback, NotFound
  <2>5. /\ Disciplined(w, e) /\ e \in w.events
        /\ e.visitor \in Visitors \cup {None}
    BY <1>i, Columns
  <2>6. \A r \in DOMAIN owner' : owner'[r] \in Visitors \cup {None}
    BY <2>4, <2>5, <1>i DEF TypeOK
  <2>7. TypeOK'
    BY <2>1, <2>3, <2>6, <1>b, <1>i, TypeReleased
  <2>8. ASSUME NEW r \in DOMAIN owner PROVE owner'[r] \in Owners(w, r) \cup {None}
    <3>1. CASE owner'[r] = owner[r]
      BY <3>1, <1>i DEF OwnersKnown
    <3>2. CASE /\ owner'[r] = e.visitor
               /\ r = Aggregate(e) \/ (r \in Inserted(e) /\ r \in Sessions)
      <4>1. r \in {e.session, Aggregate(e)}
        BY <3>2, <2>5, InsertedSession
      <4> QED BY <4>1, <3>2, <2>5 DEF Owners
    <3> QED BY <3>1, <3>2, <2>4
  <2>9. OwnersKnown(w)'
    BY <2>4, <2>8, <1>i DEF OwnersKnown
  <2>10. ASSUME NEW o \in running, o # e PROVE Disciplined(w, o)'
    BY <2>2, <2>3, <2>10, <1>i, OthersStay
  <2> QED BY <2>2, <2>7, <2>9, <2>10, <1>i DEF Inv, LockInv
<1> QED BY <1>u, <1>a, <1>b DEF Next

\* Locks held together are compatible, and an open insert is of a row that is
\* not there (stubs.py:22-63).
THEOREM TypeCorrect == Spec => []TypeOK
<1>1. Inv => TypeOK
  BY DEF Inv
<1> QED BY <1>1, InitInv, NextInv, PTL DEF Spec

-----------------------------------------------------------------------------
(* Stubs *)

\* A lock is asked for when no stub of the row is still to come.
LEMMA StubBefore ==
  ASSUME NEW w \in Workloads, NEW e \in w.events, Disciplined(w, e), todo[e] # <<>>,
         Next1(e).mode \in {"update", "key_share"}, e.type # "anonymize"
  PROVE  Next1(e).row \in rows \cup Inserted(e)
<1> DEFINE row == Next1(e).row
           stub == [mode |-> "insert", row |-> row]
<1>1. /\ Next1(e) = [mode |-> Next1(e).mode, row |-> row]
      /\ row \in Named(e) /\ (Next1(e).mode = "key_share" => row \notin Sales)
  BY AtHand, Shapes
<1>2. row \in Visitors \cup Sessions \cup Leads \cup Orders \cup Sales
  BY <1>1, Columns DEF Named
<1>3. At(stub) < Past(Next1(e))
  <2>1. CASE Next1(e).mode = "update"
    <3>1. 7 <= Past(Next1(e))
      BY <1>1, <1>2, <2>1, UpdateLevels
    <3>2. At(stub) <= 5
      BY <1>2, InsertLevels
    <3> QED BY <3>1, <3>2, Levels
  <2>2. CASE Next1(e).mode = "key_share"
    <3>1. /\ row \in Visitors => Past(Next1(e)) = 3
          /\ row \notin Visitors => 14 <= Past(Next1(e))
      BY <1>1, <1>2, <2>2, ShareLevels
    <3>2. /\ row \in Visitors => At(stub) = 1
          /\ At(stub) <= 5
      BY <1>2, InsertLevels
    <3> QED BY <3>1, <3>2, Levels
  <2> QED BY <2>1, <2>2
<1>4. /\ Next1(e) \in Asks(e, Next1(e)) /\ stub \in Asks(e, stub) /\ ~SharesVisitor(stub)
  BY DEF Asks, SharesVisitor
<1>5. At(stub) \in Nat /\ Past(Next1(e)) \in Nat
  BY Levels
<1>6. stub # Next1(e) /\ row \in Named(e)
  BY <1>1
<1> HIDE DEF stub
<1>7. ASSUME NEW i \in DOMAIN todo[e], todo[e][i] = stub PROVE FALSE
  <2>1. 1 < i
    BY <1>6, <1>7, AtHand
  <2> QED BY <2>1, <1>3, <1>4, <1>5, <1>7, Follows
<1> QED BY <1>6, <1>7 DEF Disciplined, Stubbed, stub

\* Whatever order events come in, and whichever of them are rolled back, a
\* handler finds every row it locks and every row it refers to: no foreign key
\* fails, and require_row raises nothing (stubs.py:21-65, locking.py:17-30).
THEOREM ReferencesFoundAlways == Spec => []ReferencesFound
<1>1. ASSUME Inv PROVE ReferencesFound
  <2> SUFFICES ASSUME NEW e \in running, AsksForRow(e), Next1(e).mode # "insert",
                      e.type # "anonymize"
               PROVE  Next1(e).row \in rows \cup Inserted(e)
    BY DEF ReferencesFound
  <2>w. PICK w \in Workloads : LockInv(w)
    BY <1>1 DEF Inv
  <2>1. /\ e \in w.events /\ Disciplined(w, e) /\ todo[e] # <<>>
        /\ Next1(e).mode \notin {"select", "rule", "returned"}
    BY <1>1, <2>w DEF Inv, LockInv, TypeOK, AsksForRow
  <2>2. Next1(e).mode \in {"update", "key_share", "no_key_update"}
    BY <2>1, AtHand, Shapes
  <2>3. CASE Next1(e).mode = "no_key_update"
    BY <2>1, <2>3, AtHand DEF Disciplined, WritesFound
  <2> QED BY <2>1, <2>2, <2>3, StubBefore
<1> QED BY <1>1, InitInv, NextInv, PTL DEF Spec

-----------------------------------------------------------------------------
(* Circles *)

\* Transactions that wait for each other.
Circle(w, D) == TypeOK /\ LockInv(w) /\ D \subseteq running /\ Deadlocked(D)

Rank(e) == At(Next1(e))

\* Each waits for a lock that another holds.
LEMMA InCircle ==
  ASSUME NEW w \in Workloads, NEW D, Circle(w, D), NEW e \in D
  PROVE  /\ e \in w.events /\ e \in DOMAIN held /\ Disciplined(w, e) /\ todo[e] # <<>>
         /\ Next1(e) \in Requests(w, e) /\ Next1(e).mode \in Modes
         /\ Next1(e) = [mode |-> Next1(e).mode, row |-> Next1(e).row]
         /\ \E o \in D \ {e} : \E mode \in Conflicts(Next1(e).mode) :
              <<mode, Next1(e).row>> \in held[o]
<1>1. /\ e \in w.events /\ e \in DOMAIN held /\ Disciplined(w, e)
      /\ AsksForRow(e) /\ Blockers(e) \cap D # {}
  BY DEF Circle, TypeOK, LockInv, Deadlocked
<1>2. todo[e] # <<>> /\ Next1(e).mode \notin {"select", "rule", "returned"}
  BY <1>1 DEF AsksForRow
<1>3. Next1(e) \in Requests(w, e)
  BY <1>1, <1>2, AtHand
<1>4. /\ Next1(e).mode \in Modes
      /\ Next1(e) = [mode |-> Next1(e).mode, row |-> Next1(e).row]
  BY <1>2, <1>3, Shapes DEF Modes
<1>5. \E o \in D \ {e} : \E mode \in Conflicts(Next1(e).mode) :
        <<mode, Next1(e).row>> \in held[o]
  BY <1>1 DEF Blockers
<1> QED BY <1>1, <1>2, <1>3, <1>4, <1>5

LEMMA Apart ==
  ASSUME NEW w \in Workloads, NEW D, Circle(w, D), NEW a \in D, NEW b \in D, a # b,
         NEW m, NEW n, NEW r, <<m, r>> \in held[a], <<n, r>> \in held[b]
  PROVE  m \notin Conflicts(n)
<1> DEFINE lock == <<m, r>>
           other == <<n, r>>
<1>1. /\ lock \in held[a] /\ other \in held[b] /\ lock[2] = other[2]
      /\ lock[1] = m /\ other[1] = n
  OBVIOUS
<1>2. a \in DOMAIN held /\ b \in DOMAIN held \ {a}
  BY InCircle
<1> HIDE DEF lock, other
<1> QED BY <1>1, <1>2 DEF Circle, TypeOK

\* A lock past the visitor's row.
PastVisitor(e) ==
  \E m \in Modes, r \in Rows : <<m, r>> \in held[e] /\ 7 <= Past([mode |-> m, row |-> r])

\* What a transaction holds that has got past the visitor's row.
LEMMA HolderVisitor ==
  ASSUME NEW w \in Workloads, NEW e \in w.events, Disciplined(w, e), PastVisitor(e),
         e.visitor # None
  PROVE  <<"update", e.visitor>> \in held[e]
<1>0. PICK m \in Modes, r \in Rows :
        <<m, r>> \in held[e] /\ 7 <= Past([mode |-> m, row |-> r])
  BY DEF PastVisitor
<1> DEFINE lock == <<m, r>>
<1>1. lock \in held[e] /\ Granted(lock) = [mode |-> m, row |-> r]
  BY <1>0 DEF Granted
<1> HIDE DEF lock
<1>2. ASSUME NEW i \in DOMAIN todo[e], todo[e][i] = Locking(e.visitor) PROVE FALSE
  <2>1. At(Locking(e.visitor)) = 6 /\ ~SharesVisitor(Locking(e.visitor))
    BY Columns, UpdateLevels DEF Locking, SharesVisitor
  <2>2. Locking(e.visitor) \in Asks(e, todo[e][i])
    BY <1>2 DEF Asks, Locking
  <2>3. Precedes(Granted(lock), Locking(e.visitor))
    BY <1>1, <2>2 DEF Disciplined, Upwards
  <2> QED BY <1>0, <1>1, <2>1, <2>3, Levels DEF Precedes
<1> QED BY <1>2 DEF Disciplined, VisitorLocked

\* And what one holds that asks for a row further on.
LEMMA AskerVisitor ==
  ASSUME NEW w \in Workloads, NEW D, Circle(w, D), NEW e \in D,
         7 <= Past(Next1(e)), Next1(e) # Locking(e.visitor), e.visitor # None
  PROVE  <<"update", e.visitor>> \in held[e]
<1>1. /\ e \in w.events /\ Disciplined(w, e) /\ todo[e] # <<>> /\ Next1(e).mode \in Modes
  BY InCircle
<1>2. Next1(e) \in Asks(e, Next1(e))
  BY <1>1 DEF Asks, Modes
<1>3. ASSUME NEW i \in DOMAIN todo[e], todo[e][i] = Locking(e.visitor) PROVE FALSE
  <2>1. 1 < i
    BY <1>1, <1>3, AtHand
  <2> QED BY <1>1, <1>2, <1>3, <2>1, FollowsVisitor
<1> QED BY <1>1, <1>3 DEF Disciplined, VisitorLocked

\* One that holds a lock past the visitor's row waits at a higher level.
LEMMA HolderGoesOn ==
  ASSUME NEW w \in Workloads, NEW D, Circle(w, D), NEW o \in D,
         NEW m \in Modes, NEW r \in Rows, <<m, r>> \in held[o],
         7 <= Past([mode |-> m, row |-> r])
  PROVE  Past([mode |-> m, row |-> r]) <= Rank(o)
<1>1. /\ o \in w.events /\ Disciplined(w, o) /\ todo[o] # <<>> /\ Next1(o).mode \in Modes
      /\ Next1(o) \in Requests(w, o)
  BY InCircle
<1>2. Precedes([mode |-> m, row |-> r], Next1(o))
  <2> DEFINE lock == <<m, r>>
  <2>1. lock \in held[o] /\ Granted(lock) = [mode |-> m, row |-> r]
    BY DEF Granted
  <2> HIDE DEF lock
  <2>2. 1 \in DOMAIN todo[o] /\ Next1(o) \in Asks(o, todo[o][1])
    BY <1>1, AtHand DEF Asks, Modes
  <2> QED BY <1>1, <2>1, <2>2 DEF Disciplined, Upwards
<1>3. ASSUME SharesVisitor(Next1(o)) PROVE FALSE
  <2>1. /\ Next1(o).mode = "key_share" /\ Next1(o).row \in Named(o)
        /\ Next1(o).row \in Visitors
    BY <1>1, <1>3, Shapes DEF SharesVisitor
  <2>2. Next1(o).row = o.visitor /\ o.visitor # None
    BY <1>1, <2>1, Columns, Tables DEF Named
  <2>3. <<"update", o.visitor>> \in held[o]
    <3>1. PastVisitor(o)
      BY DEF PastVisitor
    <3> QED BY <1>1, <2>2, <3>1, HolderVisitor
  <2>c. Conflicts("key_share") = {"update"}
    BY DEF Conflicts
  <2>4. PICK p \in D \ {o} : <<"update", o.visitor>> \in held[p]
    <3>1. \E p \in D \ {o} : \E mode \in Conflicts(Next1(o).mode) :
            <<mode, Next1(o).row>> \in held[p]
      BY InCircle
    <3> QED BY <3>1, <2>1, <2>2, <2>c
  <2>5. "update" \in Conflicts("update")
    BY DEF Conflicts
  <2> QED BY <2>3, <2>4, <2>5, Apart
<1> QED BY <1>2, <1>3 DEF Precedes, Rank

\* Two that are past their visitors' rows have different visitors.
LEMMA VisitorsApart ==
  ASSUME NEW w \in Workloads, NEW D, Circle(w, D), NEW a \in D, NEW b \in D, a # b,
         <<"update", a.visitor>> \in held[a], <<"update", b.visitor>> \in held[b]
  PROVE  a.visitor # b.visitor
<1>1. "update" \in Conflicts("update")
  BY DEF Conflicts
<1> QED BY <1>1, Apart

\* What a lock held in a circle is of.
LEMMA HeldInCircle ==
  ASSUME NEW w \in Workloads, NEW D, Circle(w, D), NEW o \in D,
         NEW m, NEW r, <<m, r>> \in held[o]
  PROVE  /\ m \in Modes /\ r \in Rows
         /\ [mode |-> m, row |-> r] \in Requests(w, o)
         /\ Precedes([mode |-> m, row |-> r], Next1(o))
<1> DEFINE lock == <<m, r>>
<1>1. /\ o \in w.events /\ Disciplined(w, o) /\ todo[o] # <<>> /\ Next1(o).mode \in Modes
  BY InCircle
<1>2. /\ lock \in held[o] /\ lock[1] = m /\ lock[2] = r
      /\ Granted(lock) = [mode |-> m, row |-> r]
  BY DEF Granted
<1> HIDE DEF lock
<1>3. 1 \in DOMAIN todo[o] /\ Next1(o) \in Asks(o, todo[o][1])
  BY <1>1, AtHand DEF Asks, Modes
<1>4. m \in Modes
  BY <1>1, <1>2, HeldShapes
<1>5. r \in Rows
  <2>1. m = "no_key_update" \/ r \in (Named(o) \cup {o.fact}) \ {None}
    <3>1. /\ m = "insert" => r \in (Named(o) \cup {o.fact}) \ {None}
          /\ m \in {"update", "key_share"} => r \in Named(o)
      BY <1>1, <1>2, HeldShapes
    <3> QED BY <3>1, <1>4 DEF Modes, Named
  <2>2. m = "no_key_update" => r \in Sessions \cup Dependents
    BY <1>1, <1>2, HeldShapes DEF Owned
  <2>3. (Named(o) \cup {o.fact}) \ {None} \subseteq Rows
    BY <1>1, Columns DEF Named, Rows, Dependents
  <2> QED BY <2>1, <2>2, <2>3 DEF Rows
<1> QED BY <1>1, <1>2, <1>3, <1>4, <1>5 DEF Disciplined, Upwards, RowRequests

\* A request for a row of a session or of a dependent, by the visitor it can
\* belong to.
LEMMA OwnedSession ==
  ASSUME NEW w \in Workloads, NEW e \in w.events, NEW q \in Requests(w, e),
         q.mode \in {"key_share", "no_key_update", "update"}, q.row \in Sessions
  PROVE  e.visitor \in Owners(w, q.row) /\ e.visitor \in Visitors
<1>1. e.visitor \in Owners(w, q.row)
  <2>1. CASE q.mode = "no_key_update"
    BY <2>1, Shapes DEF Owned
  <2>2. CASE q.mode \in {"key_share", "update"}
    <3>1. q.row \in Named(e)
      BY <2>2, Shapes
    <3>2. q.row = e.session /\ e.session # None
      BY <3>1, Columns, Tables DEF Named
    <3>3. e.visitor \in Visitors
      BY <3>2, Columns
    <3> QED BY <3>2, <3>3 DEF Owners
  <2> QED BY <2>1, <2>2
<1> QED BY <1>1 DEF Owners

\* Nobody in a circle waits to lock a session: the two would have locked one
\* visitor.
LEMMA SessionFree ==
  ASSUME FewMove, NEW w \in Workloads, NEW D, Circle(w, D), NEW e \in D,
         Next1(e).mode # "insert"
  PROVE  Next1(e).row \notin Sessions
<1> SUFFICES ASSUME Next1(e).row \in Sessions PROVE FALSE
  OBVIOUS
<1> DEFINE s == Next1(e).row
           asked == Next1(e).mode
<1>1. /\ e \in w.events /\ Next1(e) \in Requests(w, e)
      /\ asked \in {"key_share", "no_key_update", "update"}
      /\ Next1(e) = [mode |-> asked, row |-> s]
      /\ \E o \in D \ {e} : \E mode \in Conflicts(asked) : <<mode, s>> \in held[o]
  BY InCircle DEF Modes
<1>2. PICK o \in D \ {e}, m \in Conflicts(asked) : <<m, s>> \in held[o]
  BY <1>1
<1>3. m \in {"key_share", "no_key_update", "update"}
  BY <1>1, <1>2 DEF Conflicts
<1>4. /\ o \in w.events /\ Disciplined(w, o)
      /\ s \in Rows /\ m \in Modes /\ [mode |-> m, row |-> s] \in Requests(w, o)
  BY <1>2, InCircle, HeldInCircle
<1>5. e.visitor \in Owners(w, s) /\ e.visitor \in Visitors
  BY <1>1, OwnedSession
<1>6. o.visitor \in Owners(w, s) /\ o.visitor \in Visitors
  <2> DEFINE q == [mode |-> m, row |-> s]
  <2>1. q \in Requests(w, o) /\ q.mode = m /\ q.row = s
    BY <1>4
  <2> HIDE DEF q
  <2> QED BY <2>1, <1>3, <1>4, OwnedSession
<1>p. \A mode \in {"key_share", "no_key_update", "update"} :
        7 <= Past([mode |-> mode, row |-> s])
  BY ShareLevels, WriteLevels, UpdateLevels
<1> HIDE DEF s, asked
<1>7. <<"update", e.visitor>> \in held[e]
  <2>1. 7 <= Past(Next1(e))
    BY <1>1, <1>p
  <2>2. Next1(e) # Locking(e.visitor)
    BY <1>1, <1>5, Tables DEF Locking, s
  <2>3. e.visitor # None
    BY <1>5, Tables
  <2> QED BY <2>1, <2>2, <2>3, AskerVisitor
<1>8. <<"update", o.visitor>> \in held[o]
  <2>1. PastVisitor(o)
    BY <1>2, <1>3, <1>4, <1>p DEF PastVisitor
  <2>2. o.visitor # None
    BY <1>6, Tables
  <2> QED BY <2>1, <2>2, <1>4, HolderVisitor
<1>9. e.visitor # o.visitor
  BY <1>2, <1>7, <1>8, VisitorsApart
<1> QED BY <1>5, <1>6, <1>9 DEF FewMove, Moves, s

\* Someone in the circle waits at a higher level.
Higher(e, D) == \E p \in D : Rank(e) < Rank(p)

LEMMA InsertRises ==
  ASSUME NEW w \in Workloads, NEW D, Circle(w, D), NEW e \in D,
         Next1(e).mode = "insert"
  PROVE  Higher(e, D)
<1> DEFINE r == Next1(e).row
           q == [mode |-> "insert", row |-> r]
<1>1. /\ e \in w.events /\ Next1(e) = q
      /\ r \in (Named(e) \cup {e.fact}) \ {None}
  BY InCircle, Shapes
<1>2. PICK o \in D \ {e} : <<"insert", r>> \in held[o]
  <2>1. \E o \in D \ {e} : \E mode \in Conflicts(Next1(e).mode) : <<mode, r>> \in held[o]
    BY InCircle
  <2>2. Conflicts("insert") = {"insert"}
    BY DEF Conflicts
  <2> QED BY <2>1, <2>2
<1>3. "insert" \in Modes /\ r \in Rows /\ Precedes(q, Next1(o))
  BY <1>2, HeldInCircle
<1>4. r \in Visitors \cup Sessions \cup Leads \cup Orders \cup Sales \cup Facts
  BY <1>1, Columns DEF Named
<1>5. CASE r \in Facts
  <2>1. At(q) = 12 /\ Past(q) = 13
    BY <1>5, InsertLevels
  <2>2. Past(q) <= Rank(o)
    <3> HIDE DEF r
    <3> QED BY <1>2, <1>3, <2>1, HolderGoesOn
  <2> QED BY <1>1, <2>1, <2>2, Levels DEF Rank, Higher
<1>6. CASE r \notin Facts
  <2>1. At(q) <= 5 /\ Past(q) = At(q) + 1
    BY <1>4, <1>6, InsertLevels
  <2>2. SharesVisitor(Next1(o)) => At(Next1(o)) = 6
    <3>1. Next1(o) = [mode |-> Next1(o).mode, row |-> Next1(o).row]
      BY <1>2, InCircle
    <3> QED BY <3>1, ShareLevels DEF SharesVisitor
  <2>3. At(q) < At(Next1(o))
    BY <1>3, <2>1, <2>2, Levels DEF Precedes
  <2> QED BY <1>1, <2>3 DEF Rank, Higher
<1> QED BY <1>5, <1>6

LEMMA ShareRises ==
  ASSUME FewMove, NEW w \in Workloads, NEW D, Circle(w, D), NEW e \in D,
         Next1(e).mode = "key_share"
  PROVE  Higher(e, D)
<1> DEFINE r == Next1(e).row
           q == [mode |-> "key_share", row |-> r]
           u == [mode |-> "update", row |-> r]
<1>1. e \in w.events /\ Next1(e) = q /\ r \in Named(e) \ Sales
  BY InCircle, Shapes
<1>2. PICK o \in D \ {e} : <<"update", r>> \in held[o]
  <2>1. \E o \in D \ {e} : \E mode \in Conflicts(Next1(e).mode) : <<mode, r>> \in held[o]
    BY InCircle
  <2>2. Conflicts("key_share") = {"update"}
    BY DEF Conflicts
  <2> QED BY <2>1, <2>2
<1>3. "update" \in Modes /\ r \in Rows
  BY <1>2, HeldInCircle
<1>4. r \in Visitors \cup Leads \cup Orders
  <2>1. r \notin Sessions
    BY SessionFree
  <2> QED BY <1>1, <2>1, Columns DEF Named
<1>5. At(q) < Past(u) /\ 7 <= Past(u)
  <2>1. /\ r \in Visitors => At(q) = 6 /\ Past(u) = 7
        /\ r \in Leads => At(q) = 14 /\ Past(u) = 15
        /\ r \in Orders => At(q) = 13 /\ Past(u) = 14
    BY ShareLevels, UpdateLevels
  <2> HIDE DEF q, u
  <2> QED BY <1>4, <2>1
<1>6. Past(u) <= Rank(o)
  <2> HIDE DEF r
  <2> QED BY <1>2, <1>3, <1>5, HolderGoesOn
<1>7. Rank(e) < Rank(o)
  BY <1>1, <1>5, <1>6, Levels DEF Rank
<1> QED BY <1>7 DEF Higher

\* A new session's share of the visitor's row that another is to lock.
SessionInserter(D) ==
  \E e, o \in D :
    /\ e # o /\ Inserted(o) \cap Sessions # {}
    /\ Next1(e) \in {[mode |-> "update", row |-> v] : v \in Visitors}
    /\ <<"key_share", Next1(e).row>> \in held[o]

LEMMA UpdateRises ==
  ASSUME FewMove, NEW w \in Workloads, NEW D, Circle(w, D), NEW e \in D,
         Next1(e).mode = "update"
  PROVE  Higher(e, D) \/ SessionInserter(D)
<1> DEFINE r == Next1(e).row
           q == [mode |-> "update", row |-> r]
<1>1. e \in w.events /\ Next1(e) = q /\ r \in Named(e)
  BY InCircle, Shapes
<1>2. PICK o \in D \ {e}, m \in {"key_share", "no_key_update", "update"} :
        <<m, r>> \in held[o]
  <2>1. \E o \in D \ {e} : \E mode \in Conflicts(Next1(e).mode) : <<mode, r>> \in held[o]
    BY InCircle
  <2>2. Conflicts("update") = {"key_share", "no_key_update", "update"}
    BY DEF Conflicts
  <2> QED BY <2>1, <2>2
<1> DEFINE l == [mode |-> m, row |-> r]
<1>3. /\ o \in w.events /\ Disciplined(w, o)
      /\ m \in Modes /\ r \in Rows /\ l \in Requests(w, o)
  BY <1>2, InCircle, HeldInCircle
<1>4. r \in Visitors \cup Leads \cup Orders \cup Sales
  <2>1. r \notin Sessions
    BY <1>1, SessionFree
  <2> QED BY <1>1, <2>1, Columns DEF Named
<1>5. /\ m \in {"key_share", "update"} => r \in Named(o)
      /\ m = "key_share" => r \notin Sales
      /\ m = "no_key_update" => r \in Sessions \cup Dependents
  <2>1. l.mode = m /\ l.row = r
    OBVIOUS
  <2> HIDE DEF l
  <2> QED BY <1>3, <2>1, Shapes DEF Owned
<1>6. CASE r \in Visitors
  <2>1. r = o.visitor /\ o.visitor # None /\ m # "no_key_update"
    BY <1>2, <1>5, <1>6, <1>3, Columns, Tables DEF Named, Dependents
  <2>2. <<"update", r>> \in held[o] \/ SessionInserter(D)
    <3>1. CASE m = "key_share" /\ Inserted(o) \cap Sessions = {}
      BY <2>1, <1>2, <1>3, <3>1 DEF Disciplined, SharedForSession, VisitorLocked
    <3>2. CASE m = "key_share" /\ Inserted(o) \cap Sessions # {}
      BY <1>1, <1>2, <1>6, <3>2 DEF SessionInserter
    <3>3. CASE m = "update"
      BY <1>2, <3>3
    <3> QED BY <1>2, <2>1, <3>1, <3>2, <3>3
  <2>3. At(q) = 6 /\ Past(q) = 7
    BY <1>6, UpdateLevels
  <2>4. ASSUME <<"update", r>> \in held[o] PROVE Rank(e) < Rank(o)
    <3>1. "update" \in Modes
      BY DEF Modes
    <3>2. Past(q) <= Rank(o)
      <4> HIDE DEF r
      <4> QED BY <1>3, <2>3, <2>4, <3>1, HolderGoesOn
    <3> QED BY <1>1, <2>3, <3>2, Levels DEF Rank
  <2> QED BY <2>2, <2>4 DEF Higher
<1>7. CASE r \notin Visitors
  <2>1. At(q) = 8
    BY <1>4, <1>7, UpdateLevels
  <2>2. 9 <= Past(l)
    <3>1. /\ m = "key_share" => 9 <= Past(l)
      BY <1>4, <1>5, <1>7, ShareLevels
    <3>2. m = "no_key_update" => 9 <= Past(l)
      BY <1>4, <1>7, WriteLevels
    <3>3. m = "update" => 9 <= Past(l)
      BY <1>4, <1>7, UpdateLevels
    <3> HIDE DEF l
    <3> QED BY <1>2, <3>1, <3>2, <3>3
  <2>3. Past(l) <= Rank(o)
    <3>1. 7 <= Past(l)
      BY <2>2, Levels
    <3> HIDE DEF r
    <3> QED BY <1>2, <1>3, <3>1, HolderGoesOn
  <2>4. Rank(e) < Rank(o)
    BY <1>1, <2>1, <2>2, <2>3, Levels DEF Rank
  <2> QED BY <2>4 DEF Higher
<1> QED BY <1>6, <1>7

\* Rows of a table are written in any order, but two that each write a row the
\* other has would both be of visitors that the rows move between.
LEMMA WriteRises ==
  ASSUME FewMove, NEW w \in Workloads, NEW D, Circle(w, D), NEW e \in D,
         Next1(e).mode = "no_key_update"
  PROVE  Higher(e, D)
<1> DEFINE nku(row) == [mode |-> "no_key_update", row |-> row]
           upd(row) == [mode |-> "update", row |-> row]
           Table == {Leads, Orders, Sales}
<1>m. /\ "no_key_update" \in Modes /\ "update" \in Modes
      /\ Conflicts("no_key_update") = {"no_key_update", "update"}
  BY DEF Modes, Conflicts
<1>l. \A table \in Table : \E level \in 9 .. 11 :
        /\ \A row \in table : /\ At(nku(row)) = level /\ Past(nku(row)) = level
                              /\ level < Past(upd(row))
        /\ \A q : At(q) = level =>
             q.mode = "no_key_update" /\ (q.row \in Sessions \cup Dependents => q.row \in table)
  <2>1. /\ \A row \in Leads : At(nku(row)) = 9 /\ Past(nku(row)) = 9 /\ 9 < Past(upd(row))
        /\ \A row \in Orders : At(nku(row)) = 10 /\ Past(nku(row)) = 10 /\ 10 < Past(upd(row))
        /\ \A row \in Sales : At(nku(row)) = 11 /\ Past(nku(row)) = 11 /\ 11 < Past(upd(row))
    BY WriteLevels, UpdateLevels
  <2>2. \A q : At(q) \in 9 .. 11 => q.mode = "no_key_update"
    BY DEF At
  <2>3. \A q : q.mode = "no_key_update" =>
          /\ At(q) = 9 => q.row \in Leads
          /\ At(q) = 10 => q.row \in Orders
          /\ At(q) = 11 => q.row \notin Sessions \cup Leads \cup Orders
    BY DEF At
  <2> HIDE DEF nku, upd
  <2>4. \A q : At(q) = 9 => q.mode = "no_key_update" /\ q.row \in Leads
    BY <2>2, <2>3
  <2>5. \A q : At(q) = 10 => q.mode = "no_key_update" /\ q.row \in Orders
    BY <2>2, <2>3
  <2>6. \A q : At(q) = 11 =>
          /\ q.mode = "no_key_update"
          /\ q.row \in Sessions \cup Dependents => q.row \in Sales
    BY <2>2, <2>3 DEF Dependents
  <2> QED BY <2>1, <2>4, <2>5, <2>6
<1> HIDE DEF nku, upd
<1>x. \A p \in D :
        /\ p \in w.events /\ Disciplined(w, p)
        /\ Next1(p).mode = "no_key_update" =>
             /\ Next1(p) = nku(Next1(p).row) /\ p.visitor \in Owners(w, Next1(p).row)
             /\ p.visitor \in Visitors
             /\ Next1(p).row \in Leads \cup Orders \cup Sales
             /\ \E o \in D \ {p} : \E mode \in {"no_key_update", "update"} :
                  <<mode, Next1(p).row>> \in held[o]
  <2> SUFFICES ASSUME NEW p \in D
               PROVE  /\ p \in w.events /\ Disciplined(w, p)
                      /\ Next1(p).mode = "no_key_update" =>
                           /\ Next1(p) = nku(Next1(p).row)
                           /\ p.visitor \in Owners(w, Next1(p).row)
                           /\ p.visitor \in Visitors
                           /\ Next1(p).row \in Leads \cup Orders \cup Sales
                           /\ \E o \in D \ {p} : \E mode \in {"no_key_update", "update"} :
                                <<mode, Next1(p).row>> \in held[o]
    OBVIOUS
  <2>1. p \in w.events /\ Disciplined(w, p)
    BY InCircle
  <2>2. ASSUME Next1(p).mode = "no_key_update"
        PROVE  /\ Next1(p) = nku(Next1(p).row) /\ p.visitor \in Owners(w, Next1(p).row)
               /\ Next1(p).row \in Sessions \cup Dependents
               /\ \E o \in D \ {p} : \E mode \in {"no_key_update", "update"} :
                    <<mode, Next1(p).row>> \in held[o]
    <3>1. Next1(p).row \in Owned(w, p)
      BY <2>2, InCircle, Shapes
    <3>2. Next1(p) = nku(Next1(p).row)
      BY <2>2, InCircle DEF nku
    <3>3. \E o \in D \ {p} : \E mode \in Conflicts(Next1(p).mode) :
            <<mode, Next1(p).row>> \in held[o]
      BY InCircle
    <3> QED BY <3>1, <3>2, <3>3, <2>2, <1>m DEF Owned
  <2>3. Next1(p).mode = "no_key_update" => Next1(p).row \notin Sessions
    BY SessionFree
  <2> QED BY <2>1, <2>2, <2>3 DEF Owners, Dependents
<1>h. \A o \in D : \A row \in Leads \cup Orders \cup Sales :
        /\ <<"update", row>> \in held[o] => Past(upd(row)) <= Rank(o)
        /\ <<"no_key_update", row>> \in held[o] =>
             /\ Past(nku(row)) <= Rank(o)
             /\ o.visitor \in Owners(w, row) /\ <<"update", o.visitor>> \in held[o]
  <2> SUFFICES ASSUME NEW o \in D, NEW row \in Leads \cup Orders \cup Sales
               PROVE  /\ <<"update", row>> \in held[o] => Past(upd(row)) <= Rank(o)
                      /\ <<"no_key_update", row>> \in held[o] =>
                           /\ Past(nku(row)) <= Rank(o)
                           /\ o.visitor \in Owners(w, row)
                           /\ <<"update", o.visitor>> \in held[o]
    OBVIOUS
  <2>0. row \in Rows
    BY DEF Rows, Dependents
  <2>1. 7 <= Past(upd(row)) /\ 7 <= Past(nku(row))
    BY UpdateLevels, WriteLevels DEF upd, nku
  <2>2. <<"update", row>> \in held[o] => Past(upd(row)) <= Rank(o)
    BY <1>m, <2>0, <2>1, HolderGoesOn DEF upd
  <2>3. ASSUME <<"no_key_update", row>> \in held[o]
        PROVE  /\ Past(nku(row)) <= Rank(o)
               /\ o.visitor \in Owners(w, row) /\ <<"update", o.visitor>> \in held[o]
    <3>1. Past(nku(row)) <= Rank(o)
      BY <1>m, <2>0, <2>1, <2>3, HolderGoesOn DEF nku
    <3>2. nku(row) \in Requests(w, o) /\ nku(row).mode = "no_key_update" /\ nku(row).row = row
      BY <2>3, HeldInCircle DEF nku
    <3>3. o.visitor \in Owners(w, row)
      BY <3>2, Shapes DEF Owned
    <3>4. PastVisitor(o)
      BY <1>m, <2>0, <2>1, <2>3 DEF PastVisitor, nku
    <3>5. o.visitor # None
      BY <3>3, Tables DEF Owners
    <3> QED BY <3>1, <3>3, <3>4, <3>5, <1>x, HolderVisitor
  <2> QED BY <2>2, <2>3
<1> DEFINE r == Next1(e).row
<1>1. r \in Leads \cup Orders \cup Sales /\ Next1(e) = nku(r)
  BY <1>x
<1>2. PICK table \in Table : r \in table
  BY <1>1
<1>3. PICK level \in 9 .. 11 :
        /\ \A row \in table : /\ At(nku(row)) = level /\ Past(nku(row)) = level
                              /\ level < Past(upd(row))
        /\ \A q : At(q) = level =>
             q.mode = "no_key_update" /\ (q.row \in Sessions \cup Dependents => q.row \in table)
  BY <1>2, <1>l
<1>s. level \in Nat /\ \A row \in table : Past(nku(row)) = level /\ level < Past(upd(row))
  BY <1>3
<1>4. table \subseteq Leads \cup Orders \cup Sales
  BY <1>2
<1>5. Rank(e) = level
  BY <1>1, <1>2, <1>3 DEF Rank
<1>6. \A o \in D : Rank(o) \in Nat
  BY Levels DEF Rank
<1> SUFFICES ASSUME \A p \in D : Rank(p) <= level PROVE FALSE
  BY <1>5, <1>6 DEF Higher
<1>7. ASSUME NEW p \in D, NEW row \in table PROVE <<"update", row>> \notin held[p]
  <2>1. Past(upd(row)) \in Nat /\ Rank(p) \in Nat /\ Rank(p) <= level
    BY <1>6, Levels
  <2>2. ~(Past(upd(row)) <= Rank(p))
    BY <2>1, <1>s
  <2> QED BY <2>2, <1>4, <1>h
<1>8. PICK o \in D \ {e} : <<"no_key_update", r>> \in held[o]
  <2>1. PICK o \in D \ {e}, mode \in {"no_key_update", "update"} : <<mode, r>> \in held[o]
    BY <1>1, <1>x
  <2> QED BY <2>1, <1>2, <1>7
<1>9. Rank(o) = level
  <2>1. level <= Rank(o) /\ Rank(o) <= level /\ Rank(o) \in Nat
    BY <1>1, <1>2, <1>s, <1>6, <1>8, <1>h
  <2> QED BY <2>1, <1>s
<1> DEFINE s == Next1(o).row
<1>10. s \in table /\ Next1(o) = nku(s)
  BY <1>3, <1>8, <1>9, <1>x DEF Rank, Dependents
<1>11. PICK p \in D \ {o} : <<"no_key_update", s>> \in held[p]
  <2>1. PICK p \in D \ {o}, mode \in {"no_key_update", "update"} : <<mode, s>> \in held[p]
    BY <1>3, <1>8, <1>9, <1>x DEF Rank
  <2> QED BY <2>1, <1>10, <1>7
<1>12. /\ o.visitor \in Owners(w, r) /\ <<"update", o.visitor>> \in held[o]
       /\ p.visitor \in Owners(w, s) /\ <<"update", p.visitor>> \in held[p]
  BY <1>1, <1>4, <1>8, <1>10, <1>11, <1>h
<1>13. /\ e.visitor \in Owners(w, r) /\ <<"update", e.visitor>> \in held[e]
  <2>1. e.visitor \in Owners(w, r) /\ e.visitor \in Visitors
    BY <1>x
  <2>2. 7 <= Past(Next1(e))
    BY <1>1, <1>2, <1>3
  <2>3. Next1(e) # Locking(e.visitor) /\ e.visitor # None
    BY <2>1, Tables DEF Locking
  <2> QED BY <2>1, <2>2, <2>3, AskerVisitor
<1>14. o.visitor \in Owners(w, s)
  BY <1>3, <1>8, <1>9, <1>x DEF Rank
<1>15. e.visitor # o.visitor /\ o.visitor # p.visitor
  BY <1>8, <1>11, <1>12, <1>13, VisitorsApart
<1>16. Moves(w, r) /\ Moves(w, s)
  BY <1>12, <1>13, <1>14, <1>15 DEF Moves
<1> HIDE DEF r, s
<1>17. r = s
  BY <1>2, <1>10, <1>16 DEF FewMove
<1> QED BY <1>8, <1>11, <1>17, <1>m, Apart

\* Levels have a top, and in a circle each would wait below another.
LEMMA NoCircle ==
  ASSUME FewMove, NEW w \in Workloads, NEW D, Circle(w, D)
  PROVE  SessionInserter(D)
<1> SUFFICES ASSUME ~SessionInserter(D) PROVE FALSE
  OBVIOUS
<1>1. ASSUME NEW e \in D PROVE Higher(e, D)
  <2>1. Next1(e).mode \in Modes
    BY InCircle
  <2> QED BY <2>1, InsertRises, ShareRises, UpdateRises, WriteRises DEF Modes
<1>2. \A e \in D : Rank(e) \in 1 .. 16
  BY Levels DEF Rank
<1> DEFINE Reaches(n) == \E e \in D : n <= Rank(e)
<1>3. ASSUME NEW n \in 1 .. 16, Reaches(n) PROVE Reaches(n + 1)
  <2>1. PICK e \in D : n <= Rank(e)
    BY <1>3
  <2>2. PICK p \in D : Rank(e) < Rank(p)
    BY <1>1 DEF Higher
  <2>3. n + 1 <= Rank(p)
    BY <2>1, <2>2, <1>2
  <2> QED BY <2>3
<1>4. Reaches(1)
  <2>1. D # {}
    BY DEF Circle, Deadlocked
  <2> QED BY <2>1, <1>2
<1>5. ~Reaches(17)
  BY <1>2
<1> HIDE DEF Reaches
<1>6. Reaches(5)
  BY <1>3, <1>4
<1>7. Reaches(9)
  BY <1>3, <1>6
<1>8. Reaches(13)
  BY <1>3, <1>7
<1>9. Reaches(17)
  BY <1>3, <1>8
<1> QED BY <1>5, <1>9

\* Transactions wait for each other in a circle only where one of them has
\* inserted a session, whose foreign key holds the visitor's row in a mode that
\* another can hold at the same time, but not when both go on to FOR UPDATE
\* (stubs.py:29-36, ingestion/service.py:96-100).
THEOREM DeadlockBySessionStubAlways ==
  ASSUME FewMove
  PROVE  Spec => []DeadlockBySessionStub
<1>1. ASSUME Inv PROVE DeadlockBySessionStub
  <2> SUFFICES ASSUME NEW D \in SUBSET running, Deadlocked(D)
               PROVE  \E e, o \in D :
                        /\ e # o /\ Inserted(o) \cap Sessions # {}
                        /\ Next1(e) \in {[mode |-> "update", row |-> v] : v \in Visitors}
                        /\ <<"key_share", Next1(e).row>> \in held[o]
    BY DEF DeadlockBySessionStub
  <2>1. PICK w \in Workloads : Circle(w, D)
    BY <1>1 DEF Inv, Circle
  <2>2. SessionInserter(D)
    BY <2>1, NoCircle
  <2> QED BY <2>2 DEF SessionInserter
<1> QED BY <1>1, InitInv, NextInv, PTL DEF Spec
=============================================================================
