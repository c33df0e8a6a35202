------------------------------- MODULE Journeys -------------------------------
(***************************************************************************)
(* Journeys: the events around a visitor, lead, order or customer, found   *)
(* through the links the tables hold by now, and the search that leads to  *)
(* them (domains/journeys).  The search selects events with a condition in *)
(* SQL and then derives the hits of each event in Python; the two are      *)
(* translated on their own.                                                *)
(*                                                                         *)
(* Identifiers are compared as the code does after lower() and UUID():     *)
(* one value has one spelling.  A text field an event lacks is Null.       *)
(***************************************************************************)
EXTENDS ReadModel, SequencesExt

CONSTANTS
  Queries,     \* what is searched for
  Uuids,       \* queries that look like a UUID
  Hexes,       \* queries of 32 hexadecimal digits
  ScanLimit,   \* SEARCH_SCAN_LIMIT
  HitLimit     \* SEARCH_HIT_LIMIT

\* What the contracts require of an event that a search may find: the id of what
\* is numbered, clicked, tracked or contacted.
Identified(e) ==
  /\ e.number # Null => e.order # Null
  /\ {e.gclid, e.gbraid, e.wbraid, e.campaign} # {Null} => e.visitor # Null
  /\ e.tracking # Null => e.contact # Null
  /\ {e.contactChannel, e.channel} # {Null} => {e.contact, e.lead, e.visitor} # {Null}

ASSUME SearchAssumption ==
  /\ {ScanLimit, HitLimit} \subseteq Nat \ {0}
  /\ Null \notin Queries
  /\ \A H \in Histories : \A e \in H : Identified(e)

-----------------------------------------------------------------------------
(* Which events belong to a journey (scope.py) *)

\* x IN (SELECT ..): NULL is in no set.
In(x, S) == x # Null /\ x \in S

VisitorScope(e, v) == e.visitor = v

CustomerScope(e, c) ==
  \/ e.customer = c
  \/ In(e.visitor, {k.visitor : k \in {x \in db.links : x.customer = c}})
  \/ In(e.order, {o.id : o \in {x \in db.orders : x.customer = c}})
  \/ In(e.lead, {l.id : l \in {x \in db.leads : x.customer = c}})
  \/ In(e.sale, {s.id : s \in {x \in db.sales : x.customer = c}})

LeadScope(e, l) ==
  \/ e.lead = l
  \/ In(e.visitor, {x.visitor : x \in {r \in db.leads : r.id = l}})
  \/ In(e.order, {o.id : o \in {x \in db.orders : x.lead = l}})
  \/ In(e.sale, {s.id : s \in {x \in db.sales : x.lead = l}})

OrderScope(e, o) ==
  LET own == {r \in db.orders : r.id = o} IN
  \/ e.order = o
  \/ In(e.visitor, {r.visitor : r \in own})
  \/ In(e.cart, {r.cart : r \in own})
  \/ In(e.lead, {r.lead : r \in own})

Before(e, f) == e.at < f.at \/ (e.at = f.at /\ e.id < f.id)

\* ORDER BY: the elements of S, each with those of S that come before it.
Sorted(S, before) ==
  [i \in 1 .. Cardinality(S) |-> CHOOSE x \in S : Cardinality(before[x]) = i - 1]

\* list_events
Listed(events) ==
  Sorted(events, [e \in events |-> {f \in events : Before(f, e)}])

\* to_journey_event: with what the tables say of a session's source and of a
\* refund's validity by now.
Shown(e) ==
  [event |-> e.id,
   traffic |-> IF e.type # "session_started" \/ e.session = Null THEN Null
               ELSE Row(db.sessions, e.session).source,
   invalid |-> /\ e.type = "refund_created" /\ e.refund # Null
               /\ \E r \in db.refunds : r.id = e.refund /\ r.invalid]

\* load_journey; the empty sequence is answered 404.
Journey(InScope(_)) ==
  LET events == Listed({e \in journal : InScope(e)})
  IN [i \in DOMAIN events |-> Shown(events[i])]

VisitorJourney(v) == Journey(LAMBDA e : VisitorScope(e, v))
CustomerJourney(c) == Journey(LAMBDA e : CustomerScope(e, c))
LeadJourney(l) == Journey(LAMBDA e : LeadScope(e, l))
OrderJourney(o) == Journey(LAMBDA e : OrderScope(e, o))

-----------------------------------------------------------------------------
(* Search (search.py) *)

\* classify_search_query
Mode(q) == IF q \in Uuids THEN "uuid" ELSE IF q \in Hexes THEN "hex" ELSE "text"

SearchChannels == {"form", "email", "whatsapp", "phone"}

\* Bug: one of the click ids is left out of the SQL condition.
BugSearchClause(e, q) ==
  CASE Mode(q) = "uuid" -> q \in {e.visitor, e.session}
    [] Mode(q) = "hex" -> q \in {e.lead, e.order, e.customer, e.contact, e.sale}
    [] Mode(q) = "text" ->
         \/ q \in {e.number, e.gclid, e.wbraid, e.tracking, e.campaign}
         \/ q \in SearchChannels /\ q \in {e.contactChannel, e.channel}

SearchClause(e, q) ==
  CASE Mode(q) = "uuid" -> q \in {e.visitor, e.session}
    [] Mode(q) = "hex" -> q \in {e.lead, e.order, e.customer, e.contact, e.sale}
    [] Mode(q) = "text" ->
         \/ q \in {e.number, e.gclid, e.gbraid, e.wbraid, e.tracking, e.campaign}
         \/ q \in SearchChannels /\ q \in {e.contactChannel, e.channel}

Hit(e, type, i) == [type |-> type, id |-> i, at |-> e.at]

HitIf(condition, e, type, i) == IF condition THEN <<Hit(e, type, i)>> ELSE <<>>

\* _hits_for_event
Hits(e, q) ==
  LET via == q \in SearchChannels /\ q \in {e.contactChannel, e.channel} IN
  CASE Mode(q) = "uuid" ->
         HitIf(e.visitor = q, e, "visitor", q) \o HitIf(e.session = q, e, "session", q)
    [] Mode(q) = "hex" ->
         HitIf(e.lead = q, e, "lead", q) \o HitIf(e.order = q, e, "order", q)
         \o HitIf(e.customer = q, e, "customer", q)
         \o HitIf(e.contact = q, e, "contact", q)
         \o HitIf(e.sale = q, e, "manual_sale", q)
    [] Mode(q) = "text" ->
         HitIf(e.number = q /\ e.order # Null, e, "order", e.order)
         \o HitIf(q \in {e.gclid, e.gbraid, e.wbraid} /\ e.visitor # Null,
                  e, "visitor", e.visitor)
         \o HitIf(e.tracking = q /\ e.contact # Null, e, "contact", e.contact)
         \o HitIf(e.campaign = q /\ e.visitor # Null, e, "visitor", e.visitor)
         \o HitIf(via /\ e.contact # Null, e, "contact", e.contact)
         \o HitIf(via /\ e.lead # Null, e, "lead", e.lead)
         \o HitIf(via /\ e.visitor # Null /\ e.contact = Null /\ e.lead = Null,
                  e, "visitor", e.visitor)

\* The first n of a sequence, or all of it.
First(n, s) == SubSeq(s, 1, IF Len(s) < n THEN Len(s) ELSE n)

SameEntity(h, k) == h.type = k.type /\ h.id = k.id

\* The hits of a sequence of events, by the places of event and hit.
HitsAt(events, q) ==
  LET at == UNION {{<<i, j>> : j \in DOMAIN Hits(events[i], q)} : i \in DOMAIN events}
  IN [p \in at |-> Hits(events[p[1]], q)[p[2]]]

Earlier(p, r) == p[1] < r[1] \/ (p[1] = r[1] /\ p[2] < r[2])

\* Where each entity is hit first.
FirstHits(hit) ==
  {p \in DOMAIN hit :
     \A r \in DOMAIN hit : Earlier(r, p) => ~SameEntity(hit[r], hit[p])}

\* The first hit of each entity, in their order.
Distinct(hit) ==
  LET new == FirstHits(hit)
      at == Sorted(new, [p \in new |-> {r \in new : Earlier(r, p)}])
  IN [k \in DOMAIN at |-> hit[at[k]]]

\* search_journeys
Search(q) ==
  LET events == First(ScanLimit, Listed({e \in journal : SearchClause(e, q)}))
  IN First(HitLimit, Distinct(HitsAt(events, q)))

-----------------------------------------------------------------------------
(* Properties *)

\* The SQL condition selects the events that give a hit and no other, so that
\* none takes a place in the scan for nothing, where events are Identified; within
\* the limits every entity with such an event is found, once, at the time of its
\* earliest one (search.py:129, :82, :160-182).
SearchComplete ==
  \A q \in Queries :
    LET matched == {e \in journal : SearchClause(e, q)}
        result == Search(q)
        found == ToSet(result)
        hitting == {e \in journal : Hits(e, q) # <<>>}
        all == UNION {ToSet(Hits(e, q)) : e \in hitting}
        entities(hits) == {[type |-> h.type, id |-> h.id] : h \in hits}
    IN /\ matched = hitting
       /\ Len(result) = Cardinality(entities(found))
       /\ \A h \in found : \A k \in all : SameEntity(h, k) => h.at <= k.at
       /\ /\ Cardinality(matched) <= ScanLimit
          /\ Cardinality(entities(all)) <= HitLimit
          => entities(found) = entities(all)

EventsOf(journey) == {journey[i].event : i \in DOMAIN journey}

Naming(column, i) == {e.id : e \in {x \in journal : x[column] = i}}

OrderFacts == {"order_created", "order_paid"}

\* An order is created once and paid once, and the two events do not name
\* different leads, visitors, customers or carts.
OrdersAgree ==
  \A H \in Histories : \A e, f \in H :
    /\ {e.type, f.type} \subseteq OrderFacts /\ e.order = f.order
    => /\ e.type = f.type => e = f
       /\ \A c \in {"lead", "visitor", "customer", "cart"} :
            e[c] # Null /\ f[c] # Null => e[c] = f[c]

\* What an event has said to belong together is told together from then on,
\* though later events of the order say nothing of it and whatever came before,
\* where OrdersAgree: if one that creates or pays an order names a lead, a visitor
\* or a cart, the order's journey has every event of those, and the journeys of the
\* lead and the customer it names have every event of the order; the customer's
\* has those of a visitor linked to him.  A refund is shown as invalid only while
\* the order has another currency (order_created.py:65-71, order_paid.py:48-53,
\* scope.py:8-60, repository.py:93, refund_currency.py:29).
JourneysLinked ==
  /\ \A e \in {x \in journal : x.type \in OrderFacts} :
       LET own == Naming("order", e.order)
           journey == EventsOf(OrderJourney(e.order))
       IN /\ \A c \in {"order", "lead", "visitor", "cart"} :
               e[c] # Null => Naming(c, e[c]) \subseteq journey
          /\ e.lead # Null => own \subseteq EventsOf(LeadJourney(e.lead))
          /\ e.customer # Null => own \subseteq EventsOf(CustomerJourney(e.customer))
  /\ \A e \in {x \in journal : x.type = "customer_linked"} :
       e.visitor # Null /\ e.customer # Null =>
         Naming("visitor", e.visitor) \subseteq EventsOf(CustomerJourney(e.customer))
  /\ \A e \in {x \in journal : x.type = "refund_created"} :
       LET journey == OrderJourney(e.order) IN
       \A i \in DOMAIN journey : journey[i].event = e.id /\ journey[i].invalid =>
         \E o \in db.orders : o.id = e.order /\ o.currency \notin {Null, e.currency}
=============================================================================
