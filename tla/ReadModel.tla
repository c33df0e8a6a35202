------------------------------ MODULE ReadModel ------------------------------
(***************************************************************************)
(* The tables the reports and journeys read, as sets of rows, and the way  *)
(* events fill them: ensure_stubs and then the handler of the event's type *)
(* (projections/stubs.py, projections/handlers), in one transaction.       *)
(*                                                                         *)
(* What several events do to one column of an entity, and what concurrent  *)
(* transactions do, is modelled in OrderProjection and VisitorData.  Here  *)
(* leads and manual sales follow the version rule; an order has at most    *)
(* one order_created and one order_paid, which agree on the columns they   *)
(* share and whose versions follow their times, so that the rule refuses   *)
(* neither.  order_updated and order_cancelled, which only change rows     *)
(* that are there, are left to OrderProjection.                            *)
(***************************************************************************)
EXTENDS Classifier, FiniteSets, TLC

CONSTANT
  Histories    \* sets of events: what the shop and the storefront will send

VARIABLES
  db,          \* the tables
  journal,     \* events stored
  pending      \* events that have not arrived

dataVars == <<db, journal, pending>>

-----------------------------------------------------------------------------
(* Rows *)

NoTouch == [at |-> Null, source |-> Null, campaign |-> Null]
NoTouches == [first_touch |-> NoTouch, last_non_direct |-> NoTouch]

VisitorStub(i) == [id |-> i, stub |-> TRUE, firstSeen |-> Null, touch |-> NoTouches]

SessionStub(i, v) ==
  [id |-> i, visitor |-> v, event |-> Null, at |-> Null, shop |-> Null,
   market |-> Null, source |-> Null]

LeadStub(i) ==
  [id |-> i, event |-> Null, at |-> Null, status |-> Null, wonAt |-> Null,
   lostAt |-> Null, version |-> Null, lastAt |-> Null, channel |-> Null,
   visitor |-> Null, customer |-> Null, shop |-> Null, market |-> Null,
   touch |-> NoTouches]

OrderStub(i) ==
  [id |-> i, created |-> Null, createdAt |-> Null, paid |-> Null,
   paidAt |-> Null, amount |-> Null, currency |-> Null, method |-> Null,
   lead |-> Null, visitor |-> Null, customer |-> Null, cart |-> Null,
   shop |-> Null, market |-> Null, touch |-> NoTouches]

SaleStub(i) ==
  [id |-> i, event |-> Null, at |-> Null, status |-> Null, cancelled |-> FALSE,
   version |-> Null, lastAt |-> Null, amount |-> Null, currency |-> Null,
   lead |-> Null, visitor |-> Null, customer |-> Null, shop |-> Null,
   market |-> Null, touch |-> NoTouches]

Tables == {"visitors", "sessions", "leads", "orders", "sales", "refunds",
           "lines", "refundLines", "views", "carts", "checkouts", "intents",
           "contacts", "payments", "links", "history"}

Row(rows, i) == CHOOSE r \in rows : r.id = i

\* A row with columns set, or added to what an event says of it.
Extend(row, columns) ==
  [c \in DOMAIN row \cup DOMAIN columns |->
     IF c \in DOMAIN columns THEN columns[c] ELSE row[c]]

\* INSERT .. ON CONFLICT (id) DO NOTHING
InsertNew(rows, row) ==
  IF \E r \in rows : r.id = row.id THEN rows ELSE rows \cup {row}

InsertStub(rows, i, row) == IF i = Null THEN rows ELSE InsertNew(rows, row)

Rule == INSTANCE Versioning WITH NoValue <- Null

\* overlay_attributes: columns the event does not have stay as they are.
OverlayRow(row, columns, onlyEmpty) ==
  [c \in DOMAIN row |->
     IF c \in DOMAIN columns THEN Rule!Overlay(row[c], columns[c], onlyEmpty)
     ELSE row[c]]

\* Bug: an event of a stub applies whatever its version.
BugNewer(row, e) ==
  \/ row.event = Null
  \/ Rule!ShouldApply(row.version, e.version, row.lastAt, e.at, TRUE, FALSE)

\* Of a lead or a manual sale.
Newer(row, e) ==
  Rule!ShouldApply(row.version, e.version, row.lastAt, e.at, TRUE, FALSE)

Stamp(row, e, status) ==
  [row EXCEPT !.status = status, !.version = e.version, !.lastAt = e.at]

\* UPDATE .. WHERE id = i
Update(rows, i, New(_)) == {IF r.id = i THEN New(r) ELSE r : r \in rows}

\* The columns of event e that are in every row made of it.
Place(e) == [at |-> e.at, shop |-> e.shop, market |-> e.market, visitor |-> e.visitor]

-----------------------------------------------------------------------------
(* Events *)

LeadChange == {"lead_created", "lead_status_changed"}
SaleChange == {"manual_sale_created", "manual_sale_updated", "manual_sale_cancelled"}

LeadChanges(E, i) == {e \in E : e.type \in LeadChange /\ e.lead = i}
SaleChanges(E, i) == {e \in E : e.type \in SaleChange /\ e.sale = i}

\* The types of events that are handled here.
Handled == {"session_started", "product_viewed", "add_to_cart", "checkout_started",
            "contact_intent", "contact_received", "payment_methods_shown",
            "payment_method_selected", "payment_failed", "customer_linked",
            "order_created", "order_paid", "refund_created"} \cup LeadChange \cup SaleChange

\* Those of the storefront, and those of orders' money and of all money.
WebEvents == {"session_started", "product_viewed", "add_to_cart", "checkout_started",
              "contact_intent", "payment_methods_shown", "payment_method_selected",
              "payment_failed"}
OrderEvents == {"order_created", "order_paid", "refund_created"}
MoneyEvents == OrderEvents \cup {"manual_sale_created", "manual_sale_updated"}

\* What the contracts require of an event: it names the rows its handler writes and
\* those they belong to, and has their times and money.  Ids are compared as numbers.
Complete(e) ==
  /\ e.id \in Nat /\ e.at \in Nat /\ e.type \in Handled
  /\ e.type \in WebEvents => e.visitor # Null /\ e.session # Null
  /\ e.type = "contact_received" => e.contact # Null /\ e.lead # Null
  /\ e.type \in LeadChange => e.lead # Null
  /\ e.type \in SaleChange => e.sale # Null
  /\ e.type = "manual_sale_created" => e.confirmedAt \in Nat
  /\ e.type \in OrderEvents => e.order # Null /\ e.method # Null
  /\ e.type = "refund_created" => e.refund # Null /\ e.refundedAt \in Nat
  /\ e.type \in MoneyEvents => e.amount \in Nat /\ e.currency # Null
  /\ IsFiniteSet(e.items) /\ IsFiniteSet(e.methods)

ASSUME HistoriesAssumption ==
  /\ Null \notin Nat
  /\ \A H \in Histories :
       /\ IsFiniteSet(H) /\ \A e \in H : Complete(e)
       /\ \A e, f \in H : e.id = f.id => e = f

-----------------------------------------------------------------------------
(* Attribution: touches of a visitor and snapshots of them *)

ApplyTouch(touches, t) ==
  LET first == touches.first_touch
      last == touches.last_non_direct
  IN [first_touch |-> IF first.at # Null /\ t.at >= first.at THEN first ELSE t,
      last_non_direct |->
        IF t.source = "direct" \/ (last.at # Null /\ t.at < last.at)
        THEN last ELSE t]

\* copy_attribution_known_at
KnownAt(snapshot, touches, t, asOf) ==
  LET known(x) == x.at # Null /\ x.at <= asOf IN
  [first_touch |-> IF known(touches.first_touch) THEN touches.first_touch
                   ELSE snapshot.first_touch,
   last_non_direct |->
     IF known(touches.last_non_direct) THEN touches.last_non_direct
     ELSE IF snapshot.last_non_direct.at = Null /\ t.source # "direct" /\ known(t)
     THEN t ELSE snapshot.last_non_direct]

\* refresh_dependent_snapshots for the rows of one table: "times" are those of
\* which one must not be before the touch, AsOf(r) the time of the conversion.
Refreshed(rows, v, touches, t, Times(_), AsOf(_)) ==
  {IF r.visitor = v /\ \E x \in Times(r) \ {Null} : x >= t.at
   THEN [r EXCEPT !.touch = KnownAt(@, touches, t, AsOf(r))]
   ELSE r : r \in rows}

Snapshot(d, e, row) ==
  IF e.visitor = Null THEN row
  ELSE [row EXCEPT !.touch = Row(d.visitors, e.visitor).touch]

SnapshotIfMissing(d, e, row) ==
  IF row.touch.first_touch.at # Null THEN row ELSE Snapshot(d, e, row)

-----------------------------------------------------------------------------
(* Handlers: the tables after ensure_stubs |-> the tables after the event *)

\* Bug: only events of a lead make a row of it.
BugEnsureStubs(d, e) ==
  [d EXCEPT
     !.visitors = InsertStub(@, e.visitor, VisitorStub(e.visitor)),
     !.sessions = IF e.visitor = Null THEN @
                  ELSE InsertStub(@, e.session, SessionStub(e.session, e.visitor)),
     !.leads = IF e.type \notin {"lead_created", "lead_status_changed"} THEN @
               ELSE InsertStub(@, e.lead, LeadStub(e.lead)),
     !.orders = InsertStub(@, e.order, OrderStub(e.order)),
     !.sales = InsertStub(@, e.sale, SaleStub(e.sale))]

EnsureStubs(d, e) ==
  [d EXCEPT
     !.visitors = InsertStub(@, e.visitor, VisitorStub(e.visitor)),
     !.sessions = IF e.visitor = Null THEN @
                  ELSE InsertStub(@, e.session, SessionStub(e.session, e.visitor)),
     !.leads = InsertStub(@, e.lead, LeadStub(e.lead)),
     !.orders = InsertStub(@, e.order, OrderStub(e.order)),
     !.sales = InsertStub(@, e.sale, SaleStub(e.sale))]

SessionStarted(d, e) ==
  LET t == [at |-> e.at, source |-> ClassifySource(e, ReferralExclusionHosts),
            campaign |-> e.campaign]
      touches == ApplyTouch(Row(d.visitors, e.visitor).touch, t)
      seen(v) == [v EXCEPT
        !.stub = FALSE,
        !.firstSeen = IF @ = Null \/ e.at < @ THEN e.at ELSE @,
        !.touch = touches]
  IN [d EXCEPT
        !.sessions = Update(@, e.session, LAMBDA s :
           Extend(Extend(s, Place(e)), [event |-> e.id, source |-> t.source])),
        !.visitors = Update(@, e.visitor, seen),
        !.leads = Refreshed(@, e.visitor, touches, t,
                            LAMBDA r : {r.at}, LAMBDA r : r.at),
        !.orders = Refreshed(@, e.visitor, touches, t,
                             LAMBDA r : {r.createdAt, r.paidAt},
                             LAMBDA r : IF r.paid # Null THEN r.paidAt
                                                         ELSE r.createdAt),
        !.sales = Refreshed(@, e.visitor, touches, t,
                            LAMBDA r : {r.at}, LAMBDA r : r.at)]

ProductViewed(d, e) ==
  [d EXCEPT !.views = @ \cup {Extend(Place(e), [id |-> e.id, sku |-> e.sku])}]

AddToCart(d, e) ==
  [d EXCEPT !.carts = @ \cup {Extend(Place(e), [id |-> e.id, sku |-> e.sku])}]

CheckoutStarted(d, e) ==
  [d EXCEPT !.checkouts = @ \cup {Extend(Place(e), [id |-> e.id])}]

ContactIntent(d, e) ==
  [d EXCEPT !.intents =
     @ \cup {Extend(Place(e), [id |-> e.id, channel |-> e.channel])}]

\* The primary key is the contact: told again under another event it stays.
ContactReceived(d, e) ==
  [d EXCEPT !.contacts = InsertNew(@,
     Extend(Place(e), [id |-> e.contact, lead |-> e.lead,
                       channel |-> e.contactChannel]))]

Payment(e, method, kind) ==
  Extend(Place(e), [id |-> e.id, method |-> method, kind |-> kind, cart |-> e.cart])

PaymentMethodsShown(d, e) ==
  [d EXCEPT !.payments = @ \cup {Payment(e, m, "shown") : m \in e.methods}]

PaymentMethodSelected(d, e) ==
  [d EXCEPT !.payments = @ \cup {Payment(e, e.method, "selected")}]

PaymentFailed(d, e) ==
  [d EXCEPT !.payments = @ \cup {Payment(e, e.method, "failed")}]

CustomerLinked(d, e) ==
  [d EXCEPT !.links = @ \cup {[visitor |-> e.visitor, customer |-> e.customer]}]

Entity(e) == [visitor |-> e.visitor, lead |-> e.lead, customer |-> e.customer,
              cart |-> e.cart, shop |-> e.shop, market |-> e.market,
              channel |-> e.contactChannel, method |-> e.method,
              currency |-> e.currency]

CreatedLead(d, e, r) ==
  LET applies == Newer(r, e)
      row == OverlayRow([r EXCEPT !.event = e.id, !.at = e.at], Entity(e), ~applies)
  IN IF r.event # Null THEN r
     ELSE SnapshotIfMissing(d, e,
            IF applies THEN Stamp(row, e, e.status) ELSE row)

LeadCreated(d, e) ==
  [d EXCEPT !.leads = Update(@, e.lead, LAMBDA r : CreatedLead(d, e, r))]

ChangedLead(e, r) ==
  LET place == [visitor |-> e.visitor, customer |-> e.customer,
                shop |-> e.shop, market |-> e.market]
  IN [Stamp(OverlayRow(r, place, TRUE), e, e.status) EXCEPT
        !.wonAt = IF e.status = "won" THEN e.at ELSE @,
        !.lostAt = IF e.status = "lost" THEN e.at ELSE @]

\* An older change leaves no line in the history, either.
LeadStatusChanged(d, e) ==
  IF ~Newer(Row(d.leads, e.lead), e) THEN d
  ELSE [d EXCEPT !.leads = Update(@, e.lead, LAMBDA r : ChangedLead(e, r)),
                 !.history = @ \cup {[id |-> e.id, lead |-> e.lead,
                                      status |-> e.status, at |-> e.at]}]

\* replace_order_lines
Lines(d, e, isPaid) ==
  {l \in d.lines : ~(l.order = e.order /\ l.paid = isPaid)} \cup
  {Extend(l, [order |-> e.order, paid |-> isPaid]) : l \in e.items}

\* sync_refund_currency_validity
Synced(d, order) ==
  IF order.currency = Null THEN d.refunds
  ELSE {IF r.order = order.id
        THEN [r EXCEPT !.invalid = r.currency # order.currency] ELSE r :
          r \in d.refunds}

WithOrder(d, order) ==
  [d EXCEPT !.orders = Update(@, order.id, LAMBDA r : order),
            !.refunds = Synced(d, order)]

CreatedOrder(d, e, r) ==
  LET columns == Extend(Entity(e), [created |-> e.id, createdAt |-> e.at])
  IN SnapshotIfMissing(d, e, OverlayRow(r, columns, FALSE))

OrderCreated(d, e) ==
  LET r == Row(d.orders, e.order)
  IN IF r.created # Null THEN d
     ELSE [WithOrder(d, CreatedOrder(d, e, r)) EXCEPT !.lines = Lines(d, e, FALSE)]

\* Bug: order_paid leaves the lead to order_created.
BugPaidOrder(d, e, r) ==
  LET columns == Extend(Entity(e),
        [paid |-> e.id, paidAt |-> e.at, amount |-> e.amount, lead |-> Null,
         createdAt |-> IF r.createdAt = Null THEN e.at ELSE r.createdAt])
  IN Snapshot(d, e, OverlayRow(r, columns, FALSE))

PaidOrder(d, e, r) ==
  LET columns == Extend(Entity(e),
        [paid |-> e.id, paidAt |-> e.at, amount |-> e.amount,
         createdAt |-> IF r.createdAt = Null THEN e.at ELSE r.createdAt])
  IN Snapshot(d, e, OverlayRow(r, columns, FALSE))

OrderPaid(d, e) ==
  LET r == Row(d.orders, e.order)
  IN IF r.paid # Null THEN d
     ELSE [WithOrder(d, PaidOrder(d, e, r)) EXCEPT !.lines = Lines(d, e, TRUE)]

CreatedSale(d, e, r) ==
  LET applies == ~r.cancelled /\ Newer(r, e)
      row == OverlayRow([r EXCEPT !.event = e.id, !.at = e.confirmedAt],
                        Extend(Entity(e), [amount |-> e.amount]), ~applies)
  IN IF r.event # Null THEN r
     ELSE SnapshotIfMissing(d, e,
            IF applies THEN Stamp(row, e, "confirmed") ELSE row)

SaleCreated(d, e) ==
  [d EXCEPT !.sales = Update(@, e.sale, LAMBDA r : CreatedSale(d, e, r))]

\* Of the links, those that the event has.
UpdatedSale(e, r) ==
  LET row == [r EXCEPT !.amount = e.amount, !.currency = e.currency,
                       !.shop = e.shop, !.market = e.market]
  IN Stamp(OverlayRow(row, Entity(e), FALSE), e, e.status)

SaleUpdated(d, e) ==
  IF ~Newer(Row(d.sales, e.sale), e) THEN d
  ELSE [d EXCEPT !.sales = Update(@, e.sale, LAMBDA r : UpdatedSale(e, r))]

CancelledSale(e, r) == [Stamp(r, e, "cancelled") EXCEPT !.cancelled = TRUE]

SaleCancelled(d, e) ==
  IF ~Newer(Row(d.sales, e.sale), e) THEN d
  ELSE [d EXCEPT !.sales = Update(@, e.sale, LAMBDA r : CancelledSale(e, r))]

RefundCreated(d, e) ==
  [d EXCEPT
     !.refunds = @ \cup {[id |-> e.refund, order |-> e.order,
                          at |-> e.refundedAt, amount |-> e.amount,
                          currency |-> e.currency, method |-> e.method,
                          shop |-> e.shop, invalid |-> FALSE]},
     !.refundLines = @ \cup {Extend(l, [refund |-> e.refund]) : l \in e.items}]

Dispatch(d, e) ==
  CASE e.type = "session_started" -> SessionStarted(d, e)
    [] e.type = "product_viewed" -> ProductViewed(d, e)
    [] e.type = "add_to_cart" -> AddToCart(d, e)
    [] e.type = "checkout_started" -> CheckoutStarted(d, e)
    [] e.type = "contact_intent" -> ContactIntent(d, e)
    [] e.type = "contact_received" -> ContactReceived(d, e)
    [] e.type = "payment_methods_shown" -> PaymentMethodsShown(d, e)
    [] e.type = "payment_method_selected" -> PaymentMethodSelected(d, e)
    [] e.type = "payment_failed" -> PaymentFailed(d, e)
    [] e.type = "customer_linked" -> CustomerLinked(d, e)
    [] e.type = "lead_created" -> LeadCreated(d, e)
    [] e.type = "lead_status_changed" -> LeadStatusChanged(d, e)
    [] e.type = "order_created" -> OrderCreated(d, e)
    [] e.type = "order_paid" -> OrderPaid(d, e)
    [] e.type = "manual_sale_created" -> SaleCreated(d, e)
    [] e.type = "manual_sale_updated" -> SaleUpdated(d, e)
    [] e.type = "manual_sale_cancelled" -> SaleCancelled(d, e)
    [] e.type = "refund_created" -> RefundCreated(d, e)

\* require_matching_order_currency, or the primary key of refunds: the refund's
\* transaction is rolled back.
Refused(d, e) ==
  /\ e.type = "refund_created"
  /\ \/ \E o \in d.orders :
          o.id = e.order /\ o.currency # Null /\ o.currency # e.currency
     \/ \E r \in d.refunds : r.id = e.refund

-----------------------------------------------------------------------------
DataInit ==
  /\ db = [t \in Tables |-> {}]
  /\ journal = {}
  /\ pending \in Histories

Ingest(e) ==
  /\ e \in pending
  /\ ~Refused(db, e)
  /\ db' = Dispatch(EnsureStubs(db, e), e)
  /\ journal' = journal \cup {e}
  /\ pending' = pending \ {e}

Refuse(e) ==
  /\ e \in pending
  /\ Refused(db, e)
  /\ pending' = pending \ {e}
  /\ UNCHANGED <<db, journal>>

-----------------------------------------------------------------------------
\* Keys are unique, and every row that names a visitor, lead, order or refund
\* finds it: the reports' inner joins lose no row (models/facts.py,
\* models/entities.py: primary and foreign keys; stubs.py:21).
TypeOK ==
  /\ DOMAIN db = Tables
  /\ \A t \in Tables \ {"lines", "refundLines", "payments", "links"} :
       \A r, s \in db[t] : r.id = s.id => r = s
  /\ \A p, q \in db.payments : p.id = q.id /\ p.method = q.method => p = q
  /\ \A t \in {"sessions", "leads", "orders", "sales", "views", "carts",
               "checkouts", "intents", "contacts", "payments", "links"} :
       \A r \in db[t] : r.visitor # Null => \E v \in db.visitors : v.id = r.visitor
  /\ \A t \in {"orders", "sales", "contacts"} : \A r \in db[t] :
       r.lead # Null => \E l \in db.leads : l.id = r.lead
  /\ \A h \in db.history : \E l \in db.leads : l.id = h.lead
  /\ \A t \in {"refunds", "lines"} : \A r \in db[t] :
       \E o \in db.orders : o.id = r.order
  /\ \A l \in db.refundLines : \E r \in db.refunds : r.id = l.refund

\* Its sender stamped e after o.
Later(e, o) ==
  IF e.version # Null THEN o.version # Null /\ e.version > o.version
  ELSE o.version = Null /\ e.at > o.at

\* The event of E that its sender stamped last.
Latest(E) == CHOOSE e \in E : \A o \in E \ {e} : Later(e, o)

\* Later orders E.
OneOrder(E) ==
  /\ \A e \in E : e.at \in Nat /\ e.version \in Nat \cup {Null}
  /\ \A e, o \in E : e = o \/ Later(e, o) \/ Later(o, e)

\* The changes of a lead, and of a sale, are in one order.  It is created once, as
\* the contracts have it (new, with money), and nothing follows a cancellation.
Coherent ==
  \A H \in Histories : \A i \in {e.lead : e \in H} \cup {e.sale : e \in H} :
    /\ OneOrder(LeadChanges(H, i)) /\ OneOrder(SaleChanges(H, i))
    /\ \A e, f \in LeadChanges(H, i) : e.type = "lead_created" =>
         /\ e.status = "new"
         /\ f.type = "lead_created" => f = e
    /\ \A e, f \in SaleChanges(H, i) :
         CASE e.type = "manual_sale_created" ->
                /\ e.status = "confirmed" /\ e.amount # Null /\ e.currency # Null
                /\ f.type = "manual_sale_created" => f = e
           [] e.type = "manual_sale_updated" -> e.amount # Null /\ e.currency # Null
           [] OTHER -> f = e \/ Later(e, f)

\* Whatever order its changes arrive in, before or after the event that creates
\* it, a lead has the status of the last one, with its time and its line in the
\* history, and a manual sale the last one's status and, unless that cancels it,
\* its money, where Coherent (lead_created.py:33-57, lead_status_changed.py:29-69,
\* manual_sale_created.py:33-63, manual_sale_updated.py:26-52).
LastChangeStands ==
  /\ \A l \in db.leads :
       LET changes == LeadChanges(journal, l.id)
           last == Latest(changes)
       IN changes # {} =>
            /\ l.status = last.status
            /\ last.status = "won" => l.wonAt = last.at
            /\ last.status = "lost" => l.lostAt = last.at
            /\ last.type = "lead_status_changed" =>
                 \E h \in db.history : h.id = last.id
  /\ \A s \in db.sales :
       LET changes == SaleChanges(journal, s.id)
           last == Latest(changes)
       IN changes # {} =>
            IF last.type = "manual_sale_cancelled"
            THEN s.cancelled /\ s.status = "cancelled"
            ELSE /\ ~s.cancelled /\ s.status = last.status
                 /\ s.amount = last.amount /\ s.currency = last.currency
=============================================================================
