------------------------------- MODULE Reports -------------------------------
(***************************************************************************)
(* The analytics reports as queries of the tables (domains/reports).  Each *)
(* report's statements are translated on their own: a count the code takes *)
(* in two ways is defined in two ways.  A statement is the set of rows it  *)
(* selects; Cardinality, SumFunction and Tally are its aggregates.         *)
(*                                                                         *)
(* Amounts are whole numbers of a currency.  A rate or an average is the   *)
(* pair of what is divided by what; the decimals it is rounded to for the  *)
(* answer are left out.                                                    *)
(***************************************************************************)
EXTENDS ReadModel, Integers, Functions

CONSTANT DayLength    \* instants of a day

(* Filters: [from, to, offset, shop, market, source, campaign, sku, channel,
   method, currency, model]; offset: of the caller's clock to UTC *)

\* GROUP BY Key: how many rows each key has.
Tally(S, Key(_)) ==
  [k \in {Key(r) : r \in S} |-> Cardinality({r \in S : Key(r) = k})]

\* What a row of the answer starts with where a statement had no such key.
Of(tally, k) == IF k \in DOMAIN tally THEN tally[k] ELSE 0

Rate(n, d) == IF d = 0 THEN Null ELSE <<n, d>>

-----------------------------------------------------------------------------
(* Conditions (filters.py, metrics.py) *)

Selects(wanted, value) == wanted = Null \/ value = wanted

\* Bug: the end of the period is left out.
BugInPeriod(at, f) == at # Null /\ f.from <= at /\ at < f.to

InPeriod(at, f) == at # Null /\ f.from <= at /\ at <= f.to

InPlace(r, f) == Selects(f.shop, r.shop) /\ Selects(f.market, r.market)

Scoped(r, at, f) == InPeriod(at, f) /\ InPlace(r, f)

\* apply_snapshot_attr, and apply_visitor_attr of a visitor
Attributed(r, f) ==
  /\ Selects(f.source, r.touch[f.model].source)
  /\ Selects(f.campaign, r.touch[f.model].campaign)

\* apply_visitor_attr of a row that names a visitor: joined when it is needed.
OfAttributedVisitor(r, f) ==
  f.source # Null \/ f.campaign # Null =>
    \E v \in db.visitors : v.id = r.visitor /\ Attributed(v, f)

\* apply_visitor_channel_market
SeenIn(v, f) ==
  f.shop # Null \/ f.market # Null =>
    \E s \in db.sessions : s.visitor = v.id /\ s.event # Null /\ InPlace(s, f)

Live(r) == \E v \in db.visitors : v.id = r.visitor /\ ~v.stub

\* JOIN leads: a column of the row's lead.
LeadChannel(r) == Row(db.leads, r.lead).channel

OfChannel(r, f) == f.channel # Null => LeadChannel(r) = f.channel

-----------------------------------------------------------------------------
(* Rows the metrics count (metrics.py) *)

\* Bug: visitors that are only stubs count.
BugNewVisitors(f) ==
  {v \in db.visitors : (v.stub \/ InPeriod(v.firstSeen, f))
                       /\ Attributed(v, f) /\ SeenIn(v, f)}

NewVisitors(f) ==
  {v \in db.visitors : /\ ~v.stub /\ InPeriod(v.firstSeen, f)
                       /\ Attributed(v, f) /\ SeenIn(v, f)}

SessionRows(f) ==
  {s \in db.sessions : /\ s.event # Null /\ Scoped(s, s.at, f)
                       /\ OfAttributedVisitor(s, f)}

LeadRows(f) ==
  {l \in db.leads : /\ l.event # Null /\ Scoped(l, l.at, f)
                    /\ Attributed(l, f) /\ Selects(f.channel, l.channel)}

LeadsWon(f) ==
  {l \in db.leads : /\ l.event # Null /\ l.wonAt # Null /\ Scoped(l, l.wonAt, f)
                    /\ Attributed(l, f) /\ Selects(f.channel, l.channel)}

Priced(r, f) == Selects(f.method, r.method) /\ Selects(f.currency, r.currency)

OrdersCreated(f) ==
  {o \in db.orders : /\ o.created # Null /\ Scoped(o, o.createdAt, f)
                     /\ Attributed(o, f) /\ Priced(o, f)}

OrdersPaid(f) ==
  {o \in db.orders : /\ o.paid # Null /\ Scoped(o, o.paidAt, f)
                     /\ Attributed(o, f) /\ Priced(o, f)}

ManualSales(f) ==
  {s \in db.sales : /\ s.event # Null /\ ~s.cancelled /\ Scoped(s, s.at, f)
                    /\ Attributed(s, f) /\ Selects(f.currency, s.currency)}

\* require_lead
LeadLinked(rows, f) == {r \in rows : r.lead # Null /\ OfChannel(r, f)}

ContactRows(f) ==
  {c \in db.contacts : /\ Scoped(c, c.at, f) /\ Selects(f.channel, c.channel)
                       /\ f.source # Null \/ f.campaign # Null
                            => Attributed(Row(db.leads, c.lead), f)}

\* count_fact_rows
FactRows(rows, f) == {r \in rows : Scoped(r, r.at, f) /\ OfAttributedVisitor(r, f)}

\* count_fact_visitors
FactVisitors(rows, f) ==
  {r.visitor : r \in {x \in FactRows(rows, f) : Live(x)}}

OfSku(rows, f) == {r \in rows : Selects(f.sku, r.sku)}
Via(rows, f) == {r \in rows : Selects(f.channel, r.channel)}

-----------------------------------------------------------------------------
(* Money (money_agg.py): gross, refunds and number of paid sales, for every
   currency a row has *)

\* apply_matching_order_currency and the refund's other conditions, which are
\* partly on its order.
Refunds(f) ==
  {r \in db.refunds :
     LET o == Row(db.orders, r.order) IN
     /\ o.currency # Null /\ r.currency = o.currency /\ ~r.invalid
     /\ InPeriod(r.at, f) /\ Selects(f.shop, r.shop) /\ Selects(f.market, o.market)
     /\ Priced(r, f)}

OrderOf(refund) == Row(db.orders, refund.order)

AttributedRefunds(f) == {r \in Refunds(f) : Attributed(OrderOf(r), f)}

\* Rows in a currency, and what they come to.
OfCurrency(rows, c) == {r \in rows : r.currency = c}
Worth(rows, c) == SumFunction([r \in OfCurrency(rows, c) |-> r.amount])

\* add_to_money; rows without a currency are in no bucket.
Buckets(orders, sales, refunds) ==
  [c \in {r.currency : r \in orders \cup sales \cup refunds} \ {Null} |->
     [gross |-> Worth(orders, c) + Worth(sales, c),
      refunds |-> Worth(refunds, c),
      count |-> Cardinality(OfCurrency(orders, c)) + Cardinality(OfCurrency(sales, c))]]

\* money_breakdowns: net and the average order value.
Breakdown(buckets) ==
  [c \in DOMAIN buckets |->
     LET b == buckets[c] IN
     Extend(b, [net |-> b.gross - b.refunds,
                aov |-> IF b.count = 0 THEN <<0, 1>> ELSE <<b.gross, b.count>>])]

\* aggregate_money
Money(f) ==
  Breakdown(Buckets({o \in OrdersPaid(f) : o.currency # Null},
                    {s \in ManualSales(f) : s.currency # Null},
                    AttributedRefunds(f)))

-----------------------------------------------------------------------------
(* From the visitor's first visit to the conversion *)

\* JOIN visitors .. first_seen_at IS NOT NULL AND at >= first_seen_at
FollowsVisit(r, at) ==
  \E v \in db.visitors : v.id = r.visitor /\ v.firstSeen # Null /\ at >= v.firstSeen

Wait(r, at) == at - Row(db.visitors, r.visitor).firstSeen

Average(sum, n) == IF n = 0 THEN Null ELSE <<sum, n>>

WaitToLead(leads) ==
  LET S == {l \in leads : FollowsVisit(l, l.at)}
  IN Average(SumFunction([l \in S |-> Wait(l, l.at)]), Cardinality(S))

\* UNION ALL of orders and sales
WaitToPaid(orders, sales) ==
  LET O == {o \in orders : FollowsVisit(o, o.paidAt)}
      S == {s \in sales : FollowsVisit(s, s.at)}
  IN Average(SumFunction([o \in O |-> Wait(o, o.paidAt)])
             + SumFunction([s \in S |-> Wait(s, s.at)]),
             Cardinality(O) + Cardinality(S))

\* The two averages do not look at the contact channel.
AnyChannel(f) == [f EXCEPT !.channel = Null]

-----------------------------------------------------------------------------
(* Overview and funnel (overview.py, funnel.py) *)

LeadSales(f) ==
  Cardinality(LeadLinked(OrdersPaid(f), f)) + Cardinality(LeadLinked(ManualSales(f), f))

Overview(f) ==
  LET sessions == Cardinality(SessionRows(f))
      checkouts == Cardinality(FactRows(db.checkouts, f))
      leads == Cardinality(LeadRows(f))
      paid == Cardinality(OrdersPaid(f))
      sales == Cardinality(ManualSales(f))
  IN [visitors |-> Cardinality(NewVisitors(f)),
      sessions |-> sessions,
      product_views |-> Cardinality(OfSku(FactRows(db.views, f), f)),
      cart_adds |-> Cardinality(OfSku(FactRows(db.carts, f), f)),
      checkouts |-> checkouts,
      contacts |-> Cardinality(ContactRows(f)),
      leads |-> leads,
      orders_created |-> Cardinality(OrdersCreated(f)),
      orders_paid |-> paid,
      manual_sales |-> sales,
      money |-> Money(f),
      session_to_lead |-> Rate(leads, sessions),
      session_to_paid_sale |-> Rate(paid + sales, sessions),
      lead_to_paid_sale |-> Rate(LeadSales(f), leads),
      checkout_to_paid_order |-> Rate(paid, checkouts),
      first_visit_to_lead |-> WaitToLead(LeadRows(AnyChannel(f))),
      first_visit_to_paid_sale |-> WaitToPaid(OrdersPaid(f), ManualSales(f))]

\* build_steps
Steps(counts) ==
  [i \in DOMAIN counts |->
     [count |-> counts[i],
      conversion |-> IF i = 1 THEN Null ELSE Rate(counts[i], counts[i - 1])]]

Funnel(f) ==
  LET sessions == Cardinality(SessionRows(f)) IN
  [ecommerce |-> Steps(<<
     sessions,
     Cardinality(FactVisitors(OfSku(db.views, f), f)),
     Cardinality(FactVisitors(OfSku(db.carts, f), f)),
     Cardinality(FactVisitors(db.checkouts, f)),
     Cardinality(OrdersCreated(f)),
     Cardinality(OrdersPaid(f))>>),
   lead |-> Steps(<<
     sessions,
     Cardinality(FactVisitors(Via(db.intents, f), f)),
     Cardinality(ContactRows(f)),
     Cardinality(LeadRows(f)),
     Cardinality(LeadsWon(f)),
     LeadSales(f)>>)]

=============================================================================
