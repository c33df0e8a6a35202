--------------------------- MODULE ReportBreakdowns ---------------------------
(***************************************************************************)
(* The reports that break figures down: by source and campaign, by day, by *)
(* contact channel, by product and by payment method, and the comparison   *)
(* of two periods (domains/reports/queries).                               *)
(***************************************************************************)
EXTENDS Reports

-----------------------------------------------------------------------------
(* By source and campaign (sources.py) *)

\* Rows without a source count as direct ones.
SourceKey(r, f) ==
  LET t == r.touch[f.model]
  IN <<IF t.source = Null THEN "direct" ELSE t.source, t.campaign>>

\* _apply_source_campaign: the filter is on the source that is shown.
Keyed(r, f) ==
  /\ Selects(f.source, SourceKey(r, f)[1])
  /\ Selects(f.campaign, SourceKey(r, f)[2])

SourceVisitors(f) ==
  {v \in db.visitors : /\ ~v.stub /\ InPeriod(v.firstSeen, f)
                       /\ SeenIn(v, f) /\ Keyed(v, f)}

SourceSessions(f) ==
  {s \in db.sessions : /\ s.event # Null /\ Scoped(s, s.at, f)
                       /\ Keyed(Row(db.visitors, s.visitor), f)}

SourceLeads(f) ==
  {l \in db.leads : l.event # Null /\ Scoped(l, l.at, f) /\ Keyed(l, f)}

\* The filter of this statement is on the bare column.
SourceContacts(f) ==
  {c \in db.contacts : Scoped(c, c.at, f) /\ Attributed(Row(db.leads, c.lead), f)}

SourceCreated(f) ==
  {o \in db.orders : /\ o.created # Null /\ Scoped(o, o.createdAt, f)
                     /\ Priced(o, f) /\ Keyed(o, f)}

\* Bug: the payment method is not looked at.
BugSourcePaid(f) ==
  {o \in db.orders : /\ o.paid # Null /\ Scoped(o, o.paidAt, f)
                     /\ Selects(f.currency, o.currency) /\ Keyed(o, f)}

SourcePaid(f) ==
  {o \in db.orders : /\ o.paid # Null /\ Scoped(o, o.paidAt, f)
                     /\ Priced(o, f) /\ Keyed(o, f)}

SourceSales(f) ==
  {s \in db.sales : /\ s.event # Null /\ ~s.cancelled /\ Scoped(s, s.at, f)
                    /\ Selects(f.currency, s.currency) /\ Keyed(s, f)}

SourceRefunds(f) == {r \in Refunds(f) : Keyed(OrderOf(r), f)}

\* Paid orders and sales have a currency: their events' schemas require it.
InCurrency(rows) == {r \in rows : r.currency # Null}

\* Sessions, contacts and refunds have the key of their visitor, lead or order.
VisitorKey(s, f) == SourceKey(Row(db.visitors, s.visitor), f)
LeadKey(c, f) == SourceKey(Row(db.leads, c.lead), f)
OrderKey(r, f) == SourceKey(OrderOf(r), f)

SourceKeys(f) ==
  {SourceKey(r, f) : r \in SourceVisitors(f) \cup SourceLeads(f) \cup SourceCreated(f)
                           \cup InCurrency(SourcePaid(f)) \cup InCurrency(SourceSales(f))}
  \cup {VisitorKey(s, f) : s \in SourceSessions(f)}
  \cup {LeadKey(c, f) : c \in SourceContacts(f)}
  \cup {OrderKey(r, f) : r \in SourceRefunds(f)}

SourceRow(f, k) ==
  LET leads == {l \in SourceLeads(f) : SourceKey(l, f) = k}
      sessions == Cardinality({s \in SourceSessions(f) : VisitorKey(s, f) = k})
      orders == {o \in InCurrency(SourcePaid(f)) : SourceKey(o, f) = k}
      sales == {s \in InCurrency(SourceSales(f)) : SourceKey(s, f) = k}
      linked == Cardinality({r \in orders : r.lead # Null})
                + Cardinality({r \in sales : r.lead # Null})
  IN [visitors |-> Cardinality({v \in SourceVisitors(f) : SourceKey(v, f) = k}),
      sessions |-> sessions,
      contacts |-> Cardinality({c \in SourceContacts(f) : LeadKey(c, f) = k}),
      leads |-> Cardinality(leads),
      orders_created |-> Cardinality({o \in SourceCreated(f) : SourceKey(o, f) = k}),
      orders_paid |-> Cardinality(orders),
      manual_sales |-> Cardinality(sales),
      money |-> Breakdown(Buckets(orders, sales,
                                  {r \in SourceRefunds(f) : OrderKey(r, f) = k})),
      session_to_lead |-> Rate(Cardinality(leads), sessions),
      session_to_paid_sale |-> Rate(Cardinality(orders) + Cardinality(sales), sessions),
      lead_to_paid_sale |-> Rate(linked, Cardinality(leads)),
      first_visit_to_lead |-> WaitToLead(leads),
      first_visit_to_paid_sale |-> WaitToPaid(orders, sales)]

Sources(f) == [k \in SourceKeys(f) |-> SourceRow(f, k)]

-----------------------------------------------------------------------------
(* By day (overview_daily.py) *)

\* Bug: the day of the end of the period is left out.
BugDayRange(f) ==
  ((f.from + f.offset) \div DayLength) .. ((f.to + f.offset) \div DayLength - 1)

\* The rows of the answer are days of the caller's clock ...
DayRange(f) ==
  ((f.from + f.offset) \div DayLength) .. ((f.to + f.offset) \div DayLength)

\* ... and a sale or refund is put into the row of its UTC day, if there is one.
UtcDay(at) == at \div DayLength

OverviewDaily(f) ==
  [day \in DayRange(f) |->
     LET orders == {o \in InCurrency(OrdersPaid(f)) : UtcDay(o.paidAt) = day}
         sales == {s \in InCurrency(ManualSales(f)) : UtcDay(s.at) = day}
     IN [orders_paid |-> Cardinality(orders),
         manual_sales |-> Cardinality(sales),
         paid_sales |-> Cardinality(orders) + Cardinality(sales),
         money |-> Breakdown(Buckets(orders, sales,
                     {r \in AttributedRefunds(f) : UtcDay(r.at) = day}))]]

-----------------------------------------------------------------------------
(* By contact channel (contact_channels.py): the statements in their order *)

IntentsVia(f) ==
  Tally({i \in Via(FactRows(db.intents, f), f) : Live(i)}, LAMBDA i : i.channel)

ContactsVia(f) == Tally(ContactRows(f), LAMBDA c : c.channel)

\* COUNT(DISTINCT lead_id)
LeadsFromContacts(f) ==
  LET S == {<<c.channel, c.lead>> : c \in ContactRows(f)}
  IN Tally(S, LAMBDA p : p[1])

LeadsVia(f) == {l \in LeadRows(f) : l.channel # Null}

\* JOIN leads .. contact_channel IS NOT NULL
HasLeadChannel(r, f) ==
  /\ r.lead # Null /\ LeadChannel(r) # Null /\ Selects(f.channel, LeadChannel(r))

OrdersVia(f) == {o \in InCurrency(OrdersPaid(f)) : HasLeadChannel(o, f)}
SalesVia(f) == {s \in InCurrency(ManualSales(f)) : HasLeadChannel(s, f)}
RefundsVia(f) == {r \in AttributedRefunds(f) : HasLeadChannel(OrderOf(r), f)}

\* Bug: only sales in the period convert, whenever their lead came.
BugConvertingLeads(f) ==
  {l \in db.leads : /\ l.event # Null /\ l.channel # Null
                    /\ Selects(f.channel, l.channel)
                    /\ \/ \E o \in OrdersPaid(f) : o.lead = l.id
                       \/ \E s \in ManualSales(f) : s.lead = l.id}

\* Leads of the period with a sale at any time.
ConvertingLeads(f) ==
  {l \in LeadsVia(f) :
     \/ \E o \in db.orders : o.lead = l.id /\ o.paid # Null /\ Priced(o, f)
     \/ \E s \in db.sales : /\ s.lead = l.id /\ s.event # Null /\ ~s.cancelled
                            /\ Selects(f.currency, s.currency)}

\* What statement i adds to the answer.
ChannelStatement(i, f) ==
  LET own(l) == l.channel
  IN CASE i = 1 -> IntentsVia(f)
       [] i = 2 -> ContactsVia(f)
       [] i = 3 -> LeadsFromContacts(f)
       [] i = 4 -> Tally(LeadsVia(f), own)
       [] i = 5 -> Tally(OrdersVia(f), LeadChannel)
       [] i = 6 -> Tally(SalesVia(f), LeadChannel)
       [] i = 7 -> Tally(ConvertingLeads(f), own)
       [] i = 8 -> Tally(RefundsVia(f), LAMBDA r : LeadChannel(OrderOf(r)))

ChannelStatements == 1 .. 8

ContactChannels(part, f) ==
  LET money(k) == Breakdown(Buckets(
        {o \in OrdersVia(f) : LeadChannel(o) = k},
        {s \in SalesVia(f) : LeadChannel(s) = k},
        {r \in RefundsVia(f) : LeadChannel(OrderOf(r)) = k}))
  IN [k \in UNION {DOMAIN part[i] : i \in ChannelStatements} |->
        [intents |-> Of(part[1], k), contacts |-> Of(part[2], k),
         leads |-> Of(part[4], k), orders_paid |-> Of(part[5], k),
         manual_sales |-> Of(part[6], k), money |-> money(k),
         contact_to_lead |-> Rate(Of(part[3], k), Of(part[2], k)),
         lead_to_paid_sale |-> Rate(Of(part[7], k), Of(part[4], k))]]

-----------------------------------------------------------------------------
(* By product (products.py) *)

LinesOf(orders, isPaid, f) ==
  {l \in OfSku(db.lines, f) :
     l.paid = isPaid /\ l.sku # Null /\ \E o \in orders : o.id = l.order}

RefundLines(f) ==
  {l \in OfSku(db.refundLines, f) :
     l.sku # Null /\ \E r \in AttributedRefunds(f) : r.id = l.refund}

Products(f) ==
  LET views == {v \in OfSku(FactRows(db.views, f), f) : Live(v)}
      carts == {c \in OfSku(FactRows(db.carts, f), f) : Live(c)}
      created == LinesOf(OrdersCreated(f), FALSE, f)
      paid == LinesOf(OrdersPaid(f), TRUE, f)
      refunded == RefundLines(f)
      at(S, sku) == {r \in S : r.sku = sku}
      orders(S, sku) == {l.order : l \in at(S, sku)}
      total(l) == [amount |-> l.total] @@ l
      row(sku) ==
        LET ids == orders(paid, sku)
            buckets == Buckets(
              {total(l) @@ [currency |-> Row(db.orders, l.order).currency] :
                 l \in at(paid, sku)}, {},
              {total(l) @@ [currency |-> Row(db.refunds, l.refund).currency] :
                 l \in at(refunded, sku)})
            sold(c) == {i \in ids : Row(db.orders, i).currency = c}
        IN [views |-> Cardinality(at(views, sku)),
            cart_adds |-> Cardinality(at(carts, sku)),
            orders_created |-> Cardinality(orders(created, sku)),
            orders_paid |-> Cardinality(ids),
            paid_quantity |-> SumFunction([l \in at(paid, sku) |-> l.quantity]),
            money |-> Breakdown([c \in DOMAIN buckets |->
                        [buckets[c] EXCEPT !.count = Cardinality(sold(c))]]),
            view_to_paid_order |-> Rate(Cardinality(ids), Cardinality(at(views, sku))),
            payment_methods |-> {Row(db.orders, i).method : i \in ids} \ {Null}]
      keys == {r.sku : r \in views \cup carts}
              \cup {l.sku : l \in created \cup paid \cup refunded}
  IN [sku \in keys |-> row(sku)]

-----------------------------------------------------------------------------
(* By payment method (payment_methods.py) *)

\* A payment event without a cart is a checkout of its own.
CheckoutId(p) == IF p.cart = Null THEN p.id ELSE p.cart

PaymentRows(f) == {p \in FactRows(db.payments, f) : Selects(f.method, p.method)}

PaymentMethods(f) ==
  LET with(S, m) == {r \in S : r.method = m}
      created == {o \in OrdersCreated(f) : o.method # Null}
      paid == {o \in InCurrency(OrdersPaid(f)) : o.method # Null}
      refunds == {r \in AttributedRefunds(f) : r.method # Null}
      kind(m, k) == {p \in with(PaymentRows(f), m) : p.kind = k}
      row(m) ==
        LET shown == Cardinality({CheckoutId(p) : p \in kind(m, "shown")})
            selected == Cardinality({CheckoutId(p) : p \in kind(m, "selected")})
            orders == with(paid, m)
        IN [shown |-> shown, selected |-> selected,
            failed |-> Cardinality(kind(m, "failed")),
            selected_rate |-> Rate(selected, shown),
            orders_created |-> Cardinality(with(created, m)),
            orders_paid |-> Cardinality(orders),
            selected_to_paid |-> Rate(Cardinality(orders), selected),
            money |-> Breakdown(Buckets(orders, {}, with(refunds, m)))]
      keys == {p.method : p \in PaymentRows(f)}
              \cup {r.method : r \in created \cup paid \cup refunds}
  IN [m \in keys |-> row(m)]

-----------------------------------------------------------------------------
(* Comparison of two periods (period_comparison.py) *)

\* int_change, decimal_change of whole numbers
Change(current, previous) ==
  [abs |-> current - previous, pct |-> Rate(current - previous, previous)]

\* ratio_change, seconds_change: of two fractions, one of which may be missing
FractionChange(current, previous) ==
  LET whole(x) == IF x = Null THEN <<0, 1>> ELSE x
      c == whole(current)
      p == whole(previous)
      difference == c[1] * p[2] - p[1] * c[2]
  IN [abs |-> IF current = Null /\ previous = Null THEN Null
              ELSE <<difference, c[2] * p[2]>>,
      pct |-> IF previous = Null THEN Null
              ELSE Rate(difference, p[1] * c[2])]

MoneyChanges(current, previous) ==
  LET in(money, c) == IF c \in DOMAIN money THEN money[c]
                      ELSE [gross |-> 0, refunds |-> 0, net |-> 0, aov |-> <<0, 1>>]
  IN [c \in DOMAIN current \cup DOMAIN previous |->
        Extend([k \in {"gross", "refunds", "net"} |->
                  Change(in(current, c)[k], in(previous, c)[k])],
               [aov |-> FractionChange(in(current, c).aov, in(previous, c).aov)])]

Counted == {"visitors", "sessions", "product_views", "cart_adds", "checkouts",
            "contacts", "leads", "orders_created", "orders_paid", "manual_sales",
            "shown", "selected", "failed"}

\* overview_delta, payment_method_delta
Delta(current, previous) ==
  [k \in DOMAIN current |->
     CASE k \in Counted -> Change(current[k], previous[k])
       [] k = "money" -> MoneyChanges(current[k], previous[k])
       [] OTHER -> FractionChange(current[k], previous[k])]

EmptyMethod ==
  [shown |-> 0, selected |-> 0, failed |-> 0, selected_rate |-> Null,
   orders_created |-> 0, orders_paid |-> 0, selected_to_paid |-> Null,
   money |-> <<>>]

PeriodComparison(f, from, to) ==
  LET before == [f EXCEPT !.from = from, !.to = to]
      current == PaymentMethods(f)
      previous == PaymentMethods(before)
      in(methods, m) == IF m \in DOMAIN methods THEN methods[m] ELSE EmptyMethod
  IN [current |-> Overview(f), previous |-> Overview(before),
      delta |-> Delta(Overview(f), Overview(before)),
      methods |-> [m \in DOMAIN current \cup DOMAIN previous |->
                     Delta(in(current, m), in(previous, m))]]
=============================================================================
