---------------------------- MODULE ReportRequests ----------------------------
(***************************************************************************)
(* Reports asked for while events arrive.  A request's session runs at     *)
(* READ COMMITTED (core/db/postgres.py): each statement of a report reads  *)
(* what is committed when it starts, and ingests may commit in between.    *)
(* The contact channel report is run statement by statement, since it      *)
(* divides counts of different statements by each other.                   *)
(***************************************************************************)
EXTENDS ReportBreakdowns, Sequences

CONSTANTS
  Filters,     \* filters the reports are compared under
  Asked,       \* filters the contact channel report is asked with
  MaxCommits   \* bound: ingests that commit while a report runs

\* What parse_report_filters makes of a request's query.
FilterKeys == {"from", "to", "offset", "shop", "market", "source", "campaign",
               "sku", "channel", "method", "currency", "model"}

ASSUME FiltersAssumption ==
  /\ DayLength \in Nat \ {0}
  /\ \A f \in Filters : /\ DOMAIN f = FilterKeys
                        /\ {f.from, f.to, f.offset} \subseteq Int

VARIABLE report   \* the running report: its filters, and of the statements
                  \* run so far the answer and how many ingests had committed

vars == <<dataVars, report>>

Idle == [running |-> FALSE, filters |-> Null, parts |-> <<>>, commits |-> 0]

-----------------------------------------------------------------------------
Init == DataInit /\ report = Idle

\* parse_report_filters: 400 for a period that ends before it begins.
Request(f) ==
  /\ ~report.running
  /\ f.from <= f.to
  /\ report' = [running |-> TRUE, filters |-> f, parts |-> <<>>, commits |-> 0]
  /\ UNCHANGED dataVars

RunStatement ==
  /\ report.running /\ Len(report.parts) < 8
  /\ report' = [report EXCEPT !.parts = Append(@,
       [rows |-> ChannelStatement(Len(@) + 1, report.filters),
        after |-> report.commits])]
  /\ UNCHANGED dataVars

Answer ==
  /\ report.running /\ Len(report.parts) = 8
  /\ report' = Idle
  /\ UNCHANGED dataVars

Arrive(e) ==
  /\ report.running => report.commits < MaxCommits
  /\ Ingest(e)
  /\ report' = IF report.running THEN [report EXCEPT !.commits = @ + 1] ELSE report

Reject(e) == Refuse(e) /\ UNCHANGED report

Next ==
  \/ \E f \in Asked : Request(f)
  \/ RunStatement \/ Answer
  \/ \E e \in pending : Arrive(e) \/ Reject(e)

Spec == Init /\ [][Next]_vars

-----------------------------------------------------------------------------
(* Properties *)

\* One figure of all rows of a report.
Total(rows, figure) == SumFunction([k \in DOMAIN rows |-> rows[k][figure]])

\* A currency's money, if there is any, and that of all rows.
Figure(money, c, k) == IF c \in DOMAIN money THEN money[c][k] ELSE 0

TotalMoney(rows, c, k) == SumFunction([r \in DOMAIN rows |-> Figure(rows[r].money, c, k)])

SameMoney(rows, money, kinds) ==
  \A c \in (UNION {DOMAIN rows[r].money : r \in DOMAIN rows}) \cup DOMAIN money :
    \A k \in kinds : TotalMoney(rows, c, k) = Figure(money, c, k)

Amounts == {"gross", "refunds", "net"}

SourceFigures == {"visitors", "sessions", "contacts", "leads", "orders_created",
                  "orders_paid", "manual_sales"}

\* The report by source and the overview count with statements of their own:
\* under every filter but those on a contact channel, which the first ignores,
\* and on "direct", which the two read differently, the rows add up to the
\* overview, each row of a campaign is the overview of its source and campaign,
\* and no sale is counted under two sources (sources.py:75, overview.py:24,
\* money_agg.py:178).
SourcesAgree ==
  ~report.running => \A f \in Filters :
    f.channel = Null /\ f.source # "direct" =>
      LET rows == Sources(f)
          o == Overview(f)
      IN /\ \A k \in SourceFigures : Total(rows, k) = o[k]
         /\ SameMoney(rows, o.money, Amounts)
         /\ \A k \in DOMAIN rows : k[1] # "direct" /\ k[2] # Null =>
              LET own == Overview([f EXCEPT !.source = k[1], !.campaign = k[2]])
              IN \A c \in DOMAIN rows[k] : rows[k][c] = own[c]

\* Days, payment methods, contact channels and products are parts of the
\* overview.  With days of UTC the daily rows add up to it; rows by payment
\* method to its orders that have one; rows by contact channel to its sales
\* with a lead that has one; views and carts by product to those of visitors
\* that came.  And the visitors the funnel counts are no more than the rows the
\* others count, of which each has one (overview_daily.py:45,
\* payment_methods.py:48, contact_channels.py:86, products.py:53, funnel.py:56).
BreakdownsAgree ==
  ~report.running => \A f \in Filters :
    LET o == Overview(f)
        days == OverviewDaily(f)
        methods == PaymentMethods(f)
        channels == ContactChannels([i \in ChannelStatements |-> ChannelStatement(i, f)], f)
        products == Products(f)
        funnel == Funnel(f)
        allLive == \A r \in db.views \cup db.carts : Live(r)
    IN /\ f.offset = 0 =>
            /\ Total(days, "orders_paid") = o.orders_paid
            /\ Total(days, "manual_sales") = o.manual_sales
            /\ SameMoney(days, o.money, Amounts)
       /\ f.offset # 0 => Total(days, "paid_sales") <= o.orders_paid + o.manual_sales
       /\ Total(methods, "orders_created")
            = Cardinality({r \in OrdersCreated(f) : r.method # Null})
       /\ Total(methods, "orders_paid")
            = Cardinality({r \in OrdersPaid(f) : r.method # Null})
       /\ \A c \in DOMAIN o.money :
            /\ TotalMoney(methods, c, "refunds") = o.money[c].refunds
            /\ TotalMoney(methods, c, "gross") <= o.money[c].gross
       /\ Total(channels, "leads")
            = Cardinality({l \in LeadRows(f) : l.channel # Null})
       /\ Total(channels, "contacts") = o.contacts
       /\ Total(channels, "orders_paid") + Total(channels, "manual_sales")
            = Cardinality({r \in LeadLinked(OrdersPaid(f), f) : LeadChannel(r) # Null})
              + Cardinality({r \in LeadLinked(ManualSales(f), f) : LeadChannel(r) # Null})
       /\ Total(products, "views") <= o.product_views
       /\ allLive => /\ Total(products, "views") = o.product_views
                     /\ Total(products, "cart_adds") = o.cart_adds
       /\ \A sku \in DOMAIN products : products[sku].orders_paid <= o.orders_paid
       /\ funnel.ecommerce[2].count <= Total(products, "views")
       /\ funnel.ecommerce[3].count <= Total(products, "cart_adds")
       /\ funnel.ecommerce[4].count <= o.checkouts
       /\ funnel.lead[2].count <= Total(channels, "intents")
       /\ funnel.lead[6].count
            >= Total(channels, "orders_paid") + Total(channels, "manual_sales")

PeriodFigures == {"visitors", "sessions", "product_views", "cart_adds",
                  "checkouts", "contacts", "leads", "orders_created",
                  "orders_paid", "manual_sales"}

\* Both ends of a period belong to it: of two periods of which the second
\* begins right after the first ends, each event is in exactly one.  So a
\* period compared with its second part differs from it by its first part, in
\* every count and every currency, also one that only one of them has, and by
\* payment method (filters.py:44, period_comparison.py:62-110, :201).
PeriodsAddUp ==
  ~report.running => \A f \in Filters : \A cut \in f.from .. f.to - 1 :
    LET c == PeriodComparison(f, cut + 1, f.to)
        head == Overview([f EXCEPT !.to = cut])
        methods == PaymentMethods([f EXCEPT !.to = cut])
    IN /\ \A k \in PeriodFigures : c.delta[k].abs = head[k]
       /\ \A m \in DOMAIN head.money : \A k \in Amounts :
            c.delta.money[m][k].abs = head.money[m][k]
       /\ DOMAIN c.delta.money = DOMAIN c.current.money
       /\ \A m \in DOMAIN methods :
            c.methods[m].orders_paid.abs = methods[m].orders_paid

\* The rates of the contact channel report relate counts of different
\* statements.  What makes such a rate exceed 1 are only the ingests that
\* committed in between, by one lead each: no ingest brings two leads into a
\* count, unless the count is of a source or campaign, where a late session
\* moves all leads of its visitor (contact_channels.py:296-301).
RatesBounded ==
  LET parts == report.parts
      unattributed == report.running => report.filters.source = Null
                                        /\ report.filters.campaign = Null
      within(part, whole) ==
        unattributed /\ part <= Len(parts) =>
          \A k \in DOMAIN parts[part].rows :
            parts[part].rows[k] <= Of(parts[whole].rows, k)
                                   + parts[part].after - parts[whole].after
  IN within(3, 2) /\ within(7, 4)
=============================================================================
