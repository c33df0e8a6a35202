------------------------------- MODULE MCReads -------------------------------
EXTENDS ReportRequests, Journeys

-----------------------------------------------------------------------------
(* Events: instants 1 .. 6, days of three instants *)

Plain ==
  [id |-> Null, type |-> Null, at |-> 1, shop |-> "de", market |-> "de",
   visitor |-> Null, session |-> Null, cart |-> Null, lead |-> Null,
   order |-> Null, sale |-> Null, customer |-> Null, contact |-> Null,
   refund |-> Null, utmSource |-> Null, utmMedium |-> Null,
   referrer |-> Null, campaign |-> Null, sku |-> Null,
   channel |-> Null, contactChannel |-> Null, methods |-> {}, method |-> Null,
   version |-> Null, status |-> Null, amount |-> Null, currency |-> Null, items |-> {},
   confirmedAt |-> Null, refundedAt |-> Null, number |-> Null, gclid |-> Null,
   gbraid |-> Null, wbraid |-> Null, tracking |-> Null]

Event(i, type, at, fields) ==
  fields @@ [id |-> i, type |-> type, at |-> at] @@ Plain

Austria == [shop |-> "at", market |-> "at"]

Visit(i, v, s, at, from) ==
  from @@ Event(i, "session_started", at, [visitor |-> v, session |-> s])

\* An advertisement, the way back from a payment, and a search at google.de.
AdVisit == Visit(1, "v1", "s1", 2, [gbraid |-> "click", campaign |-> "c1"])
DirectVisit == Visit(2, "v1", "s2", 1, [referrer |-> <<"checkout", "paypal", "com">>])
SeoVisit == Austria @@ Visit(3, "v2", "s3", 3, [referrer |-> <<"google", "de">>])

MCExtraExclusions == {<<"bank", "example">>}
MCOriginHosts == {<<"jvmoebel", "de">>, <<"jvmoebel", "at">>, <<"localhost">>}

Item(sku, quantity, total) ==
  [item |-> sku, sku |-> sku, quantity |-> quantity, total |-> total]

View == Event(4, "product_viewed", 2,
              [visitor |-> "v1", session |-> "s1", sku |-> "A"])
StubView == Austria @@ Event(5, "product_viewed", 4,
                             [visitor |-> "v2", session |-> "s3", sku |-> "B"])
Cart == Event(6, "add_to_cart", 3,
              [visitor |-> "v1", session |-> "s1", sku |-> "A", cart |-> 101])
Checkout == Event(7, "checkout_started", 3,
                  [visitor |-> "v1", session |-> "s1", cart |-> 101])
Intent == Event(8, "contact_intent", 4,
                [visitor |-> "v1", session |-> "s1", channel |-> "phone"])

Payment1 == [visitor |-> "v1", session |-> "s1", cart |-> 101, method |-> "card"]
MethodsShown ==
  [methods |-> {"card", "paypal"}, method |-> Null]
  @@ Event(9, "payment_methods_shown", 3, Payment1)
Selected == Event(10, "payment_method_selected", 3, Payment1)
SelectedAgain == Event(11, "payment_method_selected", 4, Payment1)
Failed == Event(12, "payment_failed", 4, Payment1)

Order1 == [order |-> "o1", visitor |-> "v1", lead |-> "l1", cart |-> 101,
           customer |-> "u1", method |-> "card", currency |-> "EUR", amount |-> 5,
           number |-> "10001",
           items |-> {Item("A", 2, 3), Item("B", 1, 2)}]
\* That the order came of the lead is first said when it is paid.
Created1 == Event(13, "order_created", 3, [lead |-> Null] @@ Order1)
Paid1 == Event(14, "order_paid", 5, Order1)
Paid2 == Austria @@ Event(15, "order_paid", 6,
  [order |-> "o2", visitor |-> "v2", method |-> "paypal", currency |-> "CHF", amount |-> 4,
   number |-> "10002", items |-> {Item("A", 1, 4)}])

Refund(i, r, currency) ==
  Event(i, "refund_created", 6,
        [refund |-> r, order |-> "o1", number |-> "10001", currency |-> currency, amount |-> 3,
         method |-> "card", refundedAt |-> 6, items |-> {Item("A", 1, 3)}])
Refund1 == Refund(16, "r1", "EUR")
WrongRefund == Refund(17, "r2", "CHF")

Lead1 == Event(18, "lead_created", 3,
               [lead |-> "l1", visitor |-> "v1", contactChannel |-> "form",
                version |-> 1, status |-> "new"])
Lead2 == Event(19, "lead_created", 4,
               [lead |-> "l2", visitor |-> "v1", contactChannel |-> "phone",
                status |-> "new"])

Changed(i, version, status, at, sale) ==
  Event(i, "lead_status_changed", at,
        [lead |-> "l1", sale |-> sale, version |-> version, status |-> status])
Lost1 == Changed(28, 2, "lost", 4, Null)
Won1 == Changed(20, 3, "won", 5, "m1")
Contact1 == Event(21, "contact_received", 2,
                  [contact |-> "q1", lead |-> "l1", contactChannel |-> "form"])
Contact1Again == Event(22, "contact_received", 4,
                       [contact |-> "q1", lead |-> "l1", contactChannel |-> "form"])
Contact2 == Event(23, "contact_received", 4,
                  [contact |-> "q2", lead |-> "l1", contactChannel |-> "form",
                   visitor |-> "v1", tracking |-> "form"])
Sale1 == Event(24, "manual_sale_created", 5,
               [sale |-> "m1", lead |-> "l1", visitor |-> "v1", customer |-> "u1",
                currency |-> "EUR", amount |-> 7, confirmedAt |-> 4,
                version |-> 1, status |-> "confirmed"])
SaleUpdated1 == Event(27, "manual_sale_updated", 5,
               [sale |-> "m1", lead |-> "l1", visitor |-> "v1", currency |-> "CHF",
                amount |-> 8, version |-> 2, status |-> "confirmed"])
SaleCancelled1 == Event(25, "manual_sale_cancelled", 6, [sale |-> "m1", version |-> 3])
Linked == Event(26, "customer_linked", 5, [visitor |-> "v1", customer |-> "u1"])

MCHistories ==
  {{AdVisit, DirectVisit, SeoVisit, View, StubView, Cart, Checkout, Intent},
   {AdVisit, MethodsShown, Selected, SelectedAgain, Failed, Created1, Paid1, Paid2, Refund1},
   {AdVisit, Lead1, Lead2, Won1, Contact1, Contact1Again, Contact2, Sale1, Paid1},
   {DirectVisit, Created1, Paid1, Paid2, Refund1, WrongRefund, Sale1,
    SaleCancelled1, Linked},
   {AdVisit, Lead1, Lost1, Won1, Contact1, Sale1, SaleUpdated1, SaleCancelled1}}

ASSUME CoherentAssumption == Coherent
ASSUME OrdersAgreeAssumption == OrdersAgree

-----------------------------------------------------------------------------
(* Filters *)

All == [from |-> 1, to |-> 6, offset |-> 0, shop |-> Null, market |-> Null,
        source |-> Null, campaign |-> Null, sku |-> Null, channel |-> Null,
        method |-> Null, currency |-> Null, model |-> "last_non_direct"]

With(fields) == fields @@ All

MCFilters ==
  {All, With([model |-> "first_touch"]), With([from |-> 3, to |-> 5]),
   With([shop |-> "at"]), With([market |-> "de", from |-> 2]),
   With([source |-> "google_ads"]), With([source |-> "direct"]),
   With([source |-> "google_ads", campaign |-> "c1", model |-> "first_touch"]),
   With([currency |-> "EUR"]), With([method |-> "card"]),
   With([channel |-> "form"]), With([sku |-> "A"]), With([offset |-> 1, from |-> 3])}

-----------------------------------------------------------------------------
(* Searches; one tracking reference is the name of a channel *)

MCUuids == {"v1", "s1"}
MCHexes == {"l1", "o1", "m1", "q1", "u1"}
MCQueries == MCUuids \cup MCHexes
             \cup {"10001", "click", "c1", "form", "phone"}

MCAsked == {All, With([channel |-> "form", from |-> 4]), With([from |-> 5, to |-> 4])}
=============================================================================
