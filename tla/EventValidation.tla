--------------------------- MODULE EventValidation ---------------------------
(***************************************************************************)
(* Which events are admitted (ingestion/validator.py, sales_channels.py),  *)
(* and what their handlers take for granted.  The contract is in JSON      *)
(* schemas (contracts/), the handlers are in Python: nothing but these two *)
(* lists being right keeps an admitted event from failing in its handler.  *)
(*                                                                         *)
(* A message is [fields, payload, bytes, typed, rfc3339]: the envelope and *)
(* the payload as functions of the keys they have, its encoded size,       *)
(* whether all values have the types, patterns and enums of the schema,    *)
(* and whether occurred_at is a time with an offset.  A domain stands for  *)
(* the host it names.                                                      *)
(***************************************************************************)
EXTENDS Naturals, Sequences

CONSTANTS
  SalesChannels,        \* settings.sales_channels: Seq([id, market, origins])
  HostOf,               \* origin -> its host
  NoOrigin,             \* of a request without Origin and Referer
  MaxEventPayloadBytes  \* settings.max_event_payload_bytes

ASSUME ValidationAssumption ==
  /\ MaxEventPayloadBytes \in Nat \ {0}
  /\ \A i \in DOMAIN SalesChannels :
       /\ SalesChannels[i].origins \subseteq DOMAIN HostOf
       /\ NoOrigin \notin SalesChannels[i].origins

-----------------------------------------------------------------------------
(* The contracts *)

HttpEventTypes ==
  {"session_started", "product_viewed", "add_to_cart", "checkout_started",
   "payment_methods_shown", "payment_method_selected", "payment_failed",
   "contact_intent"}

RabbitEventTypes ==
  {"lead_created", "contact_received", "lead_status_changed", "customer_linked",
   "order_created", "order_updated", "order_paid", "order_cancelled",
   "manual_sale_created", "manual_sale_updated", "manual_sale_cancelled",
   "refund_created"}

CartTypes == {"add_to_cart", "checkout_started", "payment_methods_shown",
              "payment_method_selected", "payment_failed"}
LeadTypes == {"lead_created", "lead_status_changed"}
OrderTypes == {"order_created", "order_updated", "order_paid", "order_cancelled"}
SaleTypes == {"manual_sale_created", "manual_sale_updated", "manual_sale_cancelled"}

\* envelope.schema.json: the keys of every event, and those it may have.
Common == {"event_id", "event_type", "event_version", "occurred_at", "source",
           "sales_channel_id"}
Optional == {"market_code", "domain", "language", "cart_id", "correlation_id"}
HttpEnvelope == Common \cup {"visitor_id", "session_id"}
HttpKeys == HttpEnvelope \cup Optional \cup {"consent"}
RabbitEnvelope == Common \cup {"aggregate_type", "aggregate_id"}
RabbitKeys ==
  RabbitEnvelope \cup Optional \cup
  {"visitor_id", "session_id", "lead_id", "customer_id", "order_id",
   "manual_sale_id", "refund_id", "contact_id", "aggregate_version"}

\* schemas/events: the keys that events of a type have besides.
RequiredOf(type) ==
  CASE type \in CartTypes -> {"cart_id"}
    [] type \in LeadTypes -> {"lead_id"}
    [] type \in OrderTypes -> {"order_id"}
    [] type \in SaleTypes -> {"manual_sale_id"}
    [] type = "contact_received" -> {"contact_id", "lead_id"}
    [] type = "customer_linked" -> {"visitor_id", "customer_id"}
    [] type = "refund_created" -> {"refund_id", "order_id"}
    [] OTHER -> {}

\* schemas/events: the aggregate of a type.
AggregateTypeOf(type) ==
  CASE type \in LeadTypes -> "lead"
    [] type \in OrderTypes -> "order"
    [] type \in SaleTypes -> "manual_sale"
    [] type = "contact_received" -> "contact"
    [] type = "customer_linked" -> "customer"
    [] type = "refund_created" -> "refund"

\* schemas/payloads: the keys of the payload.
PayloadOf(type) ==
  CASE type = "session_started" -> {"landing_page"}
    [] type = "product_viewed" -> {"sku", "unit_price", "currency"}
    [] type = "add_to_cart" -> {"sku", "quantity", "unit_price", "currency"}
    [] type = "checkout_started" -> {"line_items", "total_amount", "currency"}
    [] type = "payment_methods_shown" -> {"methods"}
    [] type = "payment_method_selected" -> {"payment_method"}
    [] type = "payment_failed" -> {"payment_method", "error_category", "stage"}
    [] type = "contact_intent" -> {"channel", "action"}
    [] type = "contact_received" -> {"contact_channel", "contact_type"}
    [] type = "lead_created" -> {"status", "contact_channel"}
    [] type = "lead_status_changed" -> {"previous_status", "new_status"}
    [] type \in OrderTypes ->
         {"order_number", "line_items", "total_amount", "currency",
          "payment_method", "order_state", "payment_state"}
    [] type = "manual_sale_created" -> {"amount", "currency", "confirmed_at"}
    [] type = "manual_sale_updated" ->
         {"amount", "currency", "status", "change_reasons"}
    [] type = "manual_sale_cancelled" -> {"amount", "currency", "cancelled_at"}
    [] type = "refund_created" ->
         {"refund_amount", "currency", "refund_type", "order_number",
          "payment_method", "order_state", "payment_state", "refunded_at"}
    [] OTHER -> {}

-----------------------------------------------------------------------------
(* validator.py, sales_channels.py *)

Keys(m) == DOMAIN m.fields
TypeOf(m) == m.fields["event_type"]

MatchesSchema(m, required, allowed) ==
  /\ m.typed
  /\ required \cup RequiredOf(TypeOf(m)) \subseteq Keys(m)
  /\ Keys(m) \subseteq allowed
  /\ PayloadOf(TypeOf(m)) \subseteq DOMAIN m.payload

\* A lead is won by an order or a manual sale.
WinnerNamed(m) ==
  TypeOf(m) = "lead_status_changed" /\ m.payload["new_status"] = "won" =>
    Keys(m) \cap {"order_id", "manual_sale_id"} # {}

AggregateIdFields ==
  [lead |-> "lead_id", contact |-> "contact_id", customer |-> "customer_id",
   order |-> "order_id", manual_sale |-> "manual_sale_id", refund |-> "refund_id"]

AggregateIdMatches(m) ==
  LET type == m.fields["aggregate_type"] IN
  /\ type \in DOMAIN AggregateIdFields
  /\ AggregateIdFields[type] \in Keys(m)
  /\ m.fields["aggregate_id"] = m.fields[AggregateIdFields[type]]

\* get_sales_channel: the first with the id.
ChannelsNamed(m) ==
  {i \in DOMAIN SalesChannels : SalesChannels[i].id = m.fields["sales_channel_id"]}
ChannelOf(m) ==
  SalesChannels[CHOOSE i \in ChannelsNamed(m) : \A j \in ChannelsNamed(m) : i <= j]

KnownChannel(m) ==
  /\ ChannelsNamed(m) # {}
  /\ "market_code" \in Keys(m) => m.fields["market_code"] = ChannelOf(m).market

HttpChannelAllowed(m, origin) ==
  /\ KnownChannel(m)
  /\ origin \in ChannelOf(m).origins
  /\ "domain" \in Keys(m) =>
       m.fields["domain"] \in {HostOf[o] : o \in ChannelOf(m).origins}

ValidateHttpEvent(m, origin) ==
  /\ "event_type" \in Keys(m) /\ TypeOf(m) \in HttpEventTypes
  /\ m.bytes <= MaxEventPayloadBytes
  /\ MatchesSchema(m, HttpEnvelope, HttpKeys)
  /\ m.rfc3339
  /\ HttpChannelAllowed(m, origin)

ValidateRabbitEvent(m) ==
  /\ "event_type" \in Keys(m) /\ TypeOf(m) \in RabbitEventTypes
  /\ m.bytes <= MaxEventPayloadBytes
  /\ MatchesSchema(m, RabbitEnvelope, RabbitKeys)
  /\ m.fields["aggregate_type"] = AggregateTypeOf(TypeOf(m)) /\ WinnerNamed(m)
  /\ m.rfc3339
  /\ AggregateIdMatches(m)
  /\ KnownChannel(m)

-----------------------------------------------------------------------------
(* The handlers *)

Handled ==
  {"session_started", "product_viewed", "add_to_cart", "checkout_started",
   "payment_methods_shown", "payment_method_selected", "payment_failed",
   "contact_intent", "contact_received", "lead_created", "lead_status_changed",
   "customer_linked", "order_created", "order_updated", "order_paid",
   "order_cancelled", "manual_sale_created", "manual_sale_updated",
   "manual_sale_cancelled", "refund_created"}

\* require_id: a missing one ends the ingest with an error of the program's own.
Needs(type) ==
  CASE type = "session_started" -> {"visitor_id", "session_id"}
    [] type \in {"product_viewed", "add_to_cart", "checkout_started",
                 "contact_intent"} -> {"visitor_id"}
    [] type = "contact_received" -> {"contact_id", "lead_id"}
    [] type \in {"lead_created", "lead_status_changed"} -> {"lead_id"}
    [] type = "customer_linked" -> {"visitor_id", "customer_id"}
    [] type \in {"order_created", "order_updated", "order_paid",
                 "order_cancelled"} -> {"order_id"}
    [] type \in {"manual_sale_created", "manual_sale_updated",
                 "manual_sale_cancelled"} -> {"manual_sale_id"}
    [] type = "refund_created" -> {"refund_id", "order_id"}
    [] OTHER -> {}

\* payload[..]: a missing one is a KeyError.
Reads(type) ==
  CASE type = "product_viewed" -> {"sku"}
    [] type = "add_to_cart" -> {"sku", "quantity"}
    [] type \in {"payment_method_selected", "payment_failed"} -> {"payment_method"}
    [] type = "contact_intent" -> {"channel"}
    [] type = "contact_received" -> {"contact_channel", "contact_type"}
    [] type = "lead_status_changed" -> {"previous_status", "new_status"}
    [] type \in {"order_created", "order_updated", "order_paid"} -> {"currency"}
    [] type = "manual_sale_created" -> {"confirmed_at"}
    [] type = "manual_sale_cancelled" -> {"cancelled_at"}
    [] type = "refund_created" ->
         {"currency", "refund_amount", "refund_type", "refunded_at"}
    [] OTHER -> {}

\* redact_event_body: what is left of a payload if the visitor is anonymized.
Identifying == {"click_ids", "utm", "landing_page", "referrer", "device"}
Redacted(payload) == [k \in DOMAIN payload \ Identifying |-> payload[k]]

\* An event with these fields and payload reaches a handler, and the handler
\* finds what it takes for granted.
HandlerFinds(fields, payload) ==
  LET type == fields["event_type"] IN
  /\ type \in Handled
  /\ Needs(type) \subseteq DOMAIN fields
  /\ Reads(type) \subseteq DOMAIN payload
=============================================================================
