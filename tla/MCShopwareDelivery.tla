------------------------ MODULE MCShopwareDelivery ------------------------
(* Instance of ShopwareDelivery for TLC.  Two publications carry the same    *)
(* event_id: the stored event or its collision, in either order; the third   *)
(* is an event of its own, whose aggregate is not the refund it names.        *)
EXTENDS ShopwareDelivery, EventValidation, TLC

CONSTANTS orderPaid, orderPaidOther, refund, e1, e2, body1, body2, body3

MCEventOf ==
  (orderPaid :> e1) @@ (orderPaidOther :> e1) @@ (refund :> e2)

MCContentOf ==
  (orderPaid :> body1) @@ (orderPaidOther :> body2) @@ (refund :> body3)

\* One event is published twice: handed over again after a lost confirmation.
MCMaxPublishes ==
  (orderPaid :> 2) @@ (orderPaidOther :> 1) @@ (refund :> 1)

\* The publications as messages.
Envelope(event) ==
  event @@ [event_id |-> "", event_version |-> 1, occurred_at |-> "", source |-> "shopware",
            sales_channel_id |-> "de", market_code |-> "DE"]

MCMessage(p) ==
  [fields |->
     IF p = refund
     THEN Envelope([event_type |-> "refund_created", refund_id |-> "r1", order_id |-> "o1",
                    aggregate_type |-> "refund", aggregate_id |-> "o1"])
     ELSE Envelope([event_type |-> "order_paid", order_id |-> "o1",
                    aggregate_type |-> "order", aggregate_id |-> "o1"]),
   payload |-> [k \in PayloadOf("order_paid") \cup PayloadOf("refund_created") |-> ""],
   bytes |-> 1, typed |-> TRUE, rfc3339 |-> TRUE]

ASSUME MCPoison == Poison = {p \in Publications : ~ValidateRabbitEvent(MCMessage(p))}

MCSalesChannels ==
  <<[id |-> "de", market |-> "DE", origins |-> {"https://www.jvmoebel.de"}]>>
MCHostOf == [o \in {"https://www.jvmoebel.de"} |-> "www.jvmoebel.de"]
=============================================================================
