---------------------------- MODULE MCHttpIngest ----------------------------
(* Instances of HttpIngest for TLC: two batches whose events overlap and      *)
(* collide, one event on its own, and two bodies above the limit.  One event  *)
(* names a domain of another sales channel than the page it is sent from.     *)
EXTENDS HttpIngest, EventValidation, TLC

CONSTANTS idA, idB, bodyX, bodyY, itemA, itemB, otherB, bad,
          batch, reversed, single, huge, announced

MCIdOf == [i \in Items |-> IF i \in {itemA, bad} THEN idA ELSE idB]
MCContentOf == [i \in Items |-> IF i = otherB THEN bodyY ELSE bodyX]

MCBatch ==
  [r \in Requests |->
     CASE r = batch -> <<itemA, bad, itemB, itemA>>
       [] r = reversed -> <<itemB, itemA>>
       [] r = single -> <<otherB>>
       [] r \in {huge, announced} -> <<itemA>>]

MCChunks ==
  [r \in Requests |-> IF r = huge THEN <<1, 2, 1>> ELSE <<2>>]

MCMaxSends == [r \in Requests |-> IF r = batch THEN 2 ELSE 1]

MCDeclared ==
  [r \in Requests |->
     CASE r = huge -> NoLength [] r = announced -> 3 [] OTHER -> 2]

\* The items as events that a page of the first channel sends.
MCMessage(i) ==
  [fields |->
     [event_id |-> "", event_type |-> "add_to_cart", event_version |-> 1, occurred_at |-> "",
      source |-> "nextjs", visitor_id |-> "v1", session_id |-> "s1", cart_id |-> "c1",
      sales_channel_id |-> "de",
      domain |-> IF i = bad THEN "www.jvmoebel.at" ELSE "www.jvmoebel.de"],
   payload |-> [k \in PayloadOf("add_to_cart") |-> ""],
   bytes |-> 1, typed |-> TRUE, rfc3339 |-> TRUE]

ASSUME MCInvalid ==
  Invalid = {i \in Items : ~ValidateHttpEvent(MCMessage(i), "https://www.jvmoebel.de")}

MCSalesChannels ==
  <<[id |-> "de", market |-> "DE", origins |-> {"https://www.jvmoebel.de"}],
    [id |-> "at", market |-> "AT", origins |-> {"https://www.jvmoebel.at"}]>>
MCHostOf ==
  ("https://www.jvmoebel.de" :> "www.jvmoebel.de") @@
  ("https://www.jvmoebel.at" :> "www.jvmoebel.at")
=============================================================================
