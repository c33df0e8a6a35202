--------------------------- MODULE IngestContract ---------------------------
(***************************************************************************)
(* What the analytics service promises a publisher of Shopware events,     *)
(* whatever the broker and the worker do in between: a publication that    *)
(* was offered is settled exactly once as the stored event of its          *)
(* event_id, or it ends in the dead-letter queue; a stored event is never  *)
(* replaced (contracts/rabbitmq/docs/operations.md, "Analytics             *)
(* consumption").  ShopwareDelivery is shown to implement it.              *)
(***************************************************************************)
CONSTANTS
  Publications,   \* messages a producer may offer
  EventIds,       \* event_id values
  NoContent,      \* "this event_id has not been accepted"
  EventOf,        \* [Publications -> EventIds]
  ContentOf       \* the body a publication carries

VARIABLES
  offered,        \* publications handed to the broker
  accepted,       \* event_id -> content it was accepted with
  deadLettered    \* publications that ended in the DLQ

vars == <<offered, accepted, deadLettered>>

Init ==
  /\ offered = {}
  /\ accepted = [e \in EventIds |-> NoContent]
  /\ deadLettered = {}

Offer(p) ==
  /\ offered' = offered \cup {p}
  /\ UNCHANGED <<accepted, deadLettered>>

Accept(p) ==
  /\ p \in offered
  /\ accepted[EventOf[p]] = NoContent
  /\ accepted' = [accepted EXCEPT ![EventOf[p]] = ContentOf[p]]
  /\ UNCHANGED <<offered, deadLettered>>

DeadLetter(p) ==
  /\ p \in offered
  /\ deadLettered' = deadLettered \cup {p}
  /\ UNCHANGED <<offered, accepted>>

Settled(p) == accepted[EventOf[p]] = ContentOf[p] \/ p \in deadLettered

\* An offered publication is not left unsettled for ever.
Settle(p) == ~Settled(p) /\ (Accept(p) \/ DeadLetter(p))

Next == \E p \in Publications : Offer(p) \/ Accept(p) \/ DeadLetter(p)

SafeSpec == Init /\ [][Next]_vars
Spec == SafeSpec /\ \A p \in Publications : WF_vars(Settle(p))
=============================================================================
