-------------------------- MODULE ShopwareDelivery --------------------------
(***************************************************************************)
(* Delivery of Shopware events: the RabbitMQ topology declared by          *)
(* core/rabbit.py, the worker's handler tasks                              *)
(* (domains/ingestion/consumer.py) and the journal transaction they run    *)
(* (domains/ingestion/service.py).                                         *)
(*                                                                         *)
(* The broker keeps persistent copies of publications in the events queue, *)
(* the retry queue (TTL, dead-lettered back to the events exchange) and    *)
(* the DLQ.  A delivery occupies a handler task until it is acknowledged,  *)
(* rejected or given back by a disconnect.  Queues are bags: prefetch,     *)
(* requeueing and the retry queue already reorder deliveries.              *)
(***************************************************************************)
EXTENDS Integers, FiniteSets

CONSTANTS
  Publications,      \* distinct messages: an event_id with a body
  EventIds,          \* event_id values
  Contents,          \* bodies, as far as is_same_event tells them apart
  EventOf,           \* [Publications -> EventIds]
  ContentOf,         \* [Publications -> Contents]
  Poison,            \* publications parse_rabbit_message_body refuses
  Unprojectable,     \* publications whose projection may fail permanently
  Tasks,             \* handler tasks (on_message callbacks) of the worker
  Prefetch,          \* settings.rabbitmq.prefetch
  MaxRetryAttempts,  \* settings.rabbitmq.max_retry_attempts
  MaxPublishes,      \* bound: times the relay hands each publication over
  MaxFaults,         \* bound: crashes, disconnects and failed republications
  NoContent,         \* event_id not journaled
  NoPublication      \* task without a delivery

ASSUME DeliveryAssumption ==
  /\ EventOf \in [Publications -> EventIds]
  /\ ContentOf \in [Publications -> Contents]
  /\ NoContent \notin Contents
  /\ NoPublication \notin Publications
  /\ Poison \subseteq Publications
  /\ Unprojectable \subseteq Publications
  /\ IsFiniteSet(Tasks)
  /\ Prefetch \in Nat \ {0}
  /\ MaxRetryAttempts \in Nat
  /\ MaxPublishes \in [Publications -> Nat]
  /\ MaxFaults \in Nat

VARIABLES
  published,   \* [Publications -> Nat]: times the relay published it
  ready,       \* events queue: copies by publication and x-retry-attempt
  retry,       \* retry queue: likewise
  dlq,         \* publications with a copy in the DLQ
  task,        \* handler tasks
  journal,     \* committed events rows: event_id -> body
  projected,   \* ghost: committed projections of each event_id
  faults       \* faults injected so far

vars == <<published, ready, retry, dlq, task, journal, projected, faults>>
broker == <<published, ready, retry, dlq>>
store == <<journal, projected>>

-----------------------------------------------------------------------------
(* Types and helpers *)

\* One more than the budget, so that RetryBudget is a statement about the
\* guard of Republish and not a consequence of the type.
Attempts == 0 .. MaxRetryAttempts + 1

PCs == {"idle", "received", "inserting", "projecting",
        "acking", "rejecting", "retrying", "stuck"}

\* owned: the delivery tag still belongs to an open channel, so ack and
\* reject reach the broker.  A disconnect requeues the copy and leaves the
\* handler running without it.
TaskStates ==
  [pc : PCs, pub : Publications \cup {NoPublication},
   attempt : Attempts, owned : BOOLEAN]

Idle == [pc |-> "idle", pub |-> NoPublication, attempt |-> 0, owned |-> FALSE]

Bags == [Publications -> [Attempts -> Nat]]
EmptyBag == [p \in Publications |-> [a \in Attempts |-> 0]]

Owned(p, a) ==
  {t \in Tasks : task[t].owned /\ task[t].pub = p /\ task[t].attempt = a}

Unacked == {t \in Tasks : task[t].owned}

Goto(t, from, to) ==
  /\ task[t].pc = from
  /\ task' = [task EXCEPT ![t].pc = to]

Release(t) == task' = [task EXCEPT ![t] = Idle]

\* Stored event equal to the incoming one on every identity field and payload.
IsSameEvent(p) == journal[EventOf[p]] = ContentOf[p]

\* Bug: SELECT the event_id, then INSERT: nobody waits for an open insert.
BugCheckThenInsert(t) == FALSE

\* An uncommitted INSERT of the same primary key: ON CONFLICT waits for it.
InsertBlocked(t) ==
  \E u \in Tasks \ {t} :
    task[u].pc = "projecting" /\ EventOf[task[u].pub] = EventOf[task[t].pub]

-----------------------------------------------------------------------------
Init ==
  /\ published = [p \in Publications |-> 0]
  /\ ready = EmptyBag
  /\ retry = EmptyBag
  /\ dlq = {}
  /\ task = [t \in Tasks |-> Idle]
  /\ journal = [e \in EventIds |-> NoContent]
  /\ projected = [e \in EventIds |-> 0]
  /\ faults = 0

-----------------------------------------------------------------------------
(* Broker and producer *)

\* The outbox relay publishes a row, or publishes it again: same event_id.
Publish(p) ==
  /\ published[p] < MaxPublishes[p]
  /\ published' = [published EXCEPT ![p] = @ + 1]
  /\ ready' = [ready EXCEPT ![p][0] = @ + 1]
  /\ UNCHANGED <<retry, dlq, task, store, faults>>

\* A ready copy is pushed to an on_message callback, at most Prefetch unacked.
Deliver(t) ==
  /\ task[t].pc = "idle"
  /\ Cardinality(Unacked) < Prefetch
  /\ \E p \in Publications, a \in Attempts :
       /\ ready[p][a] > 0
       /\ ready' = [ready EXCEPT ![p][a] = @ - 1]
       /\ task' = [task EXCEPT ![t] =
            [pc |-> "received", pub |-> p, attempt |-> a, owned |-> TRUE]]
  /\ UNCHANGED <<published, retry, dlq, store, faults>>

\* x-message-ttl of the retry queue runs out: back to the events exchange.
ExpireRetryTtl ==
  /\ \E p \in Publications, a \in Attempts :
       /\ retry[p][a] > 0
       /\ retry' = [retry EXCEPT ![p][a] = @ - 1]
       /\ ready' = [ready EXCEPT ![p][a] = @ + 1]
  /\ UNCHANGED <<published, dlq, task, store, faults>>

-----------------------------------------------------------------------------
(* handle_shopware_message *)

ParseMessage(t) ==
  /\ \/ task[t].pub \in Poison /\ Goto(t, "received", "rejecting")
     \/ task[t].pub \notin Poison /\ Goto(t, "received", "inserting")
  /\ UNCHANGED <<broker, store, faults>>

\* persist_validated_event, INSERT .. ON CONFLICT DO NOTHING and what follows.
InsertEvent(t) ==
  LET p == task[t].pub IN
  /\ task[t].pc = "inserting"
  /\ ~InsertBlocked(t)
  /\ \/ journal[EventOf[p]] = NoContent /\ Goto(t, "inserting", "projecting")
     \/ IsSameEvent(p) /\ Goto(t, "inserting", "acking")
     \/ /\ journal[EventOf[p]] # NoContent /\ ~IsSameEvent(p)
        /\ Goto(t, "inserting", "rejecting")
  /\ UNCHANGED <<broker, store, faults>>

\* ensure_stubs, dispatch and COMMIT: the row and its projection together.
\* The reply to COMMIT may be lost, and the handler sees a transient error.
CommitEvent(t) ==
  LET p == task[t].pub IN
  /\ Goto(t, "projecting", "acking") \/ Goto(t, "projecting", "retrying")
  /\ journal' = [journal EXCEPT ![EventOf[p]] = ContentOf[p]]
  /\ projected' = [projected EXCEPT ![EventOf[p]] = @ + 1]
  /\ UNCHANGED <<broker, faults>>

\* ProjectionInvariantError or IntegrityError: rollback, then reject.
FailPermanently(t) ==
  /\ task[t].pub \in Unprojectable
  /\ Goto(t, "projecting", "rejecting")
  /\ UNCHANGED <<broker, store, faults>>

\* Any other exception (database away, deadlock victim): rollback, then retry.
FailTransiently(t) ==
  /\ Goto(t, "inserting", "retrying") \/ Goto(t, "projecting", "retrying")
  /\ UNCHANGED <<broker, store, faults>>

\* message.ack(): without the delivery tag it raises and the task just ends.
Ack(t) ==
  /\ task[t].pc = "acking"
  /\ Release(t)
  /\ UNCHANGED <<broker, store, faults>>

DeadLetterCopy(t) ==
  /\ dlq' = IF task[t].owned THEN dlq \cup {task[t].pub} ELSE dlq
  /\ Release(t)
  /\ UNCHANGED <<published, ready, retry, store, faults>>

Reject(t) ==
  /\ task[t].pc = "rejecting"
  /\ DeadLetterCopy(t)

-----------------------------------------------------------------------------
(* retry_or_dead_letter *)

\* Bug: reject on the first transient failure.
BugGiveUpAtOnce(t) == task[t].pc = "retrying" /\ DeadLetterCopy(t)

GiveUp(t) ==
  /\ task[t].pc = "retrying"
  /\ task[t].attempt >= MaxRetryAttempts
  /\ DeadLetterCopy(t)

\* Bug: the x-retry-attempt header is copied, not incremented.
BugRepublishUncounted(t) ==
  /\ Goto(t, "retrying", "acking")
  /\ task[t].attempt < MaxRetryAttempts
  /\ retry' = [retry EXCEPT ![task[t].pub][task[t].attempt] = @ + 1]
  /\ UNCHANGED <<published, ready, dlq, store, faults>>

\* The new copy is confirmed by the broker before the old one is acked.
Republish(t) ==
  /\ Goto(t, "retrying", "acking")
  /\ task[t].attempt < MaxRetryAttempts
  /\ retry' = [retry EXCEPT ![task[t].pub][task[t].attempt + 1] = @ + 1]
  /\ UNCHANGED <<published, ready, dlq, store, faults>>

\* Bug: ack first, publish the retry copy afterwards: a failure loses it.
BugAckBeforePublish(t) ==
  /\ faults < MaxFaults
  /\ faults' = faults + 1
  /\ task[t].attempt < MaxRetryAttempts
  /\ task[t].pc = "retrying" /\ Release(t)
  /\ UNCHANGED <<broker, store>>

\* publish() raises: nothing acks or rejects the delivery, the task is over.
RepublishFails(t) ==
  /\ faults < MaxFaults
  /\ faults' = faults + 1
  /\ task[t].attempt < MaxRetryAttempts
  /\ IF task[t].owned
       THEN Goto(t, "retrying", "stuck")
       ELSE task[t].pc = "retrying" /\ Release(t)
  /\ UNCHANGED <<broker, store>>

-----------------------------------------------------------------------------
(* Faults *)

RequeueUnacked ==
  ready' = [p \in Publications |-> [a \in Attempts |->
              ready[p][a] + Cardinality(Owned(p, a))]]

\* The channel closes: the broker requeues, running handlers carry on and
\* connect_robust reconnects.
Disconnect ==
  /\ RequeueUnacked
  /\ task' = [t \in Tasks |-> IF task[t].pc = "stuck"
                                THEN Idle ELSE [task[t] EXCEPT !.owned = FALSE]]
  /\ UNCHANGED <<published, retry, dlq, store>>

LoseConnection ==
  /\ faults < MaxFaults
  /\ faults' = faults + 1
  /\ Disconnect

\* The broker's delivery acknowledgement timeout closes a channel that holds
\* a delivery nobody will settle.
AckTimeout ==
  /\ \E t \in Tasks : task[t].pc = "stuck"
  /\ Disconnect
  /\ UNCHANGED faults

\* The worker dies: open transactions roll back, unacked copies are requeued.
CrashWorker ==
  /\ faults < MaxFaults
  /\ faults' = faults + 1
  /\ RequeueUnacked
  /\ task' = [t \in Tasks |-> Idle]
  /\ UNCHANGED <<published, retry, dlq, store>>

-----------------------------------------------------------------------------
HandlerStep(t) ==
  \/ ParseMessage(t) \/ InsertEvent(t) \/ CommitEvent(t)
  \/ FailPermanently(t) \/ FailTransiently(t)
  \/ Ack(t) \/ Reject(t) \/ GiveUp(t) \/ Republish(t) \/ RepublishFails(t)

Next ==
  \/ \E p \in Publications : Publish(p)
  \/ \E t \in Tasks : Deliver(t) \/ HandlerStep(t)
  \/ ExpireRetryTtl \/ LoseConnection \/ AckTimeout \/ CrashWorker

\* The event loop runs every handler task on, the broker pushes ready copies,
\* expires TTLs and times out deliveries.  Nothing obliges the relay to
\* publish or a fault to happen.
Fairness ==
  /\ \A t \in Tasks : WF_vars(HandlerStep(t))
  /\ WF_vars(\E t \in Tasks : Deliver(t))
  /\ WF_vars(ExpireRetryTtl)
  /\ WF_vars(AckTimeout)

Spec == Init /\ [][Next]_vars
FairSpec == Spec /\ Fairness

-----------------------------------------------------------------------------
(* Properties *)

\* The queues, the handler tasks and the journal have their types.
Types ==
  /\ published \in [Publications -> Nat]
  /\ ready \in Bags
  /\ retry \in Bags
  /\ dlq \in SUBSET Publications
  /\ task \in [Tasks -> TaskStates]
  /\ journal \in [EventIds -> Contents \cup {NoContent}]
  /\ projected \in [EventIds -> Nat]
  /\ faults \in Nat

\* At most one transaction holds the uncommitted row of an event_id.
OneInserter ==
  \A t, u \in Tasks :
    /\ task[t].pc = "projecting" /\ task[u].pc = "projecting"
    /\ EventOf[task[t].pub] = EventOf[task[u].pub]
    => t = u

\* Everything has its type, and of the handlers that have inserted an event and
\* project it, at most one has a given event_id: the INSERT comes first, and a
\* second one waits for it (service.py:73-95).
TypeOK == Types /\ OneInserter

Queued(p) == \E a \in Attempts : ready[p][a] > 0 \/ retry[p][a] > 0

\* A delivery the broker would give back and no handler is about to ack.
InHand(p) ==
  \E t \in Tasks : /\ task[t].owned /\ task[t].pub = p
                   /\ task[t].pc # "acking"

\* No publication is ever lost between publish-retry, commit and ack: it is
\* stored, dead-lettered, queued, or in the hands of a handler that has not
\* yet decided to acknowledge it (ack_rule of rabbitmq-topology.yaml).
NeverLost ==
  \A p \in Publications : published[p] > 0 =>
    IsSameEvent(p) \/ p \in dlq \/ Queued(p) \/ InHand(p)

\* However often an event is delivered, and by however many handlers at
\* once, its projection is committed exactly when its journal row is: once.
ExactlyOnce ==
  \A e \in EventIds : projected[e] = IF journal[e] = NoContent THEN 0 ELSE 1

\* Every copy, in a queue or in a handler, stays within the retry budget.
RetryBudget ==
  /\ \A p \in Publications :
       ready[p][MaxRetryAttempts + 1] = 0 /\ retry[p][MaxRetryAttempts + 1] = 0
  /\ \A t \in Tasks : task[t].attempt <= MaxRetryAttempts

\* A collision never overwrites the event stored first.
JournalImmutable ==
  [][\A e \in EventIds : journal[e] # NoContent => journal'[e] = journal[e]]_journal

\* A publication enters the DLQ for one of the reasons the contract names:
\* it is invalid, its projection is refused, another event has its event_id,
\* or this delivery has spent the retry budget.
DeadLetterJustified ==
  [][\A p \in dlq' \ dlq :
       \/ p \in Poison \cup Unprojectable
       \/ journal[EventOf[p]] \notin {NoContent, ContentOf[p]}
       \/ \E t \in Tasks : /\ task[t].pub = p /\ task[t].pc = "retrying"
                           /\ task[t].attempt = MaxRetryAttempts]_dlq

\* Once the producer and the faults stop, the queues drain: attempts are
\* finite even if every transaction keeps failing.
EventuallyDrained ==
  <>[](/\ ready = EmptyBag /\ retry = EmptyBag
       /\ \A t \in Tasks : task[t] = Idle)

\* Every published event is at last stored or dead-lettered.
Contract == INSTANCE IngestContract WITH
  offered <- {p \in Publications : published[p] > 0},
  accepted <- journal,
  deadLettered <- dlq

ImplementsContract == Contract!Spec
=============================================================================
