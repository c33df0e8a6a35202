# TLA+ specifications of the JV Möbel Shopware services

The repository holds two Python services. **analytics** takes events of the shop,
over HTTP from the Next.js storefront and over RabbitMQ from Shopware, keeps them
in a journal and projects them onto orders, leads, manual sales, sessions and
visitors, from which reports and journeys are read. **ar** keeps one AR model
(a database row and a GLB or USDZ file) per sku.

These modules specify the parts whose correctness depends on interleavings,
order of arrival, failures and retries. TLC checks them on small instances, and
TLAPS proves the main safety properties for every value of the constants.

```
tlc -config MCOrderProjection.cfg MCOrderProjection     # one run
tlapm OrderProjection_proofs.tla                        # one proof
```

`PROJECT.json` lists the runs, the source lines of each definition, the hazards,
and, for every property, a mutated definition that violates it. The mutated
definitions stand in the modules next to the original, under a comment `Bug:`.

## 1. The system

| Component (source) | State | Operations | Hard behaviour | What makes it correct |
| --- | --- | --- | --- | --- |
| Shopware consumer (`ingestion/consumer.py`, `core/rabbit.py`) and journal (`ingestion/service.py`, `idempotency.py`) | events queue, retry queue with TTL, DLQ; running handlers; table `events` | deliver, parse, insert on conflict, project, commit, ack, reject, republish | at-least-once delivery, redelivery after crash or disconnect, publish-then-ack, concurrent inserts of one `event_id`, bounded retries | nothing lost, one projection per event, the first event stays, finitely many attempts |
| Order projection (`projections/handlers/order_*.py`, `refund_created.py`) | `orders`, `order_lines`, `refunds`, row locks | created, updated, paid, cancelled, refund, stub | events in any order, versions against clocks, refund against order, stale reads | newest event wins, payment freezes, totals match lines, refund validity follows the currency |
| Versioning (`projections/versioning.py`) | none | `should_apply_entity_update`, `overlay_attributes` | missing versions, equal versions | monotone versions |
| Stubs and row locks (`projections/stubs.py`, `locking.py`) | row locks of open transactions | insert on conflict, foreign key check, `FOR UPDATE` | transactions that share some rows and not others, new rows nobody else sees yet | every referred row is found; deadlocks only where known |
| Lead, customer, contact projections | `leads`, `lead_status_history`, contacts, links | created, status changed, linked, received | as orders | the last change stands |
| Manual sale projection | `manual_sales` | created, updated, cancelled | as orders; visitor changes hands | the last change stands; snapshot belongs to the visitor |
| Sessions, visitors, attribution (`attribution/`, `session_started.py`) | `sessions`, `visitors`, touches, snapshots on leads, orders, sales | session start, copy and refresh of snapshots | late sessions, ties, equal times | snapshots independent of arrival order |
| Source classifier (`attribution/classifier.py`) | none | classify, exclude hosts | precedence of rules, payment redirects | one of eight sources; direct only if nothing is known |
| Visitor anonymization (`visitors/`) | identifying columns, event bodies | anonymize | concurrent ingest, replay of a redacted event | no identifier comes back |
| HTTP ingest and batch (`ingestion/router.py`, `batch.py`) | the journal | single event, batch | one transaction per event, error in mid-batch | each answer tells what was stored |
| HTTP rate limit (`ingestion/rate_limit.py`) | `_store` of buckets, in process | consume, evict | window boundary, full store, a clock set back, restarts | limit per window, bounded store, useful Retry-After |
| Body limits (`core/middleware.py`, both services) | bytes received | receive, reject | chunked bodies without a length | no body above the limit reaches a handler |
| Validation and contracts (`ingestion/validator.py`, `sales_channels.py`, `contracts/`) | none | validate | schemas and handlers list the keys they need separately | an admitted event finds its handler, and that what it needs |
| Reports (`reports/`) | none (read only) | ten reports under filters | the same figure is counted by different statements; statements of one report see different commits | reports agree, periods add up, rates are bounded |
| Journeys (`journeys/`) | none (read only) | four journeys, search | links that come last, a search in SQL and Python under limits | entities are found, linked events are told together |
| Dashboard | none | show | - | - |
| AR models (`ar/service.py`, `storage.py`) | one row per sku, files in a directory | create, update, status, delete, get | row and file are not atomic, concurrent requests, crashes | a row has its file, no orphan without a failure, truthful answers |
| AR file validators, auth, settings, migrations, scripts | none | - | - | - |

Interactions: the consumer and the HTTP router both call
`persist_validated_event`, one transaction that inserts the journal row, inserts
stubs for every aggregate the event names, locks the visitor's row and runs the
handler of its type. Handlers share rows through Postgres at READ COMMITTED and
lock an aggregate with `SELECT ... FOR UPDATE`. Anonymization writes to the same
rows. The rate limit runs before an HTTP ingest. Reports and journeys read the tables while events arrive. The two services share nothing.

## 2. Modules

| Module | Models | Runs | Proofs |
| --- | --- | --- | --- |
| `IngestContract` | what the ingest promises a publisher: offered events are accepted once or dead-lettered | as a property of `delivery` | `ImplementsContractSafely` |
| `ShopwareDelivery` | topology, worker, handlers, journal transaction | `delivery` | `ShopwareDelivery_proofs` |
| `Versioning` | the rule by which an event may overwrite a projection | with `OrderProjection`, `VisitorData`, `ReadModel` | |
| `OrderProjection` | rows and locks of one order under concurrent transactions | `order`, `refund_race` | `OrderProjection_proofs` |
| `VisitorData` | journal, visitor, sessions, touches and snapshots under concurrent ingests and anonymization | `visitor`, `moved_sale`, `repetition_after_erasure` | `VisitorData_proofs` |
| `RowLocks` | the lock requests of every kind of transaction, in statement order | `row_locks` | `RowLocks_proofs` |
| `ArModels` | one sku's row, lock and files under concurrent requests | `ar_requests`, `ar_delete_race` | `ArModels_proofs` |
| `EventJournal` | the table `events` as everybody else sees it: written once per `event_id` | as a property of `http_ingest` | `JournalImplemented` |
| `HttpIngest` | requests to `/events` and `/events/batch`, behind body limit and access checks | `http_ingest` | `HttpIngest_proofs` |
| `EventValidation` | which events are admitted, and what handlers take for granted (operators) | constants of `delivery`, `http_ingest` | in `HttpIngest_proofs` |
| `RateLimit` | the fixed windows of the HTTP ingest | `rate_limit` | `RateLimit_proofs` |
| `Classifier` | the source of a visit (operators) | with `ReadModel` | in `ReadModel_proofs` |
| `ReadModel` | every table the reports read, all eighteen kinds of events that write them | `reads` | `ReadModel_proofs` |
| `Reports`, `ReportBreakdowns` | the reports as queries of those tables | `reads` | |
| `ReportRequests` | a report whose statements interleave with ingests | `reads` | in `ReadModel_proofs` |
| `Journeys` | journeys and search | `reads` | in `ReadModel_proofs` |

`MCReads` joins `ReportRequests` and `Journeys` over one `ReadModel`; any other
`MC<Module>` gives the constants of `<Module>` their values for TLC.

### ShopwareDelivery

A publication is an `event_id` with a body; two publications may share the
`event_id`. The queues are bags of publications counted by `x-retry-attempt`:
prefetch, requeueing and the TTL queue reorder messages anyway. Each handler
task is a process with a program counter: `received` (parse), `inserting`
(INSERT .. ON CONFLICT, which waits for an open insert of the same key),
`projecting` (stubs, handler, commit), `acking`, `rejecting`, `retrying`
(`retry_or_dead_letter`), `stuck` (its `publish` raised, so that nobody settles
the delivery). `owned` says whether the delivery tag still belongs to an open
channel: after a disconnect the handler runs on, but its ack and reject no
longer reach the broker. A COMMIT may succeed and its reply be lost; a copy may
be published to the retry queue and the worker die before the ack.

External, modelled from how the code uses it: the outbox relay (`Publish`), the
broker's requeueing, TTL and acknowledgement timeout, the death of the process.

`ShopwareDelivery` implements `IngestContract` with `accepted` mapped to the
journal and `deadLettered` to the DLQ.

### OrderProjection

One `order_id`. The columns of the row that the handlers compare or that reports
depend on are kept; `state`, `total` and unpaid `lines` are represented by the
event that wrote them, so that "lines and total are of one event" can be said.
Each event is one transaction, run once (`ShopwareDelivery` shows that) at any
time: `OrderLock` is `ensure_stubs` and the `FOR UPDATE`, `OrderCommit` the
handler (a function from the row read to the row written) and the commit.
A refund reads without a lock (`RefundCheck`) and writes later (`RefundCommit`,
whose foreign key waits for a locked order). Transactions may roll back and run
again. Events that name one visitor also queue on the visitor's row; that lock is
left out, which only adds interleavings: it stands for events of different
visitors, or of none, as the envelope schema allows.

### VisitorData

What the service keeps of a visitor. A touch is represented by the event it came
from, and by whether it is direct and whether it holds identifiers (click ids,
utm, landing page, referrer; source and campaign are kept on purpose, see
`tests/visitors/test_anonymize.py:90`). Leads, orders and manual sales are one
kind of row, a dependent, with the columns that visitor and snapshot depend on;
each handler is a function from the row it read to the row it writes.

An ingest is `Begin` (the insert and the stubs, which no other transaction sees,
and the `FOR UPDATE` on the visitor's row, which also tells it whether to redact)
and `Commit`, which runs the handler, or `Rollback`.
Handler and commit are one step because everything else that could read or write
the same rows waits for the same lock: other ingests that name the visitor, and
anonymization. An ingest that names no visitor has its dependent's row lock from
read to commit. `refresh_dependent_snapshots` and `anonymize_visitor` take the
dependents' row locks only when they write; a handler of a dependent without a
visitor that commits in between is serialized before or after them by Postgres,
since they touch different columns.

Assumed: a session id belongs to one visitor (the envelope of a session names
both). Abstracted: session stubs, `first_seen_at` and `last_seen_at`, and what
`ReadModel` has of the same rows: status, money, history, contacts and links. `ShopwareDelivery` has the journal's collisions between different
publications; here `SendAgain` is the repetition of a committed event.

### ArModels

Each HTTP request is a process; a file is named by the request that saved it,
since every upload gets a fresh uuid. `saving`, `saved`, `locked`, `read` and
`unlinking` are the points between two awaits where other requests run. Faults:
a save fails and leaves a partial file, a transaction fails, the removal after
it fails, an unlink fails, a COMMIT succeeds without its reply arriving, the
process dies. A ghost variable, `leaked`, has the files whose saving, removal or owner
failed.

### HttpIngest

A request is a process: `reading` (the body arrives in chunks, which the limit
counts; FastAPI reads the body before it runs the dependencies), `checking` (the
batch's envelope), then for each item `next` (validation), `item` (before its
INSERT, which waits for another request's open insert of the `event_id`) and
`open` (inserted, projecting). Every item is a transaction of its own, so a
request holds one insert at most. A validation error is a result of its item; a
collision or any other error ends the request, and what it has committed stays.
A single event is a batch of one with another way to report its outcome. The
limiter, modelled in `RateLimit`, may here refuse anybody.

External: the storefront, which may repeat a request after any answer but 409, 413
and 422, or after none, and the death of the process. `projected` is a ghost that
counts committed projections. `HttpIngest` implements `EventJournal`, with
`journal` as it is.

### EventValidation

A message is its envelope and its payload as functions of the keys they have; the
types, patterns and enums of single values are one flag. `RequiredOf`, `PayloadOf`
and the envelopes are read off the JSON schemas, `Needs` and `Reads` off the
handlers (`require_id`, `payload[..]`). The instances of `ShopwareDelivery` and
`HttpIngest` have messages for their publications and items, and an ASSUME that
their poison or invalid ones are exactly those that these operators refuse.

### RowLocks

A transaction is the sequence of lock requests it has not made yet: the stubs of
`ensure_stubs`, the visitor's `FOR UPDATE`, the handler's, and the key share locks
that foreign keys take on what a new or changed row refers to. `Decide` is the
version rule, by which a handler may return before it writes; `Select` finds a
visitor's rows, which are then written in any order. An insert waits for another
transaction's uncommitted row with its key; anybody else does not see that row.
Conflicts of lock modes, waiting, and the choice of a deadlock's victim are
Postgres' (external). The theorem about deadlocks assumes `FewMove`: within one
workload a session has one visitor, and at most one lead, one order and one sale
is named with two. The run's workloads satisfy it, one sale changing hands.

### RateLimit

`_consume` has no `await`, so a call is one step. An instant is a window and ticks
since its beginning, two to a second in the run, because `Retry-After` is cut to
whole seconds. `time.time()` is the host's clock: `SetBack` moves it to an earlier
window, where buckets of the later one are evicted with their counts, and
`Restart` empties the store. Both are counted in `losses`, and `LimitHolds` says
what each costs.

### Classifier

A referrer is the sequence of its host's labels, without "www" and in lower case;
utm values are in lower case, too, and membership of "contains the name of a
network" and "starts with google_" is a set. The rules then are those of the code
in their order. `ReadModel` classifies each `session_started` with it.

### ReadModel, Reports, ReportBreakdowns, ReportRequests, Journeys

`ReadModel` has one step per ingest: what concurrency can do to the tables is in
the modules above, here every order of arrival of a set of events is. A table is a
set of rows with the columns that reports, journeys and the version rule read.
Each handler is a function from tables to tables, after `EnsureStubs`. An event of
the model has every key, `Null` where its payload has none; `HistoriesAssumption`
says of events what the contracts do (`Complete`: an event has one of the types in
`Handled`, names the rows its handler writes and those they belong to, has the time
of its confirmation or refund, and, where it is about money, an amount that is not
negative, a currency and, of an order or refund, a payment method; its lists are
finite), and that event ids differ.
`LastChangeStands` is about events of a producer whose changes of a lead or a sale
are in one order: `Coherent`. The contracts give a lead one creation, new, and a
sale one with its money; what they do not say, that versions and times of one
aggregate agree and that nothing follows a cancellation, is what the rule of
`Versioning` supposes. `JourneysLinked` is about events that agree on what an
order belongs to: `OrdersAgree`. It names no row: a lead, visitor, cart or customer
that a journaled event has named of an order stays linked, though the events that
come after it name none.

Each statement of a report is the set of rows it selects, translated on its own:
what the code counts in two ways is defined in two ways, or the comparison would
show nothing. A rate is the pair of its two counts; rounding is left out. A filter
has every key of `FilterKeys`, and its period and offset are numbers
(`FiltersAssumption`, what `parse_report_filters` returns).
`ReportRequests` runs the statements of the contact channel report one by one,
with ingests that commit in between, as READ COMMITTED lets them; the other
reports are evaluated in every state, under every filter. `Journeys` has the SQL
condition of the search and the Python function that makes hits of an event
separately, too. A hit is known by its place, the position of its event and of the
hit among the event's, and `FirstHits` cuts the list of places at the limit.
`SearchAssumption` says which identifiers an event has without which other
(`Identified`), read off the schemas: an order's number comes with its id, click ids
and campaign with a session and its visitor, a tracking reference with a contact.

## 3. Runs

| Run | Instance | Shows |
| --- | --- | --- |
| `delivery` | 2 publications of one `event_id`, one of them published twice and the other failing in its projection, a poison one; 2 handlers, prefetch 2, 1 retry, 1 fault | `NeverLost`, `ExactlyOnce`, `DeadLetterJustified`, `EventuallyDrained`, `ImplementsContract` |
| `order` | created, 2 updates (one without version), paid at the version of the second, cancelled, 2 refunds in 2 currencies, another aggregate's event | `NewestWins`, `FactsRecorded`, `LinesMatchTotal`, `RefundInvalidityRight`, `PaidFrozen` |
| `refund_race` | the same | finding 1 |
| `visitor` | 4 sessions (one direct, two at one time, two of one session id), a lead with a status change, an order created, updated and paid, a manual sale with a change; anonymization, rollbacks, 1 repetition | `Erased`, `TouchesRight`, `SnapshotCurrent`, `LateSessionFreezes` |
| `moved_sale` | a session, a sale, its move to another visitor, anonymization of the first | finding 3 |
| `repetition_after_erasure` | 2 sessions and a lead, anonymization, 1 repetition | finding 4 |
| `ar_requests` | creates, updates, status changes, delete and get, 5 at once, in 3 sets; 1 fault | `RowHasFile`, `UploadsLeaveNoOrphan`, `EventuallyAnswered` |
| `ar_delete_race` | create, update, delete; no fault | finding 2 |
| `http_ingest` | 2 batches that overlap in opposite orders, one of them with a repeated and an invalid item and sent twice, a single event that collides with both, 2 bodies above the limit (announced, unannounced); 1 fault | `AnswersTruthful`, `ProjectedOnce`, `BodyLimited`, `EventuallyAnswered`, `ImplementsJournal` |
| `rate_limit` | 3 keys, 2 buckets, limit 2, 2 windows of 2 seconds, 2 ticks a second, 2 losses | `LimitHolds`, the size of the store |
| `row_locks` | every 3 of 12 events and an anonymization, all of one visitor or none but a sale that names another, from 7 sets of rows already there | `ReferencesFound`, `DeadlockBySessionStub` |
| `reads` | 5 sets of 8 or 9 events in every order, 6 instants of 2 days, 13 filters, 1 commit within a report, scan limit 4 and hit limit 3 | `SourcesAgree`, `BreakdownsAgree`, `PeriodsAddUp`, `RatesBounded`, `SearchComplete`, `JourneysLinked`, `LastChangeStands` |

**Bounds.** `MaxPublishes`, `MaxSends`, `MaxFaults`, `MaxWindow`, `MaxLosses`,
`MaxCommits`, `Repeated` (events sent again), `Together` (the sets of requests to
one sku that overlap), `Workloads` and `Histories` (events that overlap or arrive)
are bounds of the models, not of the code. Two colliding publications and two
handlers are the smallest instance in which an insert waits for another, a
duplicate meets a collision and a requeued copy is handled beside the running one;
publishing one twice gives its duplicate. One retry distinguishes "budget left"
from "budget spent". One fault is the crash, disconnect or failed republication;
that more of them lose and duplicate nothing is proved. In `order`
each kind of event occurs, and there is a pair of order events for every relation
of versions and times the handlers tell apart: equal (payment and repricing), one
missing, greater. The visitor run has a session before, at (by a tie among
sessions) and after every dependent, direct and not, so that each comparison of
times in the attribution rules has both outcomes, in every order of arrival; one
visitor is enough, since no rule relates two, but for the sale that changes hands.
In `http_ingest` an item can
be first, repeated in its own batch, repeated by another, collided with, invalid,
and cut off by an error before or after its commit. Two windows, and a key more than there are buckets, are what
the limiter can tell apart; two losses let a second one hit what the first left.
Three transactions are enough for any circle of two and one that holds them up.
The histories of `reads` hold each kind of event, pairs in two currencies, places,
sources and days, a late session, a sale changed and cancelled, a lead that is
lost before it is won; three instants a day put events at both ends of a period. Symmetry is used for handler tasks and for keys, in
runs without temporal properties.

**Fairness.** `ShopwareDelivery`: weak fairness of every handler task (the event
loop runs them), of delivery and TTL expiry (the broker), and of the
acknowledgement timeout (RabbitMQ closes a channel that holds a delivery for too
long, 30 minutes by default; without it, a delivery whose republication failed
would stay unacknowledged as long as the connection lives). No fairness of the
relay or of faults. Transient failures may recur for ever; `EventuallyDrained`
holds because attempts are counted. `ArModels` and `HttpIngest`: weak fairness of
each request, which the event loop runs and Postgres answers; for the time a body
is read it also says that the client goes on sending it. Faults and repetitions
have no fairness.

**Deadlock** checking is off: every system here stops when its bounded inputs are
used up.

## 4. Findings

1. *A refund racing with its order escapes the currency check.* `refund_created`
   reads the order without a lock. If the order takes its currency between that
   read and the refund's insert, the order's `sync_refund_currency_validity` does
   not see the refund, and nothing looks again. `test_refund_currency.py` asserts
   the mark for the sequential case. It takes a refund and an order event that do
   not name the same visitor. The same check inside a row lock would close it.
2. *Deleting an AR model while it is updated leaves an orphan file* that nothing
   logs: the delete removes the row by id but the file it read before.
3. *A manual sale that changes its visitor keeps the first visitor's identifiers.*
   `manual_sale_updated` writes `visitor_id` and leaves the snapshot. When the
   first visitor is anonymized, the sale is no longer found by its id, and the
   click ids in the snapshot stay. `Erased`, which looks at rows by the visitor
   they name, holds only where no dependent changes hands (`OneVisitor`).
4. *Repeating an event after its visitor's anonymization is a collision.* The
   stored payload lost its redacted keys, so the same event is no longer the same:
   409 over HTTP, the dead-letter queue over RabbitMQ.

Observations that contradict no document, and are conditions of properties:

- The creation handlers of leads and manual sales copy the visitor's current
  touches; only the refresh by a late session looks at times. A lead that arrives
  after a session later than itself is frozen with that session;
  `SnapshotCurrent` says nothing of touches later than the conversion.
- An order that is not paid yet is refreshed by its `created_at` only: a session
  older than it that arrives between `order_updated` and `order_created` never
  reaches its snapshot. `SnapshotCurrent` is stated for conversions.
- `RowHasFile` has one exception: where the reply to a COMMIT is lost, the except
  branch removes the file of a committed row. And a read of an AR model that
  overlaps an update may answer "not available": the row is read before, the file
  checked after.
- Two first events of new sessions of one known visitor deadlock: each session's
  foreign key locks the visitor in key share mode before either asks for
  `FOR UPDATE`. Postgres aborts one, which is retried (RabbitMQ) or answered 500
  (HTTP). `DeadlockBySessionStub` says that every deadlock is of this kind;
  `test_concurrent_aggregate_versions.py:171` inserts its rows beforehand.
- A deadlock without a new session takes events that contradict each other on
  whose a row is, which is why the theorem assumes `FewMove`: two anonymizations of
  two visitors, each writing its sales in its own order, meet two changes that
  exchange two sales between them; or a session is started by one visitor while a
  lead created with that session belongs to another.
- A sale that is moved to another visitor and back has missed the sessions that
  came in between: `SnapshotCurrent` assumes `OneVisitor`. An order paid, by its
  events' times, before it was created, neither event naming a visitor, takes its
  snapshot as of the payment when a cancellation names the visitor, and a session
  after the payment and before the creation changes it: `LateSessionFreezes`
  assumes `PaidAfterCreated`.
- An event that names a session but no visitor, which the Shopware envelope
  permits, gets no session stub; unless the session is known, the foreign key
  fails and the event is dead-lettered. `RowLocks` assumes it away.
- `won_at` and `lost_at` depend on the order of arrival where a newer status
  overtakes: an older change writes neither, and leaves no line in the history
  (`test_out_of_order.py:137` wants that). `LastChangeStands` is about the last.
- A cancellation that arrives before the creation of its sale keeps the sale
  cancelled with the money of the creation; an update with a later version than
  the cancellation would make it "updated" again, which no history here has.
- The source filter `direct` matches rows whose source is missing in the report by
  source (`sources.py:35`) and only a source spelled "direct" in the others
  (`metrics.py:111`). `SourcesAgree` leaves that filter out.
- With an offset of the caller's clock the daily report has rows for the caller's
  days but puts sales in UTC days (`overview_daily.py:25`, `:84`): at the ends of
  the period they are dropped. `BreakdownsAgree` adds days up for UTC only. One
  offset serves both ends of a period; two ends with offsets of their own, as over
  a change of the clocks, are not in a run.
- `period_end_inclusive=False` (`filters.py:22`) is left out: no caller sets it.

## 5. Proofs

Theorems hold for any sets of publications, events, tasks and requests and any
bounds; the assumptions on the constants are the named ASSUMEs of each module.

**ShopwareDelivery.** `TypeInv` adds to `Types` that idle tasks hold no delivery
and others hold a publication. `ExactlyOnce` is not inductive: it needs that an
open insert has no committed row (`ProjectingFresh`) and that no two inserts of
an `event_id` are open (`OneInserter`, which `TypeOK` adds to `Types`); with them
it is `JournalInv`, from which `TypeOK` and, step by step, `JournalImmutable`
follow. `NeverLost` is inductive relative to `JournalInv`: every step that takes a
copy away stores the event, dead-letters it, queues another copy or leaves it to
the broker. `RetryBudget` is inductive with the types. `DeadLetterJustified` is
inductive with `RejectedForCause`: a delivery on its way to the DLQ, and one whose
reject did not reach the broker, has one of the contract's causes, and causes
stay, since the journal is immutable.
(`RetryBudget` and `JournalImmutable` are not among the properties
of a run: a mutant that breaks them breaks `EventuallyDrained` or `ExactlyOnce`.) `ImplementsContractSafely` uses `JournalInv` and `Provenance`
(only published messages are queued or handled) and maps every step to `Offer`,
`Accept`, `DeadLetter` or a stutter.

**OrderProjection.** `LockInv` says that a transaction that has read the row holds
the lock and read what is still there, so a commit applies its handler to the
current row (`RowStep`). `RowInv` describes a good row: version and time are
those of the event the state is from (`Stamped`), before payment and
cancellation total and lines are too (`Whole`), and `RowLines`, `Origins`.
Each handler maps good rows to good rows (`HandledRow`). `PaidFrozen`,
`VersionMonotonic`, `LinesMatchTotal` and `RefundInvalidityRight` hold for any
events, those of a producer whose clock contradicts its versions included. `NewestWins` and `FactsRecorded` assume `Consistent`: where two events
both have versions, these order them as their times do. `Arrived` relates the
row to the set of accepted events and makes them inductive.

**VisitorData.** `TypeInv` adds to the types that an ingest past its `FOR UPDATE`
has read the visitor's row as it still is (`SeenInv`), and that an open ingest's
event has neither journal row nor touch (`FreshInv`). `Erased` assumes
`OneVisitor` and needs `LinkInv`: a dependent without a visitor has no snapshot,
and one with a visitor is named with no other. What a handler may do to a row is
one predicate, `Written`, shown for each handler; then a snapshot is the old one
or the visitor's, and a committed session leaves a clean touch (`CleanTouch`).
`TouchesRight` is inductive with `TypeInv`, visitor by visitor (`FirstRight`,
`LastRight`), for sessions in any order. `SnapshotCurrent` assumes `OneVisitor`: a
commit changes one dependent, or refreshes those of the visitor whose session it
brings, and both leave a conversion with the touches up to its time.
`LateSessionFreezes` assumes `PaidAfterCreated`, by which the time that a snapshot
is as of is that of its conversion, however created and paid arrive.

**ArModels.** A file is `Published` once its request is past saving and locking.
`RowHasFile` is inductive together with: rows name published files only
(`NamedPublished`), a file stays with one row id (`OneId`), a file about to be
unlinked is not the row's (`Detached`), a saved file is on the disk
(`SavedOnDisk`), and an update under the lock has the committed row in hand
(`InHand`). Most steps are instances of one lemma, `QuietStep`.
`UploadsLeaveNoOrphan` rests on the same invariant: the update that replaces a
file has it in hand until it is unlinked or leaked.

**RowLocks.** A request is given a level, by the table of its row and the phase of
the transaction (`At`), and each transaction a level that all it still asks for
reaches and that what it holds lies below (`Past`): transactions lock upwards. Each of
`Program`'s parts keeps that (`InsertRises`, `ShareRises`, `UpdateRises`,
`WriteRises`). The rows of one visitor, which are written in any order, are written
under the lock on the visitor (`VisitorLocked`), so only one transaction at a time
does, and `FewMove` keeps other visitors' transactions off them. One request is out of line: the key share
on the visitor's row, early for a new session (`SharedForSession`), late for a
changed dependent. Then in a circle somebody waits at the lowest level, and whoever
it waits for holds a lock there and waits higher up, unless by such an early share
(`NoCircle`); so the circle, of whatever length, has the pair that
`DeadlockBySessionStub` names. `ReferencesFound` follows from `Stubbed`: before a
transaction asks for a row it has asked to insert it, and an insert ends with the
row committed or its own.

**HttpIngest.** `TypeOK` contains `Owners`: an insert is open exactly for the
request between its INSERT and its COMMIT, hence one per `event_id`. `InHand` adds
that an event whose insert is open is not in the journal, that the event in hand is
valid, and that a request refused with 409 still has another's event before it.
With both, a step records at most one event, which was not there before
(`StepJournal`, `RecordsNew`), so the journal only grows (`JournalGrows`), and what
a request is told of an item (`Told`) stays true: `AnswersTruthful`,
`CollisionJustified`, `ProjectedOnce` and `ImplementsJournal` follow. An event
accepted before is in the journal and so is not recorded again, which gives
`AcceptedOnce`. (`AcceptedOnce` and `CollisionJustified` are proved only.) `BodyLimited` is inductive with `BodyFirst`.

**RateLimit.** `CountInv` says that a bucket counts admitted requests of its
window, `WindowInv` how often a window can have been used: once more than the
clock was set back before it or the process restarted. With the types they are
inductive and give `LimitHolds`. `RefusedForCause` and `RetryAfterClose`, which no
run lists, are proved of every step; the latter rests on bounds of the integer
division (`RetryAfterBounds`).

**Classifier** (in `ReadModel_proofs`). `SourcesListed`, `DirectIffNothingKnown`, `ErasedIsDirect` and
`ExclusionOnlyHidesReferrers` are about every visit and every set of excluded
hosts; the last needs that hosts are looked at only through the effective
referrer.

**EventValidation** (in `HttpIngest_proofs`). `AdmittedIsHandled` compares the contracts with the handlers
type by type: what a handler demands of envelope and payload, the schemas require
(`NeedsRequired`, `ReadsRequired`), and redaction removes none of it. So the errors
of a handler's own are never the fault of an admitted event's keys. `OneTransport`
and `AggregateIsRow` follow from the lists of types and the aggregate check.

**ReadModel.** `TypeCorrect` rests on `Sound`: every table has one row per key, a
row refers to rows that are there, and its columns have their kinds. A handler
changes a table in one of three ways, by a new row (`Takes`), by a changed row
(`Refresh`) or in the snapshots alone (`Retouched`), and each is shown once to keep
it. `JourneysLinked` assumes `OrdersAgree` and rests on `Sound` and on `LinksStand`:
the row of an order carries what each event that created or paid it has named
(`Carries`), and the links have every pair of a `customer_linked`. A handler of
another event leaves these columns (`OthersKeepLinks`); creation and payment
overlay them, and what the one names the other, which agrees with it, does not
erase (`OverlayLinks`, `OrdersKeepLinks`). Of refunds it says that one shown as
invalid has an order with another currency (`RefundsStand`), and not the converse:
an ingest is one step here, and in the program a refund can read the order before
a change of its currency that commits first (finding 1).

`LastChangeStands` assumes `Coherent`. `LeadStood` and `SaleStood` say of a row
that its status and version are those of its last change so far (`LastOf`,
`Stamped`), or that only its creation or a stub is there; a change that comes late
is refused by its version, and one that comes in order becomes the last. A sale's
money is not the last change's once that cancels it, and `SaleStood` keeps whose it
is.

`RatesBounded` needs `ReportInv`: each part of a running report counted rows of
tables that were, and since its statement at most one row per ingest was added to
what it counts (`ContactsCounted`, `LeadsCounted`). That an ingest adds one contact
and one lead at most, under every filter without source or campaign, is shown
handler by handler; only a late session can move more, and only into a source.

Both journeys and the search list a set in an order. `SortedWhole` shows that
`Sorted` lists every element of a finite set once and in its order (`Ordered`):
elements have different places, and by counting no place is empty. `SearchFinds`
then says that the search names what an event within the limits is about, and
`HitsTyped` and `DistinctWhole` that it names nothing twice.

**Reports** (in `ReadModel_proofs`). `SourcesAgreeAlways`, `BreakdownsAgreeAlways`
and `PeriodsAddUpAlways` are about every history, every set of filters and tables of
any size. They rest on `AllValued`, inductive with `Sound`: tables are finite, and a
row has the times, money and owners that the sums take for granted (a paid order a
currency and an amount, a sale likewise, a refund a method, a session a visitor);
`StepValued` shows it of every handler.

`SumFunction` chooses the elements of a set one by one, and nothing about it is known
but its definition. That there is such a sum (`ChosenThere`), and that the order does
not matter (`SumWhole`), is shown by induction on the size of the set. The library's
induction theorems cannot be used for that, so the induction is stated for sets: a set
of numbers that has 0 and the successor of each of its numbers has all
(`AllNumbers`, from the well-foundedness of `<`), a set of subsets likewise
(`AllSubsets`). Sums of parts, of groups and of two figures follow (`SumParts`,
`SumGroups`, `SumOfSums`, `CountGroups`), and from them what a report's rows come to:
if each row counts the rows of its key, their total is the number of all
(`TotalCounts`), and so for money (`TotalWorth`); if some rows have no key, it is no
more (`TotalWithin`).

What is left is which rows each statement selects. For `PeriodsAddUp`: an instant of
a period is in exactly one of its parts (`Halves`), so each table's rows are
(`RowsHalved`). For `SourcesAgree`: the rows the report by source selects are those of
the overview (`SourceSets`), the filter on the shown source being the filter on the
column but for "direct" (`KeyedRows`), and the rows of one key are those of the
overview under that key's filters (`OwnSets`). For `BreakdownsAgree`: each report's keys
are finitely many and every counted row has one (`DaysOfPeriod`, `MethodsThere`,
`ChannelsThere`, `ProductsThere`), and a step of the funnel has no more visitors than
rows (`ValuesCounted`).

**Model-checked only.** Liveness (`EventuallyDrained`, `EventuallyAnswered`, the
fair part of `ImplementsContract`) is out of the prover's reach.

## 6. Not modelled, and the plan

Next, in this order:

1. A theorem that all orders of arrival of one set of events give one order row.
2. AR: dimensions, sku rules and size limits of uploads, today requests that reach
   the service.
3. `last_seen_at`, device and landing page of sessions, the reference of a sale.

Left out for good:

- Dashboard: it shows the answers of the reports and keeps no state of its own.
- AR file validators: parsing of GLB and USDZ; `ArModels` takes their verdict.
- Patterns, formats and enums of single values in the JSON Schemas.
- Authentication, settings, logging, migrations, seed and build scripts,
  deployment and CI: stateless, or run by hand outside the running system.
- The guards of `send_wrapper` in the body limit against a second response, which
  are about the framework's calls and not about what reaches a handler.
