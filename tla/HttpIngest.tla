------------------------------ MODULE HttpIngest ------------------------------
(***************************************************************************)
(* POST /events and POST /events/batch (ingestion/router.py, batch.py,     *)
(* service.py): the body limit, the checks of the request, and one         *)
(* transaction for each event, in the order of the batch.  A collision or  *)
(* an error ends the request; what it committed stays.                     *)
(*                                                                         *)
(* A request is a process; one to /events is a batch of one whose answer   *)
(* is its event's.  The storefront may send a request again.  Projections  *)
(* are only counted here; VisitorData has them and the redaction of bodies.*)
(***************************************************************************)
EXTENDS Integers, Sequences

CONSTANTS
  EventIds, Contents, NoContent,
  Items,       \* events as they are sent
  IdOf,        \* [Items -> EventIds]
  ContentOf,   \* [Items -> Contents]
  Invalid,     \* items validate_http_event refuses
  Requests,
  Batch,       \* [Requests -> Seq(Items)]
  Single,      \* requests to POST /events
  Chunks,      \* [Requests -> Seq(Nat)]: sizes of the body's chunks
  Declared,    \* [Requests -> Nat \cup {NoLength}]: Content-Length
  NoLength,
  NoRequest,
  MaxBody,     \* settings.max_body_size
  MaxBatch,    \* settings.max_batch_events
  MaxSends,    \* [Requests -> Nat]: bound: times a request is sent
  MaxFaults    \* bound: failed transactions and crashes

ASSUME HttpAssumption ==
  /\ IdOf \in [Items -> EventIds]
  /\ ContentOf \in [Items -> Contents]
  /\ NoContent \notin Contents
  /\ Batch \in [Requests -> Seq(Items)]
  /\ \A r \in Single : r \in Requests /\ Len(Batch[r]) = 1
  /\ Chunks \in [Requests -> Seq(Nat)]
  /\ Declared \in [Requests -> Nat \cup {NoLength}]
  /\ NoLength \notin Nat
  /\ NoRequest \notin Requests
  /\ MaxBody \in Nat /\ MaxBatch \in Nat
  /\ MaxSends \in [Requests -> Nat] /\ MaxFaults \in Nat

VARIABLES
  journal,    \* committed events rows: event_id -> body
  projected,  \* ghost: committed projections of each event_id
  inserting,  \* event_id -> request with an uncommitted insert of it
  pc,         \* where each request is, or its answer
  chunk,      \* chunks of the body received so far
  totalRead,  \* total_read of the body limit
  results,    \* results of ingest_http_batch
  sends,      \* times the request has been sent
  faults

vars == <<journal, projected, inserting, pc, chunk, totalRead, results, sends,
          faults>>
store == <<journal, projected>>
body == <<chunk, totalRead>>

\* "next": between two items; "item": validated; "open": inserted.
Progress == {"reading", "checking", "next", "item", "open"}

\* "gone": the process died with the request; "500" stands for 503 as well,
\* "429" for 401.
Answers == {"200", "409", "413", "422", "429", "500", "gone"}

\* IngestStatus and "rejected".
Statuses == {"accepted", "duplicate", "rejected"}

Goto(r, to) == pc' = [pc EXCEPT ![r] = to]

\* The event in hand.
Current(r) == Batch[r][Len(results[r]) + 1]
CurrentId(r) == IdOf[Current(r)]

Report(r, status) == results' = [results EXCEPT ![r] = Append(@, status)]

\* The transaction of r is over: its insert is committed or rolled back.
Release(r) ==
  inserting' = [e \in EventIds |->
                  IF inserting[e] = r THEN NoRequest ELSE inserting[e]]

Init ==
  /\ journal = [e \in EventIds |-> NoContent]
  /\ projected = [e \in EventIds |-> 0]
  /\ inserting = [e \in EventIds |-> NoRequest]
  /\ pc = [r \in Requests |-> "new"]
  /\ chunk = [r \in Requests |-> 0]
  /\ totalRead = [r \in Requests |-> 0]
  /\ results = [r \in Requests |-> <<>>]
  /\ sends = [r \in Requests |-> 0]
  /\ faults = 0

-----------------------------------------------------------------------------
(* The request *)

\* The storefront sends a request, or sends it again after an answer, unless
\* that says that it must not.
Send(r) ==
  /\ pc[r] \in {"new", "200", "429", "500", "gone"}
  /\ sends[r] < MaxSends[r]
  /\ sends' = [sends EXCEPT ![r] = @ + 1]
  /\ Goto(r, IF Declared[r] # NoLength /\ Declared[r] > MaxBody
             THEN "413" ELSE "reading")
  /\ chunk' = [chunk EXCEPT ![r] = 0]
  /\ totalRead' = [totalRead EXCEPT ![r] = 0]
  /\ results' = [results EXCEPT ![r] = <<>>]
  /\ UNCHANGED <<store, inserting, faults>>

\* Bug: only Content-Length is compared with the limit.
BugReadUnlimited(r) ==
  /\ pc[r] = "reading" /\ chunk[r] < Len(Chunks[r])
  /\ chunk' = [chunk EXCEPT ![r] = @ + 1]
  /\ totalRead' = [totalRead EXCEPT ![r] = @ + Chunks[r][chunk[r] + 1]]
  /\ UNCHANGED <<store, inserting, pc, results, sends, faults>>

\* receive_wrapper.
ReadChunk(r) ==
  /\ pc[r] = "reading" /\ chunk[r] < Len(Chunks[r])
  /\ LET total == totalRead[r] + Chunks[r][chunk[r] + 1] IN
       /\ totalRead' = [totalRead EXCEPT ![r] = total]
       /\ IF total > MaxBody THEN Goto(r, "413") ELSE UNCHANGED pc
  /\ chunk' = [chunk EXCEPT ![r] = @ + 1]
  /\ UNCHANGED <<store, inserting, results, sends, faults>>

\* The body is complete; the dependencies run.  RateLimit says whom the
\* limiter refuses, here it may refuse anybody.
CheckAccess(r) ==
  /\ pc[r] = "reading" /\ chunk[r] = Len(Chunks[r])
  /\ \E to \in {"429", "checking"} : Goto(r, to)
  /\ UNCHANGED <<store, inserting, body, results, sends, faults>>

\* parse_batch_events.
CheckEnvelope(r) ==
  /\ pc[r] = "checking"
  /\ Goto(r, IF r \in Single \/ Len(Batch[r]) \in 1 .. MaxBatch
             THEN "next" ELSE "422")
  /\ UNCHANGED <<store, inserting, body, results, sends, faults>>

-----------------------------------------------------------------------------
(* ingest_http_batch, ingest_http_event *)

\* validate_http_event: the loop goes on behind a refused item.
Validate(r) ==
  /\ pc[r] = "next" /\ Len(results[r]) < Len(Batch[r])
  /\ IF Current(r) \notin Invalid THEN Goto(r, "item") /\ UNCHANGED results
     ELSE IF r \in Single THEN Goto(r, "422") /\ UNCHANGED results
     ELSE Report(r, "rejected") /\ UNCHANGED pc
  /\ UNCHANGED <<store, inserting, body, sends, faults>>

\* Bug: the identifiers of two events are all that is compared.
BugSameIdIsSame(r) == TRUE

\* is_same_event with the stored row.
IsSameEvent(r) == journal[CurrentId(r)] = ContentOf[Current(r)]

\* Bug: SELECT, then INSERT: nobody waits for an open insert.
BugCheckThenInsert(r) == FALSE

\* An uncommitted insert of the same event_id: ON CONFLICT waits for it.
InsertBlocked(r) == inserting[CurrentId(r)] # NoRequest

\* Bug: ON CONFLICT DO UPDATE.
BugUpsert(r) ==
  /\ pc[r] = "item" /\ ~InsertBlocked(r)
  /\ inserting' = [inserting EXCEPT ![CurrentId(r)] = r]
  /\ Goto(r, "open")
  /\ UNCHANGED <<store, body, results, sends, faults>>

\* INSERT .. ON CONFLICT DO NOTHING.
Insert(r) ==
  /\ pc[r] = "item" /\ ~InsertBlocked(r)
  /\ IF journal[CurrentId(r)] = NoContent
     THEN /\ inserting' = [inserting EXCEPT ![CurrentId(r)] = r]
          /\ Goto(r, "open")
          /\ UNCHANGED results
     ELSE /\ IF IsSameEvent(r) THEN Goto(r, "next") /\ Report(r, "duplicate")
                               ELSE Goto(r, "409") /\ UNCHANGED results
          /\ UNCHANGED inserting
  /\ UNCHANGED <<store, body, sends, faults>>

Record(r) ==
  /\ journal' = [journal EXCEPT ![CurrentId(r)] = ContentOf[Current(r)]]
  /\ projected' = [projected EXCEPT ![CurrentId(r)] = @ + 1]

\* Stubs, handler and COMMIT.
Commit(r) ==
  /\ pc[r] = "open"
  /\ Record(r)
  /\ Report(r, "accepted")
  /\ Goto(r, "next")
  /\ Release(r)
  /\ UNCHANGED <<body, sends, faults>>

Answer(r) ==
  /\ pc[r] = "next" /\ Len(results[r]) = Len(Batch[r])
  /\ Goto(r, "200")
  /\ UNCHANGED <<store, inserting, body, results, sends, faults>>

-----------------------------------------------------------------------------
(* Faults *)

\* Bug: the failed transaction is not rolled back.
BugFailOpen(r) ==
  /\ pc[r] \in {"item", "open"}
  /\ faults < MaxFaults /\ faults' = faults + 1
  /\ Goto(r, "500")
  /\ UNCHANGED <<store, inserting, body, results, sends>>

\* An exception of the database or of the projection: rollback and 500.
TransactionFails(r) ==
  /\ pc[r] \in {"item", "open"}
  /\ faults < MaxFaults /\ faults' = faults + 1
  /\ Goto(r, "500")
  /\ Release(r)
  /\ UNCHANGED <<store, body, results, sends>>

\* COMMIT succeeds, its reply is lost.
CommitUnconfirmed(r) ==
  /\ pc[r] = "open"
  /\ faults < MaxFaults /\ faults' = faults + 1
  /\ Record(r)
  /\ Goto(r, "500")
  /\ Release(r)
  /\ UNCHANGED <<body, results, sends>>

\* The process dies: no answers, open transactions are rolled back.
Crash ==
  /\ faults < MaxFaults /\ faults' = faults + 1
  /\ pc' = [r \in Requests |-> IF pc[r] \in Progress THEN "gone" ELSE pc[r]]
  /\ inserting' = [e \in EventIds |-> NoRequest]
  /\ UNCHANGED <<store, body, results, sends>>

-----------------------------------------------------------------------------
Handler(r) ==
  \/ ReadChunk(r) \/ CheckAccess(r) \/ CheckEnvelope(r)
  \/ Validate(r) \/ Insert(r) \/ Commit(r) \/ Answer(r)

Next ==
  \/ \E r \in Requests :
       \/ Send(r) \/ Handler(r)
       \/ TransactionFails(r) \/ CommitUnconfirmed(r)
  \/ Crash

Spec == Init /\ [][Next]_vars

\* The event loop runs every request; the client goes on sending its body.
FairSpec == Spec /\ \A r \in Requests : WF_vars(Handler(r))

-----------------------------------------------------------------------------
(* Properties *)

\* Requests never report more items than they have, and have one in hand where
\* they need it.
Bounded ==
  \A r \in Requests :
    /\ Len(results[r]) <= Len(Batch[r])
    /\ pc[r] \in {"item", "open"} => Len(results[r]) < Len(Batch[r])

\* Uncommitted rows are those of the requests between insert and commit.
Owners ==
  \A e \in EventIds, r \in Requests :
    inserting[e] = r <=> pc[r] = "open" /\ CurrentId(r) = e

\* Variables have their types, and there is one uncommitted row for each
\* event_id at most (ingestion/service.py:75-88).
TypeOK ==
  /\ journal \in [EventIds -> Contents \cup {NoContent}]
  /\ projected \in [EventIds -> Nat]
  /\ inserting \in [EventIds -> Requests \cup {NoRequest}]
  /\ pc \in [Requests -> {"new"} \cup Progress \cup Answers]
  /\ chunk \in [Requests -> Nat]
  /\ totalRead \in [Requests -> Nat]
  /\ results \in [Requests -> Seq(Statuses)]
  /\ sends \in [Requests -> Nat]
  /\ faults \in 0 .. MaxFaults
  /\ Bounded
  /\ Owners

\* What a batch says of its items is so and stays so, whatever else is ingested
\* at once: "rejected" of the invalid, "accepted" and "duplicate" of those whose
\* very content is in the journal (batch.py:32-53; README.md:303-309).
AnswersTruthful ==
  \A r \in Requests : \A i \in DOMAIN results[r] :
    LET x == Batch[r][i] IN
    IF x \in Invalid THEN results[r][i] = "rejected"
    ELSE /\ results[r][i] \in {"accepted", "duplicate"}
         /\ journal[IdOf[x]] = ContentOf[x]

\* An event in the journal has been projected once, one outside not at all,
\* although batches overlap, fail half way and are sent again (service.py:114).
ProjectedOnce ==
  \A e \in EventIds : projected[e] = IF journal[e] = NoContent THEN 0 ELSE 1

\* An event_id is answered "accepted" by one request only; the others are told
\* "duplicate" (README.md:255-275).
AcceptedOnce ==
  \A r, q \in Requests : \A i \in DOMAIN results[r], j \in DOMAIN results[q] :
    /\ results[r][i] = "accepted" /\ results[q][j] = "accepted"
    /\ IdOf[Batch[r][i]] = IdOf[Batch[q][j]]
    => r = q /\ i = j

\* 409 is answered only where the journal has another event under the same
\* event_id, so that a repetition is never taken for a collision
\* (idempotency.py:62).
CollisionJustified ==
  \A r \in Requests :
    pc[r] = "409" => journal[CurrentId(r)] \notin {NoContent, ContentOf[Current(r)]}

\* No more than MaxBody of a body is handed to the application, declared or
\* not, and nothing smaller is refused (middleware.py:85-97).
BodyLimited ==
  \A r \in Requests :
    /\ pc[r] \in Progress => totalRead[r] <= MaxBody
    /\ results[r] # <<>> => chunk[r] = Len(Chunks[r]) /\ totalRead[r] <= MaxBody
    /\ pc[r] = "413" =>
         totalRead[r] > MaxBody \/ (Declared[r] # NoLength /\ Declared[r] > MaxBody)

\* Every request that was sent is answered, or died with the process: waiting
\* for another's insert ends (service.py:75-78).
EventuallyAnswered ==
  \A r \in Requests : pc[r] \in Progress ~> pc[r] \in Answers

\* The journal is written once for each event_id.
Journal == INSTANCE EventJournal
ImplementsJournal == Journal!Spec
=============================================================================
