-------------------------- MODULE HttpIngest_proofs --------------------------
(***************************************************************************)
(* Proofs about HttpIngest, for any events, requests and bounds, and about *)
(* what the admission of an event, over HTTP or from the shop, gives its   *)
(* handler, for every message (EventValidation).                           *)
(***************************************************************************)
EXTENDS HttpIngest, EventValidation, TLAPS

\* The item in hand is one of the batch.
LEMMA CurrentType ==
  ASSUME TypeOK, NEW r \in Requests, Len(results[r]) < Len(Batch[r])
  PROVE  /\ Current(r) \in Items
         /\ CurrentId(r) \in EventIds
         /\ ContentOf[Current(r)] \in Contents
<1>1. Batch[r] \in Seq(Items) /\ results[r] \in Seq(Statuses)
  BY HttpAssumption DEF TypeOK
<1>2. Len(results[r]) + 1 \in 1 .. Len(Batch[r])
  BY <1>1
<1>3. Current(r) \in Items
  BY <1>1, <1>2 DEF Current
<1> QED BY <1>3, HttpAssumption DEF CurrentId

\* Reporting an item makes one request's results one longer.
LEMMA ReportResult ==
  ASSUME TypeOK, NEW r \in Requests, NEW s \in Statuses, Report(r, s)
  PROVE  /\ results' \in [Requests -> Seq(Statuses)]
         /\ results'[r] = Append(results[r], s)
         /\ Len(results'[r]) = Len(results[r]) + 1
         /\ \A q \in Requests \ {r} : results'[q] = results[q]
<1>1. results \in [Requests -> Seq(Statuses)]
  BY DEF TypeOK
<1>2. Append(results[r], s) \in Seq(Statuses)
  BY <1>1
<1>3. Len(Append(results[r], s)) = Len(results[r]) + 1
  BY <1>1
<1>4. results' = [results EXCEPT ![r] = Append(results[r], s)]
  BY DEF Report
<1> QED BY <1>1, <1>2, <1>3, <1>4

\* Releasing r's insert leaves those of the others.
LEMMA ReleaseResult ==
  ASSUME TypeOK, NEW r \in Requests, Release(r)
  PROVE  /\ inserting' \in [EventIds -> Requests \cup {NoRequest}]
         /\ \A e \in EventIds : inserting'[e] # r
         /\ \A e \in EventIds, q \in Requests \ {r} :
              inserting'[e] = q <=> inserting[e] = q
BY HttpAssumption DEF Release, TypeOK

LEMMA RecordType ==
  ASSUME TypeOK, NEW r \in Requests, pc[r] = "open", Record(r)
  PROVE  /\ journal' \in [EventIds -> Contents \cup {NoContent}]
         /\ projected' \in [EventIds -> Nat]
<1>1. CurrentId(r) \in EventIds /\ ContentOf[Current(r)] \in Contents
  BY CurrentType DEF TypeOK, Bounded
<1> QED BY <1>1 DEF Record, TypeOK

-----------------------------------------------------------------------------
(* Types *)

\* A step of request r to another place leaves the others where they are.
LEMMA StepType ==
  ASSUME TypeOK, NEW r \in Requests,
         NEW to \in {"new"} \cup Progress \cup Answers, Goto(r, to),
         results' \in [Requests -> Seq(Statuses)],
         \A q \in Requests \ {r} : results'[q] = results[q],
         Len(results'[r]) <= Len(Batch[r]),
         to \in {"item", "open"} => Len(results'[r]) < Len(Batch[r])
  PROVE  /\ pc' \in [Requests -> {"new"} \cup Progress \cup Answers]
         /\ pc'[r] = to
         /\ \A q \in Requests \ {r} : pc'[q] = pc[q]
         /\ Bounded'
<1>1. pc' = [pc EXCEPT ![r] = to] /\ pc \in [Requests -> {"new"} \cup Progress \cup Answers]
  BY DEF Goto, TypeOK
<1>2. Bounded'
  BY <1>1 DEF Bounded, TypeOK
<1> QED BY <1>1, <1>2

\* Neither does one that leaves r without an insert change who owns which.
LEMMA StepOwners ==
  ASSUME TypeOK, NEW r \in Requests, pc'[r] # "open",
         \A q \in Requests \ {r} : pc'[q] = pc[q] /\ results'[q] = results[q],
         \A e \in EventIds : inserting'[e] # r,
         \A e \in EventIds, q \in Requests \ {r} :
           inserting'[e] = q <=> inserting[e] = q
  PROVE  Owners'
<1> SUFFICES ASSUME NEW e \in EventIds, NEW q \in Requests
             PROVE  inserting'[e] = q <=> pc'[q] = "open" /\ CurrentId(q)' = e
  BY DEF Owners
<1>1. CASE q = r
  BY <1>1
<1>2. CASE q # r
  <2>1. inserting[e] = q <=> pc[q] = "open" /\ CurrentId(q) = e
    BY DEF TypeOK, Owners
  <2>2. CurrentId(q)' = CurrentId(q)
    BY <1>2 DEF CurrentId, Current
  <2> QED BY <1>2, <2>1, <2>2
<1> QED BY <1>1, <1>2

\* Steps of a request that holds no insert and reports nothing.
LEMMA QuietType ==
  ASSUME TypeOK, NEW r \in Requests, pc[r] # "open",
         NEW to \in {"new"} \cup Progress \cup Answers, Goto(r, to), to # "open",
         to = "item" => Len(results[r]) < Len(Batch[r]),
         UNCHANGED <<journal, projected, inserting, results, sends, faults>>,
         chunk' \in [Requests -> Nat], totalRead' \in [Requests -> Nat]
  PROVE  TypeOK'
<1>1. /\ results' \in [Requests -> Seq(Statuses)] /\ Len(results'[r]) <= Len(Batch[r])
      /\ \A q \in Requests \ {r} : results'[q] = results[q]
      /\ to \in {"item", "open"} => Len(results'[r]) < Len(Batch[r])
  BY DEF TypeOK, Bounded
<1>2. /\ pc' \in [Requests -> {"new"} \cup Progress \cup Answers]
      /\ pc'[r] = to
      /\ \A q \in Requests \ {r} : pc'[q] = pc[q]
      /\ Bounded'
  BY <1>1, StepType
<1>3. Owners'
  <2>1. /\ \A e \in EventIds : inserting'[e] # r
        /\ \A e \in EventIds, q \in Requests : inserting'[e] = q <=> inserting[e] = q
    BY DEF TypeOK, Owners
  <2> QED BY <1>1, <1>2, <2>1, StepOwners
<1> QED BY <1>1, <1>2, <1>3 DEF TypeOK

LEMMA InitType == Init => TypeOK
<1> SUFFICES ASSUME Init PROVE TypeOK
  OBVIOUS
<1>1. results \in [Requests -> Seq(Statuses)] /\ 0 \in 0 .. MaxFaults
  BY HttpAssumption DEF Init
<1>2. Bounded
  BY HttpAssumption DEF Init, Bounded
<1>3. Owners
  BY HttpAssumption DEF Init, Owners
<1> QED
  BY <1>1, <1>2, <1>3 DEF Init, TypeOK

LEMMA NextType == TypeOK /\ [Next]_vars => TypeOK'
<1> SUFFICES ASSUME TypeOK, [Next]_vars PROVE TypeOK'
  OBVIOUS
<1>t. /\ results \in [Requests -> Seq(Statuses)]
      /\ chunk \in [Requests -> Nat] /\ totalRead \in [Requests -> Nat]
      /\ \A r \in Requests : Len(results[r]) \in Nat /\ Len(Batch[r]) \in Nat
  BY HttpAssumption DEF TypeOK
<1>f. faults < MaxFaults /\ faults' = faults + 1 => faults' \in 0 .. MaxFaults
  BY HttpAssumption DEF TypeOK
<1>0. CASE UNCHANGED vars
  BY <1>0 DEF vars, TypeOK, Bounded, Owners, CurrentId, Current
<1>1. ASSUME NEW r \in Requests, Send(r) PROVE TypeOK'
  <2>1. PICK to \in {"413", "reading"} : Goto(r, to)
    BY <1>1 DEF Send
  <2>u. pc[r] # "open" /\ UNCHANGED <<journal, projected, inserting, faults>>
    BY <1>1 DEF Send, store
  <2>2. /\ results' \in [Requests -> Seq(Statuses)]
        /\ results'[r] = <<>>
        /\ \A q \in Requests \ {r} : results'[q] = results[q]
    BY <1>1, <1>t DEF Send
  <2>3. to \in {"new"} \cup Progress \cup Answers /\ to \notin {"item", "open"}
    BY DEF Progress, Answers
  <2>l. Len(results'[r]) <= Len(Batch[r])
    BY <2>2, <1>t
  <2>4. /\ pc' \in [Requests -> {"new"} \cup Progress \cup Answers]
        /\ pc'[r] = to
        /\ \A q \in Requests \ {r} : pc'[q] = pc[q]
        /\ Bounded'
    BY <2>1, <2>2, <2>3, <2>l, StepType
  <2>5. /\ chunk' \in [Requests -> Nat] /\ totalRead' \in [Requests -> Nat]
        /\ sends' \in [Requests -> Nat]
    BY <1>1 DEF Send, TypeOK
  <2>6. Owners'
    <3>1. /\ \A e \in EventIds : inserting'[e] # r
          /\ \A e \in EventIds, q \in Requests : inserting'[e] = q <=> inserting[e] = q
      BY <2>u DEF TypeOK, Owners
    <3> QED BY <2>2, <2>3, <2>4, <3>1, StepOwners
  <2> QED BY <2>u, <2>2, <2>4, <2>5, <2>6 DEF TypeOK
<1>2. ASSUME NEW r \in Requests, ReadChunk(r) PROVE TypeOK'
  <2>1. PICK to \in {"413", "reading"} : Goto(r, to)
    <3>1. pc[r] = "reading" /\ pc \in [Requests -> {"new"} \cup Progress \cup Answers]
      BY <1>2 DEF ReadChunk, TypeOK
    <3>2. UNCHANGED pc => Goto(r, "reading")
      BY <3>1 DEF Goto
    <3> QED BY <1>2, <3>2 DEF ReadChunk
  <2>2. chunk' \in [Requests -> Nat] /\ totalRead' \in [Requests -> Nat]
    <3>1. Chunks[r] \in Seq(Nat) /\ chunk[r] \in Nat /\ chunk[r] < Len(Chunks[r])
      BY <1>2, <1>t, HttpAssumption DEF ReadChunk
    <3>2. Chunks[r][chunk[r] + 1] \in Nat
      BY <3>1
    <3>3. totalRead[r] + Chunks[r][chunk[r] + 1] \in Nat /\ chunk[r] + 1 \in Nat
      BY <3>1, <3>2, <1>t
    <3> QED BY <1>2, <1>t, <3>3 DEF ReadChunk
  <2>3. to \in {"new"} \cup Progress \cup Answers /\ to \notin {"item", "open"}
    BY DEF Progress, Answers
  <2>4. /\ pc[r] # "open"
        /\ UNCHANGED <<journal, projected, inserting, results, sends, faults>>
    BY <1>2 DEF ReadChunk, store
  <2> QED BY <2>1, <2>2, <2>3, <2>4, QuietType
<1>3. ASSUME NEW r \in Requests, CheckAccess(r) \/ CheckEnvelope(r) \/ Answer(r)
      PROVE  TypeOK'
  <2>1. PICK to \in {"429", "checking", "next", "422", "200"} : Goto(r, to)
    BY <1>3 DEF CheckAccess, CheckEnvelope, Answer
  <2>2. /\ pc[r] # "open"
        /\ UNCHANGED <<journal, projected, inserting, chunk, totalRead, results,
                       sends, faults>>
    BY <1>3 DEF CheckAccess, CheckEnvelope, Answer, store, body
  <2>3. to \in {"new"} \cup Progress \cup Answers /\ to \notin {"item", "open"}
    BY DEF Progress, Answers
  <2> QED BY <2>1, <2>2, <2>3, <1>t, QuietType
<1>4. ASSUME NEW r \in Requests, Validate(r) PROVE TypeOK'
  <2>u. /\ pc[r] = "next" /\ Len(results[r]) < Len(Batch[r])
        /\ UNCHANGED <<journal, projected, inserting, chunk, totalRead, sends, faults>>
    BY <1>4 DEF Validate, store, body
  <2>1. ASSUME NEW to \in {"item", "422"}, Goto(r, to), UNCHANGED results
        PROVE  TypeOK'
    <3>1. to \in {"new"} \cup Progress \cup Answers /\ to # "open"
      BY DEF Progress, Answers
    <3> QED BY <2>u, <2>1, <3>1, <1>t, QuietType
  <2>2. CASE Report(r, "rejected") /\ UNCHANGED pc
    <3>1. /\ results' \in [Requests -> Seq(Statuses)]
          /\ Len(results'[r]) = Len(results[r]) + 1
          /\ \A q \in Requests \ {r} : results'[q] = results[q]
      BY <2>2, ReportResult DEF Statuses
    <3>2. /\ \A e \in EventIds : inserting'[e] # r
          /\ \A e \in EventIds, q \in Requests : inserting'[e] = q <=> inserting[e] = q
      BY <2>u DEF TypeOK, Owners
    <3>3. Bounded'
      <4>1. pc' = pc /\ Len(results'[r]) <= Len(Batch[r]) /\ pc'[r] \notin {"item", "open"}
        BY <2>u, <2>2, <3>1, <1>t
      <4>2. \A q \in Requests \ {r} : Len(results'[q]) = Len(results[q])
        BY <3>1
      <4> QED BY <4>1, <4>2 DEF Bounded, TypeOK
    <3>4. Owners'
      BY <2>u, <2>2, <3>1, <3>2, StepOwners
    <3> QED BY <2>u, <2>2, <3>1, <3>3, <3>4 DEF TypeOK
  <2> QED BY <1>4, <2>1, <2>2 DEF Validate
<1>5. ASSUME NEW r \in Requests, Insert(r) PROVE TypeOK'
  <2>u. /\ pc[r] = "item"
        /\ UNCHANGED <<journal, projected, chunk, totalRead, sends, faults>>
    BY <1>5 DEF Insert, store, body
  <2>c. Len(results[r]) < Len(Batch[r]) /\ CurrentId(r) \in EventIds
    BY <2>u, CurrentType DEF TypeOK, Bounded
  <2>1. CASE journal[CurrentId(r)] = NoContent
    <3>1. /\ inserting' = [inserting EXCEPT ![CurrentId(r)] = r]
          /\ Goto(r, "open") /\ UNCHANGED results
          /\ inserting[CurrentId(r)] = NoRequest
      BY <1>5, <2>1 DEF Insert, InsertBlocked
    <3>2. "open" \in {"new"} \cup Progress \cup Answers
      BY DEF Progress
    <3>3. /\ pc' \in [Requests -> {"new"} \cup Progress \cup Answers]
          /\ pc'[r] = "open"
          /\ \A q \in Requests \ {r} : pc'[q] = pc[q]
          /\ Bounded'
      BY <2>c, <3>1, <3>2, <1>t, StepType
    <3>4. inserting' \in [EventIds -> Requests \cup {NoRequest}]
      BY <3>1 DEF TypeOK
    <3>5. ASSUME NEW e \in EventIds, NEW q \in Requests
          PROVE  inserting'[e] = q <=> pc'[q] = "open" /\ CurrentId(q)' = e
      <4>1. CurrentId(q)' = CurrentId(q)
        BY <3>1 DEF CurrentId, Current
      <4>2. inserting[e] = q <=> pc[q] = "open" /\ CurrentId(q) = e
        BY DEF TypeOK, Owners
      <4>3. inserting'[e] = IF e = CurrentId(r) THEN r ELSE inserting[e]
        BY <3>1 DEF TypeOK
      <4>4. CASE q = r
        BY <2>u, <3>3, <4>1, <4>2, <4>3, <4>4
      <4>5. CASE q # r
        BY <3>1, <3>3, <4>1, <4>2, <4>3, <4>5, HttpAssumption
      <4> QED BY <4>4, <4>5
    <3>6. Owners'
      BY <3>5 DEF Owners
    <3> QED BY <2>u, <3>1, <3>3, <3>4, <3>6 DEF TypeOK
  <2>2. CASE Goto(r, "409") /\ UNCHANGED <<results, inserting>>
    <3>1. "409" \in {"new"} \cup Progress \cup Answers
      BY DEF Answers
    <3> QED BY <2>u, <2>2, <3>1, <1>t, QuietType
  <2>3. CASE Goto(r, "next") /\ Report(r, "duplicate") /\ UNCHANGED inserting
    <3>1. /\ results' \in [Requests -> Seq(Statuses)]
          /\ Len(results'[r]) = Len(results[r]) + 1
          /\ \A q \in Requests \ {r} : results'[q] = results[q]
      BY <2>3, ReportResult DEF Statuses
    <3>2. "next" \in {"new"} \cup Progress \cup Answers
      BY DEF Progress
    <3>l. Len(results'[r]) <= Len(Batch[r])
      BY <2>c, <3>1, <1>t
    <3>3. /\ pc' \in [Requests -> {"new"} \cup Progress \cup Answers]
          /\ pc'[r] = "next"
          /\ \A q \in Requests \ {r} : pc'[q] = pc[q]
          /\ Bounded'
      BY <2>3, <3>1, <3>2, <3>l, StepType
    <3>4. Owners'
      <4>1. /\ \A e \in EventIds : inserting'[e] # r
            /\ \A e \in EventIds, q \in Requests :
                 inserting'[e] = q <=> inserting[e] = q
        BY <2>u, <2>3 DEF TypeOK, Owners
      <4> QED BY <3>1, <3>3, <4>1, StepOwners
    <3> QED BY <2>u, <2>3, <3>1, <3>3, <3>4 DEF TypeOK
  <2> QED BY <1>5, <2>1, <2>2, <2>3 DEF Insert
<1>6. ASSUME NEW r \in Requests, Commit(r) PROVE TypeOK'
  <2>1. /\ pc[r] = "open" /\ Record(r) /\ Report(r, "accepted")
        /\ Goto(r, "next") /\ Release(r)
        /\ UNCHANGED <<chunk, totalRead, sends, faults>>
    BY <1>6 DEF Commit, body
  <2>2. /\ results' \in [Requests -> Seq(Statuses)]
        /\ Len(results'[r]) = Len(results[r]) + 1
        /\ \A q \in Requests \ {r} : results'[q] = results[q]
    BY <2>1, ReportResult DEF Statuses
  <2>3. "next" \in {"new"} \cup Progress \cup Answers
    BY DEF Progress
  <2>l. Len(results'[r]) <= Len(Batch[r])
    BY <2>1, <2>2, <1>t DEF TypeOK, Bounded
  <2>4. /\ pc' \in [Requests -> {"new"} \cup Progress \cup Answers]
        /\ pc'[r] = "next"
        /\ \A q \in Requests \ {r} : pc'[q] = pc[q]
        /\ Bounded'
    BY <2>1, <2>2, <2>3, <2>l, StepType
  <2>5. Owners'
    <3>1. /\ \A e \in EventIds : inserting'[e] # r
          /\ \A e \in EventIds, q \in Requests \ {r} :
               inserting'[e] = q <=> inserting[e] = q
      BY <2>1, ReleaseResult
    <3> QED BY <2>2, <2>4, <3>1, StepOwners
  <2> QED BY <2>1, <2>2, <2>4, <2>5, RecordType, ReleaseResult DEF TypeOK
<1>7. ASSUME NEW r \in Requests, TransactionFails(r) \/ CommitUnconfirmed(r)
      PROVE  TypeOK'
  <2>1. /\ pc[r] \in {"item", "open"} /\ Goto(r, "500") /\ Release(r)
        /\ faults < MaxFaults /\ faults' = faults + 1
        /\ UNCHANGED <<chunk, totalRead, results, sends>>
    BY <1>7 DEF TransactionFails, CommitUnconfirmed, body
  <2>2. "500" \in {"new"} \cup Progress \cup Answers
    BY DEF Answers
  <2>l. Len(results'[r]) <= Len(Batch[r])
    BY <2>1 DEF TypeOK, Bounded
  <2>3. /\ pc' \in [Requests -> {"new"} \cup Progress \cup Answers]
        /\ pc'[r] = "500"
        /\ \A q \in Requests \ {r} : pc'[q] = pc[q]
        /\ Bounded'
    BY <2>1, <2>2, <2>l, <1>t, StepType
  <2>4. /\ journal' \in [EventIds -> Contents \cup {NoContent}]
        /\ projected' \in [EventIds -> Nat]
    <3>1. CASE TransactionFails(r)
      BY <3>1 DEF TransactionFails, store, TypeOK
    <3>2. CASE CommitUnconfirmed(r)
      BY <3>2, RecordType DEF CommitUnconfirmed
    <3> QED BY <1>7, <3>1, <3>2
  <2>5. Owners'
    <3>1. /\ \A e \in EventIds : inserting'[e] # r
          /\ \A e \in EventIds, q \in Requests \ {r} :
               inserting'[e] = q <=> inserting[e] = q
      BY <2>1, ReleaseResult
    <3> QED BY <2>1, <2>3, <3>1, StepOwners
  <2> QED BY <2>1, <2>3, <2>4, <2>5, <1>t, <1>f, ReleaseResult DEF TypeOK
<1>8. ASSUME Crash PROVE TypeOK'
  <2>1. /\ pc' \in [Requests -> {"new"} \cup Progress \cup Answers]
        /\ \A q \in Requests : pc'[q] \notin {"item", "open"}
    BY <1>8 DEF Crash, TypeOK, Answers, Progress
  <2>2. inserting' = [e \in EventIds |-> NoRequest]
        /\ UNCHANGED <<journal, projected, chunk, totalRead, results, sends>>
    BY <1>8 DEF Crash, store, body
  <2>3. Owners'
    BY <2>1, <2>2, HttpAssumption DEF Owners
  <2>4. Bounded'
    BY <2>1, <2>2 DEF Bounded, TypeOK
  <2>5. faults' \in 0 .. MaxFaults
    BY <1>8, <1>f DEF Crash
  <2> QED BY <2>1, <2>2, <2>3, <2>4, <2>5 DEF TypeOK
<1> QED
  BY <1>0, <1>1, <1>2, <1>3, <1>4, <1>5, <1>6, <1>7, <1>8 DEF Next, Handler

\* Variables have their types and inserts their one owner (TypeOK).
THEOREM TypeCorrect == Spec => []TypeOK
BY InitType, NextType, PTL DEF Spec

-----------------------------------------------------------------------------
(* What requests are told *)

\* The event in hand is valid, not journaled while its insert is open, and
\* another one's if it was refused as a collision.
InHand ==
  \A r \in Requests :
    /\ pc[r] \in {"item", "open"} => Current(r) \notin Invalid
    /\ pc[r] = "open" => journal[CurrentId(r)] = NoContent
    /\ pc[r] = "409" =>
         /\ Len(results[r]) < Len(Batch[r])
         /\ journal[CurrentId(r)] \notin {NoContent, ContentOf[Current(r)]}

IInv == TypeOK /\ InHand /\ AnswersTruthful

\* The step records q's event, whose insert was open.
Records(q) == pc[q] = "open" /\ Record(q)

\* How a step may leave request q.
Stays(q) == pc'[q] = pc[q] /\ results'[q] = results[q]
Leaves(q) == pc'[q] \notin {"item", "open", "409"}
Takes(q) ==
  /\ pc'[q] = "item" /\ results'[q] = results[q]
  /\ Current(q) \notin Invalid
Opens(q) ==
  /\ pc[q] = "item" /\ pc'[q] = "open" /\ results'[q] = results[q]
  /\ journal[CurrentId(q)] = NoContent /\ journal' = journal
Collides(q) ==
  /\ pc[q] = "item" /\ pc'[q] = "409" /\ results'[q] = results[q]
  /\ journal[CurrentId(q)] \notin {NoContent, ContentOf[Current(q)]}
  /\ journal' = journal

\* What a step may tell request q of its event in hand.
Told(q, s) ==
  /\ results'[q] = Append(results[q], s) /\ Len(results[q]) < Len(Batch[q])
  /\ \/ s = "rejected" /\ Current(q) \in Invalid
     \/ s = "duplicate" /\ pc[q] = "item" /\ IsSameEvent(q)
     \/ s = "accepted" /\ Records(q)

\* A step records one event at most.
LEMMA StepJournal ==
  ASSUME TypeOK, [Next]_vars
  PROVE  UNCHANGED store \/ \E q \in Requests : Records(q)
<1>1. ASSUME NEW r \in Requests,
             Send(r) \/ ReadChunk(r) \/ CheckAccess(r) \/ CheckEnvelope(r)
               \/ Validate(r) \/ Insert(r) \/ Answer(r) \/ TransactionFails(r)
      PROVE  UNCHANGED store
  BY <1>1 DEF Send, ReadChunk, CheckAccess, CheckEnvelope, Validate, Insert,
              Answer, TransactionFails
<1>2. ASSUME NEW r \in Requests, Commit(r) \/ CommitUnconfirmed(r)
      PROVE  Records(r)
  BY <1>2 DEF Commit, CommitUnconfirmed, Records
<1>3. Crash \/ UNCHANGED vars => UNCHANGED store
  BY DEF Crash, vars, store
<1> QED BY <1>1, <1>2, <1>3 DEF Next, Handler

\* Each step moves every request in one of these ways.
LEMMA StepMoves ==
  ASSUME TypeOK, [Next]_vars, NEW q \in Requests
  PROVE  Stays(q) \/ Leaves(q) \/ Takes(q) \/ Opens(q) \/ Collides(q)
<1>t. /\ pc \in [Requests -> {"new"} \cup Progress \cup Answers]
      /\ results \in [Requests -> Seq(Statuses)]
  BY DEF TypeOK
<1>0. CASE UNCHANGED vars
  BY <1>0 DEF vars, Stays
<1>1. ASSUME NEW r \in Requests, q # r,
             Send(r) \/ Handler(r) \/ TransactionFails(r) \/ CommitUnconfirmed(r)
      PROVE  Stays(q)
  BY <1>1, <1>t DEF Send, Handler, ReadChunk, CheckAccess, CheckEnvelope,
       Validate, Insert, Commit, Answer, TransactionFails, CommitUnconfirmed,
       Goto, Report, Stays
<1>2. CASE Send(q) \/ ReadChunk(q) \/ CheckAccess(q) \/ CheckEnvelope(q)
             \/ Commit(q) \/ Answer(q) \/ TransactionFails(q)
             \/ CommitUnconfirmed(q)
  BY <1>2, <1>t DEF Send, ReadChunk, CheckAccess, CheckEnvelope, Commit, Answer,
       TransactionFails, CommitUnconfirmed, Goto, Leaves
<1>3. CASE Validate(q)
  BY <1>3, <1>t DEF Validate, Goto, Leaves, Takes
<1>4. CASE Insert(q)
  BY <1>4, <1>t DEF Insert, IsSameEvent, Goto, Leaves, Opens, Collides, store
<1>5. CASE Crash
  BY <1>5, <1>t DEF Crash, Progress, Stays, Leaves
<1> QED BY <1>0, <1>1, <1>2, <1>3, <1>4, <1>5 DEF Next, Handler

\* The step that records an event ends its transaction.
LEMMA OpenEnds ==
  ASSUME TypeOK, InHand, [Next]_vars, NEW r \in Requests, Records(r)
  PROVE  pc'[r] # "open"
<1>t. pc \in [Requests -> {"new"} \cup Progress \cup Answers]
  BY DEF TypeOK
<1>o. pc[r] = "open" /\ ~ UNCHANGED store
  <2>1. pc[r] = "open" /\ journal[CurrentId(r)] = NoContent
    BY DEF Records, InHand
  <2>2. CurrentId(r) \in EventIds /\ ContentOf[Current(r)] \in Contents
    BY <2>1, CurrentType DEF TypeOK, Bounded
  <2>3. journal'[CurrentId(r)] = ContentOf[Current(r)]
    BY <2>2 DEF Records, Record, TypeOK
  <2> QED BY <2>1, <2>2, <2>3, HttpAssumption DEF store
<1>1. PICK q \in Requests : Commit(q) \/ CommitUnconfirmed(q)
  BY <1>o DEF Next, Handler, Send, ReadChunk, CheckAccess, CheckEnvelope,
     Validate, Insert, Answer, TransactionFails, Crash, vars, store
<1>2. pc'[q] # "open" /\ Records(q)
  BY <1>t, <1>1 DEF Commit, CommitUnconfirmed, Goto, Records
<1>3. q = r
  <2>1. /\ CurrentId(q) \in EventIds /\ CurrentId(r) \in EventIds
        /\ pc[q] = "open" /\ pc[r] = "open"
        /\ journal[CurrentId(q)] = NoContent /\ journal[CurrentId(r)] = NoContent
        /\ ContentOf[Current(q)] \in Contents /\ ContentOf[Current(r)] \in Contents
    BY <1>2, CurrentType DEF Records, TypeOK, Bounded, InHand
  <2>2. CurrentId(q) = CurrentId(r)
    BY <1>2, <2>1, HttpAssumption DEF Records, Record, TypeOK
  <2> QED BY <2>1, <2>2 DEF TypeOK, Owners
<1> QED BY <1>2, <1>3

\* Each step leaves what a request was told, begins anew or adds one item.
LEMMA StepResults ==
  ASSUME TypeOK, [Next]_vars, NEW q \in Requests
  PROVE  \/ results'[q] = results[q]
         \/ results'[q] = <<>>
         \/ \E s \in Statuses : Told(q, s)
<1>t. results \in [Requests -> Seq(Statuses)]
  BY DEF TypeOK
<1>0. CASE UNCHANGED vars
  BY <1>0 DEF vars
<1>1. ASSUME NEW r \in Requests, q # r,
             Send(r) \/ Handler(r) \/ TransactionFails(r) \/ CommitUnconfirmed(r)
      PROVE  results'[q] = results[q]
  BY <1>1, <1>t DEF Send, Handler, ReadChunk, CheckAccess, CheckEnvelope,
       Validate, Insert, Commit, Answer, TransactionFails, CommitUnconfirmed,
       Report
<1>2. CASE Send(q)
  BY <1>2, <1>t DEF Send
<1>3. CASE ReadChunk(q) \/ CheckAccess(q) \/ CheckEnvelope(q) \/ Answer(q)
             \/ TransactionFails(q) \/ CommitUnconfirmed(q) \/ Crash
  BY <1>3 DEF ReadChunk, CheckAccess, CheckEnvelope, Answer, TransactionFails,
       CommitUnconfirmed, Crash
<1>4. CASE Validate(q)
  <2>1. CASE UNCHANGED results
    BY <2>1
  <2>2. CASE Report(q, "rejected") /\ Current(q) \in Invalid
    BY <1>4, <1>t, <2>2 DEF Validate, Report, Told, Statuses
  <2> QED BY <1>4, <2>1, <2>2 DEF Validate
<1>5. CASE Insert(q)
  <2>1. CASE UNCHANGED results
    BY <2>1
  <2>2. CASE Report(q, "duplicate") /\ IsSameEvent(q)
    <3>1. pc[q] = "item" /\ Len(results[q]) < Len(Batch[q])
      BY <1>5 DEF Insert, TypeOK, Bounded
    <3> QED BY <1>t, <2>2, <3>1 DEF Report, Told, Statuses
  <2> QED BY <1>5, <2>1, <2>2 DEF Insert
<1>6. CASE Commit(q)
  <2>1. pc[q] = "open" /\ Record(q) /\ Len(results[q]) < Len(Batch[q])
    BY <1>6 DEF Commit, TypeOK, Bounded
  <2>2. results'[q] = Append(results[q], "accepted")
    BY <1>6, <1>t DEF Commit, Report
  <2> QED BY <2>1, <2>2 DEF Told, Statuses, Records
<1> QED BY <1>0, <1>1, <1>2, <1>3, <1>4, <1>5, <1>6 DEF Next, Handler

\* The recorded event was not in the journal, and is then.
LEMMA RecordsNew ==
  ASSUME TypeOK, InHand, NEW r \in Requests, Records(r)
  PROVE  /\ CurrentId(r) \in EventIds /\ ContentOf[Current(r)] \in Contents
         /\ journal[CurrentId(r)] = NoContent
         /\ journal'[CurrentId(r)] = ContentOf[Current(r)]
         /\ \A e \in EventIds \ {CurrentId(r)} : journal'[e] = journal[e]
<1>1. Len(results[r]) < Len(Batch[r]) /\ journal[CurrentId(r)] = NoContent
  BY DEF Records, TypeOK, Bounded, InHand
<1>2. CurrentId(r) \in EventIds /\ ContentOf[Current(r)] \in Contents
  BY <1>1, CurrentType
<1> QED BY <1>1, <1>2 DEF Records, Record, TypeOK

\* What is in the journal stays.
LEMMA JournalGrows ==
  ASSUME TypeOK, InHand, [Next]_vars, NEW e \in EventIds,
         journal[e] # NoContent
  PROVE  journal'[e] = journal[e]
BY StepJournal, RecordsNew DEF store

\* The event in hand is the same one as long as nothing is reported.
LEMMA SameInHand ==
  ASSUME NEW q \in Requests, results'[q] = results[q]
  PROVE  Current(q)' = Current(q) /\ CurrentId(q)' = CurrentId(q)
BY DEF Current, CurrentId

LEMMA InHandKept ==
  ASSUME TypeOK, InHand, [Next]_vars
  PROVE  InHand'
<1> SUFFICES ASSUME NEW q \in Requests
             PROVE  /\ pc'[q] \in {"item", "open"} => Current(q)' \notin Invalid
                    /\ pc'[q] = "open" => journal'[CurrentId(q)'] = NoContent
                    /\ pc'[q] = "409" =>
                         /\ Len(results'[q]) < Len(Batch[q])
                         /\ journal'[CurrentId(q)']
                              \notin {NoContent, ContentOf[Current(q)']}
  BY DEF InHand
<1>l. pc[q] \in {"item", "open", "409"} =>
        Len(results[q]) < Len(Batch[q]) /\ CurrentId(q) \in EventIds
  BY CurrentType DEF TypeOK, Bounded, InHand
<1>h. /\ pc[q] \in {"item", "open"} => Current(q) \notin Invalid
      /\ pc[q] = "open" => journal[CurrentId(q)] = NoContent
      /\ pc[q] = "409" =>
           /\ Len(results[q]) < Len(Batch[q])
           /\ journal[CurrentId(q)] \notin {NoContent, ContentOf[Current(q)]}
  BY DEF InHand
<1>1. CASE Stays(q)
  <2>1. /\ pc'[q] = pc[q] /\ results'[q] = results[q]
        /\ Current(q)' = Current(q) /\ CurrentId(q)' = CurrentId(q)
    BY <1>1, SameInHand DEF Stays
  <2>2. ASSUME pc[q] = "open" PROVE journal'[CurrentId(q)] = NoContent
    <3>1. CASE UNCHANGED store
      BY <2>2, <3>1, <1>h DEF store
    <3>2. ASSUME NEW r \in Requests, r # q, Records(r)
          PROVE  journal'[CurrentId(q)] = NoContent
      <4>1. CurrentId(r) # CurrentId(q)
        BY <1>l, <2>2, <3>2, RecordsNew DEF Records, TypeOK, Owners
      <4> QED BY <1>l, <1>h, <2>2, <3>2, <4>1, RecordsNew
    <3>3. ASSUME NEW r \in Requests, r = q, Records(r)
          PROVE  journal'[CurrentId(q)] = NoContent
      <4>1. pc'[q] # "open"
        BY <3>3, OpenEnds
      <4> QED BY <2>1, <2>2, <4>1
    <3> QED BY <3>1, <3>2, <3>3, StepJournal
  <2>3. pc[q] = "409" => journal'[CurrentId(q)] = journal[CurrentId(q)]
    BY <1>l, <1>h, JournalGrows
  <2> QED BY <1>h, <2>1, <2>2, <2>3
<1>2. CASE Leaves(q)
  BY <1>2 DEF Leaves
<1>3. CASE Takes(q)
  BY <1>3, SameInHand DEF Takes
<1>4. CASE Opens(q)
  BY <1>4, <1>h, SameInHand DEF Opens
<1>5. CASE Collides(q)
  BY <1>5, <1>l, SameInHand DEF Collides
<1> QED BY <1>1, <1>2, <1>3, <1>4, <1>5, StepMoves

LEMMA AnswersKept ==
  ASSUME TypeOK, InHand, AnswersTruthful, [Next]_vars
  PROVE  AnswersTruthful'
<1> DEFINE True(q, i, s) ==
      IF Batch[q][i] \in Invalid THEN s = "rejected"
      ELSE /\ s \in {"accepted", "duplicate"}
           /\ journal[IdOf[Batch[q][i]]] = ContentOf[Batch[q][i]]
<1> SUFFICES ASSUME NEW q \in Requests, NEW i \in DOMAIN results'[q]
             PROVE  True(q, i, results[q][i])'
  BY DEF AnswersTruthful
<1>t. /\ results[q] \in Seq(Statuses) /\ Batch[q] \in Seq(Items)
      /\ Len(results[q]) <= Len(Batch[q])
  BY HttpAssumption DEF TypeOK, Bounded
<1>1. ASSUME i \in DOMAIN results[q], results'[q][i] = results[q][i]
      PROVE  True(q, i, results[q][i])'
  <2>1. True(q, i, results[q][i])
    BY <1>1 DEF AnswersTruthful
  <2>2. Batch[q][i] \in Items
    BY <1>t, <1>1
  <2>3. /\ IdOf[Batch[q][i]] \in EventIds
        /\ ContentOf[Batch[q][i]] \in Contents /\ NoContent \notin Contents
    BY <2>2, HttpAssumption
  <2>4. CASE Batch[q][i] \in Invalid
    BY <1>1, <2>1, <2>4
  <2>5. CASE Batch[q][i] \notin Invalid
    <3>1. journal[IdOf[Batch[q][i]]] # NoContent
      BY <2>1, <2>3, <2>5
    <3>2. journal'[IdOf[Batch[q][i]]] = journal[IdOf[Batch[q][i]]]
      BY <2>3, <3>1, JournalGrows
    <3> QED BY <1>1, <2>1, <2>5, <3>2
  <2> QED BY <2>4, <2>5
<1>2. CASE results'[q] = results[q]
  BY <1>1, <1>2
<1>3. CASE results'[q] = <<>>
  BY <1>3
<1>4. ASSUME NEW s \in Statuses, Told(q, s)
      PROVE  True(q, i, results[q][i])'
  <2>0. results'[q] = Append(results[q], s)
    BY <1>4 DEF Told
  <2>1. CASE i \in DOMAIN results[q]
    <3>1. results'[q][i] = results[q][i]
      BY <1>t, <2>0, <2>1
    <3> QED BY <1>1, <2>1, <3>1
  <2>2. CASE i \notin DOMAIN results[q]
    <3>1. i = Len(results[q]) + 1 /\ results'[q][i] = s
      BY <1>t, <2>0, <2>2
    <3>2. Batch[q][i] = Current(q) /\ IdOf[Batch[q][i]] = CurrentId(q)
      BY <3>1 DEF Current, CurrentId
    <3>3. CurrentId(q) \in EventIds /\ ContentOf[Current(q)] \in Contents
      BY <1>4, CurrentType DEF Told
    <3>4. CASE s = "rejected" /\ Current(q) \in Invalid
      BY <3>1, <3>2, <3>4
    <3>5. CASE s = "duplicate" /\ pc[q] = "item" /\ IsSameEvent(q)
      <4>1. journal[CurrentId(q)] = ContentOf[Current(q)]
        BY <3>5 DEF IsSameEvent
      <4>2. journal'[CurrentId(q)] = ContentOf[Current(q)]
        BY <3>3, <4>1, JournalGrows, HttpAssumption
      <4>3. Current(q) \notin Invalid
        BY <3>5 DEF InHand
      <4> QED BY <3>1, <3>2, <3>5, <4>2, <4>3
    <3>6. CASE s = "accepted" /\ Records(q)
      <4>1. journal'[CurrentId(q)] = ContentOf[Current(q)]
        BY <3>6, RecordsNew
      <4>2. Current(q) \notin Invalid
        BY <3>6 DEF Records, InHand
      <4> QED BY <3>1, <3>2, <3>6, <4>1, <4>2
    <3> QED BY <1>4, <3>4, <3>5, <3>6 DEF Told
  <2> QED BY <2>1, <2>2
<1> QED BY <1>2, <1>3, <1>4, StepResults

LEMMA IInvHolds == Spec => []IInv
<1>1. Init => IInv
  BY InitType, HttpAssumption DEF Init, IInv, InHand, AnswersTruthful
<1>2. IInv /\ [Next]_vars => IInv'
  BY NextType, InHandKept, AnswersKept DEF IInv
<1> QED BY <1>1, <1>2, PTL DEF Spec

\* What a batch says of its items is so and stays so (AnswersTruthful).
THEOREM AnswersCorrect == Spec => []AnswersTruthful
<1>1. IInv => AnswersTruthful
  BY DEF IInv
<1> QED BY <1>1, IInvHolds, PTL

\* Only events that differ from the journaled one are answered 409
\* (CollisionJustified).
THEOREM CollisionCorrect == Spec => []CollisionJustified
<1>1. IInv => CollisionJustified
  BY DEF IInv, InHand, CollisionJustified
<1> QED BY <1>1, IInvHolds, PTL

-----------------------------------------------------------------------------
(* Once *)

\* Every event in the journal has been projected once (ProjectedOnce).
THEOREM ProjectionCorrect == Spec => []ProjectedOnce
<1>1. Init => ProjectedOnce
  BY DEF Init, ProjectedOnce
<1>2. ASSUME IInv, ProjectedOnce, [Next]_vars PROVE ProjectedOnce'
  <2>1. CASE UNCHANGED store
    BY <1>2, <2>1 DEF ProjectedOnce, store
  <2>2. ASSUME NEW r \in Requests, Records(r) PROVE ProjectedOnce'
    <3>1. /\ CurrentId(r) \in EventIds
          /\ journal[CurrentId(r)] = NoContent
          /\ journal'[CurrentId(r)] # NoContent
          /\ \A e \in EventIds \ {CurrentId(r)} : journal'[e] = journal[e]
      BY <1>2, <2>2, RecordsNew, HttpAssumption DEF IInv
    <3>2. /\ projected'[CurrentId(r)] = projected[CurrentId(r)] + 1
          /\ \A e \in EventIds \ {CurrentId(r)} : projected'[e] = projected[e]
      BY <1>2, <2>2, <3>1 DEF IInv, TypeOK, Records, Record
    <3> QED BY <1>2, <3>1, <3>2 DEF ProjectedOnce
  <2> QED BY <1>2, <2>1, <2>2, StepJournal DEF IInv
<1> QED BY <1>1, <1>2, IInvHolds, PTL DEF Spec

\* Every step of the requests is one of the journal, or none of it
\* (ImplementsJournal).
THEOREM JournalImplemented == Spec => ImplementsJournal
<1>1. Init => Journal!Init
  BY DEF Init, Journal!Init
<1>2. ASSUME IInv, [Next]_vars PROVE [Journal!Next]_journal
  <2>1. CASE UNCHANGED store
    BY <2>1 DEF store
  <2>2. ASSUME NEW r \in Requests, Records(r) PROVE Journal!Next
    <3>1. /\ CurrentId(r) \in EventIds /\ ContentOf[Current(r)] \in Contents
          /\ journal[CurrentId(r)] = NoContent
      BY <1>2, <2>2, RecordsNew DEF IInv
    <3>2. Journal!Record(CurrentId(r), ContentOf[Current(r)])
      BY <2>2, <3>1 DEF Records, Record, Journal!Record
    <3> QED BY <3>1, <3>2 DEF Journal!Next
  <2> QED BY <1>2, <2>1, <2>2, StepJournal DEF IInv
<1> QED BY <1>1, <1>2, IInvHolds, PTL DEF Spec, ImplementsJournal, Journal!Spec

\* An event is accepted once (AcceptedOnce).
THEOREM AcceptedCorrect == Spec => []AcceptedOnce
<1> DEFINE Accepts(q, i) == i \in DOMAIN results[q] /\ results[q][i] = "accepted"
           Id(q, i) == IdOf[Batch[q][i]]
<1>1. Init => AcceptedOnce
  BY DEF Init, AcceptedOnce
<1>2. ASSUME IInv, AcceptedOnce, [Next]_vars PROVE AcceptedOnce'
  <2>t. /\ TypeOK /\ InHand
        /\ \A q \in Requests : results[q] \in Seq(Statuses)
    BY <1>2 DEF IInv, TypeOK
  \* What was accepted before is in the journal.
  <2>1. ASSUME NEW q \in Requests, NEW i, Accepts(q, i)
        PROVE  journal[Id(q, i)] # NoContent
    <3>1. Batch[q] \in Seq(Items) /\ i \in 1 .. Len(Batch[q])
      BY <2>t, <2>1, HttpAssumption DEF TypeOK, Bounded
    <3>2. Batch[q][i] \in Items
      BY <3>1
    <3>3. journal[Id(q, i)] = ContentOf[Batch[q][i]]
      BY <1>2, <2>1 DEF IInv, AnswersTruthful
    <3> QED BY <3>2, <3>3, HttpAssumption
  \* What is accepted now was accepted before or is the recorded event.
  <2>2. ASSUME NEW q \in Requests, NEW i, Accepts(q, i)'
        PROVE  \/ Accepts(q, i)
               \/ /\ Records(q) /\ i = Len(results[q]) + 1
                  /\ Id(q, i) = CurrentId(q)
                  /\ journal[CurrentId(q)] = NoContent
    <3>1. CASE results'[q] = results[q] \/ results'[q] = <<>>
      BY <2>2, <3>1
    <3>2. ASSUME NEW s \in Statuses, Told(q, s), ~Accepts(q, i)
          PROVE  Records(q) /\ i = Len(results[q]) + 1
      <4>1. results'[q] = Append(results[q], s)
        BY <3>2 DEF Told
      <4>2. i = Len(results[q]) + 1 /\ s = "accepted"
        BY <2>t, <2>2, <3>2, <4>1
      <4> QED BY <3>2, <4>2 DEF Told
    <3>3. Records(q) /\ i = Len(results[q]) + 1 =>
            Id(q, i) = CurrentId(q) /\ journal[CurrentId(q)] = NoContent
      BY <2>t, RecordsNew DEF Current, CurrentId
    <3> QED BY <1>2, <2>t, <3>1, <3>2, <3>3, StepResults
  <2> SUFFICES ASSUME NEW q \in Requests, NEW r \in Requests, NEW i, NEW j,
                      Accepts(q, i)', Accepts(r, j)', Id(q, i) = Id(r, j)
               PROVE  q = r /\ i = j
    BY DEF AcceptedOnce
  <2>3. CASE Accepts(q, i) /\ Accepts(r, j)
    BY <1>2, <2>3 DEF AcceptedOnce
  <2>4. CASE ~Accepts(q, i) /\ ~Accepts(r, j)
    <3>1. /\ Records(q) /\ Records(r) /\ CurrentId(q) = CurrentId(r)
          /\ i = Len(results[q]) + 1 /\ j = Len(results[r]) + 1
      BY <2>2, <2>4
    <3>2. CurrentId(q) \in EventIds
      BY <2>t, <3>1, RecordsNew
    <3>3. q = r
      BY <2>t, <3>1, <3>2 DEF Records, TypeOK, Owners
    <3> QED BY <3>1, <3>3
  <2>5. CASE Accepts(q, i) /\ ~Accepts(r, j)
    BY <2>1, <2>2, <2>5
  <2>6. CASE ~Accepts(q, i) /\ Accepts(r, j)
    BY <2>1, <2>2, <2>6
  <2> QED BY <2>3, <2>4, <2>5, <2>6
<1> QED BY <1>1, <1>2, IInvHolds, PTL DEF Spec

-----------------------------------------------------------------------------
(* The body limit *)

\* Nothing is reported while the body is read, and nothing is done before it is
\* complete.
BodyFirst ==
  \A r \in Requests :
    /\ pc[r] = "reading" => results[r] = <<>>
    /\ pc[r] \in Progress \ {"reading"} => chunk[r] = Len(Chunks[r])

\* The application gets no more than MaxBody of a body (BodyLimited).
THEOREM BodyCorrect == Spec => []BodyLimited
<1> DEFINE Inv(q) ==
      /\ pc[q] \in Progress => totalRead[q] <= MaxBody
      /\ results[q] # <<>> => chunk[q] = Len(Chunks[q]) /\ totalRead[q] <= MaxBody
      /\ pc[q] = "413" => totalRead[q] > MaxBody
                           \/ (Declared[q] # NoLength /\ Declared[q] > MaxBody)
      /\ pc[q] = "reading" => results[q] = <<>>
      /\ pc[q] \in Progress \ {"reading"} => chunk[q] = Len(Chunks[q])
<1>1. Init => BodyLimited /\ BodyFirst
  BY DEF Init, BodyLimited, BodyFirst, Progress
<1>2. ASSUME TypeOK, BodyLimited, BodyFirst, [Next]_vars
      PROVE  BodyLimited' /\ BodyFirst'
  <2> SUFFICES ASSUME NEW q \in Requests PROVE Inv(q)'
    BY DEF BodyLimited, BodyFirst
  <2>t. /\ pc \in [Requests -> {"new"} \cup Progress \cup Answers]
        /\ chunk \in [Requests -> Nat] /\ totalRead \in [Requests -> Nat]
        /\ results \in [Requests -> Seq(Statuses)]
        /\ MaxBody \in Nat
    BY <1>2, HttpAssumption DEF TypeOK
  <2>i. Inv(q)
    BY <1>2 DEF BodyLimited, BodyFirst
  <2>0. CASE UNCHANGED vars
    BY <2>0, <2>i DEF vars
  <2>1. ASSUME NEW r \in Requests, q # r,
               Send(r) \/ Handler(r) \/ TransactionFails(r) \/ CommitUnconfirmed(r)
        PROVE  Inv(q)'
    <3>1. /\ pc'[q] = pc[q] /\ results'[q] = results[q]
          /\ chunk'[q] = chunk[q] /\ totalRead'[q] = totalRead[q]
      BY <2>1, <2>t DEF Send, Handler, ReadChunk, CheckAccess, CheckEnvelope,
           Validate, Insert, Commit, Answer, TransactionFails,
           CommitUnconfirmed, Goto, Report, body
    <3> QED BY <2>i, <3>1
  <2>2. CASE Send(q)
    <3>1. /\ results'[q] = <<>> /\ chunk'[q] = 0 /\ totalRead'[q] = 0
          /\ \/ pc'[q] = "reading"
             \/ pc'[q] = "413" /\ Declared[q] # NoLength /\ Declared[q] > MaxBody
      BY <2>2, <2>t DEF Send, Goto
    <3> QED BY <2>t, <3>1 DEF Progress
  <2>3. CASE ReadChunk(q)
    <3>1. /\ pc[q] = "reading" /\ results'[q] = results[q]
          /\ totalRead'[q] > MaxBody => pc'[q] = "413"
          /\ ~(totalRead'[q] > MaxBody) => pc'[q] = "reading"
      BY <2>3, <2>t DEF ReadChunk, Goto
    <3>2. totalRead'[q] \in Nat
      BY <1>2, NextType DEF TypeOK
    <3> QED BY <2>t, <2>i, <3>1, <3>2 DEF Progress
  <2>4. CASE CheckAccess(q)
    <3>1. /\ pc'[q] \in {"429", "checking"} /\ results'[q] = results[q]
          /\ chunk'[q] = chunk[q] /\ totalRead'[q] = totalRead[q]
          /\ pc[q] = "reading" /\ chunk[q] = Len(Chunks[q])
      BY <2>4, <2>t DEF CheckAccess, Goto, body
    <3> QED BY <2>i, <3>1 DEF Progress
  <2>5. CASE CheckEnvelope(q) \/ Validate(q) \/ Insert(q) \/ Commit(q) \/ Answer(q)
               \/ TransactionFails(q) \/ CommitUnconfirmed(q)
    <3>1. /\ pc[q] \in Progress \ {"reading"}
          /\ pc'[q] \notin {"reading", "413"}
          /\ chunk'[q] = chunk[q] /\ totalRead'[q] = totalRead[q]
      BY <2>5, <2>t DEF CheckEnvelope, Validate, Insert, Commit, Answer,
           TransactionFails, CommitUnconfirmed, Goto, body, Progress
    <3> QED BY <2>i, <3>1
  <2>6. CASE Crash
    <3>1. /\ pc'[q] = pc[q] \/ pc'[q] = "gone"
          /\ results'[q] = results[q]
          /\ chunk'[q] = chunk[q] /\ totalRead'[q] = totalRead[q]
      BY <2>6, <2>t DEF Crash, body
    <3> QED BY <2>i, <3>1 DEF Progress
  <2> QED BY <1>2, <2>0, <2>1, <2>2, <2>3, <2>4, <2>5, <2>6 DEF Next, Handler
<1> QED BY <1>1, <1>2, TypeCorrect, PTL DEF Spec

-----------------------------------------------------------------------------
(* Admission *)

\* What a handler demands of the envelope, the contract demands of the event.
LEMMA NeedsRequired ==
  /\ \A type \in HttpEventTypes : Needs(type) \subseteq HttpEnvelope \cup RequiredOf(type)
  /\ \A type \in RabbitEventTypes : Needs(type) \subseteq RequiredOf(type)
<1>1. ASSUME NEW type \in HttpEventTypes
      PROVE Needs(type) \subseteq HttpEnvelope \cup RequiredOf(type)
  BY <1>1 DEF HttpEventTypes, Needs, HttpEnvelope
<1>2. ASSUME NEW type \in RabbitEventTypes PROVE Needs(type) \subseteq RequiredOf(type)
  BY <1>2 DEF RabbitEventTypes, Needs, RequiredOf, CartTypes, LeadTypes, OrderTypes,
              SaleTypes
<1> QED BY <1>1, <1>2

\* What a handler takes from the payload, the contract demands, and redaction
\* leaves in it.
LEMMA ReadsRequired ==
  \A type \in HttpEventTypes \cup RabbitEventTypes :
    Reads(type) \subseteq PayloadOf(type) \ Identifying
<1>1. ASSUME NEW type \in HttpEventTypes PROVE Reads(type) \subseteq PayloadOf(type)
  BY <1>1 DEF HttpEventTypes, Reads, PayloadOf, OrderTypes
<1>2. ASSUME NEW type \in RabbitEventTypes PROVE Reads(type) \subseteq PayloadOf(type)
  BY <1>2 DEF RabbitEventTypes, Reads, PayloadOf, OrderTypes
<1>3. ASSUME NEW type PROVE Reads(type) \cap Identifying = {}
  BY DEF Reads, Identifying
<1> QED BY <1>1, <1>2, <1>3

LEMMA TypesHandled == HttpEventTypes \cup RabbitEventTypes \subseteq Handled
BY DEF HttpEventTypes, RabbitEventTypes, Handled

\* An event that either transport admits reaches a handler, which finds every key
\* of the envelope and of the payload that it takes for granted, also after the
\* payload has been redacted for an anonymized visitor (validator.py:58-181,
\* dispatcher.py:30-58, exceptions.py:10-15, redact.py:77-86).
THEOREM AdmittedIsHandled ==
  ASSUME NEW m, NEW origin,
         ValidateHttpEvent(m, origin) \/ ValidateRabbitEvent(m)
  PROVE  /\ HandlerFinds(m.fields, m.payload)
         /\ HandlerFinds(m.fields, Redacted(m.payload))
<1>1. /\ TypeOf(m) \in HttpEventTypes \cup RabbitEventTypes
      /\ Needs(TypeOf(m)) \subseteq Keys(m)
      /\ PayloadOf(TypeOf(m)) \subseteq DOMAIN m.payload
  BY NeedsRequired DEF ValidateHttpEvent, ValidateRabbitEvent, MatchesSchema
<1>2. Reads(TypeOf(m)) \subseteq DOMAIN m.payload \ Identifying
  BY <1>1, ReadsRequired
<1>3. DOMAIN Redacted(m.payload) = DOMAIN m.payload \ Identifying
  BY DEF Redacted
<1> QED BY <1>1, <1>2, <1>3, TypesHandled DEF HandlerFinds, TypeOf, Keys

\* No event is admitted by both transports: neither the shop can speak for a
\* browser nor a browser for the shop (allowlist.py:9-24, validator.py:69, 156).
THEOREM OneTransport ==
  ASSUME NEW m, NEW origin, ValidateHttpEvent(m, origin)
  PROVE  ~ValidateRabbitEvent(m)
<1>1. HttpEventTypes \cap RabbitEventTypes = {}
  BY DEF HttpEventTypes, RabbitEventTypes
<1> QED BY <1>1 DEF ValidateHttpEvent, ValidateRabbitEvent

\* The aggregate_id of an admitted event is the id of the row its handler writes
\* (validator.py:107-136).
THEOREM AggregateIsRow ==
  ASSUME NEW m, ValidateRabbitEvent(m)
  PROVE  /\ TypeOf(m) \in LeadTypes =>
              m.fields["lead_id"] = m.fields["aggregate_id"]
         /\ TypeOf(m) \in OrderTypes =>
              m.fields["order_id"] = m.fields["aggregate_id"]
         /\ TypeOf(m) \in SaleTypes =>
              m.fields["manual_sale_id"] = m.fields["aggregate_id"]
         /\ TypeOf(m) = "contact_received" =>
              m.fields["contact_id"] = m.fields["aggregate_id"]
         /\ TypeOf(m) = "customer_linked" =>
              m.fields["customer_id"] = m.fields["aggregate_id"]
         /\ TypeOf(m) = "refund_created" =>
              m.fields["refund_id"] = m.fields["aggregate_id"]
<1>1. /\ m.fields["aggregate_type"] = AggregateTypeOf(TypeOf(m))
      /\ m.fields["aggregate_id"]
           = m.fields[AggregateIdFields[AggregateTypeOf(TypeOf(m))]]
  BY DEF ValidateRabbitEvent, AggregateIdMatches
<1>2. /\ AggregateIdFields["lead"] = "lead_id"
      /\ AggregateIdFields["contact"] = "contact_id"
      /\ AggregateIdFields["customer"] = "customer_id"
      /\ AggregateIdFields["order"] = "order_id"
      /\ AggregateIdFields["manual_sale"] = "manual_sale_id"
      /\ AggregateIdFields["refund"] = "refund_id"
  BY DEF AggregateIdFields
<1>3. /\ \A t \in LeadTypes : AggregateTypeOf(t) = "lead"
      /\ \A t \in OrderTypes : AggregateTypeOf(t) = "order"
      /\ \A t \in SaleTypes : AggregateTypeOf(t) = "manual_sale"
      /\ AggregateTypeOf("contact_received") = "contact"
      /\ AggregateTypeOf("customer_linked") = "customer"
      /\ AggregateTypeOf("refund_created") = "refund"
  BY DEF AggregateTypeOf, LeadTypes, OrderTypes, SaleTypes
<1> QED BY <1>1, <1>2, <1>3
=============================================================================
