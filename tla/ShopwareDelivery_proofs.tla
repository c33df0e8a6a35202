---------------------- MODULE ShopwareDelivery_proofs ----------------------
(***************************************************************************)
(* Theorems about ShopwareDelivery for every set of publications and       *)
(* handler tasks, every prefetch, retry budget and number of faults.       *)
(***************************************************************************)
EXTENDS ShopwareDelivery, FiniteSetTheorems, TLAPS

USE DeliveryAssumption

-----------------------------------------------------------------------------
(* Lemmas about the helpers *)

\* The attempts 0 and MaxRetryAttempts are among those a copy can carry.
LEMMA AttemptsType ==
  /\ Attempts \subseteq Nat
  /\ 0 \in Attempts
  /\ \A a \in Attempts : a < MaxRetryAttempts + 1 => a + 1 \in Attempts
  BY DEF Attempts

\* The number of deliveries held is a natural number.
LEMMA OwnedFinite ==
  ASSUME NEW p, NEW a
  PROVE  /\ Cardinality(Owned(p, a)) \in Nat
         /\ \A t \in Owned(p, a) : Cardinality(Owned(p, a)) > 0
<1>1. Owned(p, a) \subseteq Tasks
  BY DEF Owned
<1>2. IsFiniteSet(Owned(p, a))
  BY <1>1, FS_Subset
<1>3. Cardinality(Owned(p, a)) \in Nat
  BY <1>2, FS_CardinalityType
<1>4. ASSUME NEW t \in Owned(p, a) PROVE Cardinality(Owned(p, a)) # 0
  BY <1>2, FS_EmptySet
<1> QED
  BY <1>3, <1>4

\* Giving unacknowledged deliveries back keeps the queue a bag.
LEMMA RequeueType ==
  ASSUME Types, RequeueUnacked
  PROVE  ready' \in Bags
  BY OwnedFinite DEF Types, RequeueUnacked, Bags

-----------------------------------------------------------------------------
(* Type correctness *)

\* Empty queues and idle handlers are well typed.
LEMMA InitTypes == Init => Types
  BY AttemptsType DEF Init, Types, Bags, EmptyBag, TaskStates, Idle, PCs

\* An idle handler task is a task state.
LEMMA IdleType == Idle \in TaskStates
  BY AttemptsType DEF Idle, TaskStates, PCs

\* Ending a handler task keeps the type of the tasks.
LEMMA ReleaseType ==
  ASSUME Types, NEW t \in Tasks, Release(t)
  PROVE  task' \in [Tasks -> TaskStates]
  BY AttemptsType DEF Types, Release, TaskStates, Idle, PCs

\* Idle tasks hold no delivery tag; every other task holds a publication.
TasksConsistent ==
  \A t \in Tasks : /\ task[t].pc = "idle" => ~task[t].owned
                   /\ task[t].pc # "idle" => task[t].pub \in Publications

\* The type invariant that is inductive.
TypeInv == Types /\ TasksConsistent

\* Initially every task is idle and holds nothing.
LEMMA TypeInvInit == Init => TypeInv
  BY InitTypes DEF Init, TypeInv, TasksConsistent, Idle

\* Every step keeps the types.
LEMMA TypeInvNext == TypeInv /\ [Next]_vars => TypeInv'
<1> SUFFICES ASSUME TypeInv, [Next]_vars PROVE TypeInv'
  OBVIOUS
<1> USE DEF TypeInv, Types, TasksConsistent
<1>1. ASSUME NEW p \in Publications, Publish(p) PROVE TypeInv'
  BY <1>1, AttemptsType DEF Publish, store, Bags
<1>2. ASSUME NEW t \in Tasks, Deliver(t) PROVE TypeInv'
  <2>1. PICK p \in Publications, a \in Attempts :
          /\ ready[p][a] > 0
          /\ ready' = [ready EXCEPT ![p][a] = @ - 1]
          /\ task' = [task EXCEPT ![t] =
               [pc |-> "received", pub |-> p, attempt |-> a, owned |-> TRUE]]
    BY <1>2 DEF Deliver
  <2>2. ready' \in Bags
    BY <2>1 DEF Bags
  <2>3. task' \in [Tasks -> TaskStates]
    BY <2>1 DEF TaskStates, PCs
  <2> QED
    BY <1>2, <2>1, <2>2, <2>3 DEF Deliver, store
<1>3. ASSUME ExpireRetryTtl PROVE TypeInv'
  <2>1. PICK p \in Publications, a \in Attempts :
          /\ retry[p][a] > 0
          /\ retry' = [retry EXCEPT ![p][a] = @ - 1]
          /\ ready' = [ready EXCEPT ![p][a] = @ + 1]
    BY <1>3 DEF ExpireRetryTtl
  <2>2. ready' \in Bags /\ retry' \in Bags
    BY <2>1 DEF Bags
  <2> QED
    BY <1>3, <2>2 DEF ExpireRetryTtl, store
<1>4. ASSUME NEW t \in Tasks, HandlerStep(t) PROVE TypeInv'
  <2>1. CASE ParseMessage(t)
    BY <2>1 DEF ParseMessage, Goto, broker, store, TaskStates, PCs
  <2>2. CASE InsertEvent(t)
    BY <2>2 DEF InsertEvent, Goto, broker, store, TaskStates, PCs
  <2>3. CASE CommitEvent(t)
    BY <2>3 DEF CommitEvent, Goto, broker, TaskStates, PCs
  <2>4. CASE FailPermanently(t)
    BY <2>4 DEF FailPermanently, Goto, broker, store, TaskStates, PCs
  <2>5. CASE FailTransiently(t)
    BY <2>5 DEF FailTransiently, Goto, broker, store, TaskStates, PCs
  <2>6. CASE Ack(t)
    BY <2>6, ReleaseType DEF Ack, Release, Idle, broker, store
  <2>7. CASE Reject(t)
    BY <2>7, ReleaseType DEF Reject, DeadLetterCopy, Release, Idle, store
  <2>8. CASE GiveUp(t)
    BY <2>8, ReleaseType DEF GiveUp, DeadLetterCopy, Release, Idle, store
  <2>9. CASE Republish(t)
    <3>1. task[t].attempt + 1 \in Attempts
      BY <2>9 DEF Republish, TaskStates, Attempts
    <3>2. retry' \in Bags
      BY <2>9, <3>1 DEF Republish, Goto, Bags
    <3>3. task' \in [Tasks -> TaskStates]
      BY <2>9 DEF Republish, Goto, TaskStates, PCs
    <3> QED
      BY <2>9, <3>2, <3>3 DEF Republish, Goto, store
  <2>10. CASE RepublishFails(t)
    <3> USE DEF RepublishFails, broker, store
    <3>1. CASE task[t].owned
      BY <2>10, <3>1 DEF Goto, TaskStates, PCs
    <3>2. CASE ~task[t].owned
      <4>1. Release(t)
        BY <2>10, <3>2
      <4>2. task' \in [Tasks -> TaskStates]
        BY <4>1, ReleaseType
      <4> QED
        BY <2>10, <4>1, <4>2 DEF Release, Idle
    <3> QED
      BY <3>1, <3>2
  <2> QED
    BY <1>4, <2>1, <2>2, <2>3, <2>4, <2>5, <2>6, <2>7, <2>8, <2>9, <2>10
    DEF HandlerStep
<1>5. ASSUME Disconnect, faults' \in Nat PROVE TypeInv'
  <2>1. ready' \in Bags
    BY <1>5, RequeueType DEF Disconnect
  <2>2. ASSUME NEW t \in Tasks
        PROVE  /\ task'[t] \in TaskStates
               /\ ~task'[t].owned
               /\ task'[t].pc # "idle" => task'[t].pub \in Publications
    <3>1. CASE task[t].pc = "stuck"
      BY <1>5, <3>1, IdleType DEF Disconnect, Idle
    <3>2. CASE task[t].pc # "stuck"
      <4>1. task'[t] = [task[t] EXCEPT !.owned = FALSE] /\ task[t] \in TaskStates
        BY <1>5, <3>2 DEF Disconnect
      <4>2. task[t].pc # "idle" => task[t].pub \in Publications
        OBVIOUS
      <4> QED
        BY <4>1, <4>2 DEF TaskStates
    <3> QED
      BY <3>1, <3>2
  <2>3. task' \in [Tasks -> TaskStates]
    BY <1>5, <2>2 DEF Disconnect
  <2> QED
    BY <1>5, <2>1, <2>2, <2>3 DEF Disconnect, store
<1>6. ASSUME CrashWorker PROVE TypeInv'
  <2>1. ready' \in Bags
    BY <1>6, RequeueType DEF CrashWorker
  <2> QED
    BY <1>6, <2>1, IdleType DEF CrashWorker, store, Idle
<1>7. LoseConnection \/ AckTimeout => Disconnect /\ faults' \in Nat
  BY DEF LoseConnection, AckTimeout
<1>8. CASE UNCHANGED vars
  BY <1>8 DEF vars
<1> QED
  BY <1>1, <1>2, <1>3, <1>4, <1>5, <1>6, <1>7, <1>8 DEF Next

-----------------------------------------------------------------------------
(* Exactly once *)

\* An open journal transaction inserts an event_id that is not committed yet.
ProjectingFresh ==
  \A t \in Tasks :
    task[t].pc = "projecting" => journal[EventOf[task[t].pub]] = NoContent

\* The invariant exactly-once delivery rests on.
JournalInv == TypeInv /\ ExactlyOnce /\ ProjectingFresh /\ OneInserter

\* An empty journal has no projection and no open transaction.
LEMMA JournalInvInit == Init => JournalInv
  BY TypeInvInit
  DEF Init, JournalInv, ExactlyOnce, ProjectingFresh, OneInserter, Idle

\* Steps that commit nothing and open no transaction keep the journal part.
LEMMA NoNewInserter ==
  ASSUME JournalInv, UNCHANGED store,
         \A t \in Tasks : task'[t].pc = "projecting" =>
           task[t].pc = "projecting" /\ task'[t].pub = task[t].pub
  PROVE  ExactlyOnce' /\ ProjectingFresh' /\ OneInserter'
  BY DEF JournalInv, ExactlyOnce, ProjectingFresh, OneInserter, store

\* Every step keeps the journal invariant: ON CONFLICT waits for an open insert
\* of the same event_id, so a commit always finds its event_id free.
LEMMA JournalInvNext == JournalInv /\ [Next]_vars => JournalInv'
<1> SUFFICES ASSUME JournalInv, [Next]_vars PROVE JournalInv'
  OBVIOUS
<1>0. TypeInv' /\ TypeInv
  BY TypeInvNext DEF JournalInv
<1> SUFFICES ExactlyOnce' /\ ProjectingFresh' /\ OneInserter'
  BY <1>0 DEF JournalInv
<1>t. task \in [Tasks -> TaskStates]
  BY <1>0 DEF TypeInv, Types
<1>1. ASSUME NEW p \in Publications, Publish(p)
      PROVE  ExactlyOnce' /\ ProjectingFresh' /\ OneInserter'
  BY <1>1, NoNewInserter DEF Publish, store
<1>2. ASSUME NEW t \in Tasks, Deliver(t)
      PROVE  ExactlyOnce' /\ ProjectingFresh' /\ OneInserter'
  <2>1. UNCHANGED store
    BY <1>2 DEF Deliver
  <2>2. \A u \in Tasks : task'[u].pc = "projecting" =>
          task[u].pc = "projecting" /\ task'[u].pub = task[u].pub
    BY <1>2, <1>t DEF Deliver
  <2> QED
    BY <2>1, <2>2, NoNewInserter
<1>3. ASSUME ExpireRetryTtl
      PROVE  ExactlyOnce' /\ ProjectingFresh' /\ OneInserter'
  BY <1>3, NoNewInserter DEF ExpireRetryTtl
<1>4. ASSUME NEW t \in Tasks, HandlerStep(t)
      PROVE  ExactlyOnce' /\ ProjectingFresh' /\ OneInserter'
  <2>1. CASE InsertEvent(t)
    <3>1. UNCHANGED store
      BY <2>1 DEF InsertEvent
    <3>2. CASE Goto(t, "inserting", "projecting")
      <4>1. journal[EventOf[task[t].pub]] = NoContent
        BY <2>1, <3>2, <1>t DEF InsertEvent, Goto, TaskStates
      <4>2. \A u \in Tasks \ {t} : task[u].pc = "projecting" =>
              EventOf[task[u].pub] # EventOf[task[t].pub]
        BY <2>1 DEF InsertEvent, InsertBlocked
      <4>3. \A u \in Tasks : task'[u].pub = task[u].pub
        BY <3>2, <1>t DEF Goto, TaskStates
      <4>4. \A u \in Tasks \ {t} : task'[u] = task[u]
        BY <3>2, <1>t DEF Goto
      <4>5. ExactlyOnce'
        BY <3>1 DEF JournalInv, ExactlyOnce, store
      <4>6. ProjectingFresh'
        BY <3>1, <4>1, <4>3, <4>4 DEF JournalInv, ProjectingFresh, store
      <4>7. OneInserter'
        BY <4>2, <4>3, <4>4 DEF JournalInv, OneInserter
      <4> QED
        BY <4>5, <4>6, <4>7
    <3>3. CASE \/ Goto(t, "inserting", "acking")
               \/ Goto(t, "inserting", "rejecting")
      <4>1. \A u \in Tasks : task'[u].pc = "projecting" =>
              task[u].pc = "projecting" /\ task'[u].pub = task[u].pub
        BY <3>3, <1>t DEF Goto, TaskStates
      <4> QED
        BY <3>1, <4>1, NoNewInserter
    <3> QED
      BY <2>1, <3>2, <3>3 DEF InsertEvent
  <2>2. CASE CommitEvent(t)
    <3> DEFINE p == task[t].pub
    <3>1. task[t].pc = "projecting" /\ p \in Publications
      BY <2>2, <1>0 DEF CommitEvent, Goto, TypeInv, TasksConsistent
    <3>2. EventOf[p] \in EventIds /\ ContentOf[p] # NoContent
      BY <3>1
    <3>3. journal[EventOf[p]] = NoContent /\ projected[EventOf[p]] = 0
      BY <3>1, <3>2 DEF JournalInv, ProjectingFresh, ExactlyOnce
    <3>4. ExactlyOnce'
      BY <2>2, <3>2, <3>3, <1>0
      DEF CommitEvent, JournalInv, ExactlyOnce, TypeInv, Types
    <3>5. \A u \in Tasks : task'[u].pub = task[u].pub
      BY <2>2, <1>t DEF CommitEvent, Goto, TaskStates
    <3>6. task'[t].pc # "projecting" /\ \A u \in Tasks \ {t} : task'[u] = task[u]
      BY <2>2, <1>t DEF CommitEvent, Goto, TaskStates
    <3>7. \A e \in EventIds \ {EventOf[p]} : journal'[e] = journal[e]
      BY <2>2, <1>0 DEF CommitEvent, TypeInv, Types
    <3>8. \A u \in Tasks : task[u].pc = "projecting" =>
            EventOf[task[u].pub] \in EventIds
      BY <1>0 DEF TypeInv, TasksConsistent
    <3>9. ProjectingFresh'
      BY <3>1, <3>5, <3>6, <3>7, <3>8 DEF JournalInv, ProjectingFresh, OneInserter
    <3>10. OneInserter'
      BY <3>5, <3>6 DEF JournalInv, OneInserter
    <3> QED
      BY <3>4, <3>9, <3>10
  <2>3. CASE \/ ParseMessage(t) \/ FailPermanently(t) \/ FailTransiently(t)
             \/ Republish(t)
    <3>1. UNCHANGED store
      BY <2>3 DEF ParseMessage, FailPermanently, FailTransiently, Republish
    <3>2. PICK from \in PCs, to \in PCs \ {"projecting"} : Goto(t, from, to)
      BY <2>3 DEF ParseMessage, FailPermanently, FailTransiently, Republish, PCs
    <3>3. \A u \in Tasks : task'[u].pc = "projecting" =>
            task[u].pc = "projecting" /\ task'[u].pub = task[u].pub
      BY <3>2, <1>t DEF Goto, TaskStates
    <3> QED
      BY <3>1, <3>3, NoNewInserter
  <2>4. CASE \/ Ack(t) \/ Reject(t) \/ GiveUp(t) \/ RepublishFails(t)
    <3>1. UNCHANGED store
      BY <2>4 DEF Ack, Reject, GiveUp, DeadLetterCopy, RepublishFails
    <3>2. Release(t) \/ Goto(t, "retrying", "stuck")
      BY <2>4 DEF Ack, Reject, GiveUp, DeadLetterCopy, RepublishFails
    <3>3. \A u \in Tasks : task'[u].pc = "projecting" =>
            task[u].pc = "projecting" /\ task'[u].pub = task[u].pub
      BY <3>2, <1>t DEF Goto, Release, Idle, TaskStates
    <3> QED
      BY <3>1, <3>3, NoNewInserter
  <2> QED
    BY <1>4, <2>1, <2>2, <2>3, <2>4 DEF HandlerStep
<1>5. ASSUME Disconnect
      PROVE  ExactlyOnce' /\ ProjectingFresh' /\ OneInserter'
  <2>1. \A u \in Tasks : task'[u].pc = "projecting" =>
          task[u].pc = "projecting" /\ task'[u].pub = task[u].pub
    BY <1>5, <1>t DEF Disconnect, Idle, TaskStates
  <2> QED
    BY <1>5, <2>1, NoNewInserter DEF Disconnect
<1>6. ASSUME CrashWorker
      PROVE  ExactlyOnce' /\ ProjectingFresh' /\ OneInserter'
  BY <1>6, NoNewInserter DEF CrashWorker, Idle
<1>7. CASE UNCHANGED vars
  BY <1>7, NoNewInserter DEF vars, store
<1> QED
  BY <1>1, <1>2, <1>3, <1>4, <1>5, <1>6, <1>7
  DEF Next, LoseConnection, AckTimeout

\* Queues, tasks and journal keep their types, and an event_id has at most one
\* open insert, however many deliveries of it are handled at once.
THEOREM TypeCorrect == Spec => []TypeOK
<1>1. Spec => []JournalInv
  BY JournalInvInit, JournalInvNext, PTL DEF Spec
<1>2. JournalInv => TypeOK
  BY DEF JournalInv, TypeInv, TypeOK
<1> QED
  BY <1>1, <1>2, PTL

\* A journal row and its projection are committed together and once, however
\* many copies and handlers carry the event_id.
THEOREM ExactlyOnceAlways == Spec => []ExactlyOnce
<1>1. Spec => []JournalInv
  BY JournalInvInit, JournalInvNext, PTL DEF Spec
<1>2. JournalInv => ExactlyOnce
  BY DEF JournalInv
<1> QED
  BY <1>1, <1>2, PTL
-----------------------------------------------------------------------------
(* No publication is lost *)

Safe(p) == IsSameEvent(p) \/ p \in dlq \/ Queued(p) \/ InHand(p)

\* A requeue puts a copy of every owned delivery back and drops none.
LEMMA RequeueKeeps ==
  ASSUME TypeInv, RequeueUnacked, NEW p \in Publications, UNCHANGED retry
  PROVE  Queued(p) \/ InHand(p) => Queued(p)'
<1>1. \A a \in Attempts : /\ ready[p][a] \in Nat
                          /\ ready'[p][a] = ready[p][a] + Cardinality(Owned(p, a))
                          /\ Cardinality(Owned(p, a)) \in Nat
  BY OwnedFinite DEF TypeInv, Types, Bags, RequeueUnacked
<1>2. Queued(p) => Queued(p)'
  BY <1>1 DEF Queued
<1>3. ASSUME NEW t \in Tasks, task[t].owned, task[t].pub = p PROVE Queued(p)'
  <2>1. task[t].attempt \in Attempts
    BY DEF TypeInv, Types, TaskStates
  <2>2. t \in Owned(p, task[t].attempt)
    BY <1>3 DEF Owned
  <2>3. Cardinality(Owned(p, task[t].attempt)) > 0
    BY <2>2, OwnedFinite
  <2>4. ready'[p][task[t].attempt] > 0
    BY <1>1, <2>1, <2>3
  <2> QED
    BY <2>1, <2>4 DEF Queued
<1> QED
  BY <1>2, <1>3 DEF InHand

\* Every step keeps a published, safe publication safe, and publishing makes
\* one safe.
LEMMA NeverLostNext == JournalInv /\ NeverLost /\ [Next]_vars => NeverLost'
<1> SUFFICES ASSUME JournalInv, NeverLost, [Next]_vars,
                    NEW q \in Publications, published'[q] > 0
             PROVE  Safe(q)'
  BY DEF NeverLost, Safe
<1>0. TypeInv
  BY DEF JournalInv
<1>t. /\ task \in [Tasks -> TaskStates] /\ ready \in Bags /\ retry \in Bags
      /\ published \in [Publications -> Nat]
  BY <1>0 DEF TypeInv, Types
<1>s. published[q] > 0 => Safe(q)
  BY DEF NeverLost, Safe
<1>1. ASSUME NEW p \in Publications, Publish(p) PROVE Safe(q)'
  <2>1. CASE p = q
    <3>1. ready'[q][0] > 0
      BY <1>1, <2>1, <1>t, AttemptsType DEF Publish, Bags
    <3> QED
      BY <3>1, AttemptsType DEF Safe, Queued
  <2>2. CASE p # q
    <3>1. published'[q] = published[q] /\ ready'[q] = ready[q]
      BY <1>1, <2>2, <1>t DEF Publish, Bags
    <3> QED
      BY <1>1, <1>s, <3>1 DEF Publish, store, Safe, Queued, InHand, IsSameEvent
  <2> QED
    BY <2>1, <2>2
<1>2. ASSUME NEW t \in Tasks, Deliver(t) PROVE Safe(q)'
  <2>1. PICK p \in Publications, a \in Attempts :
          /\ ready[p][a] > 0
          /\ ready' = [ready EXCEPT ![p][a] = @ - 1]
          /\ task' = [task EXCEPT ![t] =
               [pc |-> "received", pub |-> p, attempt |-> a, owned |-> TRUE]]
    BY <1>2 DEF Deliver
  <2>2. Safe(q) /\ UNCHANGED <<retry, dlq, journal>>
    BY <1>2, <1>s DEF Deliver, store
  <2>3. CASE p = q
    BY <2>1, <2>3, <1>t DEF Safe, InHand
  <2>4. CASE p # q
    <3>1. ready'[q] = ready[q]
      BY <2>1, <2>4, <1>t DEF Bags
    <3>2. InHand(q) => InHand(q)'
      BY <1>2, <2>1, <1>t, <1>0 DEF Deliver, InHand, TypeInv, TasksConsistent
    <3> QED
      BY <2>2, <3>1, <3>2 DEF Safe, Queued, IsSameEvent
  <2> QED
    BY <2>3, <2>4
<1>3. ASSUME ExpireRetryTtl PROVE Safe(q)'
  <2>1. PICK p \in Publications, a \in Attempts :
          /\ retry[p][a] > 0
          /\ retry' = [retry EXCEPT ![p][a] = @ - 1]
          /\ ready' = [ready EXCEPT ![p][a] = @ + 1]
    BY <1>3 DEF ExpireRetryTtl
  <2>2. Safe(q) /\ UNCHANGED <<dlq, journal, task>>
    BY <1>3, <1>s DEF ExpireRetryTtl, store
  <2>3. ready'[p][a] > 0
    BY <2>1, <1>t DEF Bags
  <2>4. p # q => ready'[q] = ready[q] /\ retry'[q] = retry[q]
    BY <2>1, <1>t DEF Bags
  <2>5. Queued(q) => Queued(q)'
    BY <2>3, <2>4 DEF Queued
  <2> QED
    BY <2>2, <2>5 DEF Safe, InHand, IsSameEvent
<1>4. ASSUME NEW t \in Tasks, HandlerStep(t) PROVE Safe(q)'
  <2>0. Safe(q)
    BY <1>4, <1>s
    DEF HandlerStep, ParseMessage, InsertEvent, CommitEvent, FailPermanently,
        FailTransiently, Ack, Reject, GiveUp, DeadLetterCopy, Republish,
        RepublishFails, broker
  <2>1. CASE \/ ParseMessage(t) \/ FailPermanently(t) \/ FailTransiently(t)
             \/ InsertEvent(t)
    <3>1. UNCHANGED <<ready, retry, dlq, journal>>
      BY <2>1 DEF ParseMessage, FailPermanently, FailTransiently, InsertEvent,
                  broker, store
    <3>2. PICK from, to \in PCs :
            /\ Goto(t, from, to)
            /\ to = "acking" => IsSameEvent(task[t].pub)
      BY <2>1 DEF ParseMessage, FailPermanently, FailTransiently, InsertEvent, PCs
    <3>3. InHand(q) => InHand(q)' \/ IsSameEvent(q)
      BY <3>2, <1>t DEF Goto, InHand, TaskStates
    <3> QED
      BY <2>0, <3>1, <3>3 DEF Safe, Queued, IsSameEvent
  <2>2. CASE CommitEvent(t)
    <3>1. PICK p \in Publications : task[t].pc = "projecting" /\ p = task[t].pub
      BY <2>2, <1>0 DEF CommitEvent, Goto, TypeInv, TasksConsistent
    <3>2. journal[EventOf[p]] = NoContent
      BY <3>1 DEF JournalInv, ProjectingFresh
    <3>3. journal' = [journal EXCEPT ![EventOf[p]] = ContentOf[p]]
      BY <2>2, <3>1 DEF CommitEvent
    <3>4. journal \in [EventIds -> Contents \cup {NoContent}]
      BY <1>0 DEF TypeInv, Types
    <3>5. IsSameEvent(p)'
      BY <3>1, <3>3, <3>4 DEF IsSameEvent
    <3>6. IsSameEvent(q) => IsSameEvent(q)'
      BY <3>1, <3>2, <3>3, <3>4 DEF IsSameEvent
    <3>7. InHand(q) => InHand(q)' \/ p = q
      BY <2>2, <3>1, <1>t DEF CommitEvent, Goto, InHand
    <3>8. UNCHANGED <<ready, retry, dlq>>
      BY <2>2 DEF CommitEvent, broker
    <3> QED
      BY <2>0, <3>5, <3>6, <3>7, <3>8 DEF Safe, Queued
  <2>3. CASE Ack(t)
    <3>1. InHand(q) => InHand(q)'
      BY <2>3, <1>t DEF Ack, Release, InHand
    <3> QED
      BY <2>0, <2>3, <3>1 DEF Ack, broker, store, Safe, Queued, IsSameEvent
  <2>4. CASE Reject(t) \/ GiveUp(t)
    <3>1. DeadLetterCopy(t)
      BY <2>4 DEF Reject, GiveUp
    <3>2. InHand(q) => InHand(q)' \/ q \in dlq'
      BY <3>1, <1>t DEF DeadLetterCopy, Release, InHand
    <3>3. dlq \subseteq dlq' /\ UNCHANGED <<ready, retry, journal>>
      BY <3>1 DEF DeadLetterCopy, store
    <3> QED
      BY <2>0, <3>2, <3>3 DEF Safe, Queued, IsSameEvent
  <2>5. CASE Republish(t)
    <3> DEFINE p == task[t].pub
               a == task[t].attempt + 1
    <3>1. p \in Publications /\ a \in Attempts
      BY <2>5, <1>0, <1>t DEF Republish, Goto, TypeInv, TasksConsistent,
                              TaskStates, Attempts
    <3>2. retry' = [retry EXCEPT ![p][a] = @ + 1]
      BY <2>5 DEF Republish
    <3>3. retry'[p][a] > 0
      BY <3>1, <3>2, <1>t DEF Bags
    <3>4. p # q => retry'[q] = retry[q]
      BY <3>2, <1>t DEF Bags
    <3>5. p = q => Queued(q)'
      BY <3>1, <3>3 DEF Queued
    <3>6. InHand(q) => InHand(q)' \/ p = q
      BY <2>5, <1>t DEF Republish, Goto, InHand
    <3>7. UNCHANGED <<ready, dlq, journal>>
      BY <2>5 DEF Republish, store
    <3> QED
      BY <2>0, <3>4, <3>5, <3>6, <3>7 DEF Safe, Queued, IsSameEvent
  <2>6. CASE RepublishFails(t)
    <3>2. UNCHANGED <<ready, retry, dlq, journal>>
      BY <2>6 DEF RepublishFails, broker, store
    <3>3. CASE task[t].owned
      <4>1. Goto(t, "retrying", "stuck")
        BY <2>6, <3>3 DEF RepublishFails
      <4>2. InHand(q) => InHand(q)'
        BY <4>1, <1>t DEF Goto, InHand, TaskStates
      <4> QED
        BY <2>0, <3>2, <4>2 DEF Safe, Queued, IsSameEvent
    <3>4. CASE ~task[t].owned
      <4>1. Release(t)
        BY <2>6, <3>4 DEF RepublishFails
      <4>2. InHand(q) => InHand(q)'
        BY <4>1, <3>4, <1>t DEF Release, InHand
      <4> QED
        BY <2>0, <3>2, <4>2 DEF Safe, Queued, IsSameEvent
    <3> QED
      BY <3>3, <3>4
  <2> QED
    BY <1>4, <2>1, <2>2, <2>3, <2>4, <2>5, <2>6 DEF HandlerStep
<1>5. ASSUME RequeueUnacked, UNCHANGED <<published, retry, dlq, store>>
      PROVE  Safe(q)'
  <2>1. Queued(q) \/ InHand(q) => Queued(q)'
    BY <1>5, <1>0, RequeueKeeps
  <2> QED
    BY <1>5, <1>s, <2>1 DEF store, Safe, IsSameEvent
<1>6. CASE UNCHANGED vars
  BY <1>6, <1>s DEF vars, Safe, Queued, InHand, IsSameEvent
<1> QED
  BY <1>1, <1>2, <1>3, <1>4, <1>5, <1>6
  DEF Next, LoseConnection, AckTimeout, Disconnect, CrashWorker

\* Whatever crashes, disconnects and failed republications happen, a published
\* message is stored, dead-lettered, queued or still held unacknowledged.
THEOREM NeverLostAlways == Spec => []NeverLost
<1>1. Init => NeverLost
  BY DEF Init, NeverLost
<1>2. Spec => []JournalInv
  BY JournalInvInit, JournalInvNext, PTL DEF Spec
<1> QED
  BY <1>1, <1>2, NeverLostNext, PTL DEF Spec
-----------------------------------------------------------------------------
(* The journal is immutable, the retry budget is kept *)

\* Only a commit writes the journal, and only an event_id that is not there.
LEMMA JournalKeeps ==
  ASSUME JournalInv, [Next]_vars, NEW e \in EventIds, journal[e] # NoContent
  PROVE  journal'[e] = journal[e]
<1>1. CASE \E t \in Tasks : CommitEvent(t)
  <2>1. PICK t \in Tasks : CommitEvent(t)
    BY <1>1
  <2>2. journal[EventOf[task[t].pub]] = NoContent
    BY <2>1 DEF CommitEvent, Goto, JournalInv, ProjectingFresh
  <2> QED
    BY <2>1, <2>2 DEF CommitEvent, JournalInv, TypeInv, Types
<1>2. CASE ~\E t \in Tasks : CommitEvent(t)
  BY <1>2
  DEF Next, vars, Publish, Deliver, ExpireRetryTtl, HandlerStep, ParseMessage,
      InsertEvent, FailPermanently, FailTransiently, Ack, Reject, GiveUp,
      DeadLetterCopy, Republish, RepublishFails, LoseConnection, AckTimeout,
      Disconnect, CrashWorker, store
<1> QED
  BY <1>1, <1>2

\* A stored event is never replaced, whatever collides with its event_id.
THEOREM JournalImmutableAlways == Spec => JournalImmutable
<1>1. JournalInv /\ [Next]_vars =>
        [\A e \in EventIds : journal[e] # NoContent => journal'[e] = journal[e]]_journal
  BY JournalKeeps
<1> QED
  BY <1>1, JournalInvInit, JournalInvNext, PTL DEF Spec, JournalImmutable

\* Only a republication counts an attempt up, and only below the budget.
LEMMA RetryBudgetNext == TypeInv /\ RetryBudget /\ [Next]_vars => RetryBudget'
<1> SUFFICES ASSUME TypeInv, RetryBudget, [Next]_vars PROVE RetryBudget'
  OBVIOUS
<1> DEFINE top == MaxRetryAttempts + 1
<1>t. /\ task \in [Tasks -> TaskStates] /\ ready \in Bags /\ retry \in Bags
      /\ top \in Attempts
  BY DEF TypeInv, Types, Attempts
<1>b. \A p \in Publications : ready[p][top] = 0 /\ retry[p][top] = 0
  BY DEF RetryBudget
<1>a. \A t \in Tasks : task[t].attempt <= MaxRetryAttempts
  BY DEF RetryBudget
<1>1. ASSUME NEW p \in Publications, Publish(p) PROVE RetryBudget'
  BY <1>1, <1>t, <1>b, <1>a DEF Publish, Bags, RetryBudget, Attempts
<1>2. ASSUME NEW t \in Tasks, Deliver(t) PROVE RetryBudget'
  <2>1. PICK p \in Publications, a \in Attempts :
          /\ ready[p][a] > 0
          /\ ready' = [ready EXCEPT ![p][a] = @ - 1]
          /\ task' = [task EXCEPT ![t] =
               [pc |-> "received", pub |-> p, attempt |-> a, owned |-> TRUE]]
    BY <1>2 DEF Deliver
  <2>2. a # top /\ a <= MaxRetryAttempts
    BY <2>1, <1>b DEF Attempts
  <2>3. \A r \in Publications : ready'[r][top] = 0
    BY <2>1, <2>2, <1>t, <1>b DEF Bags
  <2>4. \A u \in Tasks : task'[u].attempt <= MaxRetryAttempts
    BY <2>1, <2>2, <1>t, <1>a
  <2> QED
    BY <1>2, <1>b, <2>3, <2>4 DEF Deliver, RetryBudget
<1>3. ASSUME ExpireRetryTtl PROVE RetryBudget'
  <2>1. PICK p \in Publications, a \in Attempts :
          /\ retry[p][a] > 0
          /\ retry' = [retry EXCEPT ![p][a] = @ - 1]
          /\ ready' = [ready EXCEPT ![p][a] = @ + 1]
    BY <1>3 DEF ExpireRetryTtl
  <2>2. a # top
    BY <2>1, <1>b
  <2>3. \A r \in Publications : ready'[r][top] = 0 /\ retry'[r][top] = 0
    BY <2>1, <2>2, <1>t, <1>b DEF Bags
  <2> QED
    BY <1>3, <1>a, <2>3 DEF ExpireRetryTtl, RetryBudget
<1>4. ASSUME NEW t \in Tasks, HandlerStep(t) PROVE RetryBudget'
  <2>1. CASE Republish(t)
    <3>1. task[t].attempt + 1 # top
      BY <2>1, <1>t DEF Republish, TaskStates, Attempts
    <3>2. \A r \in Publications : retry'[r][top] = 0
      BY <2>1, <3>1, <1>t, <1>b DEF Republish, Bags
    <3>3. \A u \in Tasks : task'[u].attempt = task[u].attempt
      BY <2>1, <1>t DEF Republish, Goto, TaskStates
    <3> QED
      BY <2>1, <3>2, <3>3, <1>a, <1>b DEF Republish, RetryBudget
  <2>2. CASE ~Republish(t)
    <3>1. UNCHANGED <<ready, retry>>
      BY <1>4, <2>2
      DEF HandlerStep, ParseMessage, InsertEvent, CommitEvent, FailPermanently,
          FailTransiently, Ack, Reject, GiveUp, DeadLetterCopy, RepublishFails,
          broker
    <3>2. Release(t) \/ \E from, to \in PCs : Goto(t, from, to)
      BY <1>4, <2>2
      DEF HandlerStep, ParseMessage, InsertEvent, CommitEvent, FailPermanently,
          FailTransiently, Ack, Reject, GiveUp, DeadLetterCopy, RepublishFails, PCs
    <3>3. \A u \in Tasks : task'[u].attempt <= MaxRetryAttempts
      BY <3>2, <1>t, <1>a DEF Release, Idle, Goto, TaskStates
    <3> QED
      BY <3>1, <3>3, <1>b DEF RetryBudget
  <2> QED
    BY <2>1, <2>2
<1>5. ASSUME RequeueUnacked, UNCHANGED retry,
             \A u \in Tasks : task'[u].attempt \in {0, task[u].attempt}
      PROVE  RetryBudget'
  <2>1. \A p \in Publications : Owned(p, top) = {}
    BY <1>a, <1>t DEF Owned, TaskStates, Attempts
  <2>2. \A p \in Publications : ready'[p][top] = ready[p][top] + 0
    BY <1>5, <2>1, <1>t, FS_EmptySet DEF RequeueUnacked
  <2>3. \A p \in Publications : ready'[p][top] = 0
    BY <2>2, <1>b
  <2> QED
    BY <1>5, <1>a, <1>b, <2>3 DEF RetryBudget
<1>6. Disconnect \/ CrashWorker =>
        /\ RequeueUnacked /\ UNCHANGED retry
        /\ \A u \in Tasks : task'[u].attempt \in {0, task[u].attempt}
  BY <1>t DEF Disconnect, CrashWorker, Idle, TaskStates
<1>7. CASE UNCHANGED vars
  BY <1>7 DEF vars, RetryBudget
<1> QED
  BY <1>1, <1>2, <1>3, <1>4, <1>5, <1>6, <1>7 DEF Next, LoseConnection, AckTimeout

\* No copy in a queue or in a handler ever exceeds max_retry_attempts.
THEOREM RetryBudgetAlways == Spec => []RetryBudget
<1>1. Init => RetryBudget
  BY DEF Init, RetryBudget, EmptyBag, Attempts, Idle
<1> QED
  BY <1>1, TypeInvInit, TypeInvNext, RetryBudgetNext, PTL DEF Spec

-----------------------------------------------------------------------------
(* Dead letters *)

\* Why a handler may reject a publication.
Cause(p) ==
  \/ p \in Poison \cup Unprojectable
  \/ journal[EventOf[p]] \notin {NoContent, ContentOf[p]}

RejectedForCause == \A t \in Tasks : task[t].pc = "rejecting" => Cause(task[t].pub)

\* A cause stays one: what collides with an event does so for good.
LEMMA CauseStays ==
  ASSUME JournalInv, [Next]_vars, NEW p \in Publications, Cause(p)
  PROVE  Cause(p)'
<1>1. EventOf[p] \in EventIds
  OBVIOUS
<1> QED
  BY <1>1, JournalKeeps DEF Cause

LEMMA RejectedForCauseNext ==
  JournalInv /\ RejectedForCause /\ [Next]_vars => RejectedForCause'
<1> SUFFICES ASSUME JournalInv, RejectedForCause, [Next]_vars, NEW t \in Tasks,
                    task'[t].pc = "rejecting"
             PROVE  Cause(task[t].pub)'
  BY DEF RejectedForCause
<1>t. /\ task \in [Tasks -> TaskStates] /\ TasksConsistent
      /\ journal \in [EventIds -> Contents \cup {NoContent}]
  BY DEF JournalInv, TypeInv, Types
<1>1. CASE task[t].pc = "rejecting" /\ task'[t].pub = task[t].pub
  <2>1. task[t].pub \in Publications
    BY <1>1, <1>t DEF TasksConsistent, TaskStates
  <2>2. Cause(task[t].pub)
    BY <1>1 DEF RejectedForCause
  <2> QED
    BY <1>1, <2>1, <2>2, CauseStays DEF Cause
<1>2. CASE /\ task[t].pc # "rejecting" \/ task'[t].pub # task[t].pub
           /\ \E u \in Tasks : ParseMessage(u) \/ InsertEvent(u) \/ FailPermanently(u)
  <2>1. PICK u \in Tasks : ParseMessage(u) \/ InsertEvent(u) \/ FailPermanently(u)
    BY <1>2
  <2>2. u = t /\ task'[t].pub = task[t].pub /\ journal' = journal
    BY <1>2, <2>1, <1>t DEF ParseMessage, InsertEvent, FailPermanently, Goto, TaskStates, store
  <2>3. Cause(task[t].pub)
    BY <1>2, <2>1, <2>2, <1>t
    DEF ParseMessage, InsertEvent, FailPermanently, Goto, TaskStates, Cause, IsSameEvent
  <2> QED
    BY <2>2, <2>3 DEF Cause
<1>3. CASE ~\E u \in Tasks : ParseMessage(u) \/ InsertEvent(u) \/ FailPermanently(u)
  <2> DEFINE Stays == task[t].pc = "rejecting" /\ task'[t].pub = task[t].pub
  <2>1. ASSUME NEW u \in Tasks, \E to \in {"acking", "retrying", "stuck"} :
                 task' = [task EXCEPT ![u].pc = to]
        PROVE  Stays
    BY <2>1, <1>t DEF TaskStates
  <2>2. ASSUME NEW u \in Tasks, Release(u) PROVE Stays
    BY <2>2, <1>t DEF Release, Idle, TaskStates
  <2>3. ASSUME NEW u \in Tasks, Deliver(u) PROVE Stays
    BY <2>3, <1>t DEF Deliver, TaskStates
  <2>4. ASSUME Disconnect PROVE Stays
    BY <2>4, <1>t DEF Disconnect, Idle, TaskStates
  <2>5. ASSUME CrashWorker PROVE Stays
    BY <2>5 DEF CrashWorker, Idle
  <2>6. ASSUME task' = task PROVE Stays
    BY <2>6
  <2> HIDE DEF Stays
  <2>7. ASSUME NEW u \in Tasks, HandlerStep(u) PROVE Stays
    <3>1. CASE CommitEvent(u) \/ FailTransiently(u) \/ Republish(u)
      BY <3>1, <2>1 DEF CommitEvent, FailTransiently, Republish, Goto
    <3>2. CASE Ack(u) \/ Reject(u) \/ GiveUp(u)
      BY <3>2, <2>2 DEF Ack, Reject, GiveUp, DeadLetterCopy
    <3>3. CASE RepublishFails(u)
      BY <3>3, <2>1, <2>2 DEF RepublishFails, Goto
    <3> QED
      BY <1>3, <2>7, <3>1, <3>2, <3>3 DEF HandlerStep
  <2>8. Stays
    BY <2>3, <2>4, <2>5, <2>6, <2>7
    DEF Next, vars, Publish, ExpireRetryTtl, LoseConnection, AckTimeout
  <2> QED
    BY <2>8, <1>1 DEF Stays
<1> QED
  BY <1>1, <1>2, <1>3

\* A publication enters the DLQ for one of the reasons the contract names: it is
\* invalid, its projection is refused, another event has its event_id, or this
\* delivery has spent the retry budget (consumer.py:90-169).
THEOREM DeadLetterJustifiedAlways == Spec => DeadLetterJustified
<1> DEFINE Justified(p) ==
             \/ p \in Poison \cup Unprojectable
             \/ journal[EventOf[p]] \notin {NoContent, ContentOf[p]}
             \/ \E t \in Tasks : /\ task[t].pub = p /\ task[t].pc = "retrying"
                                 /\ task[t].attempt = MaxRetryAttempts
<1>1. ASSUME JournalInv, RetryBudget, RejectedForCause, [Next]_vars,
             NEW p \in dlq' \ dlq
      PROVE  Justified(p)
  <2>1. PICK t \in Tasks : Reject(t) \/ GiveUp(t)
    BY <1>1
    DEF Next, vars, broker, Publish, Deliver, ExpireRetryTtl, HandlerStep, ParseMessage,
        InsertEvent, CommitEvent, FailPermanently, FailTransiently, Ack, Republish,
        RepublishFails, LoseConnection, AckTimeout, Disconnect, CrashWorker
  <2>2. p = task[t].pub
    BY <1>1, <2>1 DEF Reject, GiveUp, DeadLetterCopy
  <2>3. CASE Reject(t)
    BY <1>1, <2>2, <2>3 DEF Reject, RejectedForCause, Cause
  <2>4. CASE GiveUp(t)
    <3>1. task[t].attempt >= MaxRetryAttempts /\ task[t].pc = "retrying"
      BY <2>4 DEF GiveUp
    <3>2. task[t].attempt <= MaxRetryAttempts
      BY <1>1 DEF RetryBudget
    <3>3. task[t].attempt \in Nat
      BY <1>1, AttemptsType DEF JournalInv, TypeInv, Types, TaskStates
    <3>4. task[t].attempt = MaxRetryAttempts
      BY <3>1, <3>2, <3>3
    <3> QED
      BY <2>2, <3>1, <3>4
  <2> QED
    BY <2>1, <2>3, <2>4
<1>2. JournalInv /\ RetryBudget /\ RejectedForCause /\ [Next]_vars =>
        [\A p \in dlq' \ dlq : Justified(p)]_dlq
  BY <1>1
<1>3. Init => RetryBudget /\ RejectedForCause
  BY DEF Init, RetryBudget, EmptyBag, Attempts, Idle, RejectedForCause
<1>4. Spec => [](JournalInv /\ RetryBudget)
  BY <1>3, JournalInvInit, JournalInvNext, RetryBudgetNext, TypeInvInit, TypeInvNext,
     PTL DEF Spec
<1>5. Spec => []RejectedForCause
  BY <1>3, <1>4, RejectedForCauseNext, PTL DEF Spec
<1> QED
  BY <1>2, <1>4, <1>5, PTL DEF Spec, DeadLetterJustified

-----------------------------------------------------------------------------
(* ShopwareDelivery implements the safety part of IngestContract *)

\* Only what was published is queued or handled.
Provenance ==
  \A p \in Publications :
    Queued(p) \/ (\E t \in Tasks : task[t].pub = p) => published[p] > 0

\* No step conjures up a copy of a message nobody published.
LEMMA ProvenanceNext == TypeInv /\ Provenance /\ [Next]_vars => Provenance'
<1> SUFFICES ASSUME TypeInv, Provenance, [Next]_vars, NEW q \in Publications
             PROVE  (Queued(q) \/ \E t \in Tasks : task[t].pub = q)'
                      => published'[q] > 0
  BY DEF Provenance
<1>t. /\ task \in [Tasks -> TaskStates] /\ ready \in Bags /\ retry \in Bags
      /\ published \in [Publications -> Nat]
  BY DEF TypeInv, Types
<1>p. Queued(q) \/ (\E t \in Tasks : task[t].pub = q) => published[q] > 0
  BY DEF Provenance
<1> DEFINE Goal == (Queued(q) \/ \E t \in Tasks : task[t].pub = q)'
                     => published'[q] > 0
<1>n. NoPublication # q
  OBVIOUS
<1>1. ASSUME NEW p \in Publications, Publish(p) PROVE Goal
  <2>1. CASE p = q
    BY <1>1, <2>1, <1>t DEF Publish
  <2>2. CASE p # q
    <3>1. UNCHANGED <<ready[q], retry, task>> /\ published'[q] = published[q]
      BY <1>1, <2>2, <1>t DEF Publish, Bags
    <3> QED
      BY <3>1, <1>p DEF Queued
  <2> QED
    BY <2>1, <2>2
<1>2. ASSUME NEW t \in Tasks, Deliver(t) PROVE Goal
  <2>1. PICK p \in Publications, a \in Attempts :
          /\ ready[p][a] > 0
          /\ ready' = [ready EXCEPT ![p][a] = @ - 1]
          /\ task' = [task EXCEPT ![t] =
               [pc |-> "received", pub |-> p, attempt |-> a, owned |-> TRUE]]
          /\ UNCHANGED <<published, retry>>
    BY <1>2 DEF Deliver
  <2>2. CASE p = q
    BY <2>1, <2>2, <1>p DEF Queued
  <2>3. CASE p # q
    <3>1. ready'[q] = ready[q]
      BY <2>1, <2>3, <1>t DEF Bags
    <3>2. \A u \in Tasks : task'[u].pub = q => task[u].pub = q
      BY <2>1, <2>3, <1>t
    <3> QED
      BY <2>1, <3>1, <3>2, <1>p DEF Queued
  <2> QED
    BY <2>2, <2>3
<1>3. ASSUME ExpireRetryTtl PROVE Goal
  <2>1. PICK p \in Publications, a \in Attempts :
          /\ retry[p][a] > 0
          /\ retry' = [retry EXCEPT ![p][a] = @ - 1]
          /\ ready' = [ready EXCEPT ![p][a] = @ + 1]
    BY <1>3 DEF ExpireRetryTtl
  <2>2. UNCHANGED <<published, task>>
    BY <1>3 DEF ExpireRetryTtl
  <2>3. CASE p = q
    BY <2>1, <2>2, <2>3, <1>p DEF Queued
  <2>4. CASE p # q
    <3>1. ready'[q] = ready[q] /\ retry'[q] = retry[q]
      BY <2>1, <2>4, <1>t DEF Bags
    <3> QED
      BY <2>2, <3>1, <1>p DEF Queued
  <2> QED
    BY <2>3, <2>4
<1>4. ASSUME NEW t \in Tasks, HandlerStep(t) PROVE Goal
  <2>1. UNCHANGED published
    BY <1>4
    DEF HandlerStep, ParseMessage, InsertEvent, CommitEvent, FailPermanently,
        FailTransiently, Ack, Reject, GiveUp, DeadLetterCopy, Republish,
        RepublishFails, broker
  <2>2. CASE Republish(t)
    <3>1. \A u \in Tasks : task'[u].pub = task[u].pub
      BY <2>2, <1>t DEF Republish, Goto, TaskStates
    <3>2. task[t].pub # q => retry'[q] = retry[q]
      BY <2>2, <1>t DEF Republish, Bags
    <3> QED
      BY <2>1, <2>2, <3>1, <3>2, <1>p DEF Republish, Queued
  <2>3. CASE ~Republish(t)
    <3>1. UNCHANGED <<ready, retry>>
      BY <1>4, <2>3
      DEF HandlerStep, ParseMessage, InsertEvent, CommitEvent, FailPermanently,
          FailTransiently, Ack, Reject, GiveUp, DeadLetterCopy, RepublishFails,
          broker
    <3>2. Release(t) \/ \E from, to \in PCs : Goto(t, from, to)
      BY <1>4, <2>3
      DEF HandlerStep, ParseMessage, InsertEvent, CommitEvent, FailPermanently,
          FailTransiently, Ack, Reject, GiveUp, DeadLetterCopy, RepublishFails, PCs
    <3>3. \A u \in Tasks : task'[u].pub = q => task[u].pub = q
      BY <3>2, <1>t, <1>n DEF Release, Idle, Goto, TaskStates
    <3> QED
      BY <2>1, <3>1, <3>3, <1>p DEF Queued
  <2> QED
    BY <2>2, <2>3
<1>5. ASSUME RequeueUnacked, UNCHANGED <<retry, published>>,
             \A u \in Tasks : task'[u].pub \in {NoPublication, task[u].pub}
      PROVE  Goal
  <2>1. ASSUME NEW a \in Attempts, ready'[q][a] > 0
        PROVE  Queued(q) \/ \E t \in Tasks : task[t].pub = q
    <3>1. ready'[q][a] = ready[q][a] + Cardinality(Owned(q, a))
      BY <1>5 DEF RequeueUnacked
    <3>2. CASE Owned(q, a) = {}
      BY <2>1, <3>1, <3>2, <1>t, FS_EmptySet DEF Queued, Bags
    <3>3. CASE Owned(q, a) # {}
      BY <3>3 DEF Owned
    <3> QED
      BY <3>2, <3>3
  <2> QED
    BY <1>5, <2>1, <1>p, <1>n DEF Queued
<1>6. Disconnect \/ CrashWorker =>
        /\ RequeueUnacked /\ UNCHANGED <<retry, published>>
        /\ \A u \in Tasks : task'[u].pub \in {NoPublication, task[u].pub}
  BY <1>t DEF Disconnect, CrashWorker, Idle, TaskStates
<1>7. CASE UNCHANGED vars
  BY <1>7, <1>p DEF vars, Queued
<1> QED
  BY <1>1, <1>2, <1>3, <1>4, <1>5, <1>6, <1>7 DEF Next, LoseConnection, AckTimeout

\* The invariant the refinement rests on.
ContractInv == JournalInv /\ Provenance

\* The invariant the refinement rests on holds in every reachable state.
LEMMA ContractInvAlways == Spec => []ContractInv
<1>1. Init => Provenance
  BY DEF Init, Provenance, Queued, EmptyBag, Idle
<1>2. JournalInv => TypeInv
  BY DEF JournalInv
<1> QED
  BY <1>1, <1>2, JournalInvInit, JournalInvNext, ProvenanceNext, PTL
  DEF Spec, ContractInv

\* Every step of broker and worker is a step of the contract or leaves the
\* contract's state alone.
LEMMA ContractStep ==
  ContractInv /\ [Next]_vars => [Contract!Next]_(Contract!vars)
<1> SUFFICES ASSUME ContractInv, [Next]_vars
             PROVE  Contract!Next \/ UNCHANGED Contract!vars
  OBVIOUS
<1> DEFINE offered == {p \in Publications : published[p] > 0}
<1>t. /\ task \in [Tasks -> TaskStates]
      /\ published \in [Publications -> Nat]
      /\ journal \in [EventIds -> Contents \cup {NoContent}]
      /\ dlq \subseteq Publications
  BY DEF ContractInv, JournalInv, TypeInv, Types
<1>1. CASE \E p \in Publications : Publish(p)
  <2>1. PICK p \in Publications : Publish(p)
    BY <1>1
  <2>2. offered' = offered \cup {p} /\ UNCHANGED <<journal, dlq>>
    BY <2>1, <1>t DEF Publish, store
  <2> QED
    BY <2>2 DEF Contract!Next, Contract!Offer
<1>2. CASE \E t \in Tasks : CommitEvent(t)
  <2>1. PICK t \in Tasks : CommitEvent(t)
    BY <1>2
  <2>2. PICK p \in Publications : p = task[t].pub /\ task[t].pc = "projecting"
    BY <2>1 DEF CommitEvent, Goto, ContractInv, JournalInv, TypeInv, TasksConsistent
  <2>3. p \in offered /\ journal[EventOf[p]] = NoContent
    BY <2>2 DEF ContractInv, Provenance, JournalInv, ProjectingFresh
  <2>4. journal' = [journal EXCEPT ![EventOf[p]] = ContentOf[p]]
        /\ UNCHANGED <<published, dlq>>
    BY <2>1, <2>2 DEF CommitEvent, broker
  <2> QED
    BY <2>3, <2>4 DEF Contract!Next, Contract!Accept
<1>3. CASE \E t \in Tasks : DeadLetterCopy(t) /\ task[t].pc # "idle"
  <2>1. PICK t \in Tasks : DeadLetterCopy(t) /\ task[t].pc # "idle"
    BY <1>3
  <2>2. PICK p \in Publications : p = task[t].pub
    BY <2>1 DEF ContractInv, JournalInv, TypeInv, TasksConsistent
  <2>3. p \in offered
    BY <2>2 DEF ContractInv, Provenance
  <2>4. dlq' \in {dlq, dlq \cup {p}} /\ UNCHANGED <<published, journal>>
    BY <2>1, <2>2 DEF DeadLetterCopy, store
  <2> QED
    BY <2>3, <2>4 DEF Contract!Next, Contract!DeadLetter, Contract!vars
<1>4. CASE /\ ~\E p \in Publications : Publish(p)
           /\ ~\E t \in Tasks : CommitEvent(t)
           /\ ~\E t \in Tasks : DeadLetterCopy(t) /\ task[t].pc # "idle"
  <2>1. UNCHANGED <<published, journal, dlq>>
    BY <1>4
    DEF Next, vars, Deliver, ExpireRetryTtl, HandlerStep, ParseMessage,
        InsertEvent, FailPermanently, FailTransiently, Ack, Reject, GiveUp,
        Republish, RepublishFails, LoseConnection, AckTimeout,
        Disconnect, CrashWorker, store, broker
  <2> QED
    BY <2>1 DEF Contract!vars
<1> QED
  BY <1>1, <1>2, <1>3, <1>4

\* Delivery with retries, crashes and disconnects implements the ingest
\* contract: acceptance and dead-lettering are its only visible steps.
THEOREM ImplementsContractSafely == Spec => Contract!SafeSpec
<1>1. Init => Contract!Init
  BY DEF Init, Contract!Init
<1> QED
  BY <1>1, ContractStep, ContractInvAlways, PTL DEF Spec, Contract!SafeSpec
=============================================================================
