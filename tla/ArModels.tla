------------------------------ MODULE ArModels ------------------------------
(***************************************************************************)
(* The AR model service: one sku's row in Postgres and its files in the    *)
(* storage directory (ar/app/domains/ar/service.py, storage.py).           *)
(*                                                                         *)
(* Each HTTP request is a process that runs its handler once.  A create or *)
(* an update saves its upload under a fresh uuid, so a file is named by    *)
(* the request that saved it.  Nothing makes the row and the directory     *)
(* change together.                                                        *)
(***************************************************************************)
EXTENDS Integers

CONSTANTS
  Requests,
  Op,          \* [Requests -> Ops]
  Together,    \* bound: sets of requests that are made in one behaviour
  MaxFaults,   \* bound: failed saves, transactions and unlinks, and crashes
  NoRow,
  NoRequest

Ops == {"create", "update", "activate", "deactivate", "delete", "get"}

Rows == [id : Requests, file : Requests, active : BOOLEAN]

ASSUME ArAssumption ==
  /\ Op \in [Requests -> Ops]
  /\ NoRequest \notin Requests
  /\ NoRow \notin Rows
  /\ MaxFaults \in Nat

VARIABLES
  row,      \* committed row of ar_models; id and file name their writers
  disk,     \* files in the storage directory
  pc,       \* where each request is, or what it answered
  seen,     \* the row a request has read
  lock,     \* update holding the row FOR UPDATE
  leaked,   \* ghost: files whose saving, removal or owner failed
  faults    \* faults injected so far

vars == <<row, disk, pc, seen, lock, leaked, faults>>

Progress == {"saving", "saved", "locked", "read", "unlinking"}
\* "unconfirmed" is "failed" as well, though the transaction had committed.
Answers == {"ok", "missing", "conflict", "rejected", "failed", "unconfirmed",
            "unavailable", "gone"}

Goto(r, to) == pc' = [pc EXCEPT ![r] = to]

Available(w, d) == w # NoRow /\ w.active /\ w.file \in d

\* The files request r has yet to publish in the row or to remove.
Owned(r) ==
  CASE pc[r] \in {"saved", "locked"} -> {r}
    [] pc[r] = "unlinking" -> {seen[r].file}
    [] OTHER -> {}

-----------------------------------------------------------------------------
Init ==
  /\ row = NoRow
  /\ disk = {}
  /\ pc = [r \in Requests |-> "new"]
  /\ seen = [r \in Requests |-> NoRow]
  /\ lock = NoRequest
  /\ leaked = {}
  /\ faults = 0

\* The clients make no other requests than those of one set of Together.
Made(r) ==
  \E S \in Together : r \in S /\ {q \in Requests : pc[q] # "new"} \subseteq S

(* create_model and update_model: unlocked check, then the upload *)

UploadCheck(r) ==
  /\ pc[r] = "new" /\ Made(r)
  /\ Op[r] \in {"create", "update"}
  /\ Goto(r, CASE Op[r] = "create" /\ row # NoRow -> "conflict"
               [] Op[r] = "update" /\ row = NoRow -> "missing"
               [] OTHER -> "saving")
  /\ seen' = [seen EXCEPT ![r] = row]
  /\ UNCHANGED <<row, disk, lock, leaked, faults>>

SaveFile(r) ==
  /\ pc[r] = "saving"
  /\ disk' = disk \cup {r}
  /\ Goto(r, "saved")
  /\ UNCHANGED <<row, seen, lock, leaked, faults>>

\* The saved file is not a valid model.
RejectFile(r) ==
  /\ pc[r] = "saved"
  /\ disk' = disk \ {r}
  /\ Goto(r, "rejected")
  /\ UNCHANGED <<row, seen, lock, leaked, faults>>

\* INSERT and commit; the unique sku waits for a locked row's transaction.
CreateCommit(r) ==
  /\ pc[r] = "saved"
  /\ Op[r] = "create"
  /\ lock = NoRequest
  /\ IF row = NoRow
     THEN /\ row' = [id |-> r, file |-> r, active |-> TRUE]
          /\ Goto(r, "ok")
          /\ UNCHANGED disk
     ELSE /\ disk' = disk \ {r}
          /\ Goto(r, "conflict")
          /\ UNCHANGED row
  /\ UNCHANGED <<seen, lock, leaked, faults>>

(* update_model: the row is read again FOR UPDATE *)

\* Bug: the file to remove is the one of the first, unlocked read.
BugFirstReadOld(r) ==
  /\ pc[r] = "saved"
  /\ Op[r] = "update"
  /\ lock = NoRequest
  /\ IF row = NoRow
     THEN /\ disk' = disk \ {r}
          /\ Goto(r, "missing")
          /\ UNCHANGED <<seen, lock>>
     ELSE /\ lock' = r
          /\ Goto(r, "locked")
          /\ UNCHANGED <<disk, seen>>
  /\ UNCHANGED <<row, leaked, faults>>

\* Bug: the old file is removed before the commit that stops naming it.
BugUnlinkEarly(r) ==
  /\ pc[r] = "saved"
  /\ Op[r] = "update"
  /\ lock = NoRequest
  /\ row # NoRow
  /\ lock' = r
  /\ seen' = [seen EXCEPT ![r] = row]
  /\ disk' = disk \ {row.file}
  /\ Goto(r, "locked")
  /\ UNCHANGED <<row, leaked, faults>>

\* Bug: the second read is made without FOR UPDATE.
BugReadUnlocked(r) ==
  /\ pc[r] = "saved"
  /\ Op[r] = "update"
  /\ IF row = NoRow
     THEN /\ disk' = disk \ {r}
          /\ Goto(r, "missing")
          /\ UNCHANGED seen
     ELSE /\ seen' = [seen EXCEPT ![r] = row]
          /\ Goto(r, "locked")
          /\ UNCHANGED disk
  /\ UNCHANGED <<row, lock, leaked, faults>>

UpdateLock(r) ==
  /\ pc[r] = "saved"
  /\ Op[r] = "update"
  /\ lock = NoRequest
  /\ IF row = NoRow
     THEN /\ disk' = disk \ {r}
          /\ Goto(r, "missing")
          /\ UNCHANGED <<seen, lock>>
     ELSE /\ lock' = r
          /\ seen' = [seen EXCEPT ![r] = row]
          /\ Goto(r, "locked")
          /\ UNCHANGED disk
  /\ UNCHANGED <<row, leaked, faults>>

UpdateCommit(r) ==
  /\ pc[r] = "locked"
  /\ row' = [row EXCEPT !.file = r, !.active = TRUE]
  /\ lock' = NoRequest
  /\ Goto(r, "unlinking")
  /\ UNCHANGED <<disk, seen, leaked, faults>>

(* update_status *)

StatusRead(r) ==
  /\ pc[r] = "new" /\ Made(r)
  /\ Op[r] \in {"activate", "deactivate"}
  /\ seen' = [seen EXCEPT ![r] = row]
  /\ Goto(r, IF row = NoRow THEN "missing" ELSE "read")
  /\ UNCHANGED <<row, disk, lock, leaked, faults>>

\* Writes the column only where it differs from the row read, and fails where
\* that row is gone.
StatusCommit(r) ==
  /\ pc[r] = "read"
  /\ Op[r] \in {"activate", "deactivate"}
  /\ LET target == Op[r] = "activate" IN
       IF seen[r].active = target
       THEN Goto(r, "ok") /\ UNCHANGED row
       ELSE /\ lock = NoRequest
            /\ IF row # NoRow /\ row.id = seen[r].id
               THEN Goto(r, "ok") /\ row' = [row EXCEPT !.active = target]
               ELSE Goto(r, "failed") /\ UNCHANGED row
  /\ UNCHANGED <<disk, seen, lock, leaked, faults>>

(* delete_model *)

DeleteRead(r) ==
  /\ pc[r] = "new" /\ Made(r)
  /\ Op[r] = "delete"
  /\ seen' = [seen EXCEPT ![r] = row]
  /\ Goto(r, IF row = NoRow THEN "missing" ELSE "read")
  /\ UNCHANGED <<row, disk, lock, leaked, faults>>

\* DELETE by id, whatever file the row names by now; no row is no error.
DeleteCommit(r) ==
  /\ pc[r] = "read"
  /\ Op[r] = "delete"
  /\ lock = NoRequest
  /\ row' = IF row # NoRow /\ row.id = seen[r].id THEN NoRow ELSE row
  /\ Goto(r, "unlinking")
  /\ UNCHANGED <<disk, seen, lock, leaked, faults>>

\* The last step of update_model and delete_model; its failure is only logged.
Unlink(r) ==
  /\ pc[r] = "unlinking"
  /\ disk' = disk \ {seen[r].file}
  /\ Goto(r, "ok")
  /\ UNCHANGED <<row, seen, lock, leaked, faults>>

(* get_model, get_model_file *)

GetRead(r) ==
  /\ pc[r] = "new" /\ Made(r)
  /\ Op[r] = "get"
  /\ seen' = [seen EXCEPT ![r] = row]
  /\ Goto(r, IF row = NoRow \/ ~row.active THEN "unavailable" ELSE "read")
  /\ UNCHANGED <<row, disk, lock, leaked, faults>>

GetAnswer(r) ==
  /\ pc[r] = "read"
  /\ Op[r] = "get"
  /\ Goto(r, IF seen[r].file \in disk THEN "ok" ELSE "unavailable")
  /\ UNCHANGED <<row, disk, seen, lock, leaked, faults>>

(* Faults *)

\* storage.save raises half way: the partial file stays.
SaveFails(r) ==
  /\ pc[r] = "saving"
  /\ faults < MaxFaults /\ faults' = faults + 1
  /\ disk' = disk \cup {r}
  /\ leaked' = leaked \cup {r}
  /\ Goto(r, "failed")
  /\ UNCHANGED <<row, seen, lock>>

\* Bug: the failed transaction keeps its row lock.
BugFailLocked(r) ==
  /\ pc[r] \in {"saved", "locked"}
  /\ faults < MaxFaults /\ faults' = faults + 1
  /\ disk' = disk \ {r}
  /\ Goto(r, "failed")
  /\ UNCHANGED <<row, seen, leaked, lock>>

\* The transaction of a create or an update fails: rollback, remove the file.
TransactionFails(r) ==
  /\ pc[r] \in {"saved", "locked"}
  /\ faults < MaxFaults /\ faults' = faults + 1
  /\ disk' = disk \ {r}
  /\ lock' = IF lock = r THEN NoRequest ELSE lock
  /\ Goto(r, "failed")
  /\ UNCHANGED <<row, seen, leaked>>

\* And removing the file fails as well.
CleanupFails(r) ==
  /\ pc[r] \in {"saved", "locked"}
  /\ faults < MaxFaults /\ faults' = faults + 1
  /\ lock' = IF lock = r THEN NoRequest ELSE lock
  /\ leaked' = leaked \cup {r}
  /\ Goto(r, "failed")
  /\ UNCHANGED <<row, disk, seen>>

\* COMMIT succeeds but its reply is lost: the handler takes it for a failure
\* and removes the file it saved, or leaves the file it was to unlink.
CommitUnconfirmed(r) ==
  /\ faults < MaxFaults /\ faults' = faults + 1
  /\ \/ /\ pc[r] = "saved" /\ Op[r] = "create"
        /\ lock = NoRequest /\ row = NoRow
        /\ row' = [id |-> r, file |-> r, active |-> TRUE]
        /\ disk' = disk \ {r}
        /\ UNCHANGED <<lock, leaked>>
     \/ /\ pc[r] = "locked"
        /\ row' = [row EXCEPT !.file = r, !.active = TRUE]
        /\ disk' = disk \ {r}
        /\ lock' = NoRequest
        /\ leaked' = leaked \cup {row.file}
     \/ /\ pc[r] = "read" /\ Op[r] = "delete"
        /\ lock = NoRequest /\ row # NoRow /\ row.id = seen[r].id
        /\ row' = NoRow
        /\ leaked' = leaked \cup {row.file}
        /\ UNCHANGED <<disk, lock>>
  /\ Goto(r, "unconfirmed")
  /\ UNCHANGED seen

\* A failed transaction of update_status or delete_model, which own no file.
ShortTransactionFails(r) ==
  /\ pc[r] = "read"
  /\ Op[r] # "get"
  /\ faults < MaxFaults /\ faults' = faults + 1
  /\ Goto(r, "failed")
  /\ UNCHANGED <<row, disk, seen, lock, leaked>>

UnlinkFails(r) ==
  /\ pc[r] = "unlinking"
  /\ faults < MaxFaults /\ faults' = faults + 1
  /\ leaked' = leaked \cup Owned(r)
  /\ Goto(r, "ok")
  /\ UNCHANGED <<row, disk, seen, lock>>

\* The process dies: open transactions roll back, files stay.
Crash ==
  /\ faults < MaxFaults /\ faults' = faults + 1
  /\ pc' = [r \in Requests |-> IF pc[r] \in Progress THEN "gone" ELSE pc[r]]
  /\ leaked' = leaked \cup UNION {Owned(r) : r \in Requests}
  /\ lock' = NoRequest
  /\ UNCHANGED <<row, disk, seen>>

-----------------------------------------------------------------------------
Handler(r) ==
  \/ UploadCheck(r) \/ SaveFile(r) \/ RejectFile(r)
  \/ CreateCommit(r) \/ UpdateLock(r) \/ UpdateCommit(r)
  \/ StatusRead(r) \/ StatusCommit(r)
  \/ DeleteRead(r) \/ DeleteCommit(r) \/ Unlink(r)
  \/ GetRead(r) \/ GetAnswer(r)

Fault ==
  \/ \E r \in Requests :
       \/ SaveFails(r) \/ TransactionFails(r) \/ CleanupFails(r)
       \/ CommitUnconfirmed(r)
       \/ ShortTransactionFails(r) \/ UnlinkFails(r)
  \/ Crash

Next == (\E r \in Requests : Handler(r)) \/ Fault

Spec == Init /\ [][Next]_vars

\* The event loop runs every coroutine and Postgres answers; RejectFile shares
\* its guard with the transaction that follows it, so weak fairness of the
\* whole handler forces neither outcome of the validation.
FairSpec == Spec /\ \A r \in Requests : WF_vars(Handler(r))

-----------------------------------------------------------------------------
(* Properties *)

\* Variables have their types, and exactly the update that is past its SELECT
\* ... FOR UPDATE holds the row (service.py:263-298).
TypeOK ==
  /\ row \in Rows \cup {NoRow}
  /\ disk \subseteq Requests
  /\ pc \in [Requests -> {"new"} \cup Progress \cup Answers]
  /\ seen \in [Requests -> Rows \cup {NoRow}]
  /\ lock \in Requests \cup {NoRequest}
  /\ leaked \subseteq Requests
  /\ faults \in 0 .. MaxFaults
  /\ \A r \in Requests : pc[r] = "locked" <=> lock = r

\* The file a committed row names is on the disk, through every interleaving
\* of creates, updates, status changes and deletes, every failure and crash
\* (service.py:171-202, 262-304, 413-423).  The one exception is a COMMIT whose
\* reply was lost: its handler has removed the file the row names.
RowHasFile ==
  row # NoRow => row.file \in disk \/ pc[row.file] = "unconfirmed"

\* A file nobody names and nobody is about to remove is left only by a failed
\* save, a failed removal or a crash: delete_model's comment says so
\* (service.py:384-390) and test_service.py:486 of parallel updates.
OrphanOnlyAfterFailure ==
  \A f \in disk :
    \/ row # NoRow /\ row.file = f
    \/ f \in leaked
    \/ \E r \in Requests : f \in Owned(r)

\* So it is as long as no delete is made: concurrent uploads of one sku remove
\* every file they replace (service.py:262-304).
UploadsLeaveNoOrphan ==
  (\A r \in Requests : Op[r] = "delete" => pc[r] = "new")
  => OrphanOnlyAfterFailure

\* Every request that started is answered, or died with the process: nothing
\* waits for the row lock for ever (service.py:263-298).
EventuallyAnswered ==
  \A r \in Requests : pc[r] \in Progress ~> pc[r] \in Answers
=============================================================================
