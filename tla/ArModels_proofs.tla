--------------------------- MODULE ArModels_proofs ---------------------------
(***************************************************************************)
(* Theorems about ArModels for any number of requests of every kind and    *)
(* any number of faults.                                                   *)
(***************************************************************************)
EXTENDS ArModels, TLAPS

USE ArAssumption

-----------------------------------------------------------------------------
(* Type correctness *)

\* A request past its SELECT has a row in hand; an update holding the lock has
\* the committed one.
InHand ==
  \A r \in Requests :
    /\ pc[r] \in {"locked", "read", "unlinking"} => seen[r] \in Rows
    /\ pc[r] = "locked" => seen[r] = row

TypeInv == TypeOK /\ InHand

\* No file, no row and no lock initially.
LEMMA InitTypeInv == Init => TypeInv
BY DEF Init, TypeInv, TypeOK, InHand

\* What a request has yet to publish or to remove are files.
LEMMA OwnedFiles ==
  ASSUME TypeInv, NEW r \in Requests
  PROVE  Owned(r) \subseteq Requests
BY DEF Owned, TypeInv, TypeOK, InHand, Rows

\* Every step of a handler and every fault keeps the types, and the row lock
\* with the one update that is between its SELECT and its COMMIT.
LEMMA NextTypeInv == TypeInv /\ [Next]_vars => TypeInv'
<1> SUFFICES ASSUME TypeInv, [Next]_vars PROVE TypeInv'
  OBVIOUS
<1>p. /\ pc \in [Requests -> {"new"} \cup Progress \cup Answers]
      /\ seen \in [Requests -> Rows \cup {NoRow}]
      /\ row \in Rows \cup {NoRow}
      /\ disk \subseteq Requests /\ leaked \subseteq Requests
      /\ lock \in Requests \cup {NoRequest}
      /\ faults \in 0 .. MaxFaults
      /\ \A r \in Requests : pc[r] = "locked" <=> lock = r
  BY DEF TypeInv, TypeOK
<1>h. \A r \in Requests :
        /\ pc[r] \in {"locked", "read", "unlinking"} => seen[r] \in Rows
        /\ pc[r] = "locked" => seen[r] = row
  BY DEF TypeInv, InHand
<1>f. faults < MaxFaults => faults + 1 \in 0 .. MaxFaults
  BY <1>p
<1>1. ASSUME NEW r \in Requests, UploadCheck(r) PROVE TypeInv'
  <2>1. TypeOK'
    BY <1>1, <1>p, <1>h, <1>f
    DEF UploadCheck, TypeOK, Rows, Goto, Progress, Answers
  <2>2. InHand'
    BY <1>1, <1>p, <1>h
    DEF UploadCheck, InHand, Rows, Goto
  <2> QED BY <2>1, <2>2 DEF TypeInv
<1>2. ASSUME NEW r \in Requests, SaveFile(r) PROVE TypeInv'
  <2>1. TypeOK'
    BY <1>2, <1>p, <1>h, <1>f
    DEF SaveFile, TypeOK, Rows, Goto, Progress, Answers
  <2>2. InHand'
    BY <1>2, <1>p, <1>h
    DEF SaveFile, InHand, Rows, Goto
  <2> QED BY <2>1, <2>2 DEF TypeInv
<1>3. ASSUME NEW r \in Requests, RejectFile(r) PROVE TypeInv'
  <2>1. TypeOK'
    BY <1>3, <1>p, <1>h, <1>f
    DEF RejectFile, TypeOK, Rows, Goto, Progress, Answers
  <2>2. InHand'
    BY <1>3, <1>p, <1>h
    DEF RejectFile, InHand, Rows, Goto
  <2> QED BY <2>1, <2>2 DEF TypeInv
<1>4. ASSUME NEW r \in Requests, CreateCommit(r) PROVE TypeInv'
  <2>0. [id |-> r, file |-> r, active |-> TRUE] \in Rows
    BY DEF Rows
  <2>r. row' \in Rows \cup {NoRow}
    BY <1>4, <1>p, <2>0 DEF CreateCommit
  <2>d. disk' \subseteq Requests
    BY <1>4, <1>p DEF CreateCommit
  <2>c. \E to \in {"ok", "conflict"} : Goto(r, to)
    BY <1>4 DEF CreateCommit
  <2>l. UNCHANGED <<seen, lock, leaked, faults>> /\ pc[r] = "saved"
    BY <1>4 DEF CreateCommit
  <2>1. TypeOK'
    BY <1>4, <1>p, <2>r, <2>d, <2>c, <2>l
    DEF TypeOK, Goto, Progress, Answers
  <2>2. InHand'
    BY <1>4, <1>p, <1>h
    DEF CreateCommit, InHand, Rows, Goto
  <2> QED BY <2>1, <2>2 DEF TypeInv
<1>5. ASSUME NEW r \in Requests, UpdateLock(r) PROVE TypeInv'
  <2>1. TypeOK'
    BY <1>5, <1>p, <1>h, <1>f
    DEF UpdateLock, TypeOK, Rows, Goto, Progress, Answers
  <2>2. InHand'
    BY <1>5, <1>p, <1>h
    DEF UpdateLock, InHand, Rows, Goto
  <2> QED BY <2>1, <2>2 DEF TypeInv
<1>6. ASSUME NEW r \in Requests, UpdateCommit(r) PROVE TypeInv'
  <2>r. row' \in Rows
    BY <1>6, <1>h DEF UpdateCommit, Rows
  <2>l. /\ pc[r] = "locked" /\ lock' = NoRequest /\ Goto(r, "unlinking")
        /\ UNCHANGED <<disk, seen, leaked, faults>>
    BY <1>6 DEF UpdateCommit
  <2>1. TypeOK'
    BY <1>6, <1>p, <2>r, <2>l, ArAssumption
    DEF TypeOK, Goto, Progress, Answers
  <2>2. InHand'
    BY <1>6, <1>p, <1>h
    DEF UpdateCommit, InHand, Rows, Goto
  <2> QED BY <2>1, <2>2 DEF TypeInv
<1>7. ASSUME NEW r \in Requests, StatusRead(r) PROVE TypeInv'
  <2>1. TypeOK'
    BY <1>7, <1>p, <1>h, <1>f
    DEF StatusRead, TypeOK, Rows, Goto, Progress, Answers
  <2>2. InHand'
    BY <1>7, <1>p, <1>h
    DEF StatusRead, InHand, Rows, Goto
  <2> QED BY <2>1, <2>2 DEF TypeInv
<1>8. ASSUME NEW r \in Requests, StatusCommit(r) PROVE TypeInv'
  <2>a. \A b \in BOOLEAN : row \in Rows => [row EXCEPT !.active = b] \in Rows
    BY DEF Rows
  <2>r. row' \in Rows \cup {NoRow}
    BY <1>8, <1>p, <2>a DEF StatusCommit
  <2>c. \E to \in {"ok", "failed"} : Goto(r, to)
    BY <1>8 DEF StatusCommit
  <2>l. UNCHANGED <<disk, seen, lock, leaked, faults>> /\ pc[r] = "read"
    BY <1>8 DEF StatusCommit
  <2>1. TypeOK'
    BY <1>8, <1>p, <2>r, <2>c, <2>l DEF TypeOK, Goto, Progress, Answers
  <2>w. row' = row \/ \A s \in Requests : pc[s] # "locked"
    BY <1>8, <1>p, ArAssumption DEF StatusCommit
  <2>2. InHand'
    BY <1>p, <1>h, <2>c, <2>l, <2>w DEF InHand, Goto
  <2> QED BY <2>1, <2>2 DEF TypeInv
<1>9. ASSUME NEW r \in Requests, DeleteRead(r) PROVE TypeInv'
  <2>1. TypeOK'
    BY <1>9, <1>p, <1>h, <1>f
    DEF DeleteRead, TypeOK, Rows, Goto, Progress, Answers
  <2>2. InHand'
    BY <1>9, <1>p, <1>h
    DEF DeleteRead, InHand, Rows, Goto
  <2> QED BY <2>1, <2>2 DEF TypeInv
<1>10. ASSUME NEW r \in Requests, DeleteCommit(r) PROVE TypeInv'
  <2>r. row' \in Rows \cup {NoRow}
    BY <1>10, <1>p DEF DeleteCommit
  <2>l. /\ pc[r] = "read" /\ Goto(r, "unlinking")
        /\ UNCHANGED <<disk, seen, lock, leaked, faults>>
    BY <1>10 DEF DeleteCommit
  <2>1. TypeOK'
    BY <1>10, <1>p, <2>r, <2>l DEF TypeOK, Goto, Progress, Answers
  <2>2. InHand'
    BY <1>10, <1>p, <1>h
    DEF DeleteCommit, InHand, Rows, Goto
  <2> QED BY <2>1, <2>2 DEF TypeInv
<1>11. ASSUME NEW r \in Requests, Unlink(r) PROVE TypeInv'
  <2>1. TypeOK'
    BY <1>11, <1>p, <1>h, <1>f
    DEF Unlink, TypeOK, Rows, Goto, Progress, Answers
  <2>2. InHand'
    BY <1>11, <1>p, <1>h
    DEF Unlink, InHand, Rows, Goto
  <2> QED BY <2>1, <2>2 DEF TypeInv
<1>12. ASSUME NEW r \in Requests, GetRead(r) PROVE TypeInv'
  <2>1. TypeOK'
    BY <1>12, <1>p, <1>h, <1>f
    DEF GetRead, TypeOK, Rows, Goto, Progress, Answers
  <2>2. InHand'
    BY <1>12, <1>p, <1>h
    DEF GetRead, InHand, Rows, Goto
  <2> QED BY <2>1, <2>2 DEF TypeInv
<1>13. ASSUME NEW r \in Requests, GetAnswer(r) PROVE TypeInv'
  <2>1. TypeOK'
    BY <1>13, <1>p, <1>h, <1>f
    DEF GetAnswer, TypeOK, Rows, Goto, Progress, Answers
  <2>2. InHand'
    BY <1>13, <1>p, <1>h
    DEF GetAnswer, InHand, Rows, Goto
  <2> QED BY <2>1, <2>2 DEF TypeInv
<1>14. ASSUME NEW r \in Requests, SaveFails(r) PROVE TypeInv'
  <2>1. TypeOK'
    BY <1>14, <1>p, <1>h, <1>f
    DEF SaveFails, TypeOK, Rows, Goto, Progress, Answers
  <2>2. InHand'
    BY <1>14, <1>p, <1>h
    DEF SaveFails, InHand, Rows, Goto
  <2> QED BY <2>1, <2>2 DEF TypeInv
<1>15. ASSUME NEW r \in Requests, TransactionFails(r) PROVE TypeInv'
  <2>1. TypeOK'
    BY <1>15, <1>p, <1>h, <1>f
    DEF TransactionFails, TypeOK, Rows, Goto, Progress, Answers
  <2>2. InHand'
    BY <1>15, <1>p, <1>h
    DEF TransactionFails, InHand, Rows, Goto
  <2> QED BY <2>1, <2>2 DEF TypeInv
<1>16. ASSUME NEW r \in Requests, CleanupFails(r) PROVE TypeInv'
  <2>1. TypeOK'
    BY <1>16, <1>p, <1>h, <1>f
    DEF CleanupFails, TypeOK, Rows, Goto, Progress, Answers
  <2>2. InHand'
    BY <1>16, <1>p, <1>h
    DEF CleanupFails, InHand, Rows, Goto
  <2> QED BY <2>1, <2>2 DEF TypeInv
<1>17. ASSUME NEW r \in Requests, CommitUnconfirmed(r) PROVE TypeInv'
  <2>r. /\ pc[r] = "locked" => row \in Rows
        /\ row \in Rows => row.file \in Requests
        /\ row \in Rows => [row EXCEPT !.file = r, !.active = TRUE] \in Rows
        /\ [id |-> r, file |-> r, active |-> TRUE] \in Rows
    BY <1>h DEF Rows
  <2>c. /\ row' \in Rows \cup {NoRow}
        /\ disk' \subseteq Requests
        /\ leaked' \subseteq Requests
    BY <1>17, <1>p, <2>r DEF CommitUnconfirmed
  <2>l. /\ lock' = IF pc[r] = "locked" THEN NoRequest ELSE lock
        /\ Goto(r, "unconfirmed")
        /\ UNCHANGED seen
        /\ faults' \in 0 .. MaxFaults
    BY <1>17, <1>f DEF CommitUnconfirmed
  <2>1. TypeOK'
    BY <1>p, <1>17, <2>c, <2>l DEF TypeOK, Goto, Progress, Answers
  <2>2. InHand'
    BY <1>17, <1>p, <1>h
    DEF CommitUnconfirmed, InHand, Rows, Goto
  <2> QED BY <2>1, <2>2 DEF TypeInv
<1>18. ASSUME NEW r \in Requests, ShortTransactionFails(r) PROVE TypeInv'
  <2>1. TypeOK'
    BY <1>18, <1>p, <1>h, <1>f
    DEF ShortTransactionFails, TypeOK, Rows, Goto, Progress, Answers
  <2>2. InHand'
    BY <1>18, <1>p, <1>h
    DEF ShortTransactionFails, InHand, Rows, Goto
  <2> QED BY <2>1, <2>2 DEF TypeInv
<1>19. ASSUME NEW r \in Requests, UnlinkFails(r) PROVE TypeInv'
  <2>1. TypeOK'
    BY <1>19, <1>p, <1>h, <1>f, OwnedFiles
    DEF UnlinkFails, TypeOK, Rows, Goto, Progress, Answers
  <2>2. InHand'
    BY <1>19, <1>p, <1>h
    DEF UnlinkFails, InHand, Rows, Goto
  <2> QED BY <2>1, <2>2 DEF TypeInv
<1>20. ASSUME Crash PROVE TypeInv'
  <2>1. TypeOK'
    BY <1>20, <1>p, <1>h, <1>f, OwnedFiles
    DEF Crash, TypeOK, Progress, Answers
  <2>2. InHand'
    BY <1>20, <1>p, <1>h DEF Crash, InHand, Progress
  <2> QED BY <2>1, <2>2 DEF TypeInv
<1>21. ASSUME UNCHANGED vars PROVE TypeInv'
  BY <1>21 DEF vars, TypeInv, TypeOK, InHand
<1> QED
  BY <1>1, <1>2, <1>3, <1>4, <1>5, <1>6, <1>7, <1>8, <1>9, <1>10, <1>11, <1>12,
     <1>13, <1>14, <1>15, <1>16, <1>17, <1>18, <1>19, <1>20, <1>21
  DEF Next, Handler, Fault

\* Types and the ownership of the row lock, for any requests and faults.
THEOREM TypeCorrect == Spec => []TypeOK
<1>1. TypeInv => TypeOK
  BY DEF TypeInv
<1> QED BY <1>1, InitTypeInv, NextTypeInv, PTL DEF Spec

-----------------------------------------------------------------------------
(* The row and its file *)

\* The file of this request is past the point where its own handler would
\* write it or give it up.
Published(f) == pc[f] \notin {"new", "saving", "saved", "locked"}

\* Rows name published files only, the committed one and those read from it.
NamedPublished ==
  /\ row # NoRow => Published(row.file)
  /\ \A r \in Requests : seen[r] # NoRow => Published(seen[r].file)

\* A file never moves from one row to another.
OneId ==
  \A r \in Requests :
    seen[r] # NoRow /\ row # NoRow /\ seen[r].file = row.file => seen[r].id = row.id

\* A handler that is about to unlink a file has unhooked it from the row.
Detached ==
  \A r \in Requests :
    pc[r] = "unlinking" /\ row # NoRow => row.file # seen[r].file

\* A file that is saved and not yet published is on the disk.
SavedOnDisk ==
  \A r \in Requests : pc[r] \in {"saved", "locked"} => r \in disk

\* The inductive invariant behind RowHasFile.
IInv ==
  TypeInv /\ NamedPublished /\ OneId /\ Detached /\ SavedOnDisk /\ RowHasFile

\* No row, nothing read.
LEMMA InitIInv == Init => IInv
BY InitTypeInv DEF Init, IInv, NamedPublished, OneId, Detached, SavedOnDisk, RowHasFile

\* A step that leaves row and disk alone, reads at most the committed row, and
\* neither starts to unlink nor unpublishes a file keeps the invariant.
LEMMA QuietStep ==
  ASSUME IInv, UNCHANGED row, TypeInv',
         row # NoRow /\ row.file \in disk => row.file \in disk',
         \A f \in Requests : Published(f) => Published(f)',
         \A f \in Requests : pc'[f] \in {"saved", "locked"} => f \in disk',
         \A f \in Requests : pc[f] = "unconfirmed" => pc'[f] = "unconfirmed",
         \A q \in Requests : seen'[q] \in {seen[q], row},
         \A q \in Requests :
           pc'[q] = "unlinking" => pc[q] = "unlinking" /\ seen'[q] = seen[q]
  PROVE  IInv'
<1>t. /\ row # NoRow => row \in Rows
      /\ \A q \in Requests : seen[q] # NoRow => seen[q] \in Rows
      /\ \A w \in Rows : w.file \in Requests
  BY DEF IInv, TypeInv, TypeOK, Rows
<1>1. NamedPublished'
  BY <1>t DEF IInv, NamedPublished
<1>2. OneId'
  BY DEF IInv, OneId
<1>3. Detached'
  BY DEF IInv, Detached
<1>4. RowHasFile'
  BY <1>t DEF IInv, RowHasFile
<1>5. SavedOnDisk'
  BY DEF SavedOnDisk
<1> QED BY <1>1, <1>2, <1>3, <1>4, <1>5 DEF IInv

\* Every step of a handler and every fault keeps the invariant.
LEMMA NextIInv == IInv /\ [Next]_vars => IInv'
<1> SUFFICES ASSUME IInv, [Next]_vars PROVE IInv'
  OBVIOUS
<1>t. TypeInv'
  BY NextTypeInv DEF IInv
<1>p. /\ pc \in [Requests -> {"new"} \cup Progress \cup Answers]
      /\ seen \in [Requests -> Rows \cup {NoRow}]
      /\ row \in Rows \cup {NoRow}
      /\ \A r \in Requests : pc[r] = "locked" <=> lock = r
      /\ \A r \in Requests : pc[r] \in {"locked", "read", "unlinking"} => seen[r] \in Rows
      /\ \A r \in Requests : pc[r] = "locked" => seen[r] = row
  BY DEF IInv, TypeInv, TypeOK, InHand
<1>i. NamedPublished /\ OneId /\ Detached /\ SavedOnDisk /\ RowHasFile
  BY DEF IInv
<1>w. \A w \in Rows : w \in Rows /\ w.file \in Requests /\ w.id \in Requests
  BY DEF Rows
<1>n. NoRow \notin Rows
  OBVIOUS
<1>1. ASSUME NEW r \in Requests, UploadCheck(r) PROVE IInv'
  <2>1. /\ UNCHANGED row
        /\ row # NoRow /\ row.file \in disk => row.file \in disk'
        /\ \A f \in Requests : Published(f) => Published(f)'
        /\ \A f \in Requests : pc[f] = "unconfirmed" => pc'[f] = "unconfirmed"
    BY <1>1, <1>p, <1>i, <1>w DEF UploadCheck, Goto, Published, NamedPublished, Detached
  <2>2. /\ \A q \in Requests : seen'[q] \in {seen[q], row}
        /\ \A q \in Requests :
             pc'[q] = "unlinking" => pc[q] = "unlinking" /\ seen'[q] = seen[q]
    BY <1>1, <1>p DEF UploadCheck, Goto
  <2>3. \A f \in Requests : pc'[f] \in {"saved", "locked"} => f \in disk'
    BY <1>1, <1>p, <1>i, <1>w DEF UploadCheck, Goto, Published, NamedPublished, SavedOnDisk
  <2> QED BY <1>t, <2>1, <2>2, <2>3, QuietStep
<1>2. ASSUME NEW r \in Requests, SaveFile(r) PROVE IInv'
  <2>1. /\ UNCHANGED row
        /\ row # NoRow /\ row.file \in disk => row.file \in disk'
        /\ \A f \in Requests : Published(f) => Published(f)'
        /\ \A f \in Requests : pc[f] = "unconfirmed" => pc'[f] = "unconfirmed"
    BY <1>2, <1>p, <1>i, <1>w DEF SaveFile, Goto, Published, NamedPublished, Detached
  <2>2. /\ \A q \in Requests : seen'[q] \in {seen[q], row}
        /\ \A q \in Requests :
             pc'[q] = "unlinking" => pc[q] = "unlinking" /\ seen'[q] = seen[q]
    BY <1>2, <1>p DEF SaveFile, Goto
  <2>3. \A f \in Requests : pc'[f] \in {"saved", "locked"} => f \in disk'
    BY <1>2, <1>p, <1>i, <1>w DEF SaveFile, Goto, Published, NamedPublished, SavedOnDisk
  <2> QED BY <1>t, <2>1, <2>2, <2>3, QuietStep
<1>3. ASSUME NEW r \in Requests, RejectFile(r) PROVE IInv'
  <2>1. /\ UNCHANGED row
        /\ row # NoRow /\ row.file \in disk => row.file \in disk'
        /\ \A f \in Requests : Published(f) => Published(f)'
        /\ \A f \in Requests : pc[f] = "unconfirmed" => pc'[f] = "unconfirmed"
    BY <1>3, <1>p, <1>i, <1>w DEF RejectFile, Goto, Published, NamedPublished, Detached
  <2>2. /\ \A q \in Requests : seen'[q] \in {seen[q], row}
        /\ \A q \in Requests :
             pc'[q] = "unlinking" => pc[q] = "unlinking" /\ seen'[q] = seen[q]
    BY <1>3, <1>p DEF RejectFile, Goto
  <2>3. \A f \in Requests : pc'[f] \in {"saved", "locked"} => f \in disk'
    BY <1>3, <1>p, <1>i, <1>w DEF RejectFile, Goto, Published, NamedPublished, SavedOnDisk
  <2> QED BY <1>t, <2>1, <2>2, <2>3, QuietStep
<1>4. ASSUME NEW r \in Requests, UpdateLock(r) PROVE IInv'
  <2>1. /\ UNCHANGED row
        /\ row # NoRow /\ row.file \in disk => row.file \in disk'
        /\ \A f \in Requests : Published(f) => Published(f)'
        /\ \A f \in Requests : pc[f] = "unconfirmed" => pc'[f] = "unconfirmed"
    BY <1>4, <1>p, <1>i, <1>w DEF UpdateLock, Goto, Published, NamedPublished, Detached
  <2>2. /\ \A q \in Requests : seen'[q] \in {seen[q], row}
        /\ \A q \in Requests :
             pc'[q] = "unlinking" => pc[q] = "unlinking" /\ seen'[q] = seen[q]
    BY <1>4, <1>p DEF UpdateLock, Goto
  <2>3. \A f \in Requests : pc'[f] \in {"saved", "locked"} => f \in disk'
    BY <1>4, <1>p, <1>i, <1>w DEF UpdateLock, Goto, Published, NamedPublished, SavedOnDisk
  <2> QED BY <1>t, <2>1, <2>2, <2>3, QuietStep
<1>5. ASSUME NEW r \in Requests, StatusRead(r) PROVE IInv'
  <2>1. /\ UNCHANGED row
        /\ row # NoRow /\ row.file \in disk => row.file \in disk'
        /\ \A f \in Requests : Published(f) => Published(f)'
        /\ \A f \in Requests : pc[f] = "unconfirmed" => pc'[f] = "unconfirmed"
    BY <1>5, <1>p, <1>i, <1>w DEF StatusRead, Goto, Published, NamedPublished, Detached
  <2>2. /\ \A q \in Requests : seen'[q] \in {seen[q], row}
        /\ \A q \in Requests :
             pc'[q] = "unlinking" => pc[q] = "unlinking" /\ seen'[q] = seen[q]
    BY <1>5, <1>p DEF StatusRead, Goto
  <2>3. \A f \in Requests : pc'[f] \in {"saved", "locked"} => f \in disk'
    BY <1>5, <1>p, <1>i, <1>w DEF StatusRead, Goto, Published, NamedPublished, SavedOnDisk
  <2> QED BY <1>t, <2>1, <2>2, <2>3, QuietStep
<1>6. ASSUME NEW r \in Requests, DeleteRead(r) PROVE IInv'
  <2>1. /\ UNCHANGED row
        /\ row # NoRow /\ row.file \in disk => row.file \in disk'
        /\ \A f \in Requests : Published(f) => Published(f)'
        /\ \A f \in Requests : pc[f] = "unconfirmed" => pc'[f] = "unconfirmed"
    BY <1>6, <1>p, <1>i, <1>w DEF DeleteRead, Goto, Published, NamedPublished, Detached
  <2>2. /\ \A q \in Requests : seen'[q] \in {seen[q], row}
        /\ \A q \in Requests :
             pc'[q] = "unlinking" => pc[q] = "unlinking" /\ seen'[q] = seen[q]
    BY <1>6, <1>p DEF DeleteRead, Goto
  <2>3. \A f \in Requests : pc'[f] \in {"saved", "locked"} => f \in disk'
    BY <1>6, <1>p, <1>i, <1>w DEF DeleteRead, Goto, Published, NamedPublished, SavedOnDisk
  <2> QED BY <1>t, <2>1, <2>2, <2>3, QuietStep
<1>7. ASSUME NEW r \in Requests, Unlink(r) PROVE IInv'
  <2>1. /\ UNCHANGED row
        /\ row # NoRow /\ row.file \in disk => row.file \in disk'
        /\ \A f \in Requests : Published(f) => Published(f)'
        /\ \A f \in Requests : pc[f] = "unconfirmed" => pc'[f] = "unconfirmed"
    BY <1>7, <1>p, <1>i, <1>w DEF Unlink, Goto, Published, NamedPublished, Detached
  <2>2. /\ \A q \in Requests : seen'[q] \in {seen[q], row}
        /\ \A q \in Requests :
             pc'[q] = "unlinking" => pc[q] = "unlinking" /\ seen'[q] = seen[q]
    BY <1>7, <1>p DEF Unlink, Goto
  <2>3. \A f \in Requests : pc'[f] \in {"saved", "locked"} => f \in disk'
    BY <1>7, <1>p, <1>i, <1>w DEF Unlink, Goto, Published, NamedPublished, SavedOnDisk
  <2> QED BY <1>t, <2>1, <2>2, <2>3, QuietStep
<1>8. ASSUME NEW r \in Requests, GetRead(r) PROVE IInv'
  <2>1. /\ UNCHANGED row
        /\ row # NoRow /\ row.file \in disk => row.file \in disk'
        /\ \A f \in Requests : Published(f) => Published(f)'
        /\ \A f \in Requests : pc[f] = "unconfirmed" => pc'[f] = "unconfirmed"
    BY <1>8, <1>p, <1>i, <1>w DEF GetRead, Goto, Published, NamedPublished, Detached
  <2>2. /\ \A q \in Requests : seen'[q] \in {seen[q], row}
        /\ \A q \in Requests :
             pc'[q] = "unlinking" => pc[q] = "unlinking" /\ seen'[q] = seen[q]
    BY <1>8, <1>p DEF GetRead, Goto
  <2>3. \A f \in Requests : pc'[f] \in {"saved", "locked"} => f \in disk'
    BY <1>8, <1>p, <1>i, <1>w DEF GetRead, Goto, Published, NamedPublished, SavedOnDisk
  <2> QED BY <1>t, <2>1, <2>2, <2>3, QuietStep
<1>9. ASSUME NEW r \in Requests, GetAnswer(r) PROVE IInv'
  <2>1. /\ UNCHANGED row
        /\ row # NoRow /\ row.file \in disk => row.file \in disk'
        /\ \A f \in Requests : Published(f) => Published(f)'
        /\ \A f \in Requests : pc[f] = "unconfirmed" => pc'[f] = "unconfirmed"
    BY <1>9, <1>p, <1>i, <1>w DEF GetAnswer, Goto, Published, NamedPublished, Detached
  <2>2. /\ \A q \in Requests : seen'[q] \in {seen[q], row}
        /\ \A q \in Requests :
             pc'[q] = "unlinking" => pc[q] = "unlinking" /\ seen'[q] = seen[q]
    BY <1>9, <1>p DEF GetAnswer, Goto
  <2>3. \A f \in Requests : pc'[f] \in {"saved", "locked"} => f \in disk'
    BY <1>9, <1>p, <1>i, <1>w DEF GetAnswer, Goto, Published, NamedPublished, SavedOnDisk
  <2> QED BY <1>t, <2>1, <2>2, <2>3, QuietStep
<1>10. ASSUME NEW r \in Requests, SaveFails(r) PROVE IInv'
  <2>1. /\ UNCHANGED row
        /\ row # NoRow /\ row.file \in disk => row.file \in disk'
        /\ \A f \in Requests : Published(f) => Published(f)'
        /\ \A f \in Requests : pc[f] = "unconfirmed" => pc'[f] = "unconfirmed"
    BY <1>10, <1>p, <1>i, <1>w DEF SaveFails, Goto, Published, NamedPublished, Detached
  <2>2. /\ \A q \in Requests : seen'[q] \in {seen[q], row}
        /\ \A q \in Requests :
             pc'[q] = "unlinking" => pc[q] = "unlinking" /\ seen'[q] = seen[q]
    BY <1>10, <1>p DEF SaveFails, Goto
  <2>3. \A f \in Requests : pc'[f] \in {"saved", "locked"} => f \in disk'
    BY <1>10, <1>p, <1>i, <1>w DEF SaveFails, Goto, Published, NamedPublished, SavedOnDisk
  <2> QED BY <1>t, <2>1, <2>2, <2>3, QuietStep
<1>11. ASSUME NEW r \in Requests, TransactionFails(r) PROVE IInv'
  <2>1. /\ UNCHANGED row
        /\ row # NoRow /\ row.file \in disk => row.file \in disk'
        /\ \A f \in Requests : Published(f) => Published(f)'
        /\ \A f \in Requests : pc[f] = "unconfirmed" => pc'[f] = "unconfirmed"
    BY <1>11, <1>p, <1>i, <1>w DEF TransactionFails, Goto, Published, NamedPublished, Detached
  <2>2. /\ \A q \in Requests : seen'[q] \in {seen[q], row}
        /\ \A q \in Requests :
             pc'[q] = "unlinking" => pc[q] = "unlinking" /\ seen'[q] = seen[q]
    BY <1>11, <1>p DEF TransactionFails, Goto
  <2>3. \A f \in Requests : pc'[f] \in {"saved", "locked"} => f \in disk'
    BY <1>11, <1>p, <1>i, <1>w DEF TransactionFails, Goto, Published, NamedPublished, SavedOnDisk
  <2> QED BY <1>t, <2>1, <2>2, <2>3, QuietStep
<1>12. ASSUME NEW r \in Requests, CleanupFails(r) PROVE IInv'
  <2>1. /\ UNCHANGED row
        /\ row # NoRow /\ row.file \in disk => row.file \in disk'
        /\ \A f \in Requests : Published(f) => Published(f)'
        /\ \A f \in Requests : pc[f] = "unconfirmed" => pc'[f] = "unconfirmed"
    BY <1>12, <1>p, <1>i, <1>w DEF CleanupFails, Goto, Published, NamedPublished, Detached
  <2>2. /\ \A q \in Requests : seen'[q] \in {seen[q], row}
        /\ \A q \in Requests :
             pc'[q] = "unlinking" => pc[q] = "unlinking" /\ seen'[q] = seen[q]
    BY <1>12, <1>p DEF CleanupFails, Goto
  <2>3. \A f \in Requests : pc'[f] \in {"saved", "locked"} => f \in disk'
    BY <1>12, <1>p, <1>i, <1>w DEF CleanupFails, Goto, Published, NamedPublished, SavedOnDisk
  <2> QED BY <1>t, <2>1, <2>2, <2>3, QuietStep
<1>13. ASSUME NEW r \in Requests, ShortTransactionFails(r) PROVE IInv'
  <2>1. /\ UNCHANGED row
        /\ row # NoRow /\ row.file \in disk => row.file \in disk'
        /\ \A f \in Requests : Published(f) => Published(f)'
        /\ \A f \in Requests : pc[f] = "unconfirmed" => pc'[f] = "unconfirmed"
    BY <1>13, <1>p, <1>i, <1>w DEF ShortTransactionFails, Goto, Published, NamedPublished, Detached
  <2>2. /\ \A q \in Requests : seen'[q] \in {seen[q], row}
        /\ \A q \in Requests :
             pc'[q] = "unlinking" => pc[q] = "unlinking" /\ seen'[q] = seen[q]
    BY <1>13, <1>p DEF ShortTransactionFails, Goto
  <2>3. \A f \in Requests : pc'[f] \in {"saved", "locked"} => f \in disk'
    BY <1>13, <1>p, <1>i, <1>w DEF ShortTransactionFails, Goto, Published, NamedPublished, SavedOnDisk
  <2> QED BY <1>t, <2>1, <2>2, <2>3, QuietStep
<1>14. ASSUME NEW r \in Requests, UnlinkFails(r) PROVE IInv'
  <2>1. /\ UNCHANGED row
        /\ row # NoRow /\ row.file \in disk => row.file \in disk'
        /\ \A f \in Requests : Published(f) => Published(f)'
        /\ \A f \in Requests : pc[f] = "unconfirmed" => pc'[f] = "unconfirmed"
    BY <1>14, <1>p, <1>i, <1>w DEF UnlinkFails, Goto, Published, NamedPublished, Detached
  <2>2. /\ \A q \in Requests : seen'[q] \in {seen[q], row}
        /\ \A q \in Requests :
             pc'[q] = "unlinking" => pc[q] = "unlinking" /\ seen'[q] = seen[q]
    BY <1>14, <1>p DEF UnlinkFails, Goto
  <2>3. \A f \in Requests : pc'[f] \in {"saved", "locked"} => f \in disk'
    BY <1>14, <1>p, <1>i, <1>w DEF UnlinkFails, Goto, Published, NamedPublished, SavedOnDisk
  <2> QED BY <1>t, <2>1, <2>2, <2>3, QuietStep
<1>15. ASSUME Crash PROVE IInv'
  <2>1. /\ UNCHANGED <<row, disk, seen>>
        /\ \A f \in Requests : pc'[f] = IF pc[f] \in Progress THEN "gone" ELSE pc[f]
    BY <1>15 DEF Crash
  <2>2. NamedPublished' /\ OneId' /\ Detached' /\ SavedOnDisk' /\ RowHasFile'
    BY <2>1, <1>p, <1>i, <1>w
    DEF NamedPublished, OneId, Detached, SavedOnDisk, RowHasFile, Published, Progress
  <2> QED BY <1>t, <2>2 DEF IInv
<1>16. ASSUME UNCHANGED vars PROVE IInv'
  BY <1>16, <1>t, <1>i
  DEF vars, IInv, NamedPublished, OneId, Detached, SavedOnDisk, RowHasFile, Published
<1>17. ASSUME NEW r \in Requests, CreateCommit(r) PROVE IInv'
  <2>1. NamedPublished'
    BY <1>17, <1>p, <1>i, <1>w DEF CreateCommit, Goto, NamedPublished, Published, Rows
  <2>2. OneId'
    BY <1>17, <1>p, <1>i, <1>w DEF CreateCommit, Goto, OneId, NamedPublished, Published, Rows
  <2>3. Detached'
    BY <1>17, <1>p, <1>i, <1>w DEF CreateCommit, Goto, OneId, Detached, NamedPublished, Published, Rows
  <2>4. RowHasFile'
    BY <1>17, <1>p, <1>i, <1>w DEF CreateCommit, Goto, RowHasFile, SavedOnDisk, NamedPublished, Published, Rows
  <2>5. SavedOnDisk'
    BY <1>17, <1>p, <1>i, <1>w DEF CreateCommit, Goto, SavedOnDisk
  <2> QED BY <1>t, <2>1, <2>2, <2>3, <2>4, <2>5 DEF IInv
<1>18. ASSUME NEW r \in Requests, UpdateCommit(r) PROVE IInv'
  <2>1. NamedPublished'
    BY <1>18, <1>p, <1>i, <1>w DEF UpdateCommit, Goto, NamedPublished, Published, Rows
  <2>2. OneId'
    BY <1>18, <1>p, <1>i, <1>w DEF UpdateCommit, Goto, OneId, NamedPublished, Published, Rows
  <2>3. Detached'
    BY <1>18, <1>p, <1>i, <1>w DEF UpdateCommit, Goto, OneId, Detached, NamedPublished, Published, Rows
  <2>4. RowHasFile'
    BY <1>18, <1>p, <1>i, <1>w DEF UpdateCommit, Goto, RowHasFile, SavedOnDisk, NamedPublished, Published, Rows
  <2>5. SavedOnDisk'
    BY <1>18, <1>p, <1>i, <1>w DEF UpdateCommit, Goto, SavedOnDisk
  <2> QED BY <1>t, <2>1, <2>2, <2>3, <2>4, <2>5 DEF IInv
<1>19. ASSUME NEW r \in Requests, StatusCommit(r) PROVE IInv'
  <2>1. NamedPublished'
    BY <1>19, <1>p, <1>i, <1>w DEF StatusCommit, Goto, NamedPublished, Published, Rows
  <2>2. OneId'
    BY <1>19, <1>p, <1>i, <1>w DEF StatusCommit, Goto, OneId, NamedPublished, Published, Rows
  <2>3. Detached'
    BY <1>19, <1>p, <1>i, <1>w DEF StatusCommit, Goto, OneId, Detached, NamedPublished, Published, Rows
  <2>4. RowHasFile'
    BY <1>19, <1>p, <1>i, <1>w DEF StatusCommit, Goto, RowHasFile, SavedOnDisk, NamedPublished, Published, Rows
  <2>5. SavedOnDisk'
    BY <1>19, <1>p, <1>i, <1>w DEF StatusCommit, Goto, SavedOnDisk
  <2> QED BY <1>t, <2>1, <2>2, <2>3, <2>4, <2>5 DEF IInv
<1>20. ASSUME NEW r \in Requests, DeleteCommit(r) PROVE IInv'
  <2>1. NamedPublished'
    BY <1>20, <1>p, <1>i, <1>w DEF DeleteCommit, Goto, NamedPublished, Published, Rows
  <2>2. OneId'
    BY <1>20, <1>p, <1>i, <1>w DEF DeleteCommit, Goto, OneId, NamedPublished, Published, Rows
  <2>3. Detached'
    BY <1>20, <1>p, <1>i, <1>w DEF DeleteCommit, Goto, OneId, Detached, NamedPublished, Published, Rows
  <2>4. RowHasFile'
    BY <1>20, <1>p, <1>i, <1>w DEF DeleteCommit, Goto, RowHasFile, SavedOnDisk, NamedPublished, Published, Rows
  <2>5. SavedOnDisk'
    BY <1>20, <1>p, <1>i, <1>w DEF DeleteCommit, Goto, SavedOnDisk
  <2> QED BY <1>t, <2>1, <2>2, <2>3, <2>4, <2>5 DEF IInv
<1>21. ASSUME NEW r \in Requests, CommitUnconfirmed(r) PROVE IInv'
  <2>1. /\ \A f \in Requests : pc'[f] = IF f = r THEN "unconfirmed" ELSE pc[f]
        /\ UNCHANGED seen
    BY <1>21, <1>p DEF CommitUnconfirmed, Goto
  <2>2. CASE pc[r] = "read"
    <3>1. row' = NoRow /\ disk' = disk
      BY <1>21, <2>2 DEF CommitUnconfirmed
    <3>2. NamedPublished' /\ OneId' /\ Detached' /\ SavedOnDisk' /\ RowHasFile'
      BY <2>1, <3>1, <1>i, <1>p, <1>w
      DEF NamedPublished, OneId, Detached, SavedOnDisk, RowHasFile, Published
    <3> QED BY <1>t, <3>2 DEF IInv
  <2>3. CASE pc[r] # "read"
    <3>1. /\ row' \in Rows /\ row'.file = r /\ pc[r] \in {"saved", "locked"}
          /\ disk' = disk \ {r}
          /\ row # NoRow => row'.id = row.id
      <4>1. CASE pc[r] = "saved"
        <5>1. row = NoRow /\ row' = [id |-> r, file |-> r, active |-> TRUE]
              /\ disk' = disk \ {r}
          BY <1>21, <4>1 DEF CommitUnconfirmed
        <5>2. row' \in Rows /\ row'.file = r
          BY <5>1 DEF Rows
        <5> QED BY <4>1, <5>1, <5>2
      <4>2. CASE pc[r] = "locked"
        <5>1. row \in Rows /\ row' = [row EXCEPT !.file = r, !.active = TRUE]
          BY <1>21, <1>p, <4>2 DEF CommitUnconfirmed
        <5>2. row' \in Rows /\ row'.file = r /\ row'.id = row.id
          BY <5>1 DEF Rows
        <5> QED BY <1>21, <4>2, <5>2 DEF CommitUnconfirmed
      <4> QED BY <1>21, <2>3, <4>1, <4>2 DEF CommitUnconfirmed
    <3>2. \A q \in Requests : seen[q] # NoRow => seen[q].file # r
      BY <3>1, <1>i DEF NamedPublished, Published
    <3>3. NamedPublished'
      BY <2>1, <3>1, <3>2, <1>p, <1>i, <1>w DEF NamedPublished, Published
    <3>4. OneId' /\ Detached'
      BY <2>1, <3>1, <3>2, <1>p, <1>i DEF OneId, Detached
    <3>5. SavedOnDisk' /\ RowHasFile'
      BY <2>1, <3>1, <1>i DEF SavedOnDisk, RowHasFile
    <3> QED BY <1>t, <3>3, <3>4, <3>5 DEF IInv
  <2> QED BY <2>2, <2>3
<1> QED
  BY <1>1, <1>2, <1>3, <1>4, <1>5, <1>6, <1>7, <1>8, <1>9, <1>10, <1>11, <1>12,
     <1>13, <1>14, <1>15, <1>16, <1>17, <1>18, <1>19, <1>20, <1>21
  DEF Next, Handler, Fault

\* Whatever requests run, fail, or die with the process, a committed row never
\* names a file that is not there, unless a COMMIT's reply was lost.
THEOREM RowHasFileAlways == Spec => []RowHasFile
<1>1. IInv => RowHasFile
  BY DEF IInv
<1> QED BY <1>1, InitIInv, NextIInv, PTL DEF Spec
-----------------------------------------------------------------------------
(* Files nobody names *)

\* No delete has been made.
Undeleted == \A r \in Requests : Op[r] = "delete" => pc[r] = "new"

\* Request r alone moves, and the files it no longer answers for are gone,
\* leaked or named by the row.
LEMMA OneAnswersFor ==
  ASSUME OrphanOnlyAfterFailure, NEW r \in Requests,
         \A q \in Requests \ {r} : pc'[q] = pc[q] /\ seen'[q] = seen[q],
         leaked \subseteq leaked',
         \A f \in disk' :
           \/ f \in disk /\ f \notin Owned(r) /\ ~(row # NoRow /\ row.file = f)
           \/ f \in Owned(r)' \/ f \in leaked'
           \/ row' # NoRow /\ row'.file = f
  PROVE  OrphanOnlyAfterFailure'
<1>1. \A q \in Requests \ {r} : Owned(q)' = Owned(q)
  BY DEF Owned
<1> QED BY <1>1 DEF OrphanOnlyAfterFailure

\* Every step but a delete's leaves a file to somebody, the row or a failure.
LEMMA NextOrphan ==
  ASSUME TypeInv, [Next]_vars, Undeleted => OrphanOnlyAfterFailure
  PROVE  Undeleted' => OrphanOnlyAfterFailure'
<1> SUFFICES ASSUME Undeleted' PROVE OrphanOnlyAfterFailure'
  OBVIOUS
<1>p. /\ pc \in [Requests -> {"new"} \cup Progress \cup Answers]
      /\ seen \in [Requests -> Rows \cup {NoRow}]
      /\ row \in Rows \cup {NoRow}
      /\ disk \subseteq Requests
      /\ \A r \in Requests : pc[r] \in {"locked", "read", "unlinking"} => seen[r] \in Rows
      /\ \A r \in Requests : pc[r] = "locked" => seen[r] = row
  BY DEF TypeInv, TypeOK, InHand
<1>n. NoRow \notin Rows
  OBVIOUS
<1>1. ASSUME NEW r \in Requests, UploadCheck(r) PROVE OrphanOnlyAfterFailure'
  <2>1. Undeleted
    BY <1>1, <1>p DEF UploadCheck, Undeleted, Goto
  <2>2. \A q \in Requests \ {r} : pc'[q] = pc[q] /\ seen'[q] = seen[q]
    BY <1>1, <1>p DEF UploadCheck, Goto
  <2>3. leaked \subseteq leaked'
    BY <1>1 DEF UploadCheck
  <2>4. \A f \in disk' :
           \/ f \in disk /\ f \notin Owned(r) /\ ~(row # NoRow /\ row.file = f)
           \/ f \in Owned(r)' \/ f \in leaked'
           \/ row' # NoRow /\ row'.file = f
    BY <1>1, <2>1, <1>p, <1>n DEF UploadCheck, Goto, Owned, Undeleted, Rows
  <2> QED BY <2>1, <2>2, <2>3, <2>4, OneAnswersFor
<1>2. ASSUME NEW r \in Requests, SaveFile(r) PROVE OrphanOnlyAfterFailure'
  <2>1. Undeleted
    BY <1>2, <1>p DEF SaveFile, Undeleted, Goto
  <2>2. \A q \in Requests \ {r} : pc'[q] = pc[q] /\ seen'[q] = seen[q]
    BY <1>2, <1>p DEF SaveFile, Goto
  <2>3. leaked \subseteq leaked'
    BY <1>2 DEF SaveFile
  <2>4. \A f \in disk' :
           \/ f \in disk /\ f \notin Owned(r) /\ ~(row # NoRow /\ row.file = f)
           \/ f \in Owned(r)' \/ f \in leaked'
           \/ row' # NoRow /\ row'.file = f
    BY <1>2, <2>1, <1>p, <1>n DEF SaveFile, Goto, Owned, Undeleted, Rows
  <2> QED BY <2>1, <2>2, <2>3, <2>4, OneAnswersFor
<1>3. ASSUME NEW r \in Requests, RejectFile(r) PROVE OrphanOnlyAfterFailure'
  <2>1. Undeleted
    BY <1>3, <1>p DEF RejectFile, Undeleted, Goto
  <2>2. \A q \in Requests \ {r} : pc'[q] = pc[q] /\ seen'[q] = seen[q]
    BY <1>3, <1>p DEF RejectFile, Goto
  <2>3. leaked \subseteq leaked'
    BY <1>3 DEF RejectFile
  <2>4. \A f \in disk' :
           \/ f \in disk /\ f \notin Owned(r) /\ ~(row # NoRow /\ row.file = f)
           \/ f \in Owned(r)' \/ f \in leaked'
           \/ row' # NoRow /\ row'.file = f
    BY <1>3, <2>1, <1>p, <1>n DEF RejectFile, Goto, Owned, Undeleted, Rows
  <2> QED BY <2>1, <2>2, <2>3, <2>4, OneAnswersFor
<1>4. ASSUME NEW r \in Requests, CreateCommit(r) PROVE OrphanOnlyAfterFailure'
  <2>1. Undeleted
    BY <1>4, <1>p DEF CreateCommit, Undeleted, Goto
  <2>2. \A q \in Requests \ {r} : pc'[q] = pc[q] /\ seen'[q] = seen[q]
    BY <1>4, <1>p DEF CreateCommit, Goto
  <2>3. leaked \subseteq leaked'
    BY <1>4 DEF CreateCommit
  <2>4. \A f \in disk' :
           \/ f \in disk /\ f \notin Owned(r) /\ ~(row # NoRow /\ row.file = f)
           \/ f \in Owned(r)' \/ f \in leaked'
           \/ row' # NoRow /\ row'.file = f
    <3>1. pc[r] = "saved" /\ Owned(r) = {r}
      BY <1>4 DEF CreateCommit, Owned
    <3>2. CASE row = NoRow
      <4>1. disk' = disk /\ row' = [id |-> r, file |-> r, active |-> TRUE]
        BY <1>4, <3>2 DEF CreateCommit
      <4>2. row' \in Rows /\ row'.file = r
        BY <4>1 DEF Rows
      <4> QED BY <3>1, <3>2, <4>1, <4>2, <1>n
    <3>3. CASE row # NoRow
      BY <1>4, <3>1, <3>3 DEF CreateCommit
    <3> QED BY <3>2, <3>3
  <2> QED BY <2>1, <2>2, <2>3, <2>4, OneAnswersFor
<1>5. ASSUME NEW r \in Requests, UpdateLock(r) PROVE OrphanOnlyAfterFailure'
  <2>1. Undeleted
    BY <1>5, <1>p DEF UpdateLock, Undeleted, Goto
  <2>2. \A q \in Requests \ {r} : pc'[q] = pc[q] /\ seen'[q] = seen[q]
    BY <1>5, <1>p DEF UpdateLock, Goto
  <2>3. leaked \subseteq leaked'
    BY <1>5 DEF UpdateLock
  <2>4. \A f \in disk' :
           \/ f \in disk /\ f \notin Owned(r) /\ ~(row # NoRow /\ row.file = f)
           \/ f \in Owned(r)' \/ f \in leaked'
           \/ row' # NoRow /\ row'.file = f
    BY <1>5, <2>1, <1>p, <1>n DEF UpdateLock, Goto, Owned, Undeleted, Rows
  <2> QED BY <2>1, <2>2, <2>3, <2>4, OneAnswersFor
<1>6. ASSUME NEW r \in Requests, UpdateCommit(r) PROVE OrphanOnlyAfterFailure'
  <2>1. Undeleted
    BY <1>6, <1>p DEF UpdateCommit, Undeleted, Goto
  <2>2. \A q \in Requests \ {r} : pc'[q] = pc[q] /\ seen'[q] = seen[q]
    BY <1>6, <1>p DEF UpdateCommit, Goto
  <2>3. leaked \subseteq leaked'
    BY <1>6 DEF UpdateCommit
  <2>4. \A f \in disk' :
           \/ f \in disk /\ f \notin Owned(r) /\ ~(row # NoRow /\ row.file = f)
           \/ f \in Owned(r)' \/ f \in leaked'
           \/ row' # NoRow /\ row'.file = f
    <3>1. /\ pc[r] = "locked" /\ Owned(r) = {r}
          /\ row \in Rows /\ row = seen[r]
      BY <1>6, <1>p DEF UpdateCommit, Owned
    <3>2. disk' = disk /\ Owned(r)' = {row.file}
      BY <1>6, <1>p, <3>1 DEF UpdateCommit, Owned, Goto
    <3>3. row' # NoRow /\ row'.file = r
      BY <1>6, <3>1, <1>n DEF UpdateCommit, Rows
    <3> QED BY <3>1, <3>2, <3>3
  <2> QED BY <2>1, <2>2, <2>3, <2>4, OneAnswersFor
<1>7. ASSUME NEW r \in Requests, StatusRead(r) PROVE OrphanOnlyAfterFailure'
  <2>1. Undeleted
    BY <1>7, <1>p DEF StatusRead, Undeleted, Goto
  <2>2. \A q \in Requests \ {r} : pc'[q] = pc[q] /\ seen'[q] = seen[q]
    BY <1>7, <1>p DEF StatusRead, Goto
  <2>3. leaked \subseteq leaked'
    BY <1>7 DEF StatusRead
  <2>4. \A f \in disk' :
           \/ f \in disk /\ f \notin Owned(r) /\ ~(row # NoRow /\ row.file = f)
           \/ f \in Owned(r)' \/ f \in leaked'
           \/ row' # NoRow /\ row'.file = f
    BY <1>7, <2>1, <1>p, <1>n DEF StatusRead, Goto, Owned, Undeleted, Rows
  <2> QED BY <2>1, <2>2, <2>3, <2>4, OneAnswersFor
<1>8. ASSUME NEW r \in Requests, StatusCommit(r) PROVE OrphanOnlyAfterFailure'
  <2>1. Undeleted
    BY <1>8, <1>p DEF StatusCommit, Undeleted, Goto
  <2>2. \A q \in Requests \ {r} : pc'[q] = pc[q] /\ seen'[q] = seen[q]
    BY <1>8, <1>p DEF StatusCommit, Goto
  <2>3. leaked \subseteq leaked'
    BY <1>8 DEF StatusCommit
  <2>4. \A f \in disk' :
           \/ f \in disk /\ f \notin Owned(r) /\ ~(row # NoRow /\ row.file = f)
           \/ f \in Owned(r)' \/ f \in leaked'
           \/ row' # NoRow /\ row'.file = f
    <3>1. disk' = disk /\ pc[r] = "read"
      BY <1>8 DEF StatusCommit
    <3>2. row' = row \/ (row \in Rows /\ row' = [row EXCEPT !.active = Op[r] = "activate"])
      BY <1>8, <1>p DEF StatusCommit
    <3>3. row # NoRow => row' # NoRow /\ row'.file = row.file
      <4>1. CASE row' = row
        BY <4>1
      <4>2. CASE row \in Rows /\ row' = [row EXCEPT !.active = Op[r] = "activate"]
        <5>1. row' \in Rows /\ row'.file = row.file
          BY <4>2 DEF Rows
        <5> QED BY <5>1, <1>n
      <4> QED BY <3>2, <4>1, <4>2
    <3>4. Owned(r) = {}
      BY <3>1 DEF Owned
    <3> QED BY <3>1, <3>3, <3>4
  <2> QED BY <2>1, <2>2, <2>3, <2>4, OneAnswersFor
<1>9. ASSUME NEW r \in Requests, DeleteRead(r) PROVE OrphanOnlyAfterFailure'
  <2>1. Undeleted
    BY <1>9, <1>p DEF DeleteRead, Undeleted, Goto
  <2>2. \A q \in Requests \ {r} : pc'[q] = pc[q] /\ seen'[q] = seen[q]
    BY <1>9, <1>p DEF DeleteRead, Goto
  <2>3. leaked \subseteq leaked'
    BY <1>9 DEF DeleteRead
  <2>4. \A f \in disk' :
           \/ f \in disk /\ f \notin Owned(r) /\ ~(row # NoRow /\ row.file = f)
           \/ f \in Owned(r)' \/ f \in leaked'
           \/ row' # NoRow /\ row'.file = f
    BY <1>9, <2>1, <1>p, <1>n DEF DeleteRead, Goto, Owned, Undeleted, Rows
  <2> QED BY <2>1, <2>2, <2>3, <2>4, OneAnswersFor
<1>10. ASSUME NEW r \in Requests, DeleteCommit(r) PROVE OrphanOnlyAfterFailure'
  <2>1. Undeleted
    BY <1>10, <1>p DEF DeleteCommit, Undeleted, Goto
  <2>2. \A q \in Requests \ {r} : pc'[q] = pc[q] /\ seen'[q] = seen[q]
    BY <1>10, <1>p DEF DeleteCommit, Goto
  <2>3. leaked \subseteq leaked'
    BY <1>10 DEF DeleteCommit
  <2>4. \A f \in disk' :
           \/ f \in disk /\ f \notin Owned(r) /\ ~(row # NoRow /\ row.file = f)
           \/ f \in Owned(r)' \/ f \in leaked'
           \/ row' # NoRow /\ row'.file = f
    BY <1>10, <2>1, <1>p, <1>n DEF DeleteCommit, Goto, Owned, Undeleted, Rows
  <2> QED BY <2>1, <2>2, <2>3, <2>4, OneAnswersFor
<1>11. ASSUME NEW r \in Requests, Unlink(r) PROVE OrphanOnlyAfterFailure'
  <2>1. Undeleted
    BY <1>11, <1>p DEF Unlink, Undeleted, Goto
  <2>2. \A q \in Requests \ {r} : pc'[q] = pc[q] /\ seen'[q] = seen[q]
    BY <1>11, <1>p DEF Unlink, Goto
  <2>3. leaked \subseteq leaked'
    BY <1>11 DEF Unlink
  <2>4. \A f \in disk' :
           \/ f \in disk /\ f \notin Owned(r) /\ ~(row # NoRow /\ row.file = f)
           \/ f \in Owned(r)' \/ f \in leaked'
           \/ row' # NoRow /\ row'.file = f
    BY <1>11, <2>1, <1>p, <1>n DEF Unlink, Goto, Owned, Undeleted, Rows
  <2> QED BY <2>1, <2>2, <2>3, <2>4, OneAnswersFor
<1>12. ASSUME NEW r \in Requests, GetRead(r) PROVE OrphanOnlyAfterFailure'
  <2>1. Undeleted
    BY <1>12, <1>p DEF GetRead, Undeleted, Goto
  <2>2. \A q \in Requests \ {r} : pc'[q] = pc[q] /\ seen'[q] = seen[q]
    BY <1>12, <1>p DEF GetRead, Goto
  <2>3. leaked \subseteq leaked'
    BY <1>12 DEF GetRead
  <2>4. \A f \in disk' :
           \/ f \in disk /\ f \notin Owned(r) /\ ~(row # NoRow /\ row.file = f)
           \/ f \in Owned(r)' \/ f \in leaked'
           \/ row' # NoRow /\ row'.file = f
    BY <1>12, <2>1, <1>p, <1>n DEF GetRead, Goto, Owned, Undeleted, Rows
  <2> QED BY <2>1, <2>2, <2>3, <2>4, OneAnswersFor
<1>13. ASSUME NEW r \in Requests, GetAnswer(r) PROVE OrphanOnlyAfterFailure'
  <2>1. Undeleted
    BY <1>13, <1>p DEF GetAnswer, Undeleted, Goto
  <2>2. \A q \in Requests \ {r} : pc'[q] = pc[q] /\ seen'[q] = seen[q]
    BY <1>13, <1>p DEF GetAnswer, Goto
  <2>3. leaked \subseteq leaked'
    BY <1>13 DEF GetAnswer
  <2>4. \A f \in disk' :
           \/ f \in disk /\ f \notin Owned(r) /\ ~(row # NoRow /\ row.file = f)
           \/ f \in Owned(r)' \/ f \in leaked'
           \/ row' # NoRow /\ row'.file = f
    BY <1>13, <2>1, <1>p, <1>n DEF GetAnswer, Goto, Owned, Undeleted, Rows
  <2> QED BY <2>1, <2>2, <2>3, <2>4, OneAnswersFor
<1>14. ASSUME NEW r \in Requests, SaveFails(r) PROVE OrphanOnlyAfterFailure'
  <2>1. Undeleted
    BY <1>14, <1>p DEF SaveFails, Undeleted, Goto
  <2>2. \A q \in Requests \ {r} : pc'[q] = pc[q] /\ seen'[q] = seen[q]
    BY <1>14, <1>p DEF SaveFails, Goto
  <2>3. leaked \subseteq leaked'
    BY <1>14 DEF SaveFails
  <2>4. \A f \in disk' :
           \/ f \in disk /\ f \notin Owned(r) /\ ~(row # NoRow /\ row.file = f)
           \/ f \in Owned(r)' \/ f \in leaked'
           \/ row' # NoRow /\ row'.file = f
    BY <1>14, <2>1, <1>p, <1>n DEF SaveFails, Goto, Owned, Undeleted, Rows
  <2> QED BY <2>1, <2>2, <2>3, <2>4, OneAnswersFor
<1>15. ASSUME NEW r \in Requests, TransactionFails(r) PROVE OrphanOnlyAfterFailure'
  <2>1. Undeleted
    BY <1>15, <1>p DEF TransactionFails, Undeleted, Goto
  <2>2. \A q \in Requests \ {r} : pc'[q] = pc[q] /\ seen'[q] = seen[q]
    BY <1>15, <1>p DEF TransactionFails, Goto
  <2>3. leaked \subseteq leaked'
    BY <1>15 DEF TransactionFails
  <2>4. \A f \in disk' :
           \/ f \in disk /\ f \notin Owned(r) /\ ~(row # NoRow /\ row.file = f)
           \/ f \in Owned(r)' \/ f \in leaked'
           \/ row' # NoRow /\ row'.file = f
    BY <1>15, <2>1, <1>p, <1>n DEF TransactionFails, Goto, Owned, Undeleted, Rows
  <2> QED BY <2>1, <2>2, <2>3, <2>4, OneAnswersFor
<1>16. ASSUME NEW r \in Requests, CleanupFails(r) PROVE OrphanOnlyAfterFailure'
  <2>1. Undeleted
    BY <1>16, <1>p DEF CleanupFails, Undeleted, Goto
  <2>2. \A q \in Requests \ {r} : pc'[q] = pc[q] /\ seen'[q] = seen[q]
    BY <1>16, <1>p DEF CleanupFails, Goto
  <2>3. leaked \subseteq leaked'
    BY <1>16 DEF CleanupFails
  <2>4. \A f \in disk' :
           \/ f \in disk /\ f \notin Owned(r) /\ ~(row # NoRow /\ row.file = f)
           \/ f \in Owned(r)' \/ f \in leaked'
           \/ row' # NoRow /\ row'.file = f
    BY <1>16, <2>1, <1>p, <1>n DEF CleanupFails, Goto, Owned, Undeleted, Rows
  <2> QED BY <2>1, <2>2, <2>3, <2>4, OneAnswersFor
<1>17. ASSUME NEW r \in Requests, CommitUnconfirmed(r) PROVE OrphanOnlyAfterFailure'
  <2>1. Undeleted
    BY <1>17, <1>p DEF CommitUnconfirmed, Undeleted, Goto
  <2>2. \A q \in Requests \ {r} : pc'[q] = pc[q] /\ seen'[q] = seen[q]
    BY <1>17, <1>p DEF CommitUnconfirmed, Goto
  <2>3. leaked \subseteq leaked'
    BY <1>17 DEF CommitUnconfirmed
  <2>4. \A f \in disk' :
           \/ f \in disk /\ f \notin Owned(r) /\ ~(row # NoRow /\ row.file = f)
           \/ f \in Owned(r)' \/ f \in leaked'
           \/ row' # NoRow /\ row'.file = f
    BY <1>17, <2>1, <1>p, <1>n DEF CommitUnconfirmed, Goto, Owned, Undeleted, Rows
  <2> QED BY <2>1, <2>2, <2>3, <2>4, OneAnswersFor
<1>18. ASSUME NEW r \in Requests, ShortTransactionFails(r) PROVE OrphanOnlyAfterFailure'
  <2>1. Undeleted
    BY <1>18, <1>p DEF ShortTransactionFails, Undeleted, Goto
  <2>2. \A q \in Requests \ {r} : pc'[q] = pc[q] /\ seen'[q] = seen[q]
    BY <1>18, <1>p DEF ShortTransactionFails, Goto
  <2>3. leaked \subseteq leaked'
    BY <1>18 DEF ShortTransactionFails
  <2>4. \A f \in disk' :
           \/ f \in disk /\ f \notin Owned(r) /\ ~(row # NoRow /\ row.file = f)
           \/ f \in Owned(r)' \/ f \in leaked'
           \/ row' # NoRow /\ row'.file = f
    BY <1>18, <2>1, <1>p, <1>n DEF ShortTransactionFails, Goto, Owned, Undeleted, Rows
  <2> QED BY <2>1, <2>2, <2>3, <2>4, OneAnswersFor
<1>19. ASSUME NEW r \in Requests, UnlinkFails(r) PROVE OrphanOnlyAfterFailure'
  <2>1. Undeleted
    BY <1>19, <1>p DEF UnlinkFails, Undeleted, Goto
  <2>2. \A q \in Requests \ {r} : pc'[q] = pc[q] /\ seen'[q] = seen[q]
    BY <1>19, <1>p DEF UnlinkFails, Goto
  <2>3. leaked \subseteq leaked'
    BY <1>19 DEF UnlinkFails
  <2>4. \A f \in disk' :
           \/ f \in disk /\ f \notin Owned(r) /\ ~(row # NoRow /\ row.file = f)
           \/ f \in Owned(r)' \/ f \in leaked'
           \/ row' # NoRow /\ row'.file = f
    BY <1>19, <2>1, <1>p, <1>n DEF UnlinkFails, Goto, Owned, Undeleted, Rows
  <2> QED BY <2>1, <2>2, <2>3, <2>4, OneAnswersFor
<1>20. ASSUME Crash PROVE OrphanOnlyAfterFailure'
  <2>1. Undeleted
    BY <1>20, <1>p DEF Crash, Undeleted, Progress
  <2> QED BY <1>20, <2>1 DEF Crash, OrphanOnlyAfterFailure
<1>21. ASSUME UNCHANGED vars PROVE OrphanOnlyAfterFailure'
  BY <1>21 DEF vars, OrphanOnlyAfterFailure, Undeleted, Owned
<1> QED
  BY <1>1, <1>2, <1>3, <1>4, <1>5, <1>6, <1>7, <1>8, <1>9, <1>10, <1>11, <1>12,
     <1>13, <1>14, <1>15, <1>16, <1>17, <1>18, <1>19, <1>20, <1>21
  DEF Next, Handler, Fault

\* Whatever creates, updates and status changes run together, fail or die with
\* the process: until a delete is made, every file on the disk is named by the
\* row, in some request's hands, or left by a failure.
THEOREM UploadsLeaveNoOrphanAlways == Spec => []UploadsLeaveNoOrphan
<1>1. Init => UploadsLeaveNoOrphan
  BY DEF Init, UploadsLeaveNoOrphan, OrphanOnlyAfterFailure
<1>2. TypeInv /\ UploadsLeaveNoOrphan /\ [Next]_vars => UploadsLeaveNoOrphan'
  BY NextOrphan DEF UploadsLeaveNoOrphan, Undeleted
<1> QED BY <1>1, <1>2, InitTypeInv, NextTypeInv, PTL DEF Spec
=============================================================================
