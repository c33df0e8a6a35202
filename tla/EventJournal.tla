----------------------------- MODULE EventJournal -----------------------------
(***************************************************************************)
(* The table events as everything else sees it: a row for each event_id,   *)
(* written once (projections/models/journal.py).                           *)
(***************************************************************************)
CONSTANTS
  EventIds,    \* event_id values
  Contents,    \* bodies, as far as is_same_event tells them apart
  NoContent    \* event_id not journaled

VARIABLE journal   \* committed rows: event_id -> body

Init == journal = [e \in EventIds |-> NoContent]

Record(e, c) ==
  /\ journal[e] = NoContent
  /\ journal' = [journal EXCEPT ![e] = c]

Next == \E e \in EventIds, c \in Contents : Record(e, c)

Spec == Init /\ [][Next]_journal
=============================================================================
