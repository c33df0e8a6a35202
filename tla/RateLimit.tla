------------------------------ MODULE RateLimit ------------------------------
(***************************************************************************)
(* The HTTP ingest rate limit: fixed windows per client key, kept in the   *)
(* process (domains/ingestion/rate_limit.py).  _consume has no await, so   *)
(* one call is one step.  Time is counted in ticks, a fraction of the      *)
(* second time.time() is cut to in the Retry-After header; an instant is   *)
(* its window and the ticks since the window began.                        *)
(*                                                                         *)
(* time.time() is the host's clock and may be set back, and a restart of   *)
(* the process forgets all buckets.                                        *)
(***************************************************************************)
EXTENDS Integers, FiniteSets

CONSTANTS
  Keys,             \* client keys: an allowlisted origin or an address
  Limit,            \* settings.ingest_rate_limit, positive where it is on
  WindowSeconds,    \* settings.ingest_rate_limit_window_seconds
  MaxKeys,          \* settings.ingest_rate_limit_max_keys
  TicksPerSecond,
  MaxWindow,        \* bound: the last window of the clock
  MaxLosses,        \* bound: restarts, and times the clock is set back
  NoRefusal

ASSUME RateLimitAssumption ==
  /\ IsFiniteSet(Keys)
  /\ Limit \in Nat \ {0}
  /\ WindowSeconds \in Nat \ {0}
  /\ MaxKeys \in Nat \ {0}
  /\ TicksPerSecond \in Nat \ {0}
  /\ MaxWindow \in Nat
  /\ MaxLosses \in Nat

VARIABLES
  now,        \* time.time(): its window, and the ticks since that began
  store,      \* _store: key -> window_id and count
  admitted,   \* ghost: requests admitted of each key, by window
  losses,     \* ghost: how often the clock was set back or the process died
  refusal     \* ghost: the 429 just answered, if any: its key and Retry-After

vars == <<now, store, admitted, losses, refusal>>

Window == WindowSeconds * TicksPerSecond
Windows == 0 .. MaxWindow
Offsets == 0 .. Window - 1

\* _evict_expired: the buckets that remain.
Live == [k \in {k \in DOMAIN store : store[k].window = now.window} |-> store[k]]

RetryAfter ==
  LET seconds == (Window - now.offset) \div TicksPerSecond
  IN IF seconds < 1 THEN 1 ELSE seconds

-----------------------------------------------------------------------------
Init ==
  /\ now = [window |-> 0, offset |-> 0]
  /\ store = [k \in {} |-> 0]
  /\ admitted = [k \in Keys |-> [w \in Windows |-> 0]]
  /\ losses = 0
  /\ refusal = NoRefusal

Tick ==
  /\ \/ /\ now.offset + 1 \in Offsets
        /\ now' = [now EXCEPT !.offset = @ + 1]
     \/ /\ now.offset = Window - 1 /\ now.window + 1 \in Windows
        /\ now' = [window |-> now.window + 1, offset |-> 0]
  /\ refusal' = NoRefusal
  /\ UNCHANGED <<store, admitted, losses>>

\* The host's clock is corrected.
SetBack ==
  /\ losses < MaxLosses
  /\ \E w \in 0 .. now.window, o \in Offsets :
       /\ w = now.window => o < now.offset
       /\ now' = [window |-> w, offset |-> o]
  /\ losses' = losses + 1
  /\ refusal' = NoRefusal
  /\ UNCHANGED <<store, admitted>>

\* The process dies and is started again.
Restart ==
  /\ losses < MaxLosses
  /\ store' = [k \in {} |-> 0]
  /\ losses' = losses + 1
  /\ refusal' = NoRefusal
  /\ UNCHANGED <<now, admitted>>

\* Of a bucket that was not evicted, hence of the current window.
Count(k) == IF k \in DOMAIN Live THEN Live[k].count ELSE 0

\* Bug: a new bucket is created in a full store.
BugAlwaysRoom(k) == Count(k) < Limit

\* Bug: one request more than the limit.
BugAdmitsOneMore(k) ==
  /\ k \in DOMAIN Live \/ Cardinality(DOMAIN Live) < MaxKeys
  /\ Count(k) <= Limit

\* A new key needs room in the store, and any key a count below the limit.
Admits(k) ==
  /\ k \in DOMAIN Live \/ Cardinality(DOMAIN Live) < MaxKeys
  /\ Count(k) < Limit

\* _consume, admitting: the request goes on to the ingest.
Accept(k) ==
  /\ Admits(k)
  /\ store' = [j \in DOMAIN Live \cup {k} |->
                 IF j = k THEN [window |-> now.window, count |-> Count(k) + 1]
                 ELSE Live[j]]
  /\ admitted' = [admitted EXCEPT ![k][now.window] = @ + 1]
  /\ refusal' = NoRefusal
  /\ UNCHANGED <<now, losses>>

\* _consume, refusing: 429 with Retry-After.  Eviction happens all the same.
Refuse(k) ==
  /\ ~Admits(k)
  /\ store' = Live
  /\ refusal' = [key |-> k, retryAfter |-> RetryAfter]
  /\ UNCHANGED <<now, admitted, losses>>

Next ==
  \/ Tick \/ SetBack \/ Restart
  \/ \E k \in Keys : Accept(k) \/ Refuse(k)

Spec == Init /\ [][Next]_vars

-----------------------------------------------------------------------------
(* Properties *)

\* The store never outgrows ingest_rate_limit_max_keys, whatever buckets of
\* other windows a clock that was set back leaves in it, and its buckets are
\* counted from 1 to the limit (README.md:72).
TypeOK ==
  /\ now \in [window : Windows, offset : Offsets]
  /\ DOMAIN store \subseteq Keys
  /\ Cardinality(DOMAIN store) <= MaxKeys
  /\ \A k \in DOMAIN store :
       store[k] \in [window : Windows, count : 1 .. Limit]
  /\ admitted \in [Keys -> [Windows -> Nat]]
  /\ losses \in 0 .. MaxLosses

\* A key is admitted at most Limit times in a window, evictions and full
\* stores notwithstanding, and Limit times more for every time the process was
\* restarted or its clock set back, which is all a loss of the buckets costs
\* (README.md:57, rate_limit.py:48-81).
LimitHolds ==
  \A k \in Keys, w \in Windows : admitted[k][w] <= Limit * (losses + 1)

\* A client that waits for Retry-After comes back in a later window, or less
\* than one second before it, and is never sent away for more than a window
\* (rate_limit.py:43-45).
RetryAfterClose ==
  refusal # NoRefusal =>
    /\ Window - (now.offset + refusal.retryAfter * TicksPerSecond) < TicksPerSecond
    /\ refusal.retryAfter \in 1 .. WindowSeconds

\* Nobody is refused while its bucket has room; a key without a bucket is
\* refused only while MaxKeys others have been admitted in the same window
\* (rate_limit.py:66-73).
RefusedForCause ==
  refusal # NoRefusal =>
    LET used(k) == admitted[k][now.window]
    IN \/ used(refusal.key) >= Limit
       \/ Cardinality({k \in Keys \ {refusal.key} : used(k) > 0}) >= MaxKeys
=============================================================================
