--------------------------- MODULE RateLimit_proofs ---------------------------
(***************************************************************************)
(* Proofs about the HTTP ingest rate limit: its types, the limit with the  *)
(* price of lost buckets, the reasons for a refusal and its Retry-After,   *)
(* for any keys, limits, windows and numbers of restarts and clock         *)
(* corrections.                                                            *)
(***************************************************************************)
EXTENDS RateLimit, FiniteSetTheorems, TLAPS

-----------------------------------------------------------------------------
(* What is inductive *)

\* A bucket's count is of requests admitted in its window.
CountInv == \A k \in DOMAIN store : store[k].count <= admitted[k][store[k].window]

\* The clock will come to windows after the current one as often as it was set
\* back; a window that is over was used once more; of the current one, what was
\* admitted since the last loss is in its bucket.
WindowInv ==
  \A k \in Keys, w \in Windows :
    admitted[k][w] <=
      Limit * losses + (IF w < now.window THEN Limit
                        ELSE IF w = now.window THEN Count(k) ELSE 0)

Inv == TypeOK /\ CountInv /\ WindowInv

-----------------------------------------------------------------------------
(* Arithmetic and buckets *)

\* One loss more allows Limit more.
LEMMA OneMore ==
  ASSUME NEW n \in Nat
  PROVE  /\ Limit * (n + 1) = Limit * n + Limit
         /\ Limit * n \in Nat
BY RateLimitAssumption, SMT

LEMMA WindowPositive == Window \in Nat \ {0}
BY RateLimitAssumption, SMT DEF Window

\* Eviction leaves buckets of the current window, as they were.
LEMMA LiveBuckets ==
  ASSUME TypeOK
  PROVE  /\ DOMAIN Live \subseteq DOMAIN store
         /\ IsFiniteSet(DOMAIN store) /\ IsFiniteSet(DOMAIN Live)
         /\ Cardinality(DOMAIN Live) \in Nat
         /\ Cardinality(DOMAIN Live) <= MaxKeys
         /\ \A k \in DOMAIN Live : Live[k] = store[k] /\ store[k].window = now.window
         /\ \A k : Count(k) \in 0 .. Limit
<1>1. DOMAIN Live = {k \in DOMAIN store : store[k].window = now.window}
  BY DEF Live
<1>2. IsFiniteSet(DOMAIN store)
  BY FS_Subset, RateLimitAssumption DEF TypeOK
<1>3. /\ IsFiniteSet(DOMAIN Live)
      /\ Cardinality(DOMAIN Live) <= Cardinality(DOMAIN store)
  BY <1>1, <1>2, FS_Subset
<1>4. Cardinality(DOMAIN Live) \in Nat /\ Cardinality(DOMAIN store) \in Nat
  BY <1>2, <1>3, FS_CardinalityType
<1>5. \A k \in DOMAIN Live : Live[k] = store[k] /\ store[k].window = now.window
  BY DEF Live
<1>6. ASSUME NEW k
      PROVE  Count(k) \in 0 .. Limit
  BY <1>1, <1>5, RateLimitAssumption DEF TypeOK, Count
<1> QED
  BY <1>1, <1>2, <1>3, <1>4, <1>5, <1>6, RateLimitAssumption DEF TypeOK

-----------------------------------------------------------------------------
(* Types *)

LEMMA InitTypes == Init => TypeOK
<1> SUFFICES ASSUME Init PROVE TypeOK
  OBVIOUS
<1>1. DOMAIN store = {} /\ Cardinality(DOMAIN store) = 0
  BY FS_EmptySet DEF Init
<1>2. now \in [window : Windows, offset : Offsets]
  BY WindowPositive, RateLimitAssumption DEF Init, Windows, Offsets
<1> QED
  BY <1>1, <1>2, RateLimitAssumption DEF Init, TypeOK

LEMMA AcceptTypes ==
  ASSUME TypeOK, NEW k \in Keys, Accept(k)
  PROVE  TypeOK'
<1>1. /\ DOMAIN store' = DOMAIN Live \cup {k}
      /\ store'[k] = [window |-> now.window, count |-> Count(k) + 1]
      /\ \A j \in DOMAIN Live : j # k => store'[j] = store[j]
  BY LiveBuckets DEF Accept
<1>2. Cardinality(DOMAIN Live \cup {k}) <= MaxKeys
  <2>1. CASE k \in DOMAIN Live
    <3>1. DOMAIN Live \cup {k} = DOMAIN Live
      BY <2>1
    <3> QED
      BY <3>1, LiveBuckets
  <2>2. CASE k \notin DOMAIN Live
    <3>1. Cardinality(DOMAIN Live) < MaxKeys
      BY <2>2 DEF Accept, Admits
    <3>2. Cardinality(DOMAIN Live \cup {k}) = Cardinality(DOMAIN Live) + 1
      BY <2>2, LiveBuckets, FS_AddElement
    <3> QED
      BY <3>1, <3>2, LiveBuckets, RateLimitAssumption
  <2> QED
    BY <2>1, <2>2
<1>3. Count(k) \in Nat /\ Count(k) < Limit
  BY LiveBuckets, RateLimitAssumption DEF Accept, Admits
<1>4. store'[k] \in [window : Windows, count : 1 .. Limit]
  BY <1>1, <1>3, RateLimitAssumption DEF TypeOK
<1>5. DOMAIN store' \subseteq Keys
  BY <1>1, LiveBuckets DEF TypeOK
<1>6. admitted' \in [Keys -> [Windows -> Nat]]
  BY DEF Accept, TypeOK
<1> QED
  BY <1>1, <1>2, <1>4, <1>5, <1>6, LiveBuckets DEF Accept, TypeOK

LEMMA NextTypes == TypeOK /\ [Next]_vars => TypeOK'
<1> SUFFICES ASSUME TypeOK, [Next]_vars PROVE TypeOK'
  OBVIOUS
<1>1. CASE Tick
  BY <1>1, WindowPositive, RateLimitAssumption DEF Tick, TypeOK, Windows, Offsets
<1>2. CASE SetBack
  BY <1>2, RateLimitAssumption DEF SetBack, TypeOK, Windows
<1>3. CASE Restart
  <2>1. DOMAIN store' = {} /\ Cardinality(DOMAIN store') = 0
    BY <1>3, FS_EmptySet DEF Restart
  <2> QED
    BY <1>3, <2>1, RateLimitAssumption DEF Restart, TypeOK
<1>4. ASSUME NEW k \in Keys, Accept(k) PROVE TypeOK'
  BY <1>4, AcceptTypes
<1>5. ASSUME NEW k \in Keys, Refuse(k) PROVE TypeOK'
  BY <1>5, LiveBuckets DEF Refuse, TypeOK
<1>6. CASE UNCHANGED vars
  BY <1>6 DEF vars, TypeOK
<1> QED
  BY <1>1, <1>2, <1>3, <1>4, <1>5, <1>6 DEF Next

-----------------------------------------------------------------------------
(* Counts *)

LEMMA NextCounts == TypeOK /\ CountInv /\ [Next]_vars => CountInv'
<1> SUFFICES ASSUME TypeOK, CountInv, [Next]_vars PROVE CountInv'
  OBVIOUS
<1>1. CASE Tick
  BY <1>1 DEF Tick, CountInv
<1>2. CASE SetBack
  BY <1>2 DEF SetBack, CountInv
<1>3. CASE Restart
  BY <1>3 DEF Restart, CountInv
<1>4. ASSUME NEW k \in Keys, Accept(k) PROVE CountInv'
  <2> SUFFICES ASSUME NEW j \in DOMAIN store'
               PROVE  store'[j].count <= admitted'[j][store'[j].window]
    BY DEF CountInv
  <2>1. CASE j = k
    <3>1. store'[k] = [window |-> now.window, count |-> Count(k) + 1]
      BY <1>4 DEF Accept
    <3>2. now.window \in Windows /\ admitted[k][now.window] \in Nat
      BY DEF TypeOK
    <3>3. admitted'[k][now.window] = admitted[k][now.window] + 1
      BY <1>4, <3>2 DEF Accept, TypeOK
    <3>4. Count(k) <= admitted[k][now.window]
      BY <3>2, LiveBuckets DEF Count, CountInv
    <3> QED
      BY <2>1, <3>1, <3>2, <3>3, <3>4, LiveBuckets
  <2>2. CASE j # k
    <3>1. j \in DOMAIN Live /\ store'[j] = store[j]
      BY <1>4, <2>2, LiveBuckets DEF Accept
    <3>2. j \in Keys /\ admitted'[j] = admitted[j]
      BY <1>4, <2>2, <3>1, LiveBuckets DEF Accept, TypeOK
    <3> QED
      BY <3>1, <3>2, LiveBuckets DEF CountInv
  <2> QED
    BY <2>1, <2>2
<1>5. ASSUME NEW k \in Keys, Refuse(k) PROVE CountInv'
  BY <1>5, LiveBuckets DEF Refuse, CountInv
<1>6. CASE UNCHANGED vars
  BY <1>6 DEF vars, CountInv
<1> QED
  BY <1>1, <1>2, <1>3, <1>4, <1>5, <1>6 DEF Next

-----------------------------------------------------------------------------
(* Windows *)

\* What a window may have been used for is a number.
LEMMA WindowTypes ==
  ASSUME TypeOK, NEW k \in Keys, NEW w \in Windows
  PROVE  /\ admitted[k][w] \in Nat
         /\ losses \in Nat /\ Limit \in Nat /\ Limit * losses \in Nat
         /\ w \in Nat /\ now.window \in Nat
         /\ Count(k) \in 0 .. Limit
<1>1. losses \in Nat /\ Limit \in Nat
  BY RateLimitAssumption DEF TypeOK
<1>2. admitted[k][w] \in Nat /\ w \in Nat /\ now.window \in Nat
  BY RateLimitAssumption DEF TypeOK, Windows
<1> QED
  BY <1>1, <1>2, OneMore, LiveBuckets

\* A loss pays for one use of every window.
LEMMA LossPays ==
  ASSUME TypeOK, WindowInv, losses' = losses + 1, admitted' = admitted,
         NEW k \in Keys, NEW w \in Windows
  PROVE  admitted'[k][w] <= Limit * losses'
<1>1. admitted[k][w] <= Limit * losses + Limit
  BY WindowTypes DEF WindowInv
<1>2. Limit * losses' = Limit * losses + Limit
  BY OneMore, WindowTypes
<1> QED
  BY <1>1, <1>2

\* A count never passes the limit, in whatever state.
LEMMA CountTypes == TypeOK => \A k \in Keys : Count(k) \in 0 .. Limit
  BY LiveBuckets

LEMMA CountTypesNext == TypeOK' => (\A k \in Keys : Count(k) \in 0 .. Limit)'
  BY CountTypes, PTL

LEMMA NextWindows == TypeOK /\ WindowInv /\ [Next]_vars => WindowInv'
<1> SUFFICES ASSUME TypeOK, WindowInv, [Next]_vars PROVE WindowInv'
  OBVIOUS
<1>0. TypeOK'
  BY NextTypes
<1> SUFFICES ASSUME NEW k \in Keys, NEW w \in Windows
             PROVE  admitted'[k][w] <=
                      Limit * losses' + (IF w < now'.window THEN Limit
                                         ELSE IF w = now'.window THEN Count(k)' ELSE 0)
  BY DEF WindowInv
<1>a. /\ admitted[k][w] <= Limit * losses + (IF w < now.window THEN Limit
                                             ELSE IF w = now.window THEN Count(k) ELSE 0)
      /\ admitted[k][w] \in Nat /\ Limit * losses \in Nat /\ Limit \in Nat
      /\ w \in Nat /\ now.window \in Nat /\ Count(k) \in 0 .. Limit
  BY WindowTypes DEF WindowInv
<1>b. Count(k)' \in 0 .. Limit /\ now'.window \in Nat
  <2>1. (\A j \in Keys : Count(j) \in 0 .. Limit)'
    BY <1>0, CountTypesNext
  <2>2. now'.window \in Nat
    BY <1>0, RateLimitAssumption DEF TypeOK, Windows
  <2> QED
    BY <2>1, <2>2
<1>1. CASE Tick
  <2>1. admitted' = admitted /\ losses' = losses /\ store' = store
    BY <1>1 DEF Tick
  <2>2. CASE now'.window = now.window
    <3>1. Count(k)' = Count(k)
      BY <2>1, <2>2 DEF Count, Live
    <3> QED
      BY <1>a, <2>1, <2>2, <3>1
  <2>3. CASE now'.window = now.window + 1
    BY <1>a, <1>b, <2>1, <2>3
  <2> QED
    BY <1>1, <2>2, <2>3 DEF Tick, TypeOK
<1>2. CASE SetBack
  <2>1. admitted'[k][w] <= Limit * losses'
    BY <1>2, LossPays DEF SetBack
  <2> QED
    BY <1>2, <1>a, <1>b, <2>1, OneMore, WindowTypes DEF SetBack
<1>3. CASE Restart
  <2>1. admitted'[k][w] <= Limit * losses'
    BY <1>3, LossPays DEF Restart
  <2> QED
    BY <1>3, <1>a, <1>b, <2>1, OneMore, WindowTypes DEF Restart
<1>4. ASSUME NEW j \in Keys, Accept(j)
      PROVE  admitted'[k][w] <=
               Limit * losses' + (IF w < now'.window THEN Limit
                                  ELSE IF w = now'.window THEN Count(k)' ELSE 0)
  <2>1. now' = now /\ losses' = losses
    BY <1>4 DEF Accept
  <2>2. Count(k)' = IF k = j THEN Count(k) + 1 ELSE Count(k)
    BY <1>4, <2>1, LiveBuckets DEF Accept, Count, Live
  <2>3. admitted'[k][w] = IF k = j /\ w = now.window THEN admitted[k][w] + 1
                          ELSE admitted[k][w]
    BY <1>4 DEF Accept, TypeOK
  <2> QED
    BY <1>a, <2>1, <2>2, <2>3
<1>5. ASSUME NEW j \in Keys, Refuse(j)
      PROVE  admitted'[k][w] <=
               Limit * losses' + (IF w < now'.window THEN Limit
                                  ELSE IF w = now'.window THEN Count(k)' ELSE 0)
  <2>1. now' = now /\ losses' = losses /\ admitted' = admitted
    BY <1>5 DEF Refuse
  <2>2. Count(k)' = Count(k)
    BY <1>5, <2>1, LiveBuckets DEF Refuse, Count, Live
  <2> QED
    BY <1>a, <2>1, <2>2
<1>6. CASE UNCHANGED vars
  <2>1. Count(k)' = Count(k)
    BY <1>6 DEF vars, Count, Live
  <2> QED
    BY <1>6, <1>a, <2>1 DEF vars
<1> QED
  BY <1>1, <1>2, <1>3, <1>4, <1>5, <1>6 DEF Next

-----------------------------------------------------------------------------
(* Refusals *)

\* Only Refuse sets a refusal, and at that moment it has its cause.
LEMMA NextRefused ==
  TypeOK /\ CountInv /\ RefusedForCause /\ [Next]_vars => RefusedForCause'
<1> SUFFICES ASSUME TypeOK, CountInv, RefusedForCause, [Next]_vars
             PROVE  RefusedForCause'
  OBVIOUS
<1>1. CASE refusal' = NoRefusal
  BY <1>1 DEF RefusedForCause
<1>2. ASSUME NEW k \in Keys, Refuse(k) PROVE RefusedForCause'
  <2>1. /\ refusal'.key = k /\ now' = now /\ admitted' = admitted
    BY <1>2 DEF Refuse
  <2> DEFINE others == {j \in Keys \ {k} : admitted[j][now.window] > 0}
  <2>2. now.window \in Windows /\ \A j \in Keys : admitted[j][now.window] \in Nat
    BY DEF TypeOK
  <2>3. CASE Count(k) >= Limit
    <3>1. k \in DOMAIN Live /\ Live[k].count >= Limit
      BY <2>3, RateLimitAssumption DEF Count
    <3>2. store[k].count >= Limit /\ store[k].count \in Nat
          /\ store[k].window = now.window /\ k \in DOMAIN store
      BY <3>1, LiveBuckets, RateLimitAssumption DEF TypeOK
    <3>3. admitted[k][now.window] >= Limit
      BY <2>2, <3>2, RateLimitAssumption DEF CountInv
    <3> QED
      BY <2>1, <3>3 DEF RefusedForCause
  <2>4. CASE k \notin DOMAIN Live /\ Cardinality(DOMAIN Live) >= MaxKeys
    <3>1. ASSUME NEW j \in DOMAIN Live PROVE j \in others
      <4>1. /\ j \in DOMAIN store /\ j \in Keys /\ j # k
            /\ store[j].window = now.window /\ store[j].count \in 1 .. Limit
        BY <2>4, LiveBuckets DEF TypeOK
      <4>2. store[j].count <= admitted[j][now.window]
        BY <4>1 DEF CountInv
      <4> QED
        BY <2>2, <4>1, <4>2, RateLimitAssumption
    <3>2. IsFiniteSet(others)
      BY FS_Subset, RateLimitAssumption
    <3>3. Cardinality(DOMAIN Live) <= Cardinality(others) /\ Cardinality(others) \in Nat
      BY <3>1, <3>2, FS_Subset, FS_CardinalityType
    <3>4. Cardinality(others) >= MaxKeys
      BY <2>4, <3>3, LiveBuckets, RateLimitAssumption
    <3> QED
      BY <2>1, <3>4 DEF RefusedForCause
  <2>5. Cardinality(DOMAIN Live) \in Nat /\ Count(k) \in Nat
    BY LiveBuckets, RateLimitAssumption
  <2> QED
    BY <1>2, <2>3, <2>4, <2>5, RateLimitAssumption DEF Refuse, Admits
<1>3. CASE UNCHANGED vars
  BY <1>3 DEF vars, RefusedForCause
<1> QED
  BY <1>1, <1>2, <1>3 DEF Next, Tick, SetBack, Restart, Accept

-----------------------------------------------------------------------------
(* Theorems *)

LEMMA InitInv == Init => Inv /\ RefusedForCause
<1> SUFFICES ASSUME Init PROVE Inv /\ RefusedForCause
  OBVIOUS
<1>1. TypeOK
  BY InitTypes
<1>2. CountInv /\ RefusedForCause
  BY DEF Init, CountInv, RefusedForCause
<1>3. ASSUME NEW k \in Keys, NEW w \in Windows
      PROVE  admitted[k][w] <= Limit * losses + (IF w < now.window THEN Limit
                               ELSE IF w = now.window THEN Count(k) ELSE 0)
  <2>1. admitted[k][w] = 0
    BY DEF Init
  <2> QED
    BY <1>1, <2>1, WindowTypes
<1> QED
  BY <1>1, <1>2, <1>3 DEF Inv, WindowInv

LEMMA Invariance == Spec => [](Inv /\ RefusedForCause)
<1>1. Inv /\ RefusedForCause /\ [Next]_vars => (Inv /\ RefusedForCause)'
  BY NextTypes, NextCounts, NextWindows, NextRefused DEF Inv
<1> QED
  BY InitInv, <1>1, PTL DEF Spec

\* The store keeps its size and its buckets their range (rate_limit.py:59-81).
THEOREM TypeCorrect == Spec => []TypeOK
BY Invariance, PTL DEF Inv

\* However often buckets are lost, a loss costs at most one more use of a window
\* (rate_limit.py:48-81).
THEOREM LimitHoldsAlways == Spec => []LimitHolds
<1>1. Inv => LimitHolds
  <2> SUFFICES ASSUME Inv, NEW k \in Keys, NEW w \in Windows
               PROVE  admitted[k][w] <= Limit * (losses + 1)
    BY DEF LimitHolds
  <2>1. Limit * (losses + 1) = Limit * losses + Limit
    BY OneMore, WindowTypes DEF Inv
  <2> QED
    BY <2>1, WindowTypes DEF Inv, WindowInv
<1> QED
  BY Invariance, <1>1, PTL

\* Every 429 has its cause in the window in which it is answered
\* (rate_limit.py:66-79).
THEOREM RefusedForCauseAlways == Spec => []RefusedForCause
BY Invariance, PTL

\* Whole seconds of a number of ticks, and what is left of them.
LEMMA WholeSeconds ==
  ASSUME NEW ticks \in Nat, NEW perSecond \in Nat \ {0}
  PROVE  LET seconds == ticks \div perSecond
         IN /\ seconds \in Nat /\ seconds * perSecond <= ticks
            /\ ticks < seconds * perSecond + perSecond
BY Z3

LEMMA FewerSeconds ==
  ASSUME NEW n \in Nat, NEW m \in Nat, NEW perSecond \in Nat \ {0},
         n * perSecond <= m * perSecond
  PROVE  n <= m
BY Z3

\* What a 429 says at any moment of a window.
LEMMA RetryAfterBounds ==
  ASSUME TypeOK
  PROVE  /\ Window - (now.offset + RetryAfter * TicksPerSecond) < TicksPerSecond
         /\ RetryAfter \in 1 .. WindowSeconds
<1> DEFINE ticks == Window - now.offset
           seconds == ticks \div TicksPerSecond
<1>1. /\ ticks \in Nat /\ ticks <= Window /\ now.offset \in Nat /\ Window \in Nat
      /\ TicksPerSecond \in Nat \ {0} /\ WindowSeconds \in Nat \ {0}
  BY WindowPositive, RateLimitAssumption DEF TypeOK, Offsets
<1>2. /\ seconds \in Nat /\ seconds * TicksPerSecond <= ticks
      /\ ticks < seconds * TicksPerSecond + TicksPerSecond
  BY <1>1, WholeSeconds
<1>3. RetryAfter = IF seconds < 1 THEN 1 ELSE seconds
  BY DEF RetryAfter
<1> HIDE DEF seconds
<1>4. seconds * TicksPerSecond \in Nat
  BY <1>1, <1>2, Z3
<1>5. seconds <= WindowSeconds
  <2>1. seconds * TicksPerSecond <= WindowSeconds * TicksPerSecond
    BY <1>1, <1>2, <1>4 DEF Window
  <2> QED
    BY <1>1, <1>2, <2>1, FewerSeconds
<1>6. CASE seconds = 0
  <2>1. ticks < TicksPerSecond
    BY <1>1, <1>2, <1>6
  <2>2. RetryAfter = 1
    BY <1>3, <1>6
  <2> QED
    BY <1>1, <2>1, <2>2
<1>7. CASE seconds # 0
  <2>1. RetryAfter = seconds
    BY <1>2, <1>3, <1>7
  <2>2. Window - (now.offset + seconds * TicksPerSecond) < TicksPerSecond
    BY <1>1, <1>2, <1>4
  <2> QED
    BY <1>2, <1>5, <1>7, <2>1, <2>2
<1> QED
  BY <1>6, <1>7

\* The fraction of a second that int() cuts off is all a client can be early, and
\* it is never told to wait for more than a window (rate_limit.py:43-45).
THEOREM RetryAfterCloseAlways == Spec => []RetryAfterClose
<1> DEFINE RetryInv == refusal # NoRefusal => refusal.retryAfter = RetryAfter
<1>1. Init => RetryInv
  BY DEF Init
<1>2. RetryInv /\ [Next]_vars => RetryInv'
  <2> SUFFICES ASSUME RetryInv, [Next]_vars PROVE RetryInv'
    OBVIOUS
  <2>1. CASE Tick \/ SetBack \/ Restart \/ \E k \in Keys : Accept(k)
    BY <2>1 DEF Tick, SetBack, Restart, Accept
  <2>2. CASE \E k \in Keys : Refuse(k)
    BY <2>2 DEF Refuse, RetryAfter
  <2>3. CASE UNCHANGED vars
    BY <2>3 DEF vars, RetryAfter
  <2> QED
    BY <2>1, <2>2, <2>3 DEF Next
<1>3. TypeOK /\ RetryInv => RetryAfterClose
  BY RetryAfterBounds DEF RetryAfterClose
<1> QED
  BY TypeCorrect, <1>1, <1>2, <1>3, PTL DEF Spec
=============================================================================
