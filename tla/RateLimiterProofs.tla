--------------------------- MODULE RateLimiterProofs ---------------------------
(***************************************************************************)
(* Proofs that the limiter bounds every window and implements TokenBucket, *)
(* for any callers, rate, burst and clocks.  The inductive invariant says  *)
(* what a late caller cannot change: the level that a caller with the      *)
(* latest clock would find.                                                *)
(*                                                                         *)
(* Then that the bucket bounds the nonce cache, for any requests under way *)
(* and any clocks they issue nonces by.                                    *)
(***************************************************************************)
EXTENDS Limits, FiniteSetTheorems, TLAPS

\* The level is between nothing and a burst, and every window has granted no
\* more than a burst and its time, less what is still in the bucket.
LevelInv ==
    /\ Level \in 0..Burst
    /\ spent - window.had + Level <= Burst + (latest - window.from)

WindowType == window \in [from : Nat, had : Nat]

IInv == TypeOK /\ WindowType /\ LevelInv

LEMMA BurstType == Burst \in Nat /\ Burst >= Cost
  BY LimiterAssumption DEF Burst

\* What a caller finds, and what the one with the latest clock finds then: a 
\* late caller changes nothing, another one fills the bucket.
LEMMA RefillLevel ==
    ASSUME IInv, NEW c \in Caller
    PROVE  /\ Refill(c) \in Int /\ Later(c) \in Nat /\ read[c] \in Nat
           /\ read[c] <= Later(c) /\ Later(c) <= now /\ latest <= Later(c)
           /\ Refill(c) <= Burst
           /\ Refill(c) + (Later(c) - read[c]) 
                = IF Level + (Later(c) - latest) > Burst 
                  THEN Burst ELSE Level + (Later(c) - latest)
  BY LimiterAssumption, BurstType
  DEF IInv, TypeOK, LevelInv, Level, Refill, Later

\* Every step preserves the invariant: only Allow spends, and what it spends
\* it takes out of the level.
LEMMA StepPreserves == IInv /\ [Next]_vars => IInv'
  <1> SUFFICES ASSUME IInv, [Next]_vars PROVE IInv'
    OBVIOUS
  <1> USE LimiterAssumption, BurstType
  <1>1. CASE Tick
    BY <1>1 DEF Tick, IInv, TypeOK, WindowType, LevelInv, Level, Burst
  <1>2. CASE OpenWindow
    BY <1>2 DEF OpenWindow, IInv, TypeOK, WindowType, LevelInv, Level, Burst
  <1>3. ASSUME NEW c \in Caller, ReadClock(c) PROVE IInv'
    BY <1>3 DEF ReadClock, IInv, TypeOK, WindowType, LevelInv, Level, Burst
  <1>4. ASSUME NEW c \in Caller, Allow(c) PROVE IInv'
    <2>1. /\ tokens' = Refill(c) - Cost /\ last' = read[c] 
          /\ latest' = Later(c) /\ spent' = spent + Cost
          /\ UNCHANGED <<now, read, window, Burst>>
          /\ Refill(c) >= Cost
      BY <1>4 DEF Allow, Burst
    <2>2. TypeOK' /\ WindowType'
      BY <1>4, <2>1, RefillLevel DEF Allow, IInv, TypeOK, WindowType
    <2>3. Level' = Refill(c) + (Later(c) - read[c]) - Cost /\ Level' >= 0
      BY <2>1, RefillLevel DEF Level
    <2>4. LevelInv'
      BY <2>1, <2>3, RefillLevel DEF IInv, TypeOK, WindowType, LevelInv
    <2> QED BY <2>2, <2>4 DEF IInv
  <1>5. ASSUME NEW c \in Caller, Refuse(c) PROVE IInv'
    <2>1. /\ tokens' = Refill(c) /\ last' = read[c] /\ latest' = Later(c)
          /\ UNCHANGED <<now, read, spent, window, Burst>>
      BY <1>5 DEF Refuse, Burst
    <2>2. TypeOK' /\ WindowType'
      BY <1>5, <2>1, RefillLevel DEF Refuse, IInv, TypeOK, WindowType
    <2>3. Level' = Refill(c) + (Later(c) - read[c])
      BY <2>1, RefillLevel DEF Level
    <2>4. LevelInv'
      BY <2>1, <2>3, RefillLevel DEF IInv, TypeOK, WindowType, LevelInv
    <2> QED BY <2>2, <2>4 DEF IInv
  <1>6. CASE UNCHANGED vars
    BY <1>6 DEF vars, IInv, TypeOK, WindowType, LevelInv, Level, Burst
  <1> QED BY <1>1, <1>2, <1>3, <1>4, <1>5, <1>6 DEF Next

\* The invariant of the limiter, for every number of callers and every rate.
THEOREM Inductive == Spec => []IInv
  <1>1. Init => IInv
    BY LimiterAssumption, BurstType 
    DEF Init, IInv, TypeOK, WindowType, LevelInv, Level
  <1> QED BY <1>1, StepPreserves, PTL DEF Spec

\* The state of the limiter has its type; the bucket never holds more than a 
\* burst (allow).
THEOREM TypeCorrect == Spec => []TypeOK
  <1>1. IInv => TypeOK
    BY DEF IInv
  <1> QED BY <1>1, Inductive, PTL

\* No window grants more than a burst and what its time adds, in whatever 
\* order callers with whatever clocks reach the mutex (allow).
THEOREM WindowBound == Spec => []WindowBounded
  <1>1. IInv => WindowBounded
    BY LimiterAssumption, BurstType 
    DEF IInv, TypeOK, WindowType, LevelInv, WindowBounded
  <1> QED BY <1>1, Inductive, PTL

\* The limiter implements the bucket that no clock is late for (TokenBucket).
THEOREM Implements == Spec => BucketSpec
  <1> USE LimiterAssumption, BurstType
  <1>1. Init => Bucket!Init
    BY DEF Init, Bucket!Init, Level
  <1>2. IInv /\ [Next]_vars => [Bucket!Next]_(Bucket!bucket)
    <2> SUFFICES ASSUME IInv, [Next]_vars PROVE [Bucket!Next]_(Bucket!bucket)
      OBVIOUS
    <2>1. CASE Tick \/ OpenWindow \/ UNCHANGED vars
      BY <2>1 DEF Tick, OpenWindow, vars, Bucket!bucket, Level
    <2>2. ASSUME NEW c \in Caller, ReadClock(c) PROVE UNCHANGED Bucket!bucket
      BY <2>2 DEF ReadClock, Bucket!bucket, Level
    <2>3. ASSUME NEW c \in Caller, Allow(c) PROVE Bucket!Grant
      <3>1. /\ Level' = Refill(c) + (Later(c) - read[c]) - Cost
            /\ latest' = Later(c) /\ spent' = spent + Cost 
            /\ Refill(c) >= Cost
        BY <2>3, RefillLevel DEF Allow, Level
      <3>2. Bucket!Filled(Level, Later(c) - latest) 
              = Refill(c) + (Later(c) - read[c])
        BY RefillLevel DEF Bucket!Filled
      <3> QED BY <3>1, <3>2, RefillLevel DEF Bucket!Grant
    <2>4. ASSUME NEW c \in Caller, Refuse(c) 
          PROVE  Bucket!Fill \/ UNCHANGED Bucket!bucket
      <3>1. /\ Level' = Refill(c) + (Later(c) - read[c])
            /\ latest' = Later(c) /\ spent' = spent
        BY <2>4, RefillLevel DEF Refuse, Level
      <3> QED BY <3>1, RefillLevel 
              DEF Bucket!Fill, Bucket!bucket, Bucket!Filled, IInv, TypeOK, 
                  LevelInv
    <2> QED BY <2>1, <2>2, <2>3, <2>4 DEF Next, Bucket!Next
  <1> QED BY <1>1, <1>2, Inductive, PTL DEF Spec, BucketSpec, Bucket!Spec
-----------------------------------------------------------------------------
(* The nonce cache *)

\* Requests that the limiter let in, and those of them that have read the clock 
\* by t.
InFlight == {h \in Caller : step[h] # "idle"}
Late(t) == {h \in Caller : step[h] = "issuing" /\ clock[h] <= t}

\* What the limiter would let in now.
Credit == Nonces!Limiter!Filled(level, time - filled)

\* How many nonces may still be issued by a clock of t or less.
Pending(t) == IF t = time THEN Cardinality(InFlight) + Credit 
                          ELSE Cardinality(Late(t))

\* The clock a nonce was issued by, and the nonces of a window.
Begun(n) == issued[n] - NonceTTL
Within(s, t) == {n \in DOMAIN issued : s <= Begun(n) /\ Begun(n) <= t}

Bound(d) == Cardinality(Caller) + NonceBurst + d

CacheType ==
    /\ time \in Nat
    /\ level \in 0..NonceBurst
    /\ filled \in 0..time
    /\ step \in [Caller -> {"idle", "admitted", "consumed", "issuing"}]
    /\ clock \in [Caller -> 0..time]
    /\ IsFiniteSet(DOMAIN issued)
    /\ \A n \in DOMAIN issued : issued[n] \in Int /\ Begun(n) \in 0..time

\* A window has the nonces of the requests that were under way as it began, of
\* those that the limiter had room for, and of those it let in meanwhile.
Windows == 
    \A t \in 0..time : \A s \in Int : 
        s <= t => Cardinality(Within(s, t)) + Pending(t) <= Bound(t - s)

\* The latest clock that a nonce was issued by collected what began a life 
\* before it, and every nonce issued since by an earlier clock is that of a 
\* request that had read it then.
Collected ==
    \E m \in 0..time :
        /\ \A n \in DOMAIN issued : Begun(n) <= m
        /\ Cardinality(DOMAIN issued) + Pending(m) <= Bound(NonceTTL)

CacheInv == CacheType /\ Windows /\ Collected

\* Sizes are numbers, and no more is pending than there are requests and room.
Sized ==
    /\ Cardinality(Caller) \in Nat /\ IsFiniteSet(InFlight)
    /\ Cardinality(InFlight) \in Nat 
    /\ Cardinality(InFlight) <= Cardinality(Caller)
    /\ Credit \in Nat /\ Credit <= NonceBurst
    /\ \A t \in Int : /\ IsFiniteSet(Late(t)) /\ Cardinality(Late(t)) \in Nat
                      /\ Cardinality(Late(t)) <= Cardinality(InFlight)
    /\ \A s, t \in Int : /\ IsFiniteSet(Within(s, t))
                         /\ Cardinality(Within(s, t)) \in Nat
    /\ Cardinality(DOMAIN issued) \in Nat
    /\ \A t \in Int : Pending(t) \in Nat

LEMMA Sizes == CacheType => Sized
  <1> SUFFICES ASSUME CacheType PROVE Sized
    OBVIOUS
  <1>1. /\ IsFiniteSet(Caller) /\ InFlight \subseteq Caller 
        /\ \A t \in Int : Late(t) \subseteq InFlight
    BY LimitsAssumption DEF InFlight, Late
  <1>2. /\ Cardinality(Caller) \in Nat /\ IsFiniteSet(InFlight)
        /\ Cardinality(InFlight) \in Nat 
        /\ Cardinality(InFlight) <= Cardinality(Caller)
    BY <1>1, FS_Subset, FS_CardinalityType
  <1>3. \A t \in Int : /\ IsFiniteSet(Late(t)) /\ Cardinality(Late(t)) \in Nat
                       /\ Cardinality(Late(t)) <= Cardinality(InFlight)
    BY <1>1, <1>2, FS_Subset, FS_CardinalityType
  <1>4. \A s, t \in Int : IsFiniteSet(Within(s, t)) /\ Cardinality(Within(s, t)) \in Nat
    <2>1. \A s, t \in Int : Within(s, t) \subseteq DOMAIN issued
      BY DEF Within
    <2> QED
      BY <2>1, FS_Subset, FS_CardinalityType DEF CacheType
  <1>5. Cardinality(DOMAIN issued) \in Nat
    BY FS_CardinalityType DEF CacheType
  <1>6. Credit \in Nat /\ Credit <= NonceBurst
    BY LimitsAssumption DEF CacheType, Credit, Nonces!Limiter!Filled
  <1>7. \A t \in Int : Pending(t) \in Nat
    BY <1>2, <1>3, <1>6 DEF Pending
  <1> QED
    BY <1>2, <1>3, <1>4, <1>5, <1>6, <1>7 DEF Sized

LEMMA SizesNext == CacheType' => Sized'
  BY Sizes, PTL

\* A cache with no more in it, for which no more is pending, is as bounded.
LEMMA QuietCache ==
    ASSUME CacheInv, CacheType', time' = time, DOMAIN issued' \subseteq DOMAIN issued, 
           \A n \in DOMAIN issued' : issued'[n] = issued[n],
           \A t \in 0..time : Pending(t)' <= Pending(t)
    PROVE  Windows' /\ Collected'
  <1>0. /\ CacheType /\ Windows /\ Collected /\ time \in Nat
        /\ Cardinality(Caller) \in Nat /\ NonceBurst \in Nat /\ NonceTTL \in Nat
    BY Sizes, LimitsAssumption DEF CacheInv, CacheType, Sized
  <1>1. \A n \in DOMAIN issued' : n \in DOMAIN issued /\ Begun(n)' = Begun(n)
    BY DEF Begun
  <1>2. ASSUME NEW t \in 0..time', NEW s \in Int, s <= t
        PROVE  Cardinality(Within(s, t))' + Pending(t)' <= Bound(t - s)
    <2>1. t \in Int /\ t \in 0..time
      BY <1>0
    <2>2. /\ IsFiniteSet(Within(s, t)) /\ Cardinality(Within(s, t)) \in Nat
          /\ Pending(t) \in Nat
      BY <1>0, <2>1, Sizes DEF Sized
    <2>3. Cardinality(Within(s, t))' \in Nat /\ Pending(t)' \in Nat
      BY <2>1, SizesNext DEF Sized
    <2>4. Within(s, t)' \subseteq Within(s, t)
      BY <1>1 DEF Within
    <2>5. Cardinality(Within(s, t)') <= Cardinality(Within(s, t))
      BY <2>2, <2>4, FS_Subset
    <2>6. Cardinality(Within(s, t)) + Pending(t) <= Bound(t - s)
      BY <1>0, <1>2, <2>1 DEF Windows
    <2>7. Pending(t)' <= Pending(t)
      BY <2>1
    <2> QED
      BY <1>0, <1>2, <2>1, <2>2, <2>3, <2>5, <2>6, <2>7 DEF Bound
  <1>3. Collected'
    <2>1. PICK m \in 0..time : 
             /\ \A n \in DOMAIN issued : Begun(n) <= m
             /\ Cardinality(DOMAIN issued) + Pending(m) <= Bound(NonceTTL)
      BY <1>0 DEF Collected
    <2>2. Cardinality(DOMAIN issued') <= Cardinality(DOMAIN issued)
      BY <1>0, FS_Subset DEF CacheType
    <2>3. Pending(m)' <= Pending(m) /\ m \in Int
      OBVIOUS
    <2>4. \A n \in DOMAIN issued' : Begun(n)' <= m
      BY <1>1, <2>1
    <2>5. /\ Cardinality(DOMAIN issued) \in Nat /\ Pending(m) \in Nat
          /\ Cardinality(DOMAIN issued)' \in Nat /\ Pending(m)' \in Nat
      BY <1>0, <2>3, Sizes, SizesNext DEF Sized
    <2>6. Cardinality(DOMAIN issued)' + Pending(m)' <= Bound(NonceTTL)
      BY <1>0, <2>1, <2>2, <2>3, <2>5 DEF Bound
    <2> QED
      BY <2>4, <2>6 DEF Collected, Bound
  <1> QED
    BY <1>2, <1>3 DEF Windows, Bound

LEMMA AdmitCache ==
    ASSUME CacheInv, NEW h \in Caller, Nonces!Admit(h) PROVE CacheInv'
  <1>0. /\ CacheType /\ Sized /\ time \in Nat /\ NonceBurst \in Nat
        /\ time' = time /\ clock' = clock /\ issued' = issued
        /\ step[h] = "idle" /\ step' = [step EXCEPT ![h] = "admitted"]
    BY Sizes, LimitsAssumption DEF CacheInv, CacheType, Nonces!Admit
  <1>1. filled' = time /\ Credit >= 1 /\ level' = Credit - 1
    BY DEF Nonces!Admit, Nonces!Limiter!Grant, Credit
  <1>2. level' = Credit - 1 /\ level' \in 0..NonceBurst
    BY <1>0, <1>1 DEF Sized
  <1>3. CacheType'
    BY <1>0, <1>1, <1>2 DEF CacheType, Begun
  <1>4. Credit' = Credit - 1
    <2>1. Credit' = level'
      BY <1>0, <1>1, <1>2 DEF Credit, Nonces!Limiter!Filled
    <2> QED
      BY <1>2, <2>1
  <1>5. Cardinality(InFlight)' = Cardinality(InFlight) + 1
    <2>1. InFlight' = InFlight \cup {h} /\ h \notin InFlight
      BY <1>0 DEF InFlight, CacheType
    <2> QED
      BY <1>0, <2>1, FS_AddElement DEF Sized
  <1>6. \A t \in 0..time : Late(t)' = Late(t)
    BY <1>0 DEF Late, CacheType
  <1>7. \A t \in 0..time : Pending(t)' <= Pending(t)
    <2> SUFFICES ASSUME NEW t \in 0..time PROVE Pending(t)' <= Pending(t)
      OBVIOUS
    <2>1. CASE t = time
      BY <1>0, <1>4, <1>5, <2>1 DEF Pending, Sized
    <2>2. CASE t # time
      <3>1. Cardinality(Late(t)) \in Nat
        <4>1. t \in Int
          BY <1>0
        <4> QED
          BY <1>0, <4>1 DEF Sized
      <3> QED
        BY <1>0, <1>6, <2>2, <3>1 DEF Pending
    <2> QED
      BY <2>1, <2>2
  <1>8. Windows' /\ Collected'
    BY <1>0, <1>7, <1>3, QuietCache
  <1> QED
    BY <1>8, <1>3 DEF CacheInv

\* A step of a request that was let in, by which none is.
LEMMA UnderWayCache ==
    ASSUME CacheInv, NEW h \in Caller, step[h] # "idle", 
           UNCHANGED <<time, level, filled>>, CacheType',
           DOMAIN issued' \subseteq DOMAIN issued, 
           \A n \in DOMAIN issued' : issued'[n] = issued[n],
           \A t \in 0..time : t # time => Late(t)' \subseteq Late(t),
           InFlight' \subseteq InFlight
    PROVE  CacheInv'
  <1>0. CacheType /\ Sized /\ Sized' /\ time \in Nat /\ Credit' = Credit
    BY Sizes, SizesNext DEF CacheInv, CacheType, Credit
  <1>1. \A t \in 0..time : Pending(t)' <= Pending(t)
    <2> SUFFICES ASSUME NEW t \in 0..time PROVE Pending(t)' <= Pending(t)
      OBVIOUS
    <2>1. CASE t = time
      <3>1. Cardinality(InFlight)' <= Cardinality(InFlight)
        BY <1>0, FS_Subset DEF Sized
      <3>2. /\ Cardinality(InFlight) \in Nat /\ Cardinality(InFlight)' \in Nat 
            /\ Credit \in Nat
        BY <1>0 DEF Sized
      <3> QED
        BY <1>0, <2>1, <3>1, <3>2 DEF Pending
    <2>2. CASE t # time
      <3>1. Late(t)' \subseteq Late(t) /\ IsFiniteSet(Late(t))
        <4>1. t \in Int
          BY <1>0
        <4> QED
          BY <1>0, <2>2, <4>1 DEF Sized
      <3>2. Cardinality(Late(t)') <= Cardinality(Late(t))
        BY <3>1, FS_Subset
      <3> QED
        BY <1>0, <2>2, <3>2 DEF Pending
    <2> QED
      BY <2>1, <2>2
  <1>2. Windows' /\ Collected'
    BY <1>1, QuietCache
  <1> QED
    BY <1>2 DEF CacheInv

LEMMA ConsumeCache ==
    ASSUME CacheInv, NEW h \in Caller, Nonces!Consume(h) PROVE CacheInv'
  <1>1. /\ UNCHANGED <<time, level, filled, clock>> /\ step[h] = "admitted"
        /\ step' = [step EXCEPT ![h] = "consumed"]
    BY DEF Nonces!Consume
  <1>2. PICK nonce \in DOMAIN issued : issued' = Nonces!Only(DOMAIN issued \ {nonce})
    BY DEF Nonces!Consume
  <1>3. /\ DOMAIN issued' \subseteq DOMAIN issued
        /\ \A n \in DOMAIN issued' : issued'[n] = issued[n]
    BY <1>2 DEF Nonces!Only
  <1>4. CacheType'
    <2>1. IsFiniteSet(DOMAIN issued')
      BY <1>3, FS_Subset DEF CacheInv, CacheType
    <2> QED
      BY <1>1, <1>3, <2>1 DEF CacheInv, CacheType, Begun
  <1>5. /\ InFlight' \subseteq InFlight 
        /\ \A t \in 0..time : t # time => Late(t)' \subseteq Late(t)
    BY <1>1 DEF InFlight, Late, CacheInv, CacheType
  <1> QED
    BY <1>1, <1>3, <1>4, <1>5, UnderWayCache

LEMMA FailClosedCache ==
    ASSUME CacheInv, NEW h \in Caller, Nonces!FailClosed(h) PROVE CacheInv'
  <1>1. /\ UNCHANGED <<time, level, filled, clock, issued>> /\ step[h] # "idle"
        /\ step' = [step EXCEPT ![h] = "idle"]
    BY DEF Nonces!FailClosed
  <1>2. CacheType'
    BY <1>1 DEF CacheInv, CacheType, Begun
  <1>3. /\ InFlight' \subseteq InFlight 
        /\ \A t \in 0..time : t # time => Late(t)' \subseteq Late(t)
    BY <1>1 DEF InFlight, Late, CacheInv, CacheType
  <1> QED
    BY <1>1, <1>2, <1>3, UnderWayCache

LEMMA ReadClockCache ==
    ASSUME CacheInv, NEW h \in Caller, Nonces!ReadClock(h) PROVE CacheInv'
  <1>1. /\ UNCHANGED <<time, level, filled, issued>> /\ step[h] # "idle"
        /\ step' = [step EXCEPT ![h] = "issuing"]
        /\ clock' = [clock EXCEPT ![h] = time]
    BY DEF Nonces!ReadClock
  <1>2. CacheType'
    BY <1>1 DEF CacheInv, CacheType, Begun
  <1>3. /\ InFlight' \subseteq InFlight 
        /\ \A t \in 0..time : t # time => Late(t)' \subseteq Late(t)
    BY <1>1 DEF InFlight, Late, CacheInv, CacheType
  <1> QED
    BY <1>1, <1>2, <1>3, UnderWayCache

LEMMA AddAtMostOne ==
    ASSUME NEW S, NEW x, IsFiniteSet(S), NEW T \in SUBSET (S \cup {x})
    PROVE  /\ Cardinality(T) \in Nat /\ Cardinality(S) \in Nat
           /\ Cardinality(T) <= Cardinality(S) + 1
  <1>1. /\ IsFiniteSet(S \cup {x}) /\ Cardinality(S) \in Nat
        /\ \/ Cardinality(S \cup {x}) = Cardinality(S)
           \/ Cardinality(S \cup {x}) = Cardinality(S) + 1
    BY FS_AddElement, FS_CardinalityType
  <1>2. IsFiniteSet(T) /\ Cardinality(T) <= Cardinality(S \cup {x})
    BY <1>1, FS_Subset
  <1>3. Cardinality(T) \in Nat
    BY <1>2, FS_CardinalityType
  <1> QED
    BY <1>1, <1>2, <1>3

LEMMA IssueCache ==
    ASSUME CacheInv, NEW h \in Caller, Nonces!Issue(h) PROVE CacheInv'
  <1>0. /\ CacheType /\ Sized /\ time \in Nat /\ clock[h] \in 0..time
        /\ Cardinality(Caller) \in Nat /\ NonceBurst \in Nat /\ NonceTTL \in Nat
        /\ UNCHANGED <<time, level, filled, clock>> /\ step[h] = "issuing"
        /\ step' = [step EXCEPT ![h] = "idle"]
    BY Sizes, LimitsAssumption DEF CacheInv, CacheType, Sized, Nonces!Issue
  <1>1. PICK c \in 0..time : c = clock[h]
    BY <1>0
  <1> DEFINE good == {nonce \in DOMAIN issued : issued[nonce] >= c}
  <1>2. PICK new : issued' = [nonce \in good \cup {new} |-> 
                      IF nonce = new THEN c + NonceTTL ELSE issued[nonce]]
    BY <1>1 DEF Nonces!Issue, Nonces!With
  <1>3. /\ DOMAIN issued' = good \cup {new}
        /\ issued'[new] \in Int /\ Begun(new)' = c
        /\ \A n \in DOMAIN issued' : n # new => 
              /\ n \in good /\ issued'[n] = issued[n] /\ Begun(n)' = Begun(n)
    BY <1>0, <1>2 DEF Begun
  <1>4. CacheType'
    <2>1. IsFiniteSet(good)
      BY <1>0, FS_Subset DEF CacheType
    <2>2. IsFiniteSet(DOMAIN issued')
      BY <1>3, <2>1, FS_AddElement
    <2> QED
      BY <1>0, <1>3, <2>2 DEF CacheType
  <1>5. Sized'
    BY <1>4, SizesNext
  <1>6. ASSUME NEW t \in 0..time
        PROVE  /\ Pending(t)' <= Pending(t) 
               /\ c <= t => Pending(t)' <= Pending(t) - 1
    <2>0. t \in Int
      BY <1>0
    <2>1. CASE t = time
      <3>1. InFlight' = InFlight \ {h} /\ h \in InFlight
        BY <1>0 DEF InFlight, CacheType
      <3>2. Cardinality(InFlight') = Cardinality(InFlight) - 1
        BY <1>0, <3>1, FS_RemoveElement DEF Sized
      <3>3. Credit' = Credit /\ Credit \in Nat /\ Cardinality(InFlight) \in Nat
        BY <1>0 DEF Credit, Sized
      <3> QED
        BY <1>0, <2>1, <3>2, <3>3 DEF Pending
    <2>2. CASE t # time
      <3>1. Late(t)' = Late(t) \ {h} /\ (c <= t => h \in Late(t))
        BY <1>0, <1>1 DEF Late, CacheType
      <3>2. IsFiniteSet(Late(t)) /\ Cardinality(Late(t)) \in Nat
        BY <1>0, <2>0 DEF Sized
      <3>3. Cardinality(Late(t)') = IF h \in Late(t) THEN Cardinality(Late(t)) - 1
                                                     ELSE Cardinality(Late(t))
        BY <3>1, <3>2, FS_RemoveElement
      <3> QED
        BY <1>0, <2>2, <3>1, <3>2, <3>3 DEF Pending
    <2> QED
      BY <2>1, <2>2
  <1>7. Windows'
    <2> SUFFICES ASSUME NEW t \in 0..time, NEW s \in Int, s <= t
                 PROVE  Cardinality(Within(s, t)') + Pending(t)' <= Bound(t - s)
      BY <1>0 DEF Windows, Bound
    <2>0. /\ t \in Int /\ Pending(t) \in Nat /\ Pending(t)' \in Nat
          /\ IsFiniteSet(Within(s, t)) /\ Cardinality(Within(s, t)) \in Nat
          /\ Cardinality(Within(s, t)') \in Nat
      <3>1. t \in Int
        BY <1>0
      <3> QED
        BY <1>0, <1>5, <3>1 DEF Sized
    <2>1. Cardinality(Within(s, t)) + Pending(t) <= Bound(t - s)
      BY DEF CacheInv, Windows
    <2>2. CASE c <= t
      <3>1. Within(s, t)' \subseteq Within(s, t) \cup {new}
        BY <1>3 DEF Within
      <3>2. Cardinality(Within(s, t)') <= Cardinality(Within(s, t)) + 1
        BY <2>0, <3>1, AddAtMostOne
      <3>3. Pending(t)' <= Pending(t) - 1
        BY <1>6, <2>2
      <3> QED
        BY <1>0, <2>0, <2>1, <3>2, <3>3 DEF Bound
    <2>3. CASE ~(c <= t)
      <3>1. Within(s, t)' \subseteq Within(s, t)
        BY <1>3, <2>3 DEF Within
      <3>2. Cardinality(Within(s, t)') <= Cardinality(Within(s, t))
        BY <2>0, <3>1, FS_Subset
      <3>3. Pending(t)' <= Pending(t)
        BY <1>6
      <3> QED
        BY <1>0, <2>0, <2>1, <3>2, <3>3 DEF Bound
    <2> QED
      BY <2>2, <2>3
  <1>8. Collected'
    <2>1. PICK m \in 0..time : 
             /\ \A n \in DOMAIN issued : Begun(n) <= m
             /\ Cardinality(DOMAIN issued) + Pending(m) <= Bound(NonceTTL)
      BY DEF CacheInv, Collected
    <2>2. \A n \in DOMAIN issued' : n = new \/ Begun(n)' <= m
      BY <1>3, <2>1
    <2>3. CASE c <= m
      <3>1. DOMAIN issued' \subseteq DOMAIN issued \cup {new}
        BY <1>3
      <3>2. IsFiniteSet(DOMAIN issued)
        BY <1>0 DEF CacheType
      <3>3. /\ Cardinality(DOMAIN issued) \in Nat
            /\ Cardinality(DOMAIN issued') <= Cardinality(DOMAIN issued) + 1
        BY <3>1, <3>2, AddAtMostOne
      <3>4. Pending(m)' <= Pending(m) - 1
        BY <1>6, <2>3
      <3>5. /\ m \in 0..time' /\ Pending(m) \in Nat /\ Pending(m)' \in Nat
            /\ Cardinality(DOMAIN issued') \in Nat
        <4>1. m \in Int /\ m \in 0..time'
          BY <1>0
        <4> QED
          BY <1>0, <1>5, <4>1 DEF Sized
      <3>6. Cardinality(DOMAIN issued') + Pending(m)' <= Bound(NonceTTL)
        BY <1>0, <2>1, <3>3, <3>4, <3>5 DEF Bound
      <3>7. \A n \in DOMAIN issued' : Begun(n)' <= m
        BY <1>3, <2>2, <2>3
      <3> QED
        BY <3>5, <3>6, <3>7 DEF Collected, Bound
    <2>4. CASE ~(c <= m)
      <3>1. c \in 0..time' /\ c \in Int /\ c - NonceTTL \in Int /\ c - NonceTTL <= c
        BY <1>0
      <3>2. \A n \in DOMAIN issued' : Begun(n)' <= c /\ c - NonceTTL <= Begun(n)'
        <4> SUFFICES ASSUME NEW n \in DOMAIN issued'
                     PROVE  Begun(n)' <= c /\ c - NonceTTL <= Begun(n)'
          OBVIOUS
        <4>1. CASE n = new
          BY <1>3, <3>1, <4>1, <1>0
        <4>2. CASE n # new
          <5>1. /\ n \in DOMAIN issued /\ issued[n] >= c /\ Begun(n)' = Begun(n)
            BY <1>3, <4>2
          <5>2. issued[n] \in Int /\ Begun(n) <= m /\ Begun(n) = issued[n] - NonceTTL
            BY <1>0, <2>1, <5>1 DEF CacheType, Begun
          <5> QED
            BY <1>0, <2>4, <3>1, <5>1, <5>2
        <4> QED
          BY <4>1, <4>2
      <3>3. Within(c - NonceTTL, c)' = DOMAIN issued'
        BY <3>2 DEF Within
      <3>4. Cardinality(Within(c - NonceTTL, c)') + Pending(c)' <= Bound(c - (c - NonceTTL))
        BY <1>7, <3>1 DEF Windows, Bound
      <3>5. c - (c - NonceTTL) = NonceTTL
        BY <1>0, <3>1
      <3>6. Cardinality(DOMAIN issued') + Pending(c)' <= Bound(NonceTTL)
        BY <3>3, <3>4, <3>5
      <3>7. \A n \in DOMAIN issued' : Begun(n)' <= c
        BY <3>2
      <3>8. \E k \in 0..time' :
              /\ \A n \in DOMAIN issued' : Begun(n)' <= k
              /\ Cardinality(DOMAIN issued') + Pending(k)' <= Bound(NonceTTL)
        BY <3>1, <3>6, <3>7
      <3> QED
        BY <3>8 DEF Collected, Bound
    <2> QED
      BY <2>3, <2>4
  <1> QED
    BY <1>4, <1>7, <1>8 DEF CacheInv

LEMMA TickCache ==
    ASSUME CacheInv, Nonces!Tick PROVE CacheInv'
  <1>0. /\ CacheType /\ Sized /\ time \in Nat /\ NonceBurst \in Nat /\ NonceTTL \in Nat
        /\ Cardinality(Caller) \in Nat /\ Cardinality(Caller)' = Cardinality(Caller)
        /\ time' = time + 1 /\ UNCHANGED <<level, filled, step, clock, issued>>
    BY Sizes, LimitsAssumption DEF CacheInv, CacheType, Sized, Nonces!Tick
  <1>1. CacheType'
    BY <1>0 DEF CacheType, Begun
  <1>2. Sized'
    BY <1>1, SizesNext
  <1>3. /\ InFlight' = InFlight /\ \A t : Late(t)' = Late(t)
        /\ \A s, t : Within(s, t)' = Within(s, t)
    BY <1>0 DEF InFlight, Late, Within, Begun
  <1>4. /\ Credit \in Nat /\ Credit' \in Nat /\ Credit' <= Credit + 1 
        /\ Credit' <= NonceBurst
    <2>1. /\ level \in Nat /\ filled \in Nat /\ filled <= time
      BY <1>0 DEF CacheType
    <2>2. Credit' <= Credit + 1
      BY <1>0, <2>1 DEF Credit, Nonces!Limiter!Filled
    <2> QED
      BY <1>0, <1>2, <2>2 DEF Sized
  <1>5. ASSUME NEW t \in 0..time PROVE Pending(t)' <= Pending(t)
    <2>1. /\ t \in Int /\ Cardinality(InFlight) \in Nat 
          /\ Cardinality(Late(t)) \in Nat
          /\ Cardinality(Late(t)) <= Cardinality(InFlight)
      <3>1. t \in Int
        BY <1>0
      <3> QED
        BY <1>0, <3>1 DEF Sized
    <2>2. Pending(t)' = Cardinality(Late(t))
      BY <1>0, <1>3 DEF Pending
    <2> QED
      BY <1>4, <2>1, <2>2 DEF Pending
  <1>6. ASSUME NEW t \in 0..time', NEW s \in Int, s <= t
        PROVE  Cardinality(Within(s, t)') + Pending(t)' <= Bound(t - s)
    <2>0. /\ t \in Int /\ Cardinality(Within(s, t)) \in Nat /\ Pending(t)' \in Nat
      <3>1. t \in Int
        BY <1>0
      <3> QED
        BY <1>0, <1>2, <3>1 DEF Sized
    <2>1. CASE t \in 0..time
      <3>1. Cardinality(Within(s, t)) + Pending(t) <= Bound(t - s)
        BY <1>6, <2>1 DEF CacheInv, Windows
      <3>2. Pending(t)' <= Pending(t) /\ Pending(t) \in Nat
        BY <1>0, <1>5, <2>0, <2>1 DEF Sized
      <3> QED
        BY <1>0, <1>3, <2>0, <3>1, <3>2 DEF Bound
    <2>2. CASE t = time' /\ s <= time
      <3>1. Within(s, t) \subseteq Within(s, time)
        BY <1>0, <2>2 DEF Within, CacheType
      <3>2. /\ IsFiniteSet(Within(s, time)) /\ Cardinality(Within(s, time)) \in Nat
            /\ Cardinality(InFlight) \in Nat
        <4>1. s \in Int /\ time \in Int
          BY <1>0
        <4> QED
          BY <1>0, <4>1 DEF Sized
      <3>3. Cardinality(Within(s, t)) <= Cardinality(Within(s, time))
        BY <3>1, <3>2, FS_Subset
      <3>4. Cardinality(Within(s, time)) + Pending(time) <= Bound(time - s)
        <4>1. time \in 0..time
          BY <1>0
        <4> QED
          BY <2>2, <4>1 DEF CacheInv, Windows
      <3>5. /\ Pending(time) = Cardinality(InFlight) + Credit
            /\ Pending(t)' = Cardinality(InFlight) + Credit'
        BY <1>3, <2>2 DEF Pending
      <3> QED
        BY <1>0, <1>3, <1>4, <2>0, <2>2, <3>2, <3>3, <3>4, <3>5 DEF Bound
    <2>3. CASE t = time' /\ s = t
      <3>1. Within(s, t) = {}
        BY <1>0, <2>3 DEF Within, CacheType
      <3>2. Cardinality(Within(s, t)) = 0
        BY <3>1, FS_EmptySet
      <3>3. /\ Pending(t)' = Cardinality(InFlight) + Credit'
            /\ Cardinality(InFlight) \in Nat
            /\ Cardinality(InFlight) <= Cardinality(Caller)
        BY <1>0, <1>3, <2>3 DEF Pending, Sized
      <3> QED
        BY <1>0, <1>3, <1>4, <2>0, <2>3, <3>2, <3>3 DEF Bound
    <2> QED
      BY <1>0, <1>6, <2>0, <2>1, <2>2, <2>3
  <1>7. Windows'
    BY <1>6 DEF Windows, Bound
  <1>8. Collected'
    <2>1. PICK m \in 0..time : 
             /\ \A n \in DOMAIN issued : Begun(n) <= m
             /\ Cardinality(DOMAIN issued) + Pending(m) <= Bound(NonceTTL)
      BY DEF CacheInv, Collected
    <2>2. /\ m \in Int /\ m \in 0..time' 
          /\ \A n \in DOMAIN issued' : Begun(n)' <= m
      BY <1>0, <2>1 DEF Begun
    <2>3. /\ Pending(m)' <= Pending(m) /\ Pending(m) \in Nat /\ Pending(m)' \in Nat
          /\ Cardinality(DOMAIN issued) \in Nat
      BY <1>0, <1>2, <1>5, <2>2 DEF Sized
    <2>4. Cardinality(DOMAIN issued') + Pending(m)' <= Bound(NonceTTL)
      BY <1>0, <2>1, <2>3 DEF Bound
    <2> QED
      BY <2>2, <2>4 DEF Collected, Bound
  <1> QED
    BY <1>1, <1>7, <1>8 DEF CacheInv

\* A cache without nonces, and no request under way.
Empty == DOMAIN issued = {} /\ \A h \in Caller : step[h] = "idle"

LEMMA EmptyCache == CacheType /\ Empty => CacheInv
  <1> SUFFICES ASSUME CacheType, Empty PROVE CacheInv
    OBVIOUS
  <1>1. /\ Sized /\ time \in Nat /\ NonceBurst \in Nat /\ NonceTTL \in Nat
        /\ Cardinality(Caller) \in Nat
    BY Sizes, LimitsAssumption DEF CacheType, Sized
  <1>2. /\ InFlight = {} /\ \A t : Late(t) = {}
        /\ DOMAIN issued = {} /\ \A s, t : Within(s, t) = {}
    BY DEF InFlight, Late, Within, Empty
  <1>3. Cardinality({}) = 0
    BY FS_EmptySet
  <1>4. /\ Cardinality(InFlight) = 0 /\ \A t : Cardinality(Late(t)) = 0
        /\ Cardinality(DOMAIN issued) = 0 
        /\ \A s, t : Cardinality(Within(s, t)) = 0
    BY <1>2, <1>3
  <1>5. Credit \in Nat /\ Credit <= NonceBurst
    BY <1>1 DEF Sized
  <1>6. \A t : Pending(t) \in Nat /\ Pending(t) <= NonceBurst
    BY <1>1, <1>4, <1>5 DEF Pending
  <1>7. Windows
    <2> SUFFICES ASSUME NEW t \in 0..time, NEW s \in Int, s <= t
                 PROVE  Cardinality(Within(s, t)) + Pending(t) <= Bound(t - s)
      BY DEF Windows
    <2>1. Cardinality(Within(s, t)) = 0 /\ Pending(t) \in Nat /\ Pending(t) <= NonceBurst
      BY <1>4, <1>6
    <2> QED
      BY <1>1, <2>1 DEF Bound
  <1>8. Collected
    <2>1. 0 \in 0..time
      BY <1>1
    <2>2. Pending(0) \in Nat /\ Pending(0) <= NonceBurst
      BY <1>6
    <2>3. Cardinality(DOMAIN issued) + Pending(0) <= Bound(NonceTTL)
      BY <1>1, <1>4, <2>2 DEF Bound
    <2> QED
      BY <1>2, <2>1, <2>3 DEF Collected
  <1> QED
    BY <1>7, <1>8 DEF CacheInv

LEMMA EmptyCacheNext == CacheType' /\ Empty' => CacheInv'
  BY EmptyCache, PTL

LEMMA RestartCache ==
    ASSUME CacheInv, Nonces!Restart PROVE CacheInv'
  <1>0. /\ CacheType /\ time \in Nat /\ NonceBurst \in Nat
        /\ UNCHANGED <<time, clock>> /\ level' = NonceBurst /\ filled' = time
        /\ step' = [h \in Caller |-> "idle"] /\ issued' = <<>>
    BY LimitsAssumption DEF CacheInv, CacheType, Nonces!Restart
  <1>1. DOMAIN issued' = {}
    BY <1>0
  <1>2. CacheType'
    BY <1>0, <1>1, FS_EmptySet DEF CacheType
  <1>3. Empty'
    BY <1>0, <1>1 DEF Empty
  <1> QED
    BY <1>2, <1>3, EmptyCacheNext

LEMMA CacheInit == Nonces!Init => CacheInv
  <1> SUFFICES ASSUME Nonces!Init PROVE CacheInv
    OBVIOUS
  <1>0. /\ NonceBurst \in Nat /\ time = 0 /\ level = NonceBurst /\ filled = 0
        /\ step = [h \in Caller |-> "idle"] /\ clock = [h \in Caller |-> 0]
        /\ issued = <<>>
    BY LimitsAssumption DEF Nonces!Init
  <1>1. DOMAIN issued = {}
    BY <1>0
  <1>2. CacheType
    BY <1>0, <1>1, FS_EmptySet DEF CacheType
  <1>3. Empty
    BY <1>0, <1>1 DEF Empty
  <1> QED
    BY <1>2, <1>3, EmptyCache

LEMMA CacheUnchanged == CacheInv /\ UNCHANGED cache => CacheInv'
  <1> SUFFICES ASSUME CacheInv, UNCHANGED cache PROVE CacheInv'
    OBVIOUS
  <1>1. UNCHANGED <<time, level, filled, step, clock, issued>>
    BY DEF cache
  <1>2. CacheType'
    BY <1>1 DEF CacheInv, CacheType, Begun
  <1>3. \A t : Pending(t)' = Pending(t)
    BY <1>1 DEF Pending, InFlight, Late, Credit
  <1>4. \A t \in 0..time : Pending(t) \in Nat
    <2>1. \A t \in 0..time : t \in Int
      BY DEF CacheInv, CacheType
    <2> QED
      BY <2>1, Sizes DEF Sized, CacheInv
  <1>5. Windows' /\ Collected'
    BY <1>1, <1>2, <1>3, <1>4, QuietCache
  <1> QED
    BY <1>2, <1>5 DEF CacheInv

LEMMA CacheStep == CacheInv /\ [LimitsNext]_limitsVars => CacheInv'
  <1> SUFFICES ASSUME CacheInv, [LimitsNext]_limitsVars PROVE CacheInv'
    OBVIOUS
  <1>1. CASE UNCHANGED cache
    BY <1>1, CacheUnchanged
  <1>2. CASE Nonces!Next
    BY <1>2, TickCache, RestartCache, AdmitCache, ConsumeCache, FailClosedCache, 
       ReadClockCache, IssueCache DEF Nonces!Next
  <1> QED
    BY <1>1, <1>2 DEF LimitsNext, limitsVars, Stay, Nonces!Next

LEMMA CacheImplies == CacheInv => CacheBounded
  <1> SUFFICES ASSUME CacheInv PROVE CacheBounded
    OBVIOUS
  <1>1. PICK m \in 0..time : 
           Cardinality(DOMAIN issued) + Pending(m) <= Bound(NonceTTL)
    BY DEF CacheInv, Collected
  <1>2. /\ Pending(m) \in Nat /\ Cardinality(DOMAIN issued) \in Nat
        /\ Cardinality(Caller) \in Nat /\ NonceTTL \in Nat /\ NonceBurst \in Nat
    <2>1. m \in Int
      BY DEF CacheInv, CacheType
    <2> QED
      BY <2>1, Sizes, LimitsAssumption DEF CacheInv, Sized
  <1>3. Cardinality(DOMAIN issued) <= NonceBurst + NonceTTL + Cardinality(Caller)
    BY <1>1, <1>2 DEF Bound
  <1> QED
    BY <1>3 DEF CacheBounded, Nonces!CacheBounded, Nonces!Cardinality, Cardinality

-----------------------------------------------------------------------------

\* What bounds the cache stays so beside the limiter.
THEOREM CacheInductive == LimitsSpec => []CacheInv
  <1>1. LimitsInit => CacheInv
    BY CacheInit DEF LimitsInit
  <1> QED
    BY <1>1, CacheStep, PTL DEF LimitsSpec

\* The nonce cache holds no more than the limiter lets in during the life of a
\* nonce and what was under way as it began, for any burst, life and requests,
\* however late the clock of an Issue is (gcLocked).
THEOREM CacheBound == LimitsSpec => []CacheBounded
  <1> QED
    BY CacheInductive, CacheImplies, PTL

\* The limiter of the composition is the one that the theorems above are about.
THEOREM LimitsImplementLimiter == LimitsSpec => Spec
  <1>1. LimitsInit => Init
    BY DEF LimitsInit
  <1>2. [LimitsNext]_limitsVars => [Next]_vars
    BY DEF LimitsNext, limitsVars, Next, Idle
  <1> QED
    BY <1>1, <1>2, PTL DEF LimitsSpec, Spec
=============================================================================
