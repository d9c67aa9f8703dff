------------------------------ MODULE RateLimiter ------------------------------
(***************************************************************************)
(* The rate limiter of the token endpoint (internal/sts/reload.go) and of  *)
(* the gateway (internal/gateway/gateway.go, line for line the same).      *)
(* allow reads the clock and then takes the mutex, so callers reach the    *)
(* bucket in another order than they read the time in: a late caller       *)
(* subtracts from the bucket and turns its clock back.                     *)
(*                                                                         *)
(* A unit is what the bucket gains in a tick; a second has Second ticks    *)
(* and a request costs Cost units, so the rate is Second/Cost a second.    *)
(***************************************************************************)
EXTENDS Integers

CONSTANTS Caller,   \* the goroutines that call allow
          Second,   \* ticks of a second, which is also what it adds
          Cost,     \* units of a request
          MaxTime   \* bound on the clock

ASSUME LimiterAssumption ==
    /\ Second \in Nat \ {0}
    /\ Cost \in Nat \ {0}
    /\ MaxTime \in Nat

VARIABLES now,     \* the monotonic clock
          tokens,  \* units in the bucket, below zero after a late caller
          last,    \* the clock of the caller that was last in
          pc,      \* where a caller is
          read,    \* the clock it read
          latest,  \* history: the latest clock that any caller brought in
          spent,   \* history: units granted
          window   \* history: an observer's window [from, had]: when it was 
                   \* opened and how much had been granted by then

vars == <<now, tokens, last, pc, read, latest, spent, window>>

\* newTokenBucket: a second's worth, but no less than one request.
Burst == IF Second > Cost THEN Second ELSE Cost

Init ==
    /\ now = 0
    /\ tokens = Burst
    /\ last = 0
    /\ pc = [c \in Caller |-> "idle"]
    /\ read = [c \in Caller |-> 0]
    /\ latest = 0
    /\ spent = 0
    /\ window = [from |-> 0, had |-> 0]

Tick ==
    /\ now < MaxTime
    /\ now' = now + 1
    /\ UNCHANGED <<tokens, last, pc, read, latest, spent, window>>

\* allow reads the clock.
ReadClock(c) ==
    /\ pc[c] \in {"idle", "granted", "refused"}
    /\ pc' = [pc EXCEPT ![c] = "waiting"]
    /\ read' = [read EXCEPT ![c] = now]
    /\ UNCHANGED <<now, tokens, last, latest, spent, window>>

\* With a seeded bug: what a late caller takes out is not taken out.
RefillIgnoringLate(c) ==
    LET elapsed == IF read[c] < last THEN 0 ELSE read[c] - last
    IN  IF tokens + elapsed > Burst THEN Burst ELSE tokens + elapsed

\* Under the mutex: elapsed is negative for a late caller, and there is a 
\* ceiling but no floor.
Refill(c) == 
    LET elapsed == read[c] - last
    IN  IF tokens + elapsed > Burst THEN Burst ELSE tokens + elapsed

Later(c) == IF read[c] > latest THEN read[c] ELSE latest

\* The bucket pays for the request.
Allow(c) ==
    /\ pc[c] = "waiting"
    /\ Refill(c) >= Cost
    /\ tokens' = Refill(c) - Cost
    /\ last' = read[c]
    /\ pc' = [pc EXCEPT ![c] = "granted"]
    /\ latest' = Later(c)
    /\ spent' = spent + Cost
    /\ UNCHANGED <<now, read, window>>

\* With a seeded bug: a refused request is paid for all the same.
RefuseCharging(c) ==
    /\ pc[c] = "waiting"
    /\ Refill(c) < Cost
    /\ tokens' = Refill(c) - Cost
    /\ last' = read[c]
    /\ pc' = [pc EXCEPT ![c] = "refused"]
    /\ latest' = Later(c)
    /\ UNCHANGED <<now, read, spent, window>>

\* It does not: the clock of the bucket moves, back or forth, all the same.
Refuse(c) ==
    /\ pc[c] = "waiting"
    /\ Refill(c) < Cost
    /\ tokens' = Refill(c)
    /\ last' = read[c]
    /\ pc' = [pc EXCEPT ![c] = "refused"]
    /\ latest' = Later(c)
    /\ UNCHANGED <<now, read, spent, window>>

\* An observer begins to count at any time.
OpenWindow ==
    /\ window' = [from |-> latest, had |-> spent]
    /\ UNCHANGED <<now, tokens, last, pc, read, latest, spent>>

Next ==
    \/ Tick
    \/ OpenWindow
    \/ \E c \in Caller : ReadClock(c) \/ Allow(c) \/ Refuse(c)

Spec == Init /\ [][Next]_vars

-----------------------------------------------------------------------------
(* Properties *)

TypeOK ==
    /\ now \in 0..MaxTime
    /\ tokens \in Int /\ tokens <= Burst
    /\ last \in 0..latest
    /\ latest \in 0..now
    /\ spent \in Nat
    /\ pc \in [Caller -> {"idle", "waiting", "granted", "refused"}]
    /\ \A c \in Caller : read[c] \in 0..now
    /\ window.from \in 0..latest /\ window.had \in 0..spent

\* What the bucket would hold for a caller with the latest clock.
Level == tokens + (latest - last)

\* However late callers are, no window of time grants more than a burst and 
\* what the time adds: turning the clock back gains nobody anything, because
\* the tokens are turned back with it.
WindowBounded ==
    spent - window.had <= Burst + (latest - window.from)

Bucket == INSTANCE TokenBucket WITH level <- Level, time <- latest

\* A late caller does not hurt the others either: at every moment the bucket is
\* what it would be if all that was granted had been granted in order, and a 
\* request that is refused leaves it as it was (allow implements TokenBucket).
BucketSpec == Bucket!Spec
=============================================================================
