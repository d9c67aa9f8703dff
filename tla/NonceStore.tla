------------------------------ MODULE NonceStore ------------------------------
(***************************************************************************)
(* How large the nonce cache of internal/dpop/nonce.go gets.  Whoever gets *)
(* past the limiter is issued one nonce, refused or not, and a nonce that  *)
(* nobody uses is forgotten only when a later one is issued.  The cache    *)
(* has no bound of its own: the limiter's is the only one, here by its     *)
(* abstract specification TokenBucket, which RateLimiter implements.       *)
(*                                                                         *)
(* Issue reads the clock before its mutex, so a caller that was held up    *)
(* adds a nonce with an early end and collects by an early clock.  A tick  *)
(* is the time in which the limiter earns one request.                     *)
(***************************************************************************)
EXTENDS Integers, FiniteSets

CONSTANTS Nonce,    \* what a nonce may be
          Handler,  \* requests under way at one time
          Burst,    \* requests the limiter lets through at once
          NonceTTL, \* how long a nonce is good for
          MaxTime   \* bound on the clock

VARIABLES now,    \* the clock
          level,  \* what is in the limiter's bucket
          filled, \* the time up to which it was filled
          spent,  \* what it granted
          pc,     \* where a request is
          clock,  \* the time by which its nonce is issued
          issued  \* the cache: when each of its nonces ends

vars == <<now, level, filled, spent, pc, clock, issued>>

Limiter == INSTANCE TokenBucket WITH Cost <- 1, time <- filled

Init ==
    /\ now = 0
    /\ level = Burst /\ filled = 0 /\ spent = 0
    /\ pc = [h \in Handler |-> "idle"]
    /\ clock = [h \in Handler |-> 0]
    /\ issued = <<>>

Tick ==
    /\ now < MaxTime
    /\ now' = now + 1
    /\ UNCHANGED <<level, filled, spent, pc, clock, issued>>

\* The limiter lets a request in.
Admit(h) ==
    /\ pc[h] = "idle"
    /\ filled' = now /\ Limiter!Grant
    /\ pc' = [pc EXCEPT ![h] = "admitted"]
    /\ UNCHANGED <<now, clock, issued>>

\* Nonces of the cache, with their ends.
Only(S) == [nonce \in S |-> issued[nonce]]

\* NonceCache.Consume takes a nonce out, whether it is still good or not.
Consume(h) ==
    /\ pc[h] = "admitted"
    /\ \E nonce \in DOMAIN issued : issued' = Only(DOMAIN issued \ {nonce})
    /\ pc' = [pc EXCEPT ![h] = "consumed"]
    /\ UNCHANGED <<now, level, filled, spent, clock>>

\* The request is answered without a nonce: the record of it failed.
FailClosed(h) ==
    /\ pc[h] \in {"admitted", "consumed"}
    /\ pc' = [pc EXCEPT ![h] = "idle"]
    /\ UNCHANGED <<now, level, filled, spent, clock, issued>>

\* issueNonce reads the clock,
ReadClock(h) ==
    /\ pc[h] \in {"admitted", "consumed"}
    /\ pc' = [pc EXCEPT ![h] = "issuing"]
    /\ clock' = [clock EXCEPT ![h] = now]
    /\ UNCHANGED <<now, level, filled, spent, issued>>

\* The nonces of S, with their ends, and a new one.  It is random, and which of
\* those that the cache does not hold it is is all the same to the cache.
With(h, S) ==
    LET new == CHOOSE nonce \in Nonce \ DOMAIN issued : TRUE
    IN  [nonce \in S \cup {new} |-> 
            IF nonce = new THEN clock[h] + NonceTTL ELSE issued[nonce]]

\* With a seeded bug: what has ended is not collected.
IssueUncollected(h) ==
    /\ pc[h] = "issuing"
    /\ issued' = With(h, DOMAIN issued)
    /\ pc' = [pc EXCEPT ![h] = "idle"]
    /\ UNCHANGED <<now, level, filled, spent, clock>>

\* and Issue collects by it and adds, in one critical section (gcLocked).
Issue(h) ==
    /\ pc[h] = "issuing"
    /\ issued' = With(h, {nonce \in DOMAIN issued : issued[nonce] >= clock[h]})
    /\ pc' = [pc EXCEPT ![h] = "idle"]
    /\ UNCHANGED <<now, level, filled, spent, clock>>

\* A new process has a full bucket and no nonces.
Restart ==
    /\ level' = Burst /\ filled' = now /\ spent' = 0
    /\ pc' = [h \in Handler |-> "idle"]
    /\ issued' = <<>>
    /\ UNCHANGED <<now, clock>>

Next ==
    \/ Tick
    \/ Restart
    \/ \E h \in Handler : \/ Admit(h) \/ Consume(h) \/ FailClosed(h) 
                          \/ ReadClock(h) \/ Issue(h)

Spec == Init /\ [][Next]_vars

-----------------------------------------------------------------------------
(* Properties *)

\* The cache never holds more nonces than the limiter lets in during a nonce's 
\* life, and one more for every request that was held up: it does not grow with
\* the age of the process, though nothing but Issue ever empties it and a late
\* Issue adds what has already ended (gcLocked).
CacheBounded == 
    Cardinality(DOMAIN issued) <= Burst + NonceTTL + Cardinality(Handler)
=============================================================================
