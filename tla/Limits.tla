-------------------------------- MODULE Limits --------------------------------
(* The rate limiter, and the nonce cache that has no other limit.            *)
(*                                                                           *)
(* A behaviour is one of two parts.  In part "limiter" callers spend tokens, *)
(* some of them by a late clock.  In part "nonces" requests that a limiter   *)
(* let in are issued nonces.                                                 *)
EXTENDS RateLimiter, FiniteSets

CONSTANTS Nonce, NonceTTL, NonceBurst, NonceTime

ASSUME LimitsAssumption ==
    /\ NonceTTL \in Nat /\ NonceBurst \in Nat \ {0}
    /\ IsFiniteSet(Caller)

VARIABLES part, time, level, filled, granted, step, clock, issued

cache == <<time, level, filled, granted, step, clock, issued>>

limitsVars == <<vars, part, cache>>

Nonces == INSTANCE NonceStore 
          WITH Handler <- Caller, Burst <- NonceBurst, MaxTime <- NonceTime,
               now <- time, spent <- granted, pc <- step

LimitsInit == 
    /\ Init
    /\ part \in {"limiter", "nonces"}
    /\ Nonces!Init

Stay == part = "limiter" /\ UNCHANGED <<part, cache>>
Idle == part = "nonces" /\ UNCHANGED <<vars, part>>

LimitsNext ==
    \/ Tick /\ Stay
    \/ OpenWindow /\ Stay
    \/ \E c \in Caller : 
          \/ ReadClock(c) /\ Stay
          \/ Allow(c) /\ Stay
          \/ Refuse(c) /\ Stay
          \/ Nonces!Admit(c) /\ Idle
          \/ Nonces!Consume(c) /\ Idle
          \/ Nonces!FailClosed(c) /\ Idle
          \/ Nonces!ReadClock(c) /\ Idle
          \/ Nonces!Issue(c) /\ Idle
    \/ Nonces!Tick /\ Idle
    \/ Nonces!Restart /\ Idle

LimitsSpec == LimitsInit /\ [][LimitsNext]_limitsVars

-----------------------------------------------------------------------------
(* Properties of the nonce cache *)

\* The cache holds no more nonces than the limiter lets in during the life of
\* one and one for each request under way: it does not grow with the age of the
\* process, though only Issue empties it, by a clock that may be late.
CacheBounded == Nonces!CacheBounded
=============================================================================
