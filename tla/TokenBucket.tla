------------------------------ MODULE TokenBucket ------------------------------
(***************************************************************************)
(* What a rate limit promises: a level of at most Burst units that fills   *)
(* by one unit per tick, and a request that costs Cost units is granted    *)
(* only out of the level.  A request may always be refused.                *)
(***************************************************************************)
EXTENDS Integers

CONSTANTS Burst,  \* at least Cost
          Cost    \* a positive number of units

VARIABLES level,  \* what is in the bucket
          time,   \* the time up to which it was filled
          spent   \* units granted so far

bucket == <<level, time, spent>>

Filled(l, d) == IF l + d > Burst THEN Burst ELSE l + d

Init ==
    /\ level = Burst
    /\ time \in Nat
    /\ spent = 0

\* Time passes, and the bucket fills.
Fill ==
    /\ time' \in Nat
    /\ time' > time
    /\ level' = Filled(level, time' - time)
    /\ UNCHANGED spent

\* A request is granted at a time at which the level pays for it.
Grant ==
    /\ time' \in Nat
    /\ time' >= time
    /\ Filled(level, time' - time) >= Cost
    /\ level' = Filled(level, time' - time) - Cost
    /\ spent' = spent + Cost

Next == Fill \/ Grant

Spec == Init /\ [][Next]_bucket
=============================================================================
