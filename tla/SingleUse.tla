------------------------------ MODULE SingleUse ------------------------------
(***************************************************************************)
(* What a replay cache promises, whatever it keeps in memory or on disk    *)
(* and however often its process dies: a claim is granted only when no     *)
(* claim it conflicts with was granted inside a window that is still open. *)
(***************************************************************************)
EXTENDS Claims

CONSTANTS Claim,    \* the claims [jti, exp, aliases] that callers present
          MaxTime   \* bound on the clock

VARIABLES now,      \* the wall clock
          grants    \* the grants so far: [claim, at], in order

vars == <<now, grants>>

Until(c) == ReplayUntil(c.exp)

\* A grant of d spends the keys that a later c answers to.
Conflicts(c, d) == d.jti = c.jti \/ d.jti \in c.aliases

Init == now = 1 /\ grants = <<>>

Tick == now < MaxTime /\ now' = now + 1 /\ UNCHANGED grants

Grant(c) ==
    /\ \A i \in DOMAIN grants : 
            Conflicts(c, grants[i].claim) => Until(grants[i].claim) < now
    /\ grants' = Append(grants, [claim |-> c, at |-> now])
    /\ UNCHANGED now

Next == Tick \/ \E c \in Claim : Grant(c)

Spec == Init /\ [][Next]_vars

=============================================================================
