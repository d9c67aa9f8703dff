------------------------------- MODULE Claims -------------------------------
(***************************************************************************)
(* The pure functions of internal/token/claims.go on the claims of a       *)
(* token, and narrowScope of internal/sts/sts.go.                          *)
(*                                                                         *)
(* Instants are whole unix seconds.  A scope string is the set of its      *)
(* words (the code splits it, works on the set and sorts it back).  An act *)
(* object is the sequence of the actors it nests, the current actor first  *)
(* and <<>> for a token without one; an actchain is the sequence of its    *)
(* entries, the oldest hop first.                                          *)
(***************************************************************************)
EXTENDS Naturals, Sequences

CONSTANT ClockSkew     \* seconds of clock skew that verification tolerates

ASSUME ClockSkewAssumption == ClockSkew \in Nat

-----------------------------------------------------------------------------
(* Time *)

\* The last second at which a token that expires at exp is still accepted.
ReplayUntil(exp) == IF exp = 0 THEN 0 ELSE exp + ClockSkew

\* With a seeded bug: the skew is granted twice.
ExpiredLate(claims, now) == 
    claims.exp = 0 \/ now > claims.exp + ClockSkew + ClockSkew

Expired(claims, now) == claims.exp = 0 \/ now > claims.exp + ClockSkew

NotYetValid(claims, now) == claims.nbf > 0 /\ now + ClockSkew < claims.nbf

ValidateTime(claims, now) == ~Expired(claims, now) /\ ~NotYetValid(claims, now)

-----------------------------------------------------------------------------
(* Actors *)

\* The agents of a token, oldest hop first, the current actor last.
ActorSubs(claims) ==
    IF claims.act = <<>> THEN claims.actchain
                         ELSE Append(claims.actchain, Head(claims.act))

Depth(claims) == Len(ActorSubs(claims))

\* The next hop's actchain: the current actor joins the past ones.
AppendChain(incoming) == 
    IF incoming.act = <<>> THEN incoming.actchain
                           ELSE Append(incoming.actchain, Head(incoming.act))

\* With a seeded bug: the new act does not nest the old one.
NestedActFlat(currentSub, incoming) == <<currentSub>>

\* The next hop's act: the requesting agent around the incoming act.
NestedAct(currentSub, incoming) == <<currentSub>> \o incoming

-----------------------------------------------------------------------------
(* Scope *)

\* With a seeded bug: the incoming scope is not looked at.
ScopeCeilingAlone(incoming, maxScopes) == maxScopes

\* The scopes a hop may still ask for.  An incoming token without scope     
\* leaves the agent's own ceiling untouched.
ScopeCeiling(incoming, maxScopes) ==
    IF incoming = {} THEN maxScopes ELSE maxScopes \cap incoming

ScopeWidens(requested, incoming, maxScopes) ==
    ~(requested \subseteq ScopeCeiling(incoming, maxScopes))

\* An exchange that asks for nothing gets the whole ceiling.
NarrowScope(requested, incoming, maxScopes) ==
    IF requested = {} THEN ScopeCeiling(incoming, maxScopes) ELSE requested

=============================================================================
