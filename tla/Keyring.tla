-------------------------------- MODULE Keyring --------------------------------
(***************************************************************************)
(* The signing ring, internal/token/keyring.go, as it is rotated: the      *)
(* operator reloads it, exchanges that took their snapshot before go on    *)
(* signing with the ring they saw, and the gateway verifies what clients   *)
(* hold by the live JWKS or by a copy of it in a file.                     *)
(*                                                                         *)
(* A key is its material; a signature verifies under the material it was   *)
(* made with.  The operator's procedure is that of docs/operations.md, in  *)
(* three constants that say how carefully it is followed.                  *)
(***************************************************************************)
EXTENDS Claims, Integers

CONSTANTS Kid,        \* key identifiers
          Material,   \* key pairs
          Exchange,   \* requests under way at the token endpoint
          TTL,        \* lifetime of a minted token
          Margin,     \* seconds the operator waits beyond KeyRetirementWait
          Drains,     \* the wait begins when no exchange has the old ring
          FreshKids,  \* a kid that was retired is not used again
          MaxTime     \* bound on the clock

ASSUME KeyringAssumption ==
    /\ TTL \in Nat \ {0}
    /\ Margin \in Nat
    /\ Drains \in BOOLEAN /\ FreshKids \in BOOLEAN
    /\ MaxTime \in Nat

VARIABLES now,     \* the wall clock
          ring,    \* the live ring: [active, keys]
          copy,    \* the JWKS file of a gateway that has no URL
          ended,   \* when the operator began to wait for a kid, or Never
          named,   \* history: the <<kid, material>> pairs that were published
          burned,  \* kids that were removed because they were compromised
          pc,      \* where an exchange is
          snap,    \* the ring of its snapshot
          clock,   \* the time it read
          tokens   \* minted tokens that ValidateTime still accepts

vars == <<now, ring, copy, ended, named, burned, pc, snap, clock, tokens>>

Never == -1

-----------------------------------------------------------------------------
(* Rings *)

Published(r) == DOMAIN r.keys

\* What a ring publishes: every key in it, whichever is active.
JWKS(r) == r.keys

\* NewKeyring accepts what names one of its keys as active.
IsRing(r) == r.active \in Published(r)

Rings == {r \in [active : Kid, keys : UNION {[K -> Material] : K \in SUBSET Kid}] :
             IsRing(r)}

\* A file with a single key is a ring of that key.
SingleKey(kid, material) == [active |-> kid, keys |-> [k \in {kid} |-> material]]

\* publicMaterialStable: a kid in both names the same key.
MaterialStable(prev, next) ==
    \A k \in Published(prev) \cap Published(next) : prev.keys[k] = next.keys[k]

\* What a reload may install: a kid is published before it is active.
AllowActivation(prev, next) ==
    /\ next.active \in Published(prev)
    /\ MaterialStable(prev, next)

\* With a seeded bug: the wait leaves the skew out.
RetirementWaitTTL == TTL

\* KeyRetirementWait
RetirementWait == TTL + ClockSkew

\* Verify: the key of that kid, and the signature under it.
Verifies(token, keys) == 
    token.kid \in DOMAIN keys /\ keys[token.kid] = token.material

\* ValidateTime, for a token without nbf.
Unexpired(token, t) == t <= token.exp + ClockSkew

-----------------------------------------------------------------------------

Init ==
    /\ now = 0
    /\ \E kid \in Kid, material \in Material : ring = SingleKey(kid, material)
    /\ copy = JWKS(ring)
    /\ ended = [k \in Kid |-> Never]
    /\ named = {<<ring.active, ring.keys[ring.active]>>}
    /\ burned = {}
    /\ pc = [x \in Exchange |-> "idle"]
    /\ snap = [x \in Exchange |-> ring]
    /\ clock = [x \in Exchange |-> 0]
    /\ tokens = {}

\* Clients drop what no verifier accepts any more.
Tick ==
    /\ now < MaxTime
    /\ now' = now + 1
    /\ tokens' = {token \in tokens : Unexpired(token, now + 1)}
    /\ UNCHANGED <<ring, copy, ended, named, burned, pc, snap, clock>>

\* exchange takes its snapshot,
Begin(x) ==
    /\ pc[x] = "idle"
    /\ pc' = [pc EXCEPT ![x] = "begun"]
    /\ snap' = [snap EXCEPT ![x] = ring]
    /\ UNCHANGED <<now, ring, copy, ended, named, burned, clock, tokens>>

\* reads the clock,
ReadClock(x) ==
    /\ pc[x] = "begun"
    /\ pc' = [pc EXCEPT ![x] = "timed"]
    /\ clock' = [clock EXCEPT ![x] = now]
    /\ UNCHANGED <<now, ring, copy, ended, named, burned, snap, tokens>>

\* and signs with the active key of the snapshot, not of the live ring.
SignClaims(x) ==
    /\ pc[x] = "timed"
    /\ pc' = [pc EXCEPT ![x] = "idle"]
    /\ LET r == snap[x]
           token == [kid |-> r.active, material |-> r.keys[r.active], 
                     exp |-> clock[x] + TTL]
       IN  tokens' = tokens \cup {t \in {token} : Unexpired(t, now)}
    /\ UNCHANGED <<now, ring, copy, ended, named, burned, snap, clock>>

\* It is denied, or the process dies and starts again with the same ring.
Abandon(x) ==
    /\ pc[x] # "idle"
    /\ pc' = [pc EXCEPT ![x] = "idle"]
    /\ UNCHANGED <<now, ring, copy, ended, named, burned, snap, clock, tokens>>

-----------------------------------------------------------------------------
(* The operator *)

\* A kid has been out of use for as long as the operator waits.
Retired(k) == ended[k] # Never /\ now >= ended[k] + RetirementWait + Margin

\* Old keys stay until they are retired; a new one may take a retired name only
\* from an operator who reuses kids; and before a switch of the active key the
\* copies have been replaced.
Careful(next) ==
    /\ \A k \in Published(ring) \ Published(next) : Retired(k)
    /\ FreshKids => \A k \in Published(next) \ Published(ring) : 
                       \A m \in Material : <<k, m>> \notin named
    /\ next.active # ring.active => copy = JWKS(ring)

\* SIGHUP: Reload installs what AllowActivation accepts, and leaves the ring
\* alone otherwise.
Reload(next) ==
    /\ next # ring
    /\ Careful(next)
    /\ AllowActivation(ring, next)
    /\ ring' = next
    /\ named' = named \cup {<<k, next.keys[k]>> : k \in Published(next)}
    /\ ended' = [k \in Kid |-> IF k \in Published(next) \ {next.active} 
                               THEN ended[k] ELSE Never]
    /\ UNCHANGED <<now, copy, burned, pc, snap, clock, tokens>>

\* A compromised key goes at once, when another one is active.
Burn(k) ==
    /\ k \in Published(ring) \ {ring.active}
    /\ ring' = [ring EXCEPT !.keys = [j \in Published(ring) \ {k} |-> ring.keys[j]]]
    /\ burned' = burned \cup {k}
    /\ ended' = [ended EXCEPT ![k] = Never]
    /\ UNCHANGED <<now, copy, named, pc, snap, clock, tokens>>

\* The operator begins to wait for a kid that is not active any more.
StartWait(k) ==
    /\ k \in Published(ring) \ {ring.active}
    /\ ended[k] = Never
    /\ Drains => \A x \in Exchange : pc[x] # "idle" => snap[x].active # k
    /\ ended' = [ended EXCEPT ![k] = now]
    /\ UNCHANGED <<now, ring, copy, named, burned, pc, snap, clock, tokens>>

\* The file of the gateway is replaced by what the STS publishes.
Refresh ==
    /\ copy' = JWKS(ring)
    /\ UNCHANGED <<now, ring, ended, named, burned, pc, snap, clock, tokens>>

Next ==
    \/ Tick
    \/ Refresh
    \/ \E x \in Exchange : Begin(x) \/ ReadClock(x) \/ SignClaims(x) \/ Abandon(x)
    \/ \E next \in Rings : Reload(next)
    \/ \E k \in Kid : Burn(k) \/ StartWait(k)

Spec == Init /\ [][Next]_vars

-----------------------------------------------------------------------------
(* Properties *)

TypeOK ==
    /\ now \in 0..MaxTime
    /\ ring \in Rings
    /\ \A k \in DOMAIN copy : k \in Kid /\ copy[k] \in Material
    /\ ended \in [Kid -> {Never} \cup 0..now]
    /\ named \subseteq Kid \X Material
    /\ burned \subseteq Kid
    /\ pc \in [Exchange -> {"idle", "begun", "timed"}]
    /\ snap \in [Exchange -> Rings]
    /\ clock \in [Exchange -> 0..now]
    /\ \A token \in tokens : /\ token.kid \in Kid /\ token.material \in Material
                             /\ token.exp \in Nat /\ token.exp <= now + TTL

\* Rotation drops nothing: what ValidateTime still accepts verifies under the 
\* live JWKS and under the gateway's copy of it, across preload, activation 
\* and retirement and whatever exchanges were under way, unless its key was 
\* burned (AI13, docs/operations.md).
UnexpiredVerifies ==
    \A token \in tokens : 
        \/ token.kid \in burned
        \/ Verifies(token, JWKS(ring)) /\ Verifies(token, copy)
=============================================================================
