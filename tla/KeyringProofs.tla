----------------------------- MODULE KeyringProofs -----------------------------
(***************************************************************************)
(* Proof that a careful rotation drops no token, for any kids, keys,       *)
(* exchanges, lifetimes and skews: the operator begins to wait when no     *)
(* exchange has the old ring any more, waits at least a second longer than *)
(* KeyRetirementWait, and uses a kid for one key only.                     *)
(*                                                                         *)
(* Then that attestation neither trusts a key that is gone nor refuses one *)
(* that stays, for any files, key sets and moves of the provider.          *)
(***************************************************************************)
EXTENDS Keys, WellFoundedInduction, TLAPS

\* The operator's procedure the theorems are about.
CarefulOperator == Drains /\ FreshKids /\ Margin >= 1

\* A kid that may still sign, or has signed what is still accepted: it is in
\* both key sets, and only a burned one need not be.
Kept(k) == k \in burned \/ (k \in Published(ring) /\ k \in DOMAIN copy)

\* The active kid is in use and was shown to the copies.
ActiveInv ==
    /\ ring.active \in DOMAIN copy
    /\ ended[ring.active] = Never

\* Every pair of a kid and a key that is around was published, 
NamedInv ==
    /\ \A k \in Published(ring) : <<k, ring.keys[k]>> \in named
    /\ \A k \in DOMAIN copy : <<k, copy[k]>> \in named

\* a kid has been published with one key only, which is what FreshKids asks of the
\* operator: AllowActivation compares only the kids that are in both rings,
KidIsAKey == \A p, q \in named : p[1] = q[1] => p = q

\* that of an exchange under way, whose kid nobody waits for yet,
SnapInv ==
    \A x \in Exchange : pc[x] # "idle" =>
        LET k == snap[x].active
        IN  /\ <<k, snap[x].keys[k]>> \in named
            /\ Kept(k) 
            /\ k \notin burned => ended[k] = Never

\* and that of a token, which ends before the wait for its kid does.
TokenInv ==
    \A token \in tokens :
        /\ <<token.kid, token.material>> \in named
        /\ Kept(token.kid)
        /\ token.kid \notin burned /\ ended[token.kid] # Never
              => token.exp <= ended[token.kid] + TTL
        /\ Unexpired(token, now)

IInv == TypeOK /\ ActiveInv /\ NamedInv /\ KidIsAKey /\ SnapInv /\ TokenInv

-----------------------------------------------------------------------------

LEMMA RingFacts ==
    ASSUME NEW r \in Rings
    PROVE  /\ r.active \in Kid /\ r.active \in Published(r)
           /\ Published(r) \subseteq Kid
           /\ \A k \in Published(r) : r.keys[k] \in Material
  BY DEF Rings, IsRing, Published

LEMMA InvImplies == IInv => UnexpiredVerifies
  <1> SUFFICES ASSUME IInv, NEW token \in tokens, token.kid \notin burned
               PROVE  Verifies(token, JWKS(ring)) /\ Verifies(token, copy)
    BY DEF UnexpiredVerifies
  <1>1. /\ token.kid \in Published(ring) /\ token.kid \in DOMAIN copy
        /\ <<token.kid, token.material>> \in named
    BY DEF IInv, TokenInv, Kept
  <1>2. /\ <<token.kid, ring.keys[token.kid]>> \in named 
        /\ <<token.kid, copy[token.kid]>> \in named
    BY <1>1 DEF IInv, NamedInv
  <1>3. \A m : <<token.kid, m>> \in named => m = token.material
    BY <1>1 DEF IInv, KidIsAKey
  <1> QED BY <1>1, <1>2, <1>3 DEF Verifies, JWKS, Published

LEMMA InitInv == Init => IInv
  <1> SUFFICES ASSUME Init PROVE IInv
    OBVIOUS
  <1>1. PICK kid \in Kid, material \in Material : ring = SingleKey(kid, material)
    BY DEF Init
  <1>2. /\ ring.active = kid /\ Published(ring) = {kid} 
        /\ ring.keys[kid] = material /\ ring \in Rings
    <2>1. [k \in {kid} |-> material] \in [{kid} -> Material]
      OBVIOUS
    <2>2. [k \in {kid} |-> material] \in UNION {[K -> Material] : K \in SUBSET Kid}
      BY <2>1
    <2> QED BY <1>1, <2>2 DEF SingleKey, Published, Rings, IsRing
  <1> QED BY <1>2, KeyringAssumption
          DEF Init, IInv, TypeOK, ActiveInv, NamedInv, KidIsAKey, SnapInv, 
              TokenInv, JWKS, Published, Never

-----------------------------------------------------------------------------
(* Exchanges *)

LEMMA TickInv == IInv /\ Tick => IInv'
  <1> SUFFICES ASSUME IInv, Tick PROVE IInv'
    OBVIOUS
  <1>1. TypeOK'
    BY KeyringAssumption DEF IInv, TypeOK, Tick
  <1>2. (ActiveInv /\ NamedInv /\ KidIsAKey /\ SnapInv)'
    BY DEF IInv, Tick, ActiveInv, NamedInv, KidIsAKey, SnapInv, Kept
  <1>3. TokenInv'
    BY DEF IInv, Tick, TokenInv, Kept
  <1> QED BY <1>1, <1>2, <1>3 DEF IInv

LEMMA BeginInv == 
    ASSUME IInv, NEW x \in Exchange, Begin(x)
    PROVE  IInv'
  <1>1. TypeOK'
    BY DEF IInv, TypeOK, Begin
  <1>2. (ActiveInv /\ NamedInv /\ KidIsAKey /\ TokenInv)'
    BY DEF IInv, Begin, ActiveInv, NamedInv, KidIsAKey, TokenInv, Kept
  <1>3. SnapInv'
    <2> SUFFICES ASSUME NEW y \in Exchange, pc'[y] # "idle"
                 PROVE  /\ <<snap'[y].active, snap'[y].keys[snap'[y].active]>> \in named
                        /\ Kept(snap'[y].active)
                        /\ snap'[y].active \notin burned 
                              => ended[snap'[y].active] = Never
      BY DEF SnapInv, Kept, Begin
    <2>1. CASE y = x
      BY <2>1, RingFacts DEF IInv, TypeOK, Begin, ActiveInv, NamedInv, Kept
    <2>2. CASE y # x
      BY <2>2 DEF IInv, TypeOK, Begin, SnapInv
    <2> QED BY <2>1, <2>2
  <1> QED BY <1>1, <1>2, <1>3 DEF IInv

LEMMA ReadClockInv == 
    ASSUME IInv, NEW x \in Exchange, ReadClock(x)
    PROVE  IInv'
  <1>1. TypeOK'
    BY DEF IInv, TypeOK, ReadClock
  <1>2. (ActiveInv /\ NamedInv /\ KidIsAKey /\ TokenInv)'
    BY DEF IInv, ReadClock, ActiveInv, NamedInv, KidIsAKey, TokenInv, Kept
  <1>3. SnapInv'
    BY DEF IInv, TypeOK, ReadClock, SnapInv, Kept
  <1> QED BY <1>1, <1>2, <1>3 DEF IInv

LEMMA SignClaimsInv == 
    ASSUME IInv, NEW x \in Exchange, SignClaims(x)
    PROVE  IInv'
  <1> DEFINE k == snap[x].active
             minted == [kid |-> k, material |-> snap[x].keys[k], 
                        exp |-> clock[x] + TTL]
  <1>1. /\ tokens' \subseteq tokens \cup {minted}
        /\ minted \in tokens' => Unexpired(minted, now)  \/ minted \in tokens
        /\ UNCHANGED <<now, ring, copy, ended, named, burned, snap, clock>>
    BY DEF SignClaims
  <1>2. /\ k \in Kid /\ minted.material \in Material
        /\ minted.exp \in Nat /\ minted.exp <= now + TTL
    BY RingFacts, KeyringAssumption DEF IInv, TypeOK
  <1>3. TypeOK'
    BY <1>1, <1>2 DEF IInv, TypeOK, SignClaims
  <1>4. (ActiveInv /\ NamedInv /\ KidIsAKey)'
    BY DEF IInv, SignClaims, ActiveInv, NamedInv, KidIsAKey
  <1>5. SnapInv'
    BY DEF IInv, TypeOK, SignClaims, SnapInv, Kept
  <1>6. /\ <<k, minted.material>> \in named /\ Kept(k) 
        /\ k \notin burned => ended[k] = Never
    BY DEF IInv, SnapInv, SignClaims
  <1>7. TokenInv'
    <2> SUFFICES ASSUME NEW token \in tokens'
                 PROVE  /\ <<token.kid, token.material>> \in named
                        /\ Kept(token.kid)
                        /\ token.kid \notin burned /\ ended[token.kid] # Never
                              => token.exp <= ended[token.kid] + TTL
                        /\ Unexpired(token, now)
      BY <1>1 DEF TokenInv, Kept, Unexpired
    <2>1. CASE token \in tokens
      BY <2>1 DEF IInv, TokenInv
    <2>2. CASE token = minted
      BY <2>2, <1>1, <1>6 DEF IInv, TokenInv
    <2> QED BY <1>1, <2>1, <2>2
  <1> QED BY <1>3, <1>4, <1>5, <1>7 DEF IInv

LEMMA AbandonInv == 
    ASSUME IInv, NEW x \in Exchange, Abandon(x)
    PROVE  IInv'
  <1>1. TypeOK'
    BY DEF IInv, TypeOK, Abandon
  <1>2. (ActiveInv /\ NamedInv /\ KidIsAKey /\ TokenInv)'
    BY DEF IInv, Abandon, ActiveInv, NamedInv, KidIsAKey, TokenInv, Kept
  <1>3. SnapInv'
    BY DEF IInv, TypeOK, Abandon, SnapInv, Kept
  <1> QED BY <1>1, <1>2, <1>3 DEF IInv

-----------------------------------------------------------------------------
(* The operator *)

\* No kid that is still needed is removed: its wait has not ended.
LEMMA ReloadKeeps ==
    ASSUME CarefulOperator, IInv, NEW next \in Rings, Reload(next)
    PROVE  /\ \A x \in Exchange : pc[x] # "idle" => 
                 snap[x].active \in burned \/ snap[x].active \in Published(next)
           /\ \A token \in tokens : 
                 token.kid \in burned \/ token.kid \in Published(next)
  <1>1. \A k \in Published(ring) \ Published(next) : Retired(k)
    BY DEF Reload, Careful
  <1>2. \A x \in Exchange : pc[x] # "idle" => 
           snap[x].active \in burned \/ snap[x].active \in Published(next)
    BY <1>1 DEF IInv, SnapInv, Kept, Retired
  <1>3. ASSUME NEW token \in tokens, token.kid \notin burned, 
               token.kid \notin Published(next)
        PROVE  FALSE
    <2>1. token.kid \in Published(ring) /\ Retired(token.kid)
      BY <1>1, <1>3 DEF IInv, TokenInv, Kept
    <2>2. /\ token.exp \in Nat /\ now \in Nat /\ ended[token.kid] \in {Never} \cup 0..now
      BY DEF IInv, TypeOK
    <2>3. /\ ended[token.kid] # Never
          /\ now >= ended[token.kid] + RetirementWait + Margin
      BY <2>1 DEF Retired
    <2>4. /\ token.exp <= ended[token.kid] + TTL
          /\ now <= token.exp + ClockSkew
      BY <1>3, <2>3 DEF IInv, TokenInv, Unexpired
    <2> DEFINE e == ended[token.kid]
    <2>5. e \in Nat
      BY <2>2, <2>3 
    <2> HIDE DEF e
    <2> QED BY <2>2, <2>3, <2>4, <2>5, KeyringAssumption, ClockSkewAssumption 
            DEF CarefulOperator, RetirementWait, e
  <1> QED BY <1>2, <1>3

LEMMA ReloadInv ==
    ASSUME CarefulOperator, IInv, NEW next \in Rings, Reload(next)
    PROVE  IInv'
  <1> DEFINE added == {<<k, next.keys[k]>> : k \in Published(next)}
  <1>1. /\ ring' = next /\ named' = named \cup added
        /\ UNCHANGED <<now, copy, burned, pc, snap, clock, tokens>>
        /\ AllowActivation(ring, next) /\ Careful(next)
        /\ ended' = [k \in Kid |-> IF k \in Published(next) \ {next.active} 
                                   THEN ended[k] ELSE Never]
    BY DEF Reload
  <1>2. /\ next.active \in Kid /\ next.active \in Published(next) 
        /\ Published(next) \subseteq Kid
        /\ \A k \in Published(next) : next.keys[k] \in Material
    BY RingFacts
  <1>3. TypeOK'
    <2>1. added \subseteq Kid \X Material
      BY <1>2
    <2>2. named' \subseteq Kid \X Material
      BY <1>1, <2>1 DEF IInv, TypeOK
    <2>3. \A k \in Kid : ended'[k] \in {Never} \cup 0..now'
      BY <1>1 DEF IInv, TypeOK
    <2> QED BY <1>1, <2>2, <2>3 DEF IInv, TypeOK
  <1>4. ActiveInv'
    <2>1. ring.active \in DOMAIN copy
      BY DEF IInv, ActiveInv
    <2>2. next.active \in DOMAIN copy
      BY <1>1, <2>1 DEF Careful, AllowActivation, JWKS, Published
    <2> QED BY <1>1, <1>2, <2>2 DEF ActiveInv
  <1>5. NamedInv'
    BY <1>1 DEF IInv, NamedInv, Published
  <1>6. KidIsAKey'
    <2>1. ASSUME NEW p \in added, NEW q \in named, p[1] = q[1] PROVE p = q
      <3>1. PICK k \in Published(next) : p = <<k, next.keys[k]>>
        OBVIOUS
      <3>2. q = <<k, q[2]>> /\ q[2] \in Material
        BY <2>1, <3>1 DEF IInv, TypeOK
      <3>3. k \in Published(ring)
        BY <1>1, <3>2 DEF Careful, CarefulOperator
      <3>4. <<k, ring.keys[k]>> \in named /\ next.keys[k] = ring.keys[k]
        BY <1>1, <3>3 DEF IInv, NamedInv, AllowActivation, MaterialStable
      <3>5. <<k, ring.keys[k]>> = q
        BY <3>2, <3>4 DEF IInv, KidIsAKey
      <3> QED BY <3>1, <3>4, <3>5
    <2>2. ASSUME NEW p \in added, NEW q \in added, p[1] = q[1] PROVE p = q
      BY <2>2
    <2>3. ASSUME NEW p \in named, NEW q \in named, p[1] = q[1] PROVE p = q
      BY <2>3 DEF IInv, KidIsAKey
    <2>4. \A p, q \in named \cup added : p[1] = q[1] => p = q
      BY <2>1, <2>2, <2>3
    <2> QED BY <1>1, <2>4 DEF KidIsAKey
  <1>7. SnapInv'
    <2> SUFFICES ASSUME NEW x \in Exchange, pc[x] # "idle"
                 PROVE  LET k == snap[x].active
                        IN  /\ <<k, snap[x].keys[k]>> \in named'
                            /\ k \in burned \/ (k \in Published(next) /\ k \in DOMAIN copy)
                            /\ k \notin burned => ended'[k] = Never
      BY <1>1 DEF SnapInv, Kept
    <2>1. snap[x].active \in Kid
      BY RingFacts DEF IInv, TypeOK
    <2> QED BY <1>1, <2>1, ReloadKeeps DEF IInv, SnapInv, Kept
  <1>8. TokenInv'
    <2> SUFFICES ASSUME NEW token \in tokens
                 PROVE  LET k == token.kid
                        IN  /\ <<k, token.material>> \in named'
                            /\ k \in burned \/ (k \in Published(next) /\ k \in DOMAIN copy)
                            /\ k \notin burned /\ ended'[k] # Never 
                                  => token.exp <= ended'[k] + TTL
                            /\ Unexpired(token, now)
      BY <1>1 DEF TokenInv, Kept, Unexpired
    <2>1. token.kid \in Kid
      BY DEF IInv, TypeOK
    <2> QED BY <1>1, <2>1, ReloadKeeps DEF IInv, TokenInv, Kept
  <1> QED BY <1>3, <1>4, <1>5, <1>6, <1>7, <1>8 DEF IInv

LEMMA BurnInv ==
    ASSUME IInv, NEW k \in Kid, Burn(k)
    PROVE  IInv'
  <1>1. /\ k # ring.active /\ k \in Published(ring)
        /\ burned' = burned \cup {k} /\ ended' = [ended EXCEPT ![k] = Never]
        /\ UNCHANGED <<now, copy, named, pc, snap, clock, tokens>>
        /\ ring' = [ring EXCEPT !.keys = 
                        [j \in Published(ring) \ {k} |-> ring.keys[j]]]
    BY DEF Burn
  <1>2. /\ ring'.active = ring.active 
        /\ Published(ring)' = Published(ring) \ {k}
        /\ \A j \in Published(ring)' : ring'.keys[j] = ring.keys[j]
        /\ ring' \in Rings
    <2> DEFINE rest == [j \in Published(ring) \ {k} |-> ring.keys[j]]
    <2>1. /\ ring.active \in Kid /\ ring.active \in Published(ring)
          /\ Published(ring) \subseteq Kid
          /\ \A j \in Published(ring) : ring.keys[j] \in Material
      BY RingFacts DEF IInv, TypeOK
    <2>2. rest \in [Published(ring) \ {k} -> Material]
      BY <2>1
    <2>3. rest \in UNION {[K -> Material] : K \in SUBSET Kid}
      BY <2>1, <2>2
    <2>4. ring' = [active |-> ring.active, keys |-> rest]
      BY <1>1 DEF IInv, TypeOK, Rings
    <2> HIDE DEF rest
    <2>5. ring'.active = ring.active /\ ring'.keys = rest
      BY <2>4
    <2>6. ring' \in Rings
      BY <2>1, <2>3, <2>4, <1>1, <2>2 DEF Rings, IsRing, Published
    <2> QED BY <2>1, <2>5, <2>6, <1>1 DEF Published, rest
  <1>3. TypeOK'
    BY <1>1, <1>2 DEF IInv, TypeOK
  <1>4. (ActiveInv /\ NamedInv /\ KidIsAKey)'
    BY <1>1, <1>2 DEF IInv, TypeOK, ActiveInv, NamedInv, KidIsAKey, Published
  <1>5. \A j \in Kid : Kept(j) => Kept(j)'
    BY <1>1, <1>2 DEF Kept
  <1>6. SnapInv'
    <2>1. \A x \in Exchange : snap[x].active \in Kid
      BY RingFacts DEF IInv, TypeOK
    <2> QED BY <1>1, <1>5, <2>1 DEF IInv, TypeOK, SnapInv
  <1>7. TokenInv'
    BY <1>1, <1>5 DEF IInv, TypeOK, TokenInv, Unexpired
  <1> QED BY <1>3, <1>4, <1>6, <1>7 DEF IInv

LEMMA StartWaitInv ==
    ASSUME CarefulOperator, IInv, NEW k \in Kid, StartWait(k)
    PROVE  IInv'
  <1>1. /\ k # ring.active /\ ended[k] = Never
        /\ ended' = [ended EXCEPT ![k] = now]
        /\ \A x \in Exchange : pc[x] # "idle" => snap[x].active # k
        /\ UNCHANGED <<now, ring, copy, named, burned, pc, snap, clock, tokens>>
    BY DEF StartWait, CarefulOperator
  <1>2. TypeOK'
    BY <1>1 DEF IInv, TypeOK
  <1>3. (ActiveInv /\ NamedInv /\ KidIsAKey)'
    BY <1>1 DEF IInv, TypeOK, ActiveInv, NamedInv, KidIsAKey, Published
  <1>4. SnapInv'
    <2>1. \A x \in Exchange : pc[x] # "idle" => 
             ended'[snap[x].active] = ended[snap[x].active]
      BY <1>1 DEF IInv, TypeOK
    <2> QED BY <1>1, <2>1 DEF IInv, SnapInv, Kept
  <1>5. TokenInv'
    <2> SUFFICES ASSUME NEW token \in tokens
                 PROVE  ended'[token.kid] # Never /\ token.kid \notin burned
                           => token.exp <= ended'[token.kid] + TTL
      BY <1>1 DEF IInv, TokenInv, Kept, Unexpired
    <2>1. CASE token.kid = k
      BY <1>1, <2>1 DEF IInv, TypeOK
    <2>2. CASE token.kid # k
      BY <1>1, <2>2 DEF IInv, TypeOK, TokenInv
    <2> QED BY <2>1, <2>2
  <1> QED BY <1>2, <1>3, <1>4, <1>5 DEF IInv

LEMMA RefreshInv == IInv /\ Refresh => IInv'
  <1> SUFFICES ASSUME IInv, Refresh PROVE IInv'
    OBVIOUS
  <1>1. /\ copy' = ring.keys
        /\ UNCHANGED <<now, ring, ended, named, burned, pc, snap, clock, tokens>>
    BY DEF Refresh, JWKS
  <1>2. TypeOK'
    BY <1>1, RingFacts DEF IInv, TypeOK, Published
  <1>3. (ActiveInv /\ NamedInv /\ KidIsAKey)'
    BY <1>1, RingFacts 
    DEF IInv, TypeOK, ActiveInv, NamedInv, KidIsAKey, Published
  <1>4. \A j : Kept(j) => Kept(j)'
    BY <1>1 DEF Kept, Published
  <1>5. (SnapInv /\ TokenInv)'
    BY <1>1, <1>4 DEF IInv, SnapInv, TokenInv, Unexpired
  <1> QED BY <1>2, <1>3, <1>5 DEF IInv

-----------------------------------------------------------------------------

\* The invariant of a careful rotation.
THEOREM Inductive == ASSUME CarefulOperator PROVE Spec => []IInv
  <1>1. IInv /\ [Next]_vars => IInv'
    <2> SUFFICES ASSUME IInv, [Next]_vars PROVE IInv'
      OBVIOUS
    <2>1. CASE UNCHANGED vars
      BY <2>1 DEF vars, IInv, TypeOK, ActiveInv, NamedInv, KidIsAKey, SnapInv, 
                  TokenInv, Kept, Published, Unexpired
    <2>2. CASE Next
      BY <2>2, TickInv, RefreshInv, BeginInv, ReadClockInv, SignClaimsInv, 
         AbandonInv, ReloadInv, BurnInv, StartWaitInv DEF Next
    <2> QED BY <2>1, <2>2
  <1> QED BY <1>1, InitInv, PTL DEF Spec

\* The state of the ring and of everything that holds one has its type.
THEOREM TypeCorrect == ASSUME CarefulOperator PROVE Spec => []TypeOK
  <1>1. IInv => TypeOK
    BY DEF IInv
  <1> QED BY <1>1, Inductive, PTL

\* A careful rotation drops no token that ValidateTime still accepts, whatever 
\* exchanges were under way and however stale the copies are (AI13).
THEOREM RotationDropsNothing == 
    ASSUME CarefulOperator PROVE Spec => []UnexpiredVerifies
  <1> QED BY InvImplies, Inductive, PTL

-----------------------------------------------------------------------------
(* The choice of a key *)

\* There is a first of some positions, 
LEMMA FirstExists ==
  ASSUME NEW S, S \subseteq Nat, S # {}
  PROVE  \E i \in S : \A j \in S : i <= j
  <1>1. PICK i \in S : \A j \in S : <<j, i>> \notin OpToRel(<, Nat)
    BY NatLessThanWellFounded, WFMin
  <1>2. \A j \in S : ~(j < i)
    BY <1>1 DEF OpToRel
  <1>3. \A j \in S : i <= j
    BY <1>2
  <1> QED
    BY <1>3

\* and of those of a sequence a last one.
LEMMA LastExists ==
  ASSUME NEW n \in Nat, NEW S, S \subseteq 1..n, S # {}
  PROVE  \E i \in S : \A j \in S : j <= i
  <1> DEFINE T == {n - i : i \in S}
  <1>1. T \subseteq Nat /\ T # {}
    <2>1. \A i \in S : i \in 1..n /\ n - i \in Nat
      OBVIOUS
    <2> QED
      BY <2>1
  <1>2. PICK k \in T : \A l \in T : k <= l
    BY <1>1, FirstExists
  <1>3. PICK i \in S : k = n - i
    OBVIOUS
  <1>4. ASSUME NEW j \in S PROVE j <= i
    <2>1. n - j \in T
      OBVIOUS
    <2>2. n - i <= n - j
      BY <1>2, <1>3, <2>1
    <2> QED
      BY <2>2
  <1> QED
    BY <1>4

\* selectKey returns a key of the set, or none.
LEMMA SelectsOne ==
  ASSUME NEW ks, DOMAIN ks \subseteq Nat, NEW kid, NEW alg,
         Workload!SelectKey(ks, kid, alg) # None
  PROVE  \E i \in DOMAIN ks : Workload!SelectKey(ks, kid, alg) = ks[i]
  <1>1. PICK S \in SUBSET DOMAIN ks : 
           S # {} /\ Workload!SelectKey(ks, kid, alg) = Workload!First(ks, S)
    BY DEF Workload!SelectKey
  <1>2. \E i \in S : \A j \in S : i <= j
    BY <1>1, FirstExists
  <1> QED
    BY <1>1, <1>2 DEF Workload!First

\* A key that alone has its name and fits the algorithm is the one selected.
LEMMA SelectsNamed ==
  ASSUME NEW ks, DOMAIN ks \subseteq Nat, NEW alg, NEW i \in DOMAIN ks,
         ks[i].kid # None, ks[i].alg \in {None, alg},
         \A j \in DOMAIN ks : 
            ks[j].kid = ks[i].kid /\ ks[j].alg \in {None, alg} => j = i
  PROVE  Workload!SelectKey(ks, ks[i].kid, alg) = ks[i]
  <1> DEFINE matched == {j \in DOMAIN ks : /\ ks[i].kid \in {None, ks[j].kid}
                                           /\ ks[j].alg \in {None, alg}}
  <1>1. matched = {i}
    OBVIOUS
  <1>2. Workload!First(ks, {i}) = ks[i]
    BY DEF Workload!First
  <1> QED
    BY <1>1, <1>2 DEF Workload!SelectKey

\* MergeJWKS keeps of all keys with one name the last, and no two with one name.
LEMMA MergeKeepsLast ==
  ASSUME NEW ks \in Files, NEW i \in DOMAIN ks, ks[i].kid # None,
         \A j \in DOMAIN ks : j > i => ks[j].kid # ks[i].kid
  PROVE  LET merged == Workload!MergeJWKS(ks)
         IN  \E f \in DOMAIN merged :
                /\ merged[f] = ks[i]
                /\ \A g \in DOMAIN merged : merged[g].kid = ks[i].kid => g = f
  <1> DEFINE merged == Workload!MergeJWKS(ks)
             same(j) == Workload!Namesakes(ks, j)
  <1>1. Len(ks) \in Nat /\ DOMAIN ks = 1..Len(ks)
    BY KeysAssumption
  <1>2. \A j \in DOMAIN ks : j \in same(j) /\ same(j) \subseteq DOMAIN ks
    BY DEF Workload!Namesakes
  <1>3. \A j \in DOMAIN ks : \A l \in same(j) : 
           ks[l].kid = ks[j].kid /\ (ks[j].kid # None => same(l) = same(j))
    BY DEF Workload!Namesakes
  <1>4. \A j \in DOMAIN ks : j \in same(i) <=> ks[j].kid = ks[i].kid
    BY DEF Workload!Namesakes
  <1>5. /\ DOMAIN merged = {j \in DOMAIN ks : \A l \in same(j) : j <= l}
        /\ \A j \in DOMAIN merged : merged[j] = Workload!Last(ks, same(j))
    BY DEF Workload!MergeJWKS
  <1> HIDE DEF merged, same
  <1>6. PICK f \in same(i) : \A j \in same(i) : f <= j
    <2>1. same(i) \subseteq Nat /\ same(i) # {}
      BY <1>1, <1>2
    <2> QED
      BY <2>1, FirstExists
  <1>7. f \in DOMAIN merged /\ same(f) = same(i)
    BY <1>2, <1>3, <1>5, <1>6
  <1>8. Workload!Last(ks, same(i)) = ks[i]
    <2>1. i \in same(i) /\ \A j \in same(i) : j <= i
      BY <1>1, <1>2, <1>4
    <2>2. \A k \in same(i) : (\A j \in same(i) : j <= k) => k = i
      BY <1>1, <1>2, <2>1
    <2> QED
      BY <2>1, <2>2 DEF Workload!Last
  <1>9. ASSUME NEW g \in DOMAIN merged, merged[g].kid = ks[i].kid
        PROVE  g = f
    <2>1. g \in DOMAIN ks /\ \A l \in same(g) : g <= l
      BY <1>5
    <2>2. \E k \in same(g) : \A j \in same(g) : j <= k
      BY <1>1, <1>2, <2>1, LastExists
    <2>3. PICK k \in same(g) : merged[g] = ks[k]
      BY <1>5, <2>2 DEF Workload!Last
    <2>4. ks[g].kid = ks[i].kid
      BY <1>3, <1>9, <2>1, <2>3
    <2>5. g \in same(i) /\ same(g) = same(i)
      BY <1>3, <1>4, <2>1, <2>4
    <2> QED
      BY <1>1, <1>2, <1>6, <2>1, <2>5
  <1> QED
    BY <1>5, <1>7, <1>8, <1>9 DEF merged

-----------------------------------------------------------------------------
(* Attestation *)

\* The local keys are of one of the files; at the provider and in what was seen 
\* of it are key sets of its own; and an attestation that is under way is told
\* what is, or was, published since it began.
AttestInv ==
    /\ step \in {"idle", "begun", "discovered", "done"}
    /\ \E ks \in Files : local = Workload!MergeJWKS(ks)
    /\ uri \in URI
    /\ docs \in [URI -> KeySets]
    /\ seen \subseteq KeySets
    /\ step # "idle" => tok \in Tokens
    /\ step \in {"begun", "discovered"} => docs[uri] \in seen
    /\ step = "discovered" => found \in URI /\ docs[found] \in seen
    /\ step \in {"begun", "discovered"} => Workload!LocalAttest(tok) = None
    /\ step \in {"begun", "discovered"} => result = None 
    /\ step # "done" => lost = FALSE
    /\ step = "done" => 
          \/ result # None /\ result = Workload!LocalAttest(tok)
          \/ /\ Workload!LocalAttest(tok) = None
             /\ \/ \E ks \in seen : result = Workload!SVIDAttest(tok, ks)
                \/ result = None /\ lost = TRUE

LEMMA AttestInit ==
  ASSUME Workload!Init
  PROVE  AttestInv
  BY DEF Workload!Init, AttestInv

LEMMA AttestStep ==
  ASSUME AttestInv, Workload!Next \/ UNCHANGED workload
  PROVE  AttestInv'
  <1>1. ASSUME NEW t \in Tokens, Workload!Begin(t)
        PROVE  AttestInv'
    <2>1. docs[uri] \in KeySets
      BY DEF AttestInv
    <2>2. /\ UNCHANGED <<local, uri, docs, found>> /\ seen' = {docs[uri]}
          /\ tok' = t /\ result' = Workload!LocalAttest(t) /\ lost' = lost
          /\ step' = IF Workload!LocalAttest(t) = None THEN "begun" ELSE "done"
      BY <1>1 DEF Workload!Begin
    <2>3. /\ step' \in {"begun", "done"} /\ lost' = FALSE
          /\ \E ks \in Files : local' = Workload!MergeJWKS(ks)
          /\ uri' \in URI /\ docs' \in [URI -> KeySets] /\ seen' \subseteq KeySets
          /\ tok' \in Tokens /\ docs'[uri'] \in seen'
      BY <1>1, <2>1, <2>2 DEF AttestInv, Workload!Begin
    <2>4. Workload!LocalAttest(tok)' = Workload!LocalAttest(t)
      BY <2>2 DEF Workload!LocalAttest
    <2>5. /\ step' = "begun" => Workload!LocalAttest(tok)' = None /\ result' = None
          /\ step' = "done" => result' = Workload!LocalAttest(tok)' /\ result' # None
      BY <2>2, <2>4
    <2> QED
      BY <2>3, <2>5 DEF AttestInv
  <1>2. CASE Workload!End
    BY <1>2 DEF Workload!End, AttestInv
  <1>3. CASE Workload!Lose
    BY <1>3 DEF Workload!Lose, AttestInv, Workload!LocalAttest
  <1>4. CASE Workload!FetchOIDC
    BY <1>4 DEF Workload!FetchOIDC, AttestInv, Workload!LocalAttest
  <1>5. CASE Workload!FetchJWKS
    BY <1>5 DEF Workload!FetchJWKS, AttestInv, Workload!LocalAttest, 
                Workload!SVIDAttest
  <1>6. ASSUME NEW u \in URI, NEW ks \in KeySets, Workload!Publish(u, ks)
        PROVE  AttestInv'
    BY <1>6 DEF Workload!Publish, AttestInv, Workload!LocalAttest
  <1>7. CASE UNCHANGED workload
    BY <1>7 DEF workload, AttestInv, Workload!LocalAttest, Workload!SVIDAttest
  <1> QED
    BY <1>1, <1>2, <1>3, <1>4, <1>5, <1>6, <1>7 DEF Workload!Next

\* The key that the signature satisfied is of the set it was looked for in.
LEMMA VerifiedBy ==
  ASSUME NEW ks, DOMAIN ks \subseteq Nat, NEW t, Workload!VerifyKey(t, ks) # None
  PROVE  \E i \in DOMAIN ks : /\ Workload!VerifyKey(t, ks) = ks[i]
                              /\ ks[i].by = t.by /\ AlgOf[ks[i].by] = t.alg
  <1>1. /\ Workload!SelectKey(ks, t.kid, t.alg) # None
        /\ Workload!Matches(t, Workload!SelectKey(ks, t.kid, t.alg))
        /\ Workload!VerifyKey(t, ks) = Workload!SelectKey(ks, t.kid, t.alg)
    BY DEF Workload!VerifyKey
  <1> QED
    BY <1>1, SelectsOne DEF Workload!Matches

\* The key of an honest signer verifies what it signed where it alone has its
\* name and fits the algorithm.
LEMMA HonestVerifies ==
  ASSUME NEW ks, DOMAIN ks \subseteq Nat, NEW t, NEW i \in DOMAIN ks,
         ks[i] # None, ks[i].alg \in {None, AlgOf[ks[i].by]},
         Workload!Honest(t, ks[i]),
         \A j \in DOMAIN ks : 
            ks[j].kid = ks[i].kid /\ ks[j].alg \in {None, t.alg} => j = i
  PROVE  Workload!VerifyKey(t, ks) = ks[i]
  <1>1. /\ ks[i].kid = t.kid /\ ks[i].kid # None
        /\ ks[i].by = t.by /\ t.alg = AlgOf[ks[i].by]
    BY DEF Workload!Honest
  <1>2. Workload!SelectKey(ks, ks[i].kid, t.alg) = ks[i]
    BY <1>1, SelectsNamed
  <1>3. Workload!Matches(t, ks[i])
    BY <1>1 DEF Workload!Matches
  <1> QED
    BY <1>1, <1>2, <1>3 DEF Workload!VerifyKey

\* Positions are numbers, in files, key sets and what was merged of a file.
LEMMA Positions ==
  /\ \A ks \in Files \cup KeySets : DOMAIN ks \subseteq Nat
  /\ \A ks \in Files : DOMAIN Workload!MergeJWKS(ks) \subseteq Nat
  <1>1. ASSUME NEW ks \in Files \cup KeySets
        PROVE  DOMAIN ks \subseteq Nat
    BY KeysAssumption
  <1>2. ASSUME NEW ks \in Files
        PROVE  DOMAIN Workload!MergeJWKS(ks) \subseteq DOMAIN ks
    BY DEF Workload!MergeJWKS
  <1> QED
    BY <1>1, <1>2

\* Only live keys attest.
LEMMA Live ==
  ASSUME AttestInv
  PROVE  Workload!OnlyLiveKeys
  <1> SUFFICES ASSUME step = "done", result # None
               PROVE  IF result.jkt = None
                      THEN \E ks \in seen : \E i \in DOMAIN ks : 
                              ks[i].by = tok.by /\ AlgOf[ks[i].by] = tok.alg
                      ELSE /\ result.jkt = tok.by
                           /\ \E i \in DOMAIN local : 
                                  local[i].by = result.jkt /\ local[i].sub = result.id
    BY DEF Workload!OnlyLiveKeys, Workload!Attested
  <1>1. CASE result = Workload!LocalAttest(tok)
    <2> DEFINE k == Workload!VerifyKey(tok, local)
    <2>1. /\ k # None /\ k.sub = tok.sub
          /\ result = [id |-> tok.sub, jkt |-> k.by]
      BY <1>1 DEF Workload!LocalAttest
    <2>2. DOMAIN local \subseteq Nat
      BY Positions DEF AttestInv
    <2>3. PICK i \in DOMAIN local : k = local[i] /\ k.by = tok.by
      BY <2>1, <2>2, VerifiedBy
    <2>4. tok.by # None
      BY KeysAssumption DEF AttestInv
    <2> HIDE DEF k
    <2> QED
      BY <2>1, <2>3, <2>4
  <1>2. ASSUME NEW ks \in seen, result = Workload!SVIDAttest(tok, ks)
        PROVE  result.jkt = None /\ \E i \in DOMAIN ks : 
                  ks[i].by = tok.by /\ AlgOf[ks[i].by] = tok.alg
    <2>1. /\ Workload!VerifyKey(tok, ks) # None
          /\ result = [id |-> tok.sub, jkt |-> None]
      BY <1>2 DEF Workload!SVIDAttest
    <2>2. DOMAIN ks \subseteq Nat
      BY Positions DEF AttestInv
    <2> QED
      BY <2>1, <2>2, VerifiedBy
  <1> QED
    BY <1>1, <1>2 DEF AttestInv

\* What the last file says of a key attests its workload.
LEMMA LocalsAttested ==
  ASSUME AttestInv, step = "done", tok.valid, Workload!InLastFile(tok)
  PROVE  result # None /\ result.jkt = tok.by
  <1>1. PICK ks \in Files : \E i \in DOMAIN ks :
            /\ local = Workload!MergeJWKS(ks)
            /\ \A j \in DOMAIN ks : j > i => ks[j].kid # ks[i].kid
            /\ ks[i].sub # None /\ tok.sub = ks[i].sub 
            /\ Workload!Honest(tok, ks[i])
    BY DEF Workload!InLastFile
  <1>2. PICK i \in DOMAIN ks :
            /\ local = Workload!MergeJWKS(ks)
            /\ \A j \in DOMAIN ks : j > i => ks[j].kid # ks[i].kid
            /\ ks[i].sub # None /\ tok.sub = ks[i].sub 
            /\ Workload!Honest(tok, ks[i])
    BY <1>1
  <1>3. ks[i].kid # None /\ ks[i].by = tok.by
    BY <1>2 DEF Workload!Honest
  <1>4. PICK f \in DOMAIN local :
            /\ local[f] = ks[i]
            /\ \A g \in DOMAIN local : local[g].kid = ks[i].kid => g = f
    BY <1>2, <1>3, MergeKeepsLast
  <1>5. ks[i] # None /\ ks[i].alg \in {None, AlgOf[ks[i].by]}
    BY KeysAssumption
  <1>6. DOMAIN local \subseteq Nat
    BY <1>2, Positions
  <1>7. Workload!VerifyKey(tok, local) = ks[i]
    <2>1. Workload!VerifyKey(tok, local) = local[f]
      BY <1>2, <1>4, <1>5, <1>6, HonestVerifies
    <2> QED
      BY <2>1, <1>4
  <1>8. Workload!LocalAttest(tok) = [id |-> tok.sub, jkt |-> tok.by]
    BY <1>2, <1>3, <1>5, <1>7 DEF Workload!LocalAttest
  <1>9. Workload!LocalAttest(tok) # None
    BY <1>8, KeysAssumption DEF AttestInv
  <1>10. result = Workload!LocalAttest(tok)
    BY <1>9 DEF AttestInv
  <1> QED
    BY <1>8, <1>9, <1>10

\* A key set that keeps a key under its name attests who signed with it.
LEMMA ProviderAttests ==
  ASSUME NEW t \in Tokens, t.valid, t.sub \in Spiffe, t.iss = Issuer,
         NEW ks \in KeySets, NEW i \in DOMAIN ks, Workload!Honest(t, ks[i])
  PROVE  Workload!SVIDAttest(t, ks) # None
  <1>1. ks[i].kid # None /\ t.alg = AlgOf[ks[i].by]
    BY DEF Workload!Honest
  <1>2. ks[i] # None /\ ks[i].alg \in {None, AlgOf[ks[i].by]}
    BY KeysAssumption
  <1>3. ASSUME NEW j \in DOMAIN ks, ks[j].kid = ks[i].kid, 
               ks[j].alg \in {None, t.alg}, j # i
        PROVE  FALSE
    <2>1. None \notin {ks[i].alg, ks[j].alg} /\ ks[i].alg # ks[j].alg
      BY <1>1, <1>3, NamesAssumption
    <2> QED
      BY <1>1, <1>2, <1>3, <2>1
  <1>4. DOMAIN ks \subseteq Nat
    BY Positions
  <1>5. Workload!VerifyKey(t, ks) = ks[i]
    BY <1>2, <1>3, <1>4, HonestVerifies
  <1>6. Workload!SVIDAttest(t, ks) = [id |-> t.sub, jkt |-> None]
    BY <1>2, <1>5 DEF Workload!SVIDAttest
  <1> QED
    BY <1>6, KeysAssumption

\* Nobody is refused whose key is in place throughout.
LEMMA Throughout ==
  ASSUME AttestInv
  PROVE  Workload!ThroughoutAttested
  <1>1. ASSUME step = "done", tok.valid, Workload!InPlace(tok), ~lost
        PROVE  result # None
    <2>1. CASE result = Workload!LocalAttest(tok) /\ result # None
      BY <2>1
    <2>2. ASSUME NEW ks \in seen, result = Workload!SVIDAttest(tok, ks)
          PROVE  result # None
      <3>1. tok \in Tokens /\ ks \in KeySets
        BY <1>1 DEF AttestInv
      <3>2. PICK i \in DOMAIN ks : Workload!Honest(tok, ks[i])
        BY <1>1 DEF Workload!InPlace
      <3>3. tok.sub \in Spiffe /\ tok.iss = Issuer
        BY <1>1 DEF Workload!InPlace
      <3> QED
        BY <1>1, <2>2, <3>1, <3>2, <3>3, ProviderAttests
    <2> QED
      BY <1>1, <2>1, <2>2 DEF AttestInv
  <1> QED
    BY <1>1, LocalsAttested DEF Workload!ThroughoutAttested

-----------------------------------------------------------------------------

KeysInv == part = "attest" => AttestInv

\* What an attestation was told stays so beside the rotation.
THEOREM AttestInductive == KeysSpec => []KeysInv
  <1>1. KeysInit => KeysInv
    BY AttestInit DEF KeysInit, KeysInv
  <1>2. KeysInv /\ [KeysNext]_keysVars => KeysInv'
    <2> SUFFICES ASSUME KeysInv, [KeysNext]_keysVars, part' = "attest"
                 PROVE  AttestInv'
      BY DEF KeysInv
    <2>1. CASE Stay
      BY <2>1 DEF Stay
    <2>2. CASE Idle /\ Workload!Next
      BY <2>2, AttestStep DEF Idle, KeysInv
    <2>3. CASE UNCHANGED keysVars
      BY <2>3, AttestStep DEF keysVars, KeysInv
    <2> QED
      BY <2>1, <2>2, <2>3 DEF KeysNext, Workload!Next
  <1> QED
    BY <1>1, <1>2, PTL DEF KeysSpec

\* Only a key that is live, or a workload's own, attests (LiveOIDC, LocalKeys).
THEOREM LiveKeysOnly == KeysSpec => []OnlyLiveKeys
  <1>1. KeysInv => OnlyLiveKeys
    BY Live DEF KeysInv, OnlyLiveKeys
  <1> QED
    BY <1>1, AttestInductive, PTL

\* A rotation of the provider refuses nobody whose key stays in place, and the
\* last file decides whose a key is (selectKey, MergeJWKS).
THEOREM NobodyRefused == KeysSpec => []ThroughoutAttested
  <1>1. KeysInv => ThroughoutAttested
    BY Throughout DEF KeysInv, ThroughoutAttested
  <1> QED
    BY <1>1, AttestInductive, PTL

\* The ring of the composition is the one that the theorems of it are about.
THEOREM KeysImplementRing == KeysSpec => Spec
  <1>1. KeysInit => Init
    BY DEF KeysInit
  <1>2. [KeysNext]_keysVars => [Next]_vars
    <2>1. KeysNext => Next \/ UNCHANGED vars
      BY DEF KeysNext, Next, Idle
    <2>2. UNCHANGED keysVars => UNCHANGED vars
      BY DEF keysVars
    <2> QED
      BY <2>1, <2>2
  <1> QED
    BY <1>1, <1>2, PTL DEF KeysSpec, Spec
=============================================================================
