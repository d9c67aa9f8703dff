------------------------------ MODULE STSProofs ------------------------------
(***************************************************************************)
(* Proofs about the token exchange, for any clients, handlers, documents,  *)
(* reloads and restarts: what the chain of a token says, how long it may   *)
(* get, that a subject and a proof are good for one token, that one        *)
(* document decides, and that the log knows what was released.             *)
(***************************************************************************)
EXTENDS STS, SequenceTheorems, TLAPS

TXN == Nat \cup {s.txn : s \in IdPToken}

JKT == {a.jkt : a \in Actor} \cup {proof.jkt : proof \in Proof}

STSToken == [iss : {"sts"}, sub : Principal, aud : {{a} : a \in Audience}, 
             exp : Nat, nbf : Nat, jti : Nat, txn : TXN, 
             act : Seq(Agent), actchain : Seq(Agent), scope : SUBSET Scope, 
             jkt : JKT]

Origins == [line : Seq(Nat), root : IdPToken, agent : Agent, 
            workload : {a.workload : a \in Actor}, snap : Nat, at : Nat, 
            proof : Proof \cup {None}, provedAt : Nat]

Requests == [agent : Agent, audience : Audience, scope : SUBSET Scope, 
             actor : Actor \cup {None}, proof : Proof \cup {None},
             subject : {Forged} \cup IdPToken \cup STSToken]

ReplayClaims == [jti : Keys, exp : Nat, aliases : SUBSET Keys]

Grants == [claim : ReplayClaims, at : Nat]

\* Where a handler has a request, where it has spent its proof, where it has a
\* snapshot, and where the snapshot has allowed it.
Active == {"received", "proved", "snapped", "cleared", "spent"}
Proved == Active \ {"received"}
Snapped == Proved \ {"proved"}
Cleared == {"cleared", "spent"}

WorldType ==
    /\ now \in 1..MaxTime
    /\ docs \in Seq(Document) /\ docs # <<>>
    /\ grants \in Seq(Grants)
    /\ auditUp \in BOOLEAN

TokenType ==
    /\ tokens \in Seq(STSToken)
    /\ origin \in Seq(Origins)
    /\ Len(origin) = Len(tokens)
    /\ \A n \in DOMAIN tokens : /\ tokens[n].jti = n 
                               /\ tokens[n].jkt # None
                               /\ origin[n].snap \in DOMAIN docs
    /\ returned \subseteq DOMAIN tokens

HandlerType ==
    /\ pc \in [Proc -> Active \cup {"idle", "decided", "audited"}]
    /\ req \in [Proc -> Requests \cup {None}]
    /\ snap \in [Proc -> 0..Len(docs)]
    /\ clock \in [Proc -> 0..now]
    /\ granted \in [Proc -> 0..now]
    /\ proved \in [Proc -> 0..now]
    /\ out \in [Proc -> 0..Len(tokens)]

\* What a handler holds: a request with a token that is out, a snapshot, and a
\* decision that the snapshot allows.
RequestInv ==
    \A p \in Proc :
        /\ pc[p] \in Active => 
              req[p] \in Requests /\ req[p].subject \in Presentable
        /\ pc[p] = "received" => req[p].proof # None
        /\ pc[p] \in Snapped => snap[p] \in DOMAIN docs
        /\ pc[p] \in Cleared => 
              Verdict(req[p], docs[snap[p]], clock[p]) = "ok"
        /\ pc[p] = "cleared" => FromSTS(req[p].subject)

Typed == WorldType /\ TokenType /\ HandlerType /\ RequestInv

-----------------------------------------------------------------------------
(* What a verdict says *)

LEMMA Bounds == 
    /\ TTL \in Nat \ {0} /\ MaxTime \in Nat \ {0} /\ ClockSkew \in Nat
  BY STSAssumption, ClockSkewAssumption

LEMMA VerdictOk ==
    ASSUME NEW r, NEW doc, NEW t, Verdict(r, doc, t) = "ok"
    PROVE  /\ r.actor # None
           /\ Authorize(doc.registry, r.agent, r.actor.workload, r.audience, t) = "ok"
           /\ ~DeniesAgent(doc.denylist, r.agent)
           /\ ~DeniesWorkload(doc.denylist, r.actor.workload)
           /\ r.subject # Forged
           /\ ~DeniesPrincipal(doc.denylist, r.subject.sub)
           /\ ~Expired(r.subject, t) 
           /\ r.agent \in r.subject.aud
           /\ ~ScopeWidens(r.scope, r.subject.scope, doc.registry[r.agent].maxScopes)
           /\ ~(Len(AppendChain(r.subject)) + 1 > doc.registry[r.agent].maxDepth)
           /\ ~FromSTS(r.subject) => r.subject.actchain = <<>> /\ r.subject.act = <<>>
           /\ FromSTS(r.subject) => r.subject.txn # None
  BY DEF Verdict

LEMMA AuthorizeOk ==
    ASSUME NEW registry, NEW agent, NEW workload, NEW audience, NEW t,
           Authorize(registry, agent, workload, audience, t) = "ok"
    PROVE  agent \in DOMAIN registry /\ audience \in registry[agent].audiences
  BY DEF Authorize

\* The entry of an agent that was allowed.
LEMMA EntryTyped ==
    ASSUME NEW doc \in Document, NEW r, NEW t, Verdict(r, doc, t) = "ok"
    PROVE  /\ doc.registry[r.agent].maxScopes \subseteq Scope
           /\ doc.registry[r.agent].maxDepth \in Nat
  <1>1. r.agent \in DOMAIN doc.registry
    BY VerdictOk, AuthorizeOk
  <1>2. IsRegistry(doc.registry)
    BY STSAssumption
  <1>3. doc.registry[r.agent] \in AgentEntry
    BY <1>1, <1>2 DEF IsRegistry
  <1> QED
    BY <1>3 DEF AgentEntry

\* A subject that verified is a user token or a token that is out.
LEMMA Subjects ==
    ASSUME TokenType, NEW s \in Presentable, s # Forged
    PROVE  /\ FromSTS(s) => /\ s.jti \in returned /\ s.jti \in DOMAIN tokens 
                            /\ s = tokens[s.jti] /\ s \in STSToken
           /\ ~FromSTS(s) => s \in IdPToken
           /\ s.sub \in Principal /\ s.exp \in Nat /\ s.scope \subseteq Scope
           /\ s.act \in Seq(Agent) /\ s.actchain \in Seq(Agent)
  <1>1. CASE s \in IdPToken
    BY <1>1, STSAssumption DEF FromSTS
  <1>2. ASSUME NEW n \in returned, s = tokens[n]
        PROVE  /\ n \in DOMAIN tokens /\ s.jti = n /\ s \in STSToken 
               /\ s.sub \in Principal /\ s.exp \in Nat /\ s.scope \subseteq Scope
               /\ s.act \in Seq(Agent) /\ s.actchain \in Seq(Agent) /\ FromSTS(s)
    <2>1. n \in DOMAIN tokens
      BY DEF TokenType
    <2>2. s \in STSToken /\ s.jti = n
      BY <1>2, <2>1 DEF TokenType
    <2> QED
      BY <2>1, <2>2 DEF STSToken, FromSTS
  <1> QED
    BY <1>1, <1>2 DEF Presentable

-----------------------------------------------------------------------------
(* What a step changes *)

\* A handler that is about to mint knows all that the token will say.
LEMMA MintedTyped ==
    ASSUME Typed, NEW p \in Proc, Mint(p)
    PROVE  /\ Minted(p, Len(tokens) + 1) \in STSToken
           /\ Minted(p, Len(tokens) + 1).jti = Len(tokens) + 1
           /\ Minted(p, Len(tokens) + 1).jkt # None
           /\ Origin(p, Len(tokens) + 1) \in Origins
           /\ Origin(p, Len(tokens) + 1).snap \in DOMAIN docs
  <1> DEFINE r == req[p]
             s == req[p].subject
             doc == docs[snap[p]]
             jti == Len(tokens) + 1
  <1>1. /\ pc[p] = "spent" /\ ConfirmJKT(r) # None
        /\ r \in Requests /\ s \in Presentable /\ snap[p] \in DOMAIN docs
        /\ Verdict(r, doc, clock[p]) = "ok"
    BY DEF Mint, Typed, RequestInv, Active, Snapped, Proved, Cleared
  <1>2. /\ r.agent \in Agent /\ r.audience \in Audience /\ r.scope \subseteq Scope
        /\ r.actor \in Actor \cup {None} /\ r.proof \in Proof \cup {None}
    BY <1>1 DEF Requests
  <1>3. /\ r.actor \in Actor /\ s # Forged
        /\ doc.registry[r.agent].maxScopes \subseteq Scope
    <2>1. doc \in Document
      BY <1>1 DEF Typed, WorldType
    <2> QED
      BY <1>1, <1>2, <2>1, VerdictOk, EntryTyped
  <1>4. /\ s.sub \in Principal /\ s.exp \in Nat /\ s.scope \subseteq Scope
        /\ s.act \in Seq(Agent) /\ s.actchain \in Seq(Agent)
        /\ FromSTS(s) => s.jti \in DOMAIN tokens /\ s = tokens[s.jti] /\ s \in STSToken
        /\ ~FromSTS(s) => s \in IdPToken
    BY <1>1, <1>3, Subjects DEF Typed
  <1>5. clock[p] \in Nat /\ granted[p] \in Nat /\ proved[p] \in Nat /\ jti \in Nat
        /\ snap[p] \in Nat
    BY Bounds DEF Typed, HandlerType, WorldType, TokenType
  <1>6. Txn(s, jti) \in TXN
    <2>1. CASE FromSTS(s)
      BY <1>4, <2>1 DEF Txn, STSToken
    <2>2. CASE ~FromSTS(s)
      BY <1>4, <1>5, <2>2 DEF Txn, TXN
    <2> QED
      BY <2>1, <2>2
  <1>7. NestedAct(r.agent, s.act) \in Seq(Agent) /\ AppendChain(s) \in Seq(Agent)
    BY <1>2, <1>4 DEF NestedAct, AppendChain
  <1>8. NarrowScope(r.scope, s.scope, doc.registry[r.agent].maxScopes) \subseteq Scope
    BY <1>2, <1>3, <1>4 DEF NarrowScope, ScopeCeiling
  <1>9. ConfirmJKT(r) \in JKT
    BY <1>2, <1>3 DEF ConfirmJKT, JKT
  <1>10. clock[p] + TTL \in Nat
    BY <1>5, Bounds
  <1>11. /\ Minted(p, jti) \in STSToken /\ Minted(p, jti).jti = jti 
         /\ Minted(p, jti).jkt # None
    <2> HIDE DEF jti
    <2> QED
      BY <1>1, <1>2, <1>4, <1>5, <1>6, <1>7, <1>8, <1>9, <1>10 DEF Minted, STSToken
  <1>12. Origin(p, jti).line \in Seq(Nat) /\ Origin(p, jti).root \in IdPToken
    <2> HIDE DEF jti
    <2>1. CASE FromSTS(s)
      <3>1. s.jti \in DOMAIN origin /\ origin \in Seq(Origins)
        BY <1>4, <2>1 DEF Typed, TokenType
      <3>2. origin[s.jti] \in Origins
        BY <3>1
      <3>3. origin[s.jti].line \in Seq(Nat) /\ origin[s.jti].root \in IdPToken
        BY <3>2 DEF Origins
      <3>4. /\ Origin(p, jti).line = Append(origin[s.jti].line, jti)
            /\ Origin(p, jti).root = origin[s.jti].root
        BY <2>1 DEF Origin
      <3> QED
        BY <1>5, <3>3, <3>4
    <2>2. CASE ~FromSTS(s)
      BY <1>4, <1>5, <2>2 DEF Origin
    <2> QED
      BY <2>1, <2>2
  <1>13. Origin(p, jti) \in Origins /\ Origin(p, jti).snap \in DOMAIN docs
    <2> HIDE DEF jti
    <2> QED
      BY <1>1, <1>2, <1>3, <1>5, <1>12 DEF Origin, Origins
  <1> QED
    BY <1>11, <1>13

\* Steps that leave the tokens alone.
LEMMA TokensStand ==
    ASSUME [Next]_vars, \A p \in Proc : ~Mint(p)
    PROVE  UNCHANGED <<tokens, origin>>
  BY DEF Next, HandlerStep, vars, Tick, Reload, Restart, Receive, Refuse, ConsumeProof, 
         ConsumeProofFails, Snapshot, Decide, Consume, ConsumeFails, 
         MissingConfirmation, Audit, AuditFails, Respond

\* Tokens, their histories and documents only get more.
LEMMA Grow ==
    ASSUME Typed, [Next]_vars
    PROVE  /\ \A n \in DOMAIN tokens : /\ n \in DOMAIN tokens' /\ n \in DOMAIN origin'
                                      /\ tokens'[n] = tokens[n] /\ origin'[n] = origin[n]
           /\ \A i \in DOMAIN docs : i \in DOMAIN docs' /\ docs'[i] = docs[i]
           /\ now <= now' /\ Len(docs) <= Len(docs') /\ Len(tokens) <= Len(tokens')
           /\ returned \subseteq returned'
  <1>1. /\ \A n \in DOMAIN tokens : /\ n \in DOMAIN tokens' /\ n \in DOMAIN origin'
                                   /\ tokens'[n] = tokens[n] /\ origin'[n] = origin[n]
        /\ Len(tokens) <= Len(tokens')
    <2>1. CASE UNCHANGED <<tokens, origin>>
      BY <2>1 DEF Typed, TokenType
    <2>2. ASSUME NEW token \in STSToken, NEW o \in Origins,
                 tokens' = Append(tokens, token), origin' = Append(origin, o)
          PROVE  /\ \A n \in DOMAIN tokens : 
                       /\ n \in DOMAIN tokens' /\ n \in DOMAIN origin'
                       /\ tokens'[n] = tokens[n] /\ origin'[n] = origin[n]
                 /\ Len(tokens) <= Len(tokens')
      BY <2>2 DEF Typed, TokenType
    <2>3. ASSUME NEW p \in Proc, Mint(p) 
          PROVE  /\ tokens' = Append(tokens, Minted(p, Len(tokens) + 1))
                 /\ origin' = Append(origin, Origin(p, Len(tokens) + 1))
                 /\ Minted(p, Len(tokens) + 1) \in STSToken 
                 /\ Origin(p, Len(tokens) + 1) \in Origins
      BY <2>3, MintedTyped DEF Mint
    <2> QED
      BY <2>1, <2>2, <2>3, TokensStand
  <1>2. /\ \A i \in DOMAIN docs : i \in DOMAIN docs' /\ docs'[i] = docs[i]
        /\ Len(docs) <= Len(docs')
    <2>1. CASE UNCHANGED docs
      BY <2>1 DEF Typed, WorldType
    <2>2. ASSUME NEW d \in Document, docs' = Append(docs, d) 
          PROVE  /\ \A i \in DOMAIN docs : i \in DOMAIN docs' /\ docs'[i] = docs[i]
                 /\ Len(docs) <= Len(docs')
      BY <2>2 DEF Typed, WorldType
    <2> QED
      BY <2>1, <2>2 
      DEF Next, HandlerStep, vars, Tick, Reload, Restart, Receive, Refuse, 
          ConsumeProof, ConsumeProofFails, Snapshot, Decide, Consume, ConsumeFails, 
          MissingConfirmation, Mint, Audit, AuditFails, Respond
  <1>3. now <= now'
    <2>1. now' = now \/ now' = now + 1
      BY DEF Next, HandlerStep, vars, Tick, Reload, Restart, Receive, Refuse, 
             ConsumeProof, ConsumeProofFails, Snapshot, Decide, Consume, ConsumeFails, 
             MissingConfirmation, Mint, Audit, AuditFails, Respond, Replay!Grant
    <2>2. now \in Nat
      BY Bounds DEF Typed, WorldType
    <2> QED
      BY <2>1, <2>2
  <1>4. returned \subseteq returned'
    <2>1. CASE returned' = returned
      BY <2>1
    <2>2. ASSUME NEW p \in Proc, Respond(p) PROVE returned \subseteq returned'
      BY <2>2 DEF Respond
    <2> QED
      BY <2>1, <2>2
      DEF Next, HandlerStep, vars, Tick, Reload, Restart, Receive, Refuse, 
          ConsumeProof, ConsumeProofFails, Snapshot, Decide, Consume, ConsumeFails, 
          MissingConfirmation, Mint, Audit, AuditFails
  <1> QED
    BY <1>1, <1>2, <1>3, <1>4

-----------------------------------------------------------------------------
(* Types *)

LEMMA InitTyped == Init => Typed
  <1> SUFFICES ASSUME Init PROVE Typed
    OBVIOUS
  <1>1. WorldType
    <2>1. PICK d \in Document : docs = <<d>>
      BY DEF Init
    <2> QED
      BY <2>1, Bounds DEF Init, WorldType
  <1>2. TokenType
    BY DEF Init, TokenType
  <1>3. HandlerType
    BY Bounds DEF Init, HandlerType, Denied, Active
  <1>4. RequestInv
    BY DEF Init, RequestInv, Active, Proved, Snapped, Cleared
  <1> QED
    BY <1>1, <1>2, <1>3, <1>4 DEF Typed

\* What the replay cache is asked for.
LEMMA ClaimsTyped ==
    ASSUME Typed, NEW p \in Proc, pc[p] \in Active
    PROVE  /\ req[p].proof # None => 
                 req[p].proof \in Proof /\ ProofClaim(req[p].proof) \in ReplayClaims
           /\ req[p].subject # Forged /\ FromSTS(req[p].subject) => 
                 SubjectClaim(req[p].subject) \in ReplayClaims
  <1>1. req[p] \in Requests /\ req[p].subject \in Presentable
    BY DEF Typed, RequestInv
  <1>2. ASSUME req[p].proof # None
        PROVE  req[p].proof \in Proof /\ ProofClaim(req[p].proof) \in ReplayClaims
    <2>1. req[p].proof \in Proof
      BY <1>1, <1>2 DEF Requests
    <2>2. req[p].proof.jti \in Nat /\ req[p].proof.iat \in Nat
      BY <2>1, STSAssumption
    <2> QED
      BY <2>1, <2>2 DEF ProofClaim, ReplayJTI, RawKey, ReplayClaims, Keys
  <1>3. ASSUME req[p].subject # Forged, FromSTS(req[p].subject)
        PROVE  SubjectClaim(req[p].subject) \in ReplayClaims
    <2>1. req[p].subject \in STSToken
      BY <1>1, <1>3, Subjects DEF Typed
    <2>2. req[p].subject.jti \in Nat /\ req[p].subject.exp \in Nat
      BY <2>1 DEF STSToken
    <2> QED
      BY <2>2 DEF SubjectClaim, RawKey, ReplayClaims, Keys
  <1> QED
    BY <1>2, <1>3

LEMMA NotForged ==
    ASSUME Typed, NEW p \in Proc, pc[p] \in Cleared
    PROVE  req[p].subject # Forged
  BY VerdictOk DEF Typed, RequestInv

\* A grant of the replay cache for a handler.
LEMMA GrantFacts ==
    ASSUME Typed, NEW p \in Proc, ConsumeProof(p) \/ Consume(p)
    PROVE  \E claim \in ReplayClaims :
              /\ Replay!Grant(claim)
              /\ ConsumeProof(p) => claim = ProofClaim(req[p].proof)
              /\ Consume(p) => claim = SubjectClaim(req[p].subject)
  <1>1. CASE ConsumeProof(p)
    <2>1. pc[p] = "received" /\ Replay!Grant(ProofClaim(req[p].proof))
      BY <1>1 DEF ConsumeProof
    <2>2. req[p].proof # None
      BY <2>1 DEF Typed, RequestInv
    <2>3. ~Consume(p)
      BY <2>1 DEF Consume
    <2> QED
      BY <2>1, <2>2, <2>3, ClaimsTyped DEF Active
  <1>2. CASE Consume(p)
    <2>1. pc[p] = "cleared" /\ Replay!Grant(SubjectClaim(req[p].subject))
      BY <1>2 DEF Consume
    <2>2. req[p].subject # Forged /\ FromSTS(req[p].subject)
      BY <2>1, NotForged DEF Typed, RequestInv, Cleared
    <2>3. ~ConsumeProof(p)
      BY <2>1 DEF ConsumeProof
    <2> QED
      BY <2>1, <2>2, <2>3, ClaimsTyped DEF Active
  <1> QED
    BY <1>1, <1>2

LEMMA WorldTyped == Typed /\ [Next]_vars => WorldType'
  <1> SUFFICES ASSUME Typed, [Next]_vars PROVE WorldType'
    OBVIOUS
  <1>0. WorldType
    BY DEF Typed
  <1>1. now' \in 1..MaxTime
    <2>1. now' = now \/ (now < MaxTime /\ now' = now + 1)
      BY DEF Next, HandlerStep, vars, Tick, Reload, Restart, Receive, Refuse, 
             ConsumeProof, ConsumeProofFails, Snapshot, Decide, Consume, ConsumeFails, 
             MissingConfirmation, Mint, Audit, AuditFails, Respond, Replay!Grant
    <2> QED
      BY <1>0, <2>1, Bounds DEF WorldType
  <1>2. docs' \in Seq(Document) /\ docs' # <<>>
    <2>1. \/ UNCHANGED docs
          \/ \E d \in Document : docs' = Append(docs, d)
      BY DEF Next, HandlerStep, vars, Tick, Reload, Restart, Receive, Refuse, 
             ConsumeProof, ConsumeProofFails, Snapshot, Decide, Consume, ConsumeFails, 
             MissingConfirmation, Mint, Audit, AuditFails, Respond
    <2> QED
      BY <1>0, <2>1 DEF WorldType
  <1>3. grants' \in Seq(Grants)
    <2>1. CASE UNCHANGED grants
      BY <1>0, <2>1 DEF WorldType
    <2>2. ASSUME NEW p \in Proc, ConsumeProof(p) \/ Consume(p)
          PROVE  grants' \in Seq(Grants)
      <3>1. PICK claim \in ReplayClaims : Replay!Grant(claim)
        BY <2>2, GrantFacts
      <3>2. [claim |-> claim, at |-> now] \in Grants
        BY <1>0, Bounds DEF Grants, WorldType
      <3> QED
        BY <1>0, <3>1, <3>2 DEF Replay!Grant, WorldType
    <2> QED
      BY <2>1, <2>2
      DEF Next, HandlerStep, vars, Tick, Reload, Restart, Receive, Refuse, 
          ConsumeProofFails, Snapshot, Decide, ConsumeFails, MissingConfirmation, 
          Mint, Audit, AuditFails, Respond
  <1>4. auditUp' \in BOOLEAN
    <2>1. auditUp' \in {auditUp, FALSE, TRUE}
      BY DEF Next, HandlerStep, vars, Tick, Reload, Restart, Receive, Refuse, 
             ConsumeProof, ConsumeProofFails, Snapshot, Decide, Consume, ConsumeFails, 
             MissingConfirmation, Mint, Audit, AuditFails, Respond
    <2> QED
      BY <1>0, <2>1 DEF WorldType
  <1> QED
    BY <1>1, <1>2, <1>3, <1>4 DEF WorldType

LEMMA TokensTyped == Typed /\ [Next]_vars => TokenType'
  <1> SUFFICES ASSUME Typed, [Next]_vars PROVE TokenType'
    OBVIOUS
  <1>0. TokenType /\ DOMAIN docs \subseteq DOMAIN docs'
    BY Grow DEF Typed
  <1>1. CASE UNCHANGED <<tokens, origin, returned>>
    BY <1>0, <1>1 DEF TokenType
  <1>2. ASSUME NEW p \in Proc, Respond(p) PROVE TokenType'
    <2>1. out[p] \in 0..Len(tokens)
      BY DEF Typed, HandlerType
    <2>2. returned' \subseteq DOMAIN tokens
      BY <1>0, <1>2, <2>1 DEF Respond, TokenType, Denied
    <2>3. UNCHANGED <<tokens, origin, docs>>
      BY <1>2 DEF Respond
    <2> QED
      BY <1>0, <2>2, <2>3 DEF TokenType
  <1>3. ASSUME NEW p \in Proc, Mint(p) PROVE TokenType'
    <2> DEFINE n == Len(tokens) + 1
               token == Minted(p, n)
               o == Origin(p, n)
    <2>1. /\ token \in STSToken /\ token.jti = n /\ token.jkt # None
          /\ o \in Origins /\ o.snap \in DOMAIN docs
      BY <1>3, MintedTyped
    <2>2. /\ tokens' = Append(tokens, token) /\ origin' = Append(origin, o)
          /\ UNCHANGED <<returned, docs>>
      BY <1>3 DEF Mint
    <2> HIDE DEF token, o
    <2>3. /\ tokens' \in Seq(STSToken) /\ origin' \in Seq(Origins)
          /\ Len(origin') = Len(tokens') /\ returned' \subseteq DOMAIN tokens'
      BY <1>0, <2>1, <2>2 DEF TokenType
    <2>4. ASSUME NEW k \in DOMAIN tokens'
          PROVE  /\ tokens'[k].jti = k /\ tokens'[k].jkt # None
                 /\ origin'[k].snap \in DOMAIN docs'
      <3>1. CASE k \in DOMAIN tokens
        BY <1>0, <3>1, Grow DEF TokenType
      <3>2. CASE k = n
        BY <1>0, <2>1, <2>2, <3>2 DEF TokenType
      <3> QED
        BY <1>0, <2>2, <3>1, <3>2 DEF TokenType
    <2> QED
      BY <2>3, <2>4 DEF TokenType
  <1> QED
    BY <1>1, <1>2, <1>3
    DEF Next, HandlerStep, vars, Tick, Reload, Restart, Receive, Refuse, 
        ConsumeProof, ConsumeProofFails, Snapshot, Decide, Consume, ConsumeFails, 
        MissingConfirmation, Audit, AuditFails

\* Steps that end a request.
Releasing(p) ==
    \/ Refuse(p) \/ ConsumeProofFails(p) \/ ConsumeFails(p) 
    \/ MissingConfirmation(p) \/ Mint(p) \/ Respond(p) 
    \/ Decide(p) /\ Verdict(req[p], docs[snap[p]], now) # "ok"

\* Steps by which a handler goes on with its request.
Advances(p) ==
    \/ ConsumeProof(p) \/ Snapshot(p) \/ Consume(p)
    \/ Decide(p) /\ Verdict(req[p], docs[snap[p]], now) = "ok"

LEMMA Steps ==
    ASSUME NEW p \in Proc, HandlerStep(p)
    PROVE  \/ \E shape \in Shape, subject \in Presentable : Receive(p, shape, subject)
           \/ Releasing(p) \/ Advances(p) \/ Audit(p) \/ AuditFails(p)
  BY DEF HandlerStep, Releasing, Advances

LEMMA ReleaseFrame ==
    ASSUME Typed, NEW p \in Proc, Releasing(p)
    PROVE  \E label \in {"idle", "decided"}, result \in 0..Len(tokens') : 
              Release(p, label, result)
  <1>1. Len(tokens) \in Nat /\ Denied \in 0..Len(tokens)
    BY DEF Typed, TokenType, Denied
  <1>2. CASE Mint(p)
    <2>1. Len(tokens') = Len(tokens) + 1 /\ Release(p, "decided", Len(tokens) + 1)
      BY <1>2, MintedTyped DEF Mint, Typed, TokenType
    <2> QED
      BY <1>1, <2>1
  <1>3. CASE Releasing(p) /\ ~Mint(p)
    <2>1. tokens' = tokens
      BY <1>3 DEF Releasing, Refuse, ConsumeProofFails, ConsumeFails, 
                  MissingConfirmation, Respond, Decide
    <2> QED
      BY <1>1, <1>3, <2>1 DEF Releasing, Refuse, ConsumeProofFails, ConsumeFails, 
                              MissingConfirmation, Respond, Decide
  <1> QED
    BY <1>2, <1>3

\* The request that Receive keeps.
Request(shape, subject) ==
    [agent |-> shape.agent, audience |-> shape.audience, scope |-> shape.scope, 
     actor |-> shape.actor, proof |-> shape.proof, subject |-> subject]

LEMMA ReceiveRequest ==
    ASSUME Typed, NEW shape \in Shape, NEW subject \in Presentable
    PROVE  Request(shape, subject) \in Requests
  <1>1. subject \in {Forged} \cup IdPToken \cup STSToken
    BY Subjects DEF Typed
  <1> QED
    BY <1>1, STSAssumption DEF Request, Requests

LEMMA HandlersTyped == Typed /\ [Next]_vars => HandlerType'
  <1> SUFFICES ASSUME Typed, [Next]_vars PROVE HandlerType'
    OBVIOUS
  <1>0. /\ now \in Nat /\ Len(docs) \in Nat /\ Len(tokens) \in Nat
        /\ now' \in Nat /\ Len(docs') \in Nat /\ Len(tokens') \in Nat
        /\ now <= now' /\ Len(docs) <= Len(docs') /\ Len(tokens) <= Len(tokens')
        /\ now' >= 1 /\ now >= 1
    BY WorldTyped, TokensTyped, Grow, Bounds DEF Typed, WorldType, TokenType
  <1>1. HandlerType
    BY DEF Typed
  <1>2. /\ snap \in [Proc -> 0..Len(docs')] /\ clock \in [Proc -> 0..now']
        /\ granted \in [Proc -> 0..now'] /\ proved \in [Proc -> 0..now']
        /\ out \in [Proc -> 0..Len(tokens')]
    <2>1. /\ 0..Len(docs) \subseteq 0..Len(docs') /\ 0..now \subseteq 0..now'
          /\ 0..Len(tokens) \subseteq 0..Len(tokens')
      BY <1>0
    <2> QED
      BY <1>1, <2>1 DEF HandlerType
  <1>3. CASE UNCHANGED handler
    BY <1>1, <1>2, <1>3 DEF handler, HandlerType
  <1>4. CASE \E d \in Document : Restart(d)
    BY <1>0, <1>4 DEF Restart, HandlerType, Denied, Active
  <1>5. ASSUME NEW p \in Proc, HandlerStep(p) PROVE HandlerType'
    <2>1. CASE Releasing(p)
      <3>1. PICK label \in {"idle", "decided"}, result \in 0..Len(tokens') : 
                    Release(p, label, result)
        BY <2>1, ReleaseFrame
      <3> QED
        BY <1>0, <1>1, <1>2, <3>1 DEF Release, HandlerType
    <2>2. ASSUME NEW shape \in Shape, NEW subject \in Presentable,
                 Receive(p, shape, subject)
          PROVE  HandlerType'
      <3>1. Request(shape, subject) \in Requests
        BY ReceiveRequest
      <3>2. /\ req' = [req EXCEPT ![p] = Request(shape, subject)]
            /\ pc' = [pc EXCEPT ![p] = IF shape.proof = None THEN "proved" ELSE "received"]
            /\ UNCHANGED <<snap, clock, granted, proved, out>>
        BY <2>2 DEF Receive, Request
      <3> QED
        BY <1>1, <1>2, <3>1, <3>2 DEF HandlerType, Active
    <2>3. ASSUME NEW label \in Active \cup {"audited"}, pc' = [pc EXCEPT ![p] = label],
                 req' = req,
                 snap' = snap \/ snap' = [snap EXCEPT ![p] = Len(docs)],
                 clock' = clock \/ clock' = [clock EXCEPT ![p] = now],
                 granted' = granted \/ granted' = [granted EXCEPT ![p] = now],
                 proved' = proved \/ proved' = [proved EXCEPT ![p] = now],
                 out' = out \/ out' = [out EXCEPT ![p] = Denied]
          PROVE  HandlerType'
      <3>1. /\ Len(docs) \in 0..Len(docs') /\ now \in 0..now' 
            /\ Denied \in 0..Len(tokens')
        BY <1>0 DEF Denied
      <3>2. /\ pc' \in [Proc -> Active \cup {"idle", "decided", "audited"}]
            /\ req' \in [Proc -> Requests \cup {None}]
        BY <1>1, <2>3 DEF HandlerType
      <3>3. snap' \in [Proc -> 0..Len(docs')]
        BY <1>2, <2>3, <3>1
      <3>4. clock' \in [Proc -> 0..now']
        BY <1>2, <2>3, <3>1
      <3>5. granted' \in [Proc -> 0..now']
        BY <1>2, <2>3, <3>1
      <3>6. proved' \in [Proc -> 0..now']
        BY <1>2, <2>3, <3>1
      <3>7. out' \in [Proc -> 0..Len(tokens')]
        BY <1>2, <2>3, <3>1
      <3> QED
        BY <3>2, <3>3, <3>4, <3>5, <3>6, <3>7 DEF HandlerType
    <2>4. CASE Advances(p)
      BY <2>3, <2>4 DEF Advances, ConsumeProof, Snapshot, Consume, Decide, Active
    <2>5. CASE Audit(p) \/ AuditFails(p)
      BY <2>3, <2>5 DEF Audit, AuditFails
    <2> QED
      BY <1>5, <2>1, <2>2, <2>4, <2>5, Steps
  <1> QED
    BY <1>3, <1>4, <1>5 DEF Next, Tick, Reload, vars

-----------------------------------------------------------------------------
(* Requests *)

\* A step of one handler leaves the others where they are.
LEMMA Others ==
    ASSUME Typed, NEW p \in Proc, HandlerStep(p), NEW q \in Proc \ {p}
    PROVE  /\ pc'[q] = pc[q] /\ req'[q] = req[q] /\ snap'[q] = snap[q]
           /\ clock'[q] = clock[q] /\ granted'[q] = granted[q] 
           /\ proved'[q] = proved[q] /\ out'[q] = out[q]
  <1> USE DEF Typed, HandlerType
  <1>1. CASE Releasing(p)
    <2>1. PICK label \in {"idle", "decided"}, result \in 0..Len(tokens') : 
                  Release(p, label, result)
      BY <1>1, ReleaseFrame
    <2> QED
      BY <2>1 DEF Release
  <1>2. CASE Advances(p)
    BY <1>2 DEF Advances, ConsumeProof, Snapshot, Consume, Decide
  <1>3. CASE Audit(p) \/ AuditFails(p)
    BY <1>3 DEF Audit, AuditFails
  <1>4. ASSUME NEW shape \in Shape, NEW subject \in Presentable,
               Receive(p, shape, subject)
        PROVE  /\ pc'[q] = pc[q] /\ req'[q] = req[q] /\ snap'[q] = snap[q]
               /\ clock'[q] = clock[q] /\ granted'[q] = granted[q] 
               /\ proved'[q] = proved[q] /\ out'[q] = out[q]
    BY <1>4 DEF Receive
  <1> QED
    BY <1>1, <1>2, <1>3, <1>4, Steps

\* A handler with a request has just got it, or goes on with it.
LEMMA Moves ==
    ASSUME Typed, NEW p \in Proc, HandlerStep(p), pc'[p] \in Active
    PROVE  \/ \E shape \in Shape, subject \in Presentable : 
                 /\ req'[p] = Request(shape, subject)
                 /\ pc'[p] = IF shape.proof = None THEN "proved" ELSE "received"
                 /\ UNCHANGED <<tokens, origin, grants, docs>>
           \/ /\ Advances(p) /\ req'[p] = req[p] 
              /\ UNCHANGED <<tokens, origin, docs>>
              /\ pc[p] \in Active
  <1> USE DEF Typed, HandlerType
  <1>1. CASE Releasing(p)
    <2>1. PICK label \in {"idle", "decided"}, result \in 0..Len(tokens') : 
                  Release(p, label, result)
      BY <1>1, ReleaseFrame
    <2> QED
      BY <2>1 DEF Release, Active
  <1>2. CASE Advances(p)
    BY <1>2 DEF Advances, ConsumeProof, Snapshot, Consume, Decide, Active
  <1>3. CASE Audit(p) \/ AuditFails(p)
    BY <1>3 DEF Audit, AuditFails, Active
  <1>4. ASSUME NEW shape \in Shape, NEW subject \in Presentable,
               Receive(p, shape, subject)
        PROVE  /\ req'[p] = Request(shape, subject)
               /\ pc'[p] = IF shape.proof = None THEN "proved" ELSE "received"
               /\ UNCHANGED <<tokens, origin, grants, docs>>
    BY <1>4 DEF Receive, Request
  <1> QED
    BY <1>1, <1>2, <1>3, <1>4, Steps

LEMMA PresentableGrows ==
    ASSUME Typed, [Next]_vars
    PROVE  Presentable \subseteq Presentable'
  <1>1. ASSUME NEW n \in returned 
        PROVE  n \in returned' /\ tokens'[n] = tokens[n]
    BY Grow DEF Typed, TokenType
  <1> QED
    BY <1>1 DEF Presentable

LEMMA RequestStep == Typed /\ [Next]_vars => RequestInv'
  <1> SUFFICES ASSUME Typed, [Next]_vars, NEW q \in Proc, pc'[q] \in Active
               PROVE  /\ req'[q] \in Requests /\ req'[q].subject \in Presentable'
                      /\ pc'[q] = "received" => req'[q].proof # None
                      /\ pc'[q] \in Snapped => snap'[q] \in DOMAIN docs'
                      /\ pc'[q] \in Cleared => 
                            Verdict(req'[q], docs'[snap'[q]], clock'[q]) = "ok"
                      /\ pc'[q] = "cleared" => FromSTS(req'[q].subject)
    BY DEF RequestInv, Active, Proved, Snapped, Cleared
  <1>0. /\ Presentable \subseteq Presentable' 
        /\ \A i \in DOMAIN docs : i \in DOMAIN docs' /\ docs'[i] = docs[i]
        /\ Cleared \subseteq Snapped /\ Snapped \subseteq Active
    BY PresentableGrows, Grow DEF Active, Proved, Snapped, Cleared
  <1>1. CASE pc'[q] = pc[q] /\ req'[q] = req[q] /\ snap'[q] = snap[q] /\ clock'[q] = clock[q]
    BY <1>0, <1>1 DEF Typed, RequestInv
  <1>2. CASE \E d \in Document : Restart(d)
    BY <1>2 DEF Restart, Active
  <1>3. ASSUME NEW p \in Proc, HandlerStep(p), q = p
        PROVE  /\ req'[q] \in Requests /\ req'[q].subject \in Presentable'
               /\ pc'[q] = "received" => req'[q].proof # None
               /\ pc'[q] \in Snapped => snap'[q] \in DOMAIN docs'
               /\ pc'[q] \in Cleared => 
                     Verdict(req'[q], docs'[snap'[q]], clock'[q]) = "ok"
               /\ pc'[q] = "cleared" => FromSTS(req'[q].subject)
    <2>1. ASSUME NEW shape \in Shape, NEW subject \in Presentable,
                 req'[p] = Request(shape, subject),
                 pc'[p] = IF shape.proof = None THEN "proved" ELSE "received"
          PROVE  /\ req'[q] \in Requests /\ req'[q].subject \in Presentable'
                 /\ pc'[q] = "received" => req'[q].proof # None
                 /\ pc'[q] \notin Snapped
      <3>1. Request(shape, subject) \in Requests
        BY ReceiveRequest
      <3>2. req'[q].subject = subject /\ req'[q].proof = shape.proof
        BY <1>3, <2>1 DEF Request
      <3> QED
        BY <1>0, <1>3, <2>1, <3>1, <3>2 DEF Snapped, Proved
    <2>2. ASSUME Advances(p), req'[p] = req[p], UNCHANGED docs, pc[p] \in Active
          PROVE  /\ req'[q] \in Requests /\ req'[q].subject \in Presentable'
                 /\ pc'[q] = "received" => req'[q].proof # None
                 /\ pc'[q] \in Snapped => snap'[q] \in DOMAIN docs'
                 /\ pc'[q] \in Cleared => 
                       Verdict(req'[q], docs'[snap'[q]], clock'[q]) = "ok"
                 /\ pc'[q] = "cleared" => FromSTS(req'[q].subject)
      <3>1. req'[q] \in Requests /\ req'[q].subject \in Presentable'
        BY <1>0, <1>3, <2>2 DEF Typed, RequestInv
      <3>2. CASE ConsumeProof(p)
        BY <1>3, <3>1, <3>2 DEF ConsumeProof, Typed, HandlerType, Snapped, Proved, Cleared
      <3>3. CASE Snapshot(p)
        <4>1. Len(docs) \in DOMAIN docs
          BY DEF Typed, WorldType
        <4> QED
          BY <1>3, <3>1, <3>3, <4>1 
          DEF Snapshot, Typed, HandlerType, Snapped, Proved, Cleared
      <3>4. CASE Decide(p) /\ Verdict(req[p], docs[snap[p]], now) = "ok"
        <4>1. /\ pc[p] = "snapped" /\ clock'[p] = now /\ snap' = snap /\ req' = req
              /\ pc'[p] = IF FromSTS(req[p].subject) THEN "cleared" ELSE "spent"
          BY <3>4 DEF Decide, Typed, HandlerType
        <4>2. snap[p] \in DOMAIN docs
          BY <4>1 DEF Typed, RequestInv, Snapped, Proved, Active
        <4> QED
          BY <1>0, <1>3, <3>1, <3>4, <4>1, <4>2 DEF Cleared
      <3>5. CASE Consume(p)
        <4>1. /\ pc[p] = "cleared" /\ pc'[p] = "spent" 
              /\ snap' = snap /\ req' = req /\ clock' = clock
          BY <3>5 DEF Consume, Typed, HandlerType
        <4>2. /\ snap[p] \in DOMAIN docs 
              /\ Verdict(req[p], docs[snap[p]], clock[p]) = "ok"
          BY <4>1 DEF Typed, RequestInv, Snapped, Proved, Active, Cleared
        <4> QED
          BY <1>0, <1>3, <3>1, <4>1, <4>2
      <3> QED
        BY <2>2, <3>2, <3>3, <3>4, <3>5 DEF Advances
    <2> QED
      BY <1>0, <1>3, <2>1, <2>2, Moves
  <1> QED
    BY <1>1, <1>2, <1>3, Others DEF Next, Tick, Reload, vars, handler

LEMMA TypedStep == Typed /\ [Next]_vars => Typed'
  BY WorldTyped, TokensTyped, HandlersTyped, RequestStep DEF Typed

-----------------------------------------------------------------------------
(* What a token says *)

\* Whom a token descends from: tokens, all of which are out but itself perhaps.
Lineage(n) == 
    /\ origin[n].line # <<>>
    /\ \A i \in DOMAIN origin[n].line : 
          /\ origin[n].line[i] \in DOMAIN tokens
          /\ i < Len(origin[n].line) => origin[n].line[i] \in returned

Obeys(n) ==
    LET t == tokens[n]
        o == origin[n]
        doc == docs[o.snap]
    IN  /\ \E a \in t.aud : 
              Authorize(doc.registry, o.agent, o.workload, a, t.nbf) = "ok"
        /\ t.scope \subseteq doc.registry[o.agent].maxScopes
        /\ Depth(t) <= doc.registry[o.agent].maxDepth
        /\ ~DeniesAgent(doc.denylist, o.agent)
        /\ ~DeniesWorkload(doc.denylist, o.workload)
        /\ ~DeniesPrincipal(doc.denylist, t.sub)

History(n) ==
    LET t == tokens[n]
        line == origin[n].line
        hops == ActorSubs(t)
    IN  /\ Len(hops) = Len(line) 
        /\ Len(t.act) = Len(line)
        /\ line[Len(line)] = n
        /\ \A i \in DOMAIN line :
              /\ hops[i] = origin[line[i]].agent
              /\ t.act[Len(line) + 1 - i] = hops[i]
              /\ tokens[line[i]].sub = t.sub
              /\ tokens[line[i]].txn = t.txn
              /\ i > 1 => tokens[line[i - 1]].aud = {hops[i]}

Ends(n) ==
    tokens[n].exp <= origin[n].root.exp + Depth(tokens[n]) * (TTL + ClockSkew)

Narrows(n) ==
    LET line == origin[n].line
    IN  \A i, j \in DOMAIN line :
          /\ i < j
          /\ \A k \in i..(j - 1) : tokens[line[k]].scope # {}
          => tokens[line[j]].scope \subseteq tokens[line[i]].scope

TokenInv == 
    \A n \in DOMAIN tokens : 
        Lineage(n) /\ Obeys(n) /\ History(n) /\ Ends(n) /\ Narrows(n)

\* Nothing that happens later changes what a token says.
LEMMA TokensStay ==
    ASSUME Typed, [Next]_vars, NEW n \in DOMAIN tokens,
           Lineage(n), Obeys(n), History(n), Ends(n), Narrows(n)
    PROVE  Lineage(n)' /\ Obeys(n)' /\ History(n)' /\ Ends(n)' /\ Narrows(n)'
  <1>1. /\ \A k \in DOMAIN tokens : /\ k \in DOMAIN tokens' /\ tokens'[k] = tokens[k] 
                                    /\ origin'[k] = origin[k]
        /\ docs'[origin[n].snap] = docs[origin[n].snap]
        /\ returned \subseteq returned'
    BY Grow DEF Typed, TokenType
  <1>2. /\ tokens'[n] = tokens[n] /\ origin'[n] = origin[n]
        /\ \A i \in DOMAIN origin[n].line : 
              /\ origin[n].line[i] \in DOMAIN tokens
              /\ tokens'[origin[n].line[i]] = tokens[origin[n].line[i]]
              /\ origin'[origin[n].line[i]] = origin[origin[n].line[i]]
    BY <1>1 DEF Lineage
  <1>3. Lineage(n)'
    BY <1>1, <1>2 DEF Lineage
  <1>4. Obeys(n)'
    BY <1>1, <1>2 DEF Obeys
  <1>5. Ends(n)'
    BY <1>1, <1>2 DEF Ends
  <1>6. /\ DOMAIN origin[n].line = 1..Len(origin[n].line) /\ Len(origin[n].line) \in Nat
    <2>1. origin[n] \in Origins
      BY DEF Typed, TokenType
    <2> QED
      BY <2>1 DEF Origins
  <1>7. History(n)'
    <2>1. \A i \in DOMAIN origin[n].line : i > 1 => i - 1 \in DOMAIN origin[n].line
      BY <1>6
    <2>2. ASSUME NEW i \in DOMAIN origin[n].line
          PROVE  /\ ActorSubs(tokens[n])[i] = origin'[origin[n].line[i]].agent
                 /\ tokens[n].act[Len(origin[n].line) + 1 - i] = ActorSubs(tokens[n])[i]
                 /\ tokens'[origin[n].line[i]].sub = tokens[n].sub
                 /\ tokens'[origin[n].line[i]].txn = tokens[n].txn
                 /\ i > 1 => tokens'[origin[n].line[i - 1]].aud = {ActorSubs(tokens[n])[i]}
      BY <1>2, <2>1, <2>2 DEF History
    <2>3. /\ Len(ActorSubs(tokens[n])) = Len(origin[n].line)
          /\ Len(tokens[n].act) = Len(origin[n].line)
          /\ origin[n].line[Len(origin[n].line)] = n
      BY DEF History
    <2> QED
      BY <1>2, <2>2, <2>3 DEF History
  <1>8. Narrows(n)'
    <2>1. \A i, j \in DOMAIN origin[n].line : 
             \A k \in i..(j - 1) : k \in DOMAIN origin[n].line
      BY <1>6
    <2>2. ASSUME NEW i \in DOMAIN origin[n].line, NEW j \in DOMAIN origin[n].line, i < j,
                 \A k \in i..(j - 1) : tokens'[origin[n].line[k]].scope # {}
          PROVE  tokens'[origin[n].line[j]].scope \subseteq tokens'[origin[n].line[i]].scope
      <3>1. \A k \in i..(j - 1) : tokens[origin[n].line[k]].scope # {}
        BY <1>2, <2>1, <2>2
      <3>2. tokens[origin[n].line[j]].scope \subseteq tokens[origin[n].line[i]].scope
        BY <2>2, <3>1 DEF Narrows
      <3> QED
        BY <1>2, <3>2
    <2> QED
      BY <1>2, <2>2 DEF Narrows
  <1> QED
    BY <1>3, <1>4, <1>5, <1>7, <1>8

\* What goes into a token.
LEMMA MintFacts ==
    ASSUME Typed, NEW p \in Proc, Mint(p), NEW n, n = Len(tokens) + 1
    PROVE  /\ n \in Nat /\ n \notin DOMAIN tokens /\ DOMAIN tokens' = DOMAIN tokens \cup {n}
           /\ tokens'[n] = Minted(p, n) /\ origin'[n] = Origin(p, n)
           /\ docs' = docs /\ snap[p] \in DOMAIN docs /\ docs[snap[p]] \in Document
           /\ req[p] \in Requests /\ req[p].subject \in Presentable 
           /\ req[p].subject # Forged /\ pc[p] = "spent" /\ clock[p] \in Nat
           /\ Verdict(req[p], docs[snap[p]], clock[p]) = "ok"
  <1>1. /\ tokens' = Append(tokens, Minted(p, Len(tokens) + 1))
        /\ origin' = Append(origin, Origin(p, Len(tokens) + 1))
        /\ docs' = docs /\ pc[p] = "spent"
    BY DEF Mint
  <1>2. /\ Minted(p, Len(tokens) + 1) \in STSToken 
        /\ Origin(p, Len(tokens) + 1) \in Origins
    BY MintedTyped
  <1>3. /\ req[p] \in Requests /\ req[p].subject \in Presentable /\ snap[p] \in DOMAIN docs
        /\ Verdict(req[p], docs[snap[p]], clock[p]) = "ok"
    BY <1>1 DEF Typed, RequestInv, Active, Snapped, Proved, Cleared
  <1>4. req[p].subject # Forged /\ docs[snap[p]] \in Document
    BY <1>3, VerdictOk DEF Typed, WorldType
  <1>5. clock[p] \in Nat /\ Len(tokens) + 1 \in Nat
    BY Bounds DEF Typed, HandlerType, WorldType, TokenType
  <1>6. /\ tokens'[Len(tokens) + 1] = Minted(p, Len(tokens) + 1)
        /\ origin'[Len(tokens) + 1] = Origin(p, Len(tokens) + 1)
        /\ DOMAIN tokens' = DOMAIN tokens \cup {Len(tokens) + 1} 
        /\ Len(tokens) + 1 \notin DOMAIN tokens
    BY <1>1, <1>2 DEF Typed, TokenType
  <1> QED
    BY <1>1, <1>3, <1>4, <1>5, <1>6

\* The parent of a token that was exchanged for an STS token.
LEMMA Parent ==
    ASSUME Typed, TokenInv, NEW p \in Proc, Mint(p), NEW n, n = Len(tokens) + 1,
           FromSTS(req[p].subject), NEW t, t = req[p].subject
    PROVE  /\ t.jti \in DOMAIN tokens /\ t = tokens[t.jti] /\ t \in STSToken
           /\ t.jti \in returned
           /\ tokens'[t.jti] = t /\ origin'[t.jti] = origin[t.jti]
           /\ origin[t.jti].line \in Seq(DOMAIN tokens) /\ origin[t.jti].line # <<>>
           /\ origin'[n].line = Append(origin[t.jti].line, n)
           /\ origin'[n].root = origin[t.jti].root /\ origin'[n].root \in IdPToken
  <1>1. t \in Presentable /\ t # Forged
    BY MintFacts
  <1>2. /\ t.jti \in DOMAIN tokens /\ t = tokens[t.jti] /\ t \in STSToken
        /\ t.jti \in returned
    BY <1>1, Subjects DEF Typed
  <1>3. origin[t.jti] \in Origins
    BY <1>2 DEF Typed, TokenType
  <1>4. origin[t.jti].line \in Seq(DOMAIN tokens) /\ origin[t.jti].line # <<>>
    <2>1. Lineage(t.jti)
      BY <1>2 DEF TokenInv
    <2>2. origin[t.jti].line \in Seq(Nat)
      BY <1>3 DEF Origins
    <2> QED
      BY <2>1, <2>2, SMTT(30) DEF Lineage
  <1>5. tokens'[t.jti] = t /\ origin'[t.jti] = origin[t.jti]
    BY <1>2, Grow DEF Next, HandlerStep
  <1>6. /\ origin'[n].line = Append(origin[t.jti].line, n)
        /\ origin'[n].root = origin[t.jti].root
    <2>1. origin'[n] = Origin(p, n)
      BY MintFacts
    <2>2. /\ Origin(p, n).line = Append(origin[t.jti].line, n)
          /\ Origin(p, n).root = origin[t.jti].root
      BY DEF Origin
    <2> QED
      BY <2>1, <2>2
  <1>7. origin[t.jti].root \in IdPToken
    BY <1>3 DEF Origins
  <1> QED
    BY <1>1, <1>2, <1>4, <1>5, <1>6, <1>7

\* The first token of a chain.
LEMMA Root ==
    ASSUME Typed, NEW p \in Proc, Mint(p), NEW n, n = Len(tokens) + 1,
           ~FromSTS(req[p].subject)
    PROVE  /\ req[p].subject \in IdPToken
           /\ req[p].subject.act = <<>> /\ req[p].subject.actchain = <<>>
           /\ origin'[n].line = <<n>> /\ origin'[n].root = req[p].subject
  <1>1. req[p].subject \in Presentable /\ req[p].subject # Forged
        /\ Verdict(req[p], docs[snap[p]], clock[p]) = "ok"
    BY MintFacts
  <1>2. req[p].subject \in IdPToken
    BY <1>1, Subjects DEF Typed
  <1>3. req[p].subject.act = <<>> /\ req[p].subject.actchain = <<>>
    BY <1>1, VerdictOk
  <1>4. origin'[n] = Origin(p, n)
    BY MintFacts
  <1> QED
    BY <1>2, <1>3, <1>4 DEF Origin

LEMMA NewLineage ==
    ASSUME Typed, TokenInv, NEW p \in Proc, Mint(p), NEW n, n = Len(tokens) + 1
    PROVE  Lineage(n)'
  <1>1. n \in DOMAIN tokens' /\ DOMAIN tokens \subseteq DOMAIN tokens'
    BY MintFacts
  <1>2. CASE FromSTS(req[p].subject)
    <2> DEFINE s == req[p].subject
    <2>1. /\ origin[s.jti].line \in Seq(DOMAIN tokens)
          /\ origin'[n].line = Append(origin[s.jti].line, n)
          /\ s.jti \in DOMAIN tokens /\ s.jti \in returned
      BY <1>2, Parent, SMTT(30)
    <2> DEFINE line == origin[s.jti].line
    <2>2. line \in Seq(DOMAIN tokens')
      BY <1>1, <2>1
    <2>r. /\ returned' = returned /\ line[Len(line)] = s.jti
          /\ \A i \in DOMAIN line : i < Len(line) => line[i] \in returned
      BY <2>1 DEF TokenInv, History, Lineage, Mint
    <2> HIDE DEF line
    <2>3. Append(line, n) # <<>>
      BY <2>2
    <2>4. Append(line, n) \in Seq(DOMAIN tokens')
      BY <1>1, <2>2
    <2>5. \A i \in DOMAIN Append(line, n) : Append(line, n)[i] \in DOMAIN tokens'
      BY <2>4
    <2>6. ASSUME NEW i \in DOMAIN Append(line, n), i < Len(Append(line, n))
          PROVE  Append(line, n)[i] \in returned'
      <3>1. /\ i \in DOMAIN line /\ Append(line, n)[i] = line[i] 
            /\ i < Len(line) \/ i = Len(line)
        BY <2>2, <2>6
      <3> QED
        BY <2>1, <2>r, <3>1
    <2> QED
      BY <2>1, <2>3, <2>5, <2>6 DEF Lineage, line
  <1>3. CASE ~FromSTS(req[p].subject)
    <2>1. origin'[n].line = <<n>>
      BY <1>3, Root
    <2> QED
      BY <1>1, <2>1 DEF Lineage
  <1> QED
    BY <1>2, <1>3

LEMMA NewObeys ==
    ASSUME Typed, NEW p \in Proc, Mint(p), NEW n, n = Len(tokens) + 1
    PROVE  Obeys(n)'
  <1> DEFINE r == req[p]
             s == req[p].subject
             doc == docs[snap[p]]
             entry == docs[snap[p]].registry[req[p].agent]
  <1>1. /\ tokens'[n] = Minted(p, n) /\ origin'[n] = Origin(p, n) /\ docs' = docs
        /\ Verdict(r, doc, clock[p]) = "ok" /\ doc \in Document /\ r \in Requests
        /\ s \in Presentable /\ s # Forged
    BY MintFacts
  <1>2. /\ tokens'[n].aud = {r.audience} /\ tokens'[n].nbf = clock[p] 
        /\ tokens'[n].sub = s.sub
        /\ tokens'[n].act = NestedAct(r.agent, s.act) 
        /\ tokens'[n].actchain = AppendChain(s)
        /\ tokens'[n].scope = NarrowScope(r.scope, s.scope, entry.maxScopes)
        /\ origin'[n].agent = r.agent /\ origin'[n].workload = r.actor.workload
        /\ origin'[n].snap = snap[p]
    BY <1>1 DEF Minted, Origin
  <1>3. /\ Authorize(doc.registry, r.agent, r.actor.workload, r.audience, clock[p]) = "ok"
        /\ ~DeniesAgent(doc.denylist, r.agent)
        /\ ~DeniesWorkload(doc.denylist, r.actor.workload)
        /\ ~DeniesPrincipal(doc.denylist, s.sub)
        /\ ~ScopeWidens(r.scope, s.scope, entry.maxScopes)
        /\ ~(Len(AppendChain(s)) + 1 > entry.maxDepth)
    BY <1>1, VerdictOk
  <1>4. entry.maxDepth \in Nat
    BY <1>1, EntryTyped
  <1>5. s.act \in Seq(Agent) /\ s.actchain \in Seq(Agent) /\ r.agent \in Agent
    BY <1>1, Subjects DEF Typed, Requests
  <1>6. tokens'[n].scope \subseteq entry.maxScopes
    BY <1>2, <1>3 DEF NarrowScope, ScopeWidens, ScopeCeiling
  <1>7. Depth(tokens'[n]) <= entry.maxDepth
    <2>1. AppendChain(s) \in Seq(Agent)
      BY <1>5 DEF AppendChain
    <2>2. tokens'[n].act = <<r.agent>> \o s.act /\ tokens'[n].act # <<>>
      BY <1>2, <1>5 DEF NestedAct
    <2>3. Depth(tokens'[n]) = Len(AppendChain(s)) + 1
      BY <1>2, <2>1, <2>2 DEF Depth, ActorSubs
    <2> QED
      BY <1>3, <1>4, <2>1, <2>3
  <1> HIDE DEF r, s, doc, entry
  <1> QED
    BY <1>1, <1>2, <1>3, <1>6, <1>7 DEF Obeys, r, s, doc, entry

\* What a new token says of its actors.
LEMMA NewActors ==
    ASSUME Typed, NEW p \in Proc, Mint(p), NEW n, n = Len(tokens) + 1
    PROVE  /\ req[p].agent \in Agent
           /\ req[p].subject.act \in Seq(Agent) 
           /\ ActorSubs(req[p].subject) \in Seq(Agent)
           /\ tokens'[n].act = <<req[p].agent>> \o req[p].subject.act
           /\ ActorSubs(tokens'[n]) = Append(ActorSubs(req[p].subject), req[p].agent)
           /\ tokens'[n].sub = req[p].subject.sub
           /\ tokens'[n].txn = Txn(req[p].subject, n)
           /\ origin'[n].agent = req[p].agent
           /\ req[p].agent \in req[p].subject.aud
  <1> DEFINE s == req[p].subject
  <1>1. /\ tokens'[n] = Minted(p, n) /\ origin'[n] = Origin(p, n) 
        /\ Verdict(req[p], docs[snap[p]], clock[p]) = "ok" /\ req[p] \in Requests
        /\ s \in Presentable /\ s # Forged
    BY MintFacts
  <1>2. /\ s.act \in Seq(Agent) /\ s.actchain \in Seq(Agent) /\ req[p].agent \in Agent
    BY <1>1, Subjects DEF Typed, Requests
  <1>3. /\ tokens'[n].act = <<req[p].agent>> \o s.act /\ tokens'[n].actchain = AppendChain(s)
        /\ tokens'[n].sub = s.sub /\ tokens'[n].txn = Txn(s, n)
        /\ origin'[n].agent = req[p].agent
    <2>1. /\ Minted(p, n).act = <<req[p].agent>> \o s.act 
          /\ Minted(p, n).actchain = AppendChain(s)
      BY DEF Minted, NestedAct
    <2>2. Minted(p, n).sub = s.sub /\ Minted(p, n).txn = Txn(s, n)
      BY DEF Minted
    <2>3. Origin(p, n).agent = req[p].agent
      BY DEF Origin
    <2> QED
      BY <1>1, <2>1, <2>2, <2>3
  <1>4. AppendChain(s) = ActorSubs(s) /\ ActorSubs(s) \in Seq(Agent)
    BY <1>2 DEF AppendChain, ActorSubs
  <1>5. tokens'[n].act # <<>> /\ Head(tokens'[n].act) = req[p].agent
    BY <1>2, <1>3
  <1>6. ActorSubs(tokens'[n]) = Append(ActorSubs(s), req[p].agent)
    BY <1>3, <1>4, <1>5 DEF ActorSubs
  <1>7. req[p].agent \in s.aud
    BY <1>1, VerdictOk
  <1> QED
    BY <1>2, <1>3, <1>4, <1>6, <1>7

LEMMA NewHistory ==
    ASSUME Typed, TokenInv, NEW p \in Proc, Mint(p), NEW n, n = Len(tokens) + 1
    PROVE  History(n)'
  <1> DEFINE s == req[p].subject
             agent == req[p].agent
             hops == ActorSubs(s)
  <1>1. /\ agent \in Agent /\ s.act \in Seq(Agent) /\ hops \in Seq(Agent)
        /\ tokens'[n].act = <<agent>> \o s.act
        /\ ActorSubs(tokens'[n]) = Append(hops, agent)
        /\ tokens'[n].sub = s.sub /\ tokens'[n].txn = Txn(s, n)
        /\ origin'[n].agent = agent /\ agent \in s.aud
    BY NewActors
  <1>2. CASE ~FromSTS(s)
    <2>1. s.act = <<>> /\ hops = <<>> /\ origin'[n].line = <<n>>
      BY <1>2, Root DEF ActorSubs
    <2>2. tokens'[n].act = <<agent>> /\ ActorSubs(tokens'[n]) = <<agent>>
      BY <1>1, <2>1
    <2> HIDE DEF s, agent, hops
    <2> QED
      BY <1>1, <2>1, <2>2 DEF History
  <1>3. CASE FromSTS(s)
    <2> DEFINE line == origin[s.jti].line
    <2>1. /\ s.jti \in DOMAIN tokens /\ s = tokens[s.jti] /\ s \in STSToken
          /\ tokens'[s.jti] = s 
          /\ line \in Seq(DOMAIN tokens) /\ line # <<>>
          /\ origin'[n].line = Append(line, n)
      BY <1>3, Parent
    <2>2. History(s.jti) /\ s.aud = {agent} /\ tokens'[n].txn = s.txn
      BY <1>1, <1>3, <2>1 DEF TokenInv, STSToken, Txn
    <2>3. /\ Len(hops) = Len(line) /\ Len(s.act) = Len(line) /\ line[Len(line)] = s.jti
          /\ \A i \in DOMAIN line :
                /\ hops[i] = origin[line[i]].agent
                /\ s.act[Len(line) + 1 - i] = hops[i]
                /\ tokens[line[i]].sub = s.sub /\ tokens[line[i]].txn = s.txn
                /\ i > 1 => tokens[line[i - 1]].aud = {hops[i]}
      BY <2>1, <2>2 DEF History
    <2>4. \A k \in DOMAIN tokens : tokens'[k] = tokens[k] /\ origin'[k] = origin[k]
      BY Grow DEF Next, HandlerStep
    <2>5. DOMAIN line = 1..Len(line) /\ Len(line) \in Nat \ {0}
      <3>1. line \in Seq(DOMAIN tokens) /\ line # <<>>
        BY <2>1
      <3> HIDE DEF line
      <3> QED
        BY <3>1
    <2> DEFINE new == Append(line, n)
               act == <<agent>> \o s.act
               subs == Append(hops, agent)
    <2> HIDE DEF s, agent, hops, line
    <2>6. /\ Len(new) = Len(line) + 1 /\ DOMAIN new = 1..(Len(line) + 1)
          /\ new[Len(line) + 1] = n
          /\ \A i \in DOMAIN line : new[i] = line[i]
      BY <2>1, <2>5
    <2>7. /\ Len(subs) = Len(line) + 1 /\ subs[Len(line) + 1] = agent
          /\ \A i \in DOMAIN line : subs[i] = hops[i]
      BY <1>1, <2>3, <2>5
    <2>8. /\ Len(act) = Len(line) + 1 /\ act[1] = agent
          /\ \A i \in DOMAIN line : act[Len(line) + 2 - i] = s.act[Len(line) + 1 - i]
      BY <1>1, <2>3, <2>5, SMTT(20)
    <2> HIDE DEF new, act, subs
    <2>9. /\ tokens'[n].act = act /\ ActorSubs(tokens'[n]) = subs 
          /\ origin'[n].line = new
      BY <1>1, <2>1 DEF act, subs, new
    <2>10. ASSUME NEW i \in DOMAIN new
           PROVE  /\ subs[i] = origin'[new[i]].agent
                  /\ act[Len(new) + 1 - i] = subs[i]
                  /\ tokens'[new[i]].sub = s.sub /\ tokens'[new[i]].txn = s.txn
                  /\ i > 1 => tokens'[new[i - 1]].aud = {subs[i]}
      <3>1. CASE i = Len(line) + 1
        <4>1. new[i] = n /\ subs[i] = agent /\ Len(new) + 1 - i = 1
          BY <2>5, <2>6, <2>7, <3>1
        <4>2. new[i - 1] = s.jti
          BY <2>3, <2>5, <2>6, <3>1
        <4> QED
          BY <1>1, <2>1, <2>2, <2>8, <4>1, <4>2
      <3>2. CASE i \in DOMAIN line
        <4>1. /\ new[i] = line[i] /\ line[i] \in DOMAIN tokens /\ subs[i] = hops[i]
              /\ Len(new) + 1 - i = Len(line) + 2 - i
          BY <2>1, <2>5, <2>6, <2>7, <3>2
        <4>2. i > 1 => /\ i - 1 \in DOMAIN line /\ new[i - 1] = line[i - 1] 
                       /\ line[i - 1] \in DOMAIN tokens
          BY <2>1, <2>5, <2>6, <3>2
        <4>3. /\ origin'[new[i]] = origin[line[i]] /\ tokens'[new[i]] = tokens[line[i]]
              /\ i > 1 => tokens'[new[i - 1]] = tokens[line[i - 1]]
          BY <2>4, <4>1, <4>2
        <4>4. act[Len(new) + 1 - i] = subs[i]
          BY <2>3, <2>8, <3>2, <4>1
        <4>5. /\ subs[i] = origin[line[i]].agent
              /\ tokens[line[i]].sub = s.sub /\ tokens[line[i]].txn = s.txn
              /\ i > 1 => tokens[line[i - 1]].aud = {subs[i]}
          BY <2>3, <3>2, <4>1
        <4> QED
          BY <4>3, <4>4, <4>5
      <3> QED
        BY <2>5, <2>6, <3>1, <3>2
    <2> QED
      BY <1>1, <2>2, <2>6, <2>7, <2>8, <2>9, <2>10 DEF History
  <1> QED
    BY <1>2, <1>3

\* What a hop may ask for is within what it was given, if that is anything.
LEMMA Narrowing ==
    ASSUME NEW requested, NEW incoming, NEW maxScopes,
           ~ScopeWidens(requested, incoming, maxScopes), incoming # {}
    PROVE  NarrowScope(requested, incoming, maxScopes) \subseteq incoming
  BY DEF NarrowScope, ScopeWidens, ScopeCeiling

LEMMA NewNarrows ==
    ASSUME Typed, TokenInv, NEW p \in Proc, Mint(p), NEW n, n = Len(tokens) + 1
    PROVE  Narrows(n)'
  <1> DEFINE s == req[p].subject
  <1>1. CASE ~FromSTS(s)
    <2>1. origin'[n].line = <<n>>
      BY <1>1, Root
    <2> QED
      BY <2>1 DEF Narrows
  <1>2. CASE FromSTS(s)
    <2> DEFINE line == origin[s.jti].line
    <2>1. /\ s.jti \in DOMAIN tokens /\ s = tokens[s.jti] /\ tokens'[s.jti] = s 
          /\ line \in Seq(DOMAIN tokens) /\ line # <<>>
          /\ origin'[n].line = Append(line, n)
      BY <1>2, Parent
    <2>2. line[Len(line)] = s.jti /\ Narrows(s.jti)
      BY <2>1 DEF TokenInv, History
    <2>3. \A k \in DOMAIN tokens : tokens'[k] = tokens[k]
      BY Grow DEF Next, HandlerStep
    <2>4. s.scope # {} => tokens'[n].scope \subseteq s.scope
      <3>1. /\ tokens'[n] = Minted(p, n) 
            /\ Verdict(req[p], docs[snap[p]], clock[p]) = "ok"
        BY MintFacts
      <3>2. ~ScopeWidens(req[p].scope, s.scope, 
                         docs[snap[p]].registry[req[p].agent].maxScopes)
        BY <3>1, VerdictOk
      <3>3. tokens'[n].scope = NarrowScope(req[p].scope, s.scope, 
                                docs[snap[p]].registry[req[p].agent].maxScopes)
        BY <3>1 DEF Minted
      <3> QED
        BY <3>2, <3>3, Narrowing
    <2> DEFINE new == Append(line, n)
    <2> HIDE DEF s, line
    <2>5. /\ DOMAIN line = 1..Len(line) /\ Len(line) \in Nat \ {0}
          /\ DOMAIN new = 1..(Len(line) + 1) /\ new[Len(line) + 1] = n
          /\ \A i \in DOMAIN line : new[i] = line[i] /\ line[i] \in DOMAIN tokens
      BY <2>1
    <2> HIDE DEF new
    <2>6. ASSUME NEW i \in DOMAIN new, NEW j \in DOMAIN new, i < j,
                 \A k \in i..(j - 1) : tokens'[new[k]].scope # {}
          PROVE  tokens'[new[j]].scope \subseteq tokens'[new[i]].scope
      <3>1. /\ i \in DOMAIN line
            /\ \A k \in i..(j - 1) : /\ k \in DOMAIN line 
                                     /\ tokens'[new[k]] = tokens[line[k]]
        BY <2>3, <2>5, <2>6
      <3>2. \A k \in i..(j - 1) : tokens[line[k]].scope # {}
        BY <2>6, <3>1
      <3>3. tokens'[new[i]] = tokens[line[i]]
        BY <2>3, <2>5, <3>1
      <3>4. \A h \in DOMAIN line : i < h /\ h <= j =>
                  tokens[line[h]].scope \subseteq tokens[line[i]].scope
        <4>1. SUFFICES ASSUME NEW h \in DOMAIN line, i < h, h <= j
                       PROVE  tokens[line[h]].scope \subseteq tokens[line[i]].scope
          OBVIOUS
        <4>2. \A k \in i..(h - 1) : tokens[line[k]].scope # {}
          BY <2>5, <3>1, <3>2, <4>1
        <4> QED
          BY <2>2, <3>1, <4>1, <4>2 DEF Narrows, line
      <3>5. CASE j \in DOMAIN line
        BY <2>3, <2>5, <2>6, <3>3, <3>4, <3>5
      <3>6. CASE j = Len(line) + 1
        <4>1. /\ new[j] = n /\ Len(line) \in DOMAIN line /\ Len(line) \in i..(j - 1)
              /\ i <= Len(line)
          BY <2>5, <2>6, <3>1, <3>6
        <4>2. tokens[line[Len(line)]] = s
          BY <2>1, <2>2
        <4>3. tokens'[new[j]].scope \subseteq s.scope
          BY <2>4, <3>2, <4>1, <4>2
        <4>4. s.scope \subseteq tokens[line[i]].scope
          <5>1. CASE i = Len(line)
            BY <4>2, <5>1
          <5>2. CASE i < Len(line)
            BY <3>4, <3>6, <4>1, <4>2, <5>2
          <5> QED
            BY <2>5, <3>1, <4>1, <5>1, <5>2
        <4> QED
          BY <3>3, <4>3, <4>4
      <3> QED
        BY <2>5, <3>5, <3>6
    <2>7. origin'[n].line = new
      BY <2>1 DEF new
    <2> QED
      BY <2>6, <2>7 DEF Narrows
  <1> QED
    BY <1>1, <1>2

LEMMA Longer == ASSUME NEW d \in Nat, NEW w \in Nat PROVE (d + 1) * w = d * w + w /\ d * w \in Nat
  OBVIOUS

LEMMA Sums ==
    ASSUME NEW time \in Nat, NEW exp \in Nat, NEW root \in Nat, NEW hops \in Nat,
           NEW ttl \in Nat, NEW skew \in Nat, time <= exp + skew, exp <= root + hops
    PROVE  time + ttl <= root + (hops + (ttl + skew))
  OBVIOUS

LEMMA NewEnds ==
    ASSUME Typed, TokenInv, NEW p \in Proc, Mint(p), NEW n, n = Len(tokens) + 1
    PROVE  Ends(n)'
  <1> DEFINE s == req[p].subject
             w == TTL + ClockSkew
             d == Depth(s)
  <1>1. /\ tokens'[n] = Minted(p, n) /\ clock[p] \in Nat
        /\ Verdict(req[p], docs[snap[p]], clock[p]) = "ok"
        /\ s \in Presentable /\ s # Forged
    BY MintFacts
  <1>2. tokens'[n].exp = clock[p] + TTL /\ s.exp \in Nat /\ ~Expired(s, clock[p])
    BY <1>1, VerdictOk, Subjects DEF Minted, Typed
  <1>3. clock[p] <= s.exp + ClockSkew
    BY <1>1, <1>2, Bounds DEF Expired
  <1>4. d \in Nat /\ Depth(tokens'[n]) = d + 1
    <2>1. /\ ActorSubs(s) \in Seq(Agent) /\ req[p].agent \in Agent
          /\ ActorSubs(tokens'[n]) = Append(ActorSubs(s), req[p].agent)
      BY NewActors
    <2> HIDE DEF s
    <2>2. /\ Len(ActorSubs(s)) \in Nat
          /\ Len(ActorSubs(tokens'[n])) = Len(ActorSubs(s)) + 1
      BY <2>1
    <2> QED
      BY <2>2 DEF Depth
  <1>5. w \in Nat /\ (d + 1) * w = d * w + w /\ d * w \in Nat
    BY <1>4, Bounds, Longer
  <1>6. CASE ~FromSTS(s)
    <2>1. origin'[n].root = s
      BY <1>6, Root
    <2>2. tokens'[n].exp <= s.exp + (d * w + w)
      <3> DEFINE hops == d * w
      <3>1. /\ clock[p] \in Nat /\ s.exp \in Nat /\ TTL \in Nat /\ ClockSkew \in Nat
            /\ hops \in Nat /\ clock[p] <= s.exp + ClockSkew
        BY <1>1, <1>2, <1>3, <1>5, Bounds
      <3>2. clock[p] + TTL <= s.exp + (hops + (TTL + ClockSkew))
        <4> HIDE DEF hops, s, d, w
        <4> QED
          BY <3>1
      <3> QED
        BY <1>2, <3>2
    <2> QED
      BY <1>4, <1>5, <2>1, <2>2 DEF Ends
  <1>7. CASE FromSTS(s)
    <2>1. /\ s.jti \in DOMAIN tokens /\ s = tokens[s.jti]
          /\ origin'[n].root = origin[s.jti].root /\ origin'[n].root \in IdPToken
      BY <1>7, Parent
    <2>2. s.exp <= origin'[n].root.exp + d * w
      BY <2>1 DEF TokenInv, Ends
    <2>3. origin'[n].root.exp \in Nat
      BY <2>1, STSAssumption
    <2>4. tokens'[n].exp <= origin'[n].root.exp + (d * w + w)
      <3> DEFINE hops == d * w
                 root == origin'[n].root.exp
      <3>1. /\ clock[p] \in Nat /\ s.exp \in Nat /\ TTL \in Nat /\ ClockSkew \in Nat
            /\ root \in Nat /\ hops \in Nat
            /\ clock[p] <= s.exp + ClockSkew /\ s.exp <= root + hops
        BY <1>1, <1>2, <1>3, <1>5, <2>2, <2>3, Bounds
      <3>2. clock[p] + TTL <= root + (hops + (TTL + ClockSkew))
        <4> HIDE DEF hops, root, s, d, w
        <4> QED
          BY <3>1, Sums
      <3> QED
        BY <1>2, <3>2
    <2> QED
      BY <1>4, <1>5, <2>4 DEF Ends
  <1> QED
    BY <1>6, <1>7

LEMMA TokenStep == Typed /\ TokenInv /\ [Next]_vars => TokenInv'
  <1> SUFFICES ASSUME Typed, TokenInv, [Next]_vars, NEW n, n \in DOMAIN tokens'
               PROVE  Lineage(n)' /\ Obeys(n)' /\ History(n)' /\ Ends(n)' /\ Narrows(n)'
    BY DEF TokenInv
  <1>1. CASE n \in DOMAIN tokens
    BY <1>1, TokensStay DEF TokenInv
  <1>2. CASE n \notin DOMAIN tokens
    <2>1. PICK p \in Proc : Mint(p)
      BY <1>2, TokensStand
    <2>2. n = Len(tokens) + 1
      BY <1>2, <2>1, MintFacts
    <2> QED
      BY <2>1, <2>2, NewLineage, NewObeys, NewHistory, NewEnds, NewNarrows
  <1> QED
    BY <1>1, <1>2

-----------------------------------------------------------------------------
(* What a proof and a subject are good for *)

\* The two kinds of claims that the replay cache grants, each for one token:
\* handlers hold what was granted to them, and tokens were made with it.
Kinds == {"proof", "subject"}

Holds(kind, p) == 
    IF kind = "proof" THEN pc[p] \in Proved /\ req[p].proof # None
                      ELSE pc[p] = "spent" /\ FromSTS(req[p].subject)

HeldClaim(kind, p) == IF kind = "proof" THEN ProofClaim(req[p].proof)
                                        ELSE SubjectClaim(req[p].subject)

HeldAt(kind, p) == IF kind = "proof" THEN proved[p] ELSE granted[p]

ParentOf(n) == origin[n].line[Len(origin[n].line) - 1]

Uses(kind, n) == IF kind = "proof" THEN origin[n].proof # None
                                   ELSE Len(origin[n].line) > 1

UsedClaim(kind, n) == IF kind = "proof" THEN ProofClaim(origin[n].proof)
                                        ELSE SubjectClaim(tokens[ParentOf(n)])

UsedAt(kind, n) == IF kind = "proof" THEN origin[n].provedAt ELSE origin[n].at

Granted(claim) == \E i \in DOMAIN grants : grants[i].claim = claim

\* Two claims that share a key were granted a window apart.
Once(c, atC, d, atD) ==
    c.jti = d.jti => atC > ReplayUntil(d.exp) \/ atD > ReplayUntil(c.exp)

\* What is held or was used was granted, and no two of them in one window.
UseInv(kind) ==
    /\ \A n \in DOMAIN tokens : Uses(kind, n) =>
          /\ Granted(UsedClaim(kind, n))
          /\ \A m \in DOMAIN tokens : m # n /\ Uses(kind, m) =>
                Once(UsedClaim(kind, m), UsedAt(kind, m), 
                     UsedClaim(kind, n), UsedAt(kind, n))
    /\ \A p \in Proc : Holds(kind, p) =>
          /\ Granted(HeldClaim(kind, p))
          /\ \A n \in DOMAIN tokens : Uses(kind, n) =>
                Once(UsedClaim(kind, n), UsedAt(kind, n), 
                     HeldClaim(kind, p), HeldAt(kind, p))
          /\ \A q \in Proc \ {p} : Holds(kind, q) =>
                Once(HeldClaim(kind, q), HeldAt(kind, q), 
                     HeldClaim(kind, p), HeldAt(kind, p))

LEMMA OnceSymmetric == 
    ASSUME NEW c, NEW atC, NEW d, NEW atD, Once(c, atC, d, atD)
    PROVE  Once(d, atD, c, atC)
  BY DEF Once

\* The cache forgets nothing that it granted.
LEMMA GrantsStay ==
    ASSUME Typed, [Next]_vars, NEW claim, Granted(claim)
    PROVE  Granted(claim)'
  <1>1. CASE UNCHANGED grants
    BY <1>1 DEF Granted
  <1>2. ASSUME NEW p \in Proc, ConsumeProof(p) \/ Consume(p)
        PROVE  Granted(claim)'
    <2>1. PICK c \in ReplayClaims : Replay!Grant(c)
      BY <1>2, GrantFacts
    <2>2. \A i \in DOMAIN grants : i \in DOMAIN grants' /\ grants'[i] = grants[i]
      BY <2>1 DEF Replay!Grant, Typed, WorldType
    <2> QED
      BY <2>2 DEF Granted
  <1> QED
    BY <1>1, <1>2
    DEF Next, HandlerStep, vars, Tick, Reload, Restart, Receive, Refuse, 
        ConsumeProofFails, Snapshot, Decide, ConsumeFails, MissingConfirmation, 
        Mint, Audit, AuditFails, Respond

\* What was granted before is a window away from what is granted now.
LEMMA GrantOnce ==
    ASSUME Typed, NEW claim \in ReplayClaims, Replay!Grant(claim)
    PROVE  /\ Granted(claim)'
           /\ \A d, at : Granted(d) => Once(d, at, claim, now)
  <1>1. /\ grants' = Append(grants, [claim |-> claim, at |-> now])
        /\ \A i \in DOMAIN grants : grants[i].claim.jti = claim.jti => 
              ReplayUntil(grants[i].claim.exp) < now
    BY DEF Replay!Grant, Replay!Conflicts, Replay!Until, Replay!ReplayUntil, ReplayUntil
  <1>2. /\ Len(grants) + 1 \in DOMAIN grants' 
        /\ grants'[Len(grants) + 1].claim = claim
    BY <1>1 DEF Typed, WorldType
  <1>3. ASSUME NEW d, NEW at, Granted(d), d.jti = claim.jti
        PROVE  now > ReplayUntil(d.exp)
    <2>1. PICK i \in DOMAIN grants : grants[i].claim = d
      BY <1>3 DEF Granted
    <2>2. ReplayUntil(d.exp) < now
      BY <1>1, <1>3, <2>1
    <2> QED
      BY <2>2
  <1> QED
    BY <1>2, <1>3 DEF Granted, Once

\* What was used stays used.
LEMMA UsesStay ==
    ASSUME Typed, TokenInv, [Next]_vars, NEW kind \in Kinds, NEW n \in DOMAIN tokens
    PROVE  /\ n \in DOMAIN tokens'
           /\ Uses(kind, n)' <=> Uses(kind, n)
           /\ Uses(kind, n) => /\ UsedClaim(kind, n)' = UsedClaim(kind, n)
                               /\ UsedAt(kind, n)' = UsedAt(kind, n)
  <1>1. \A k \in DOMAIN tokens : /\ k \in DOMAIN tokens' /\ tokens'[k] = tokens[k]
                                 /\ origin'[k] = origin[k]
    BY Grow
  <1>2. ASSUME Len(origin[n].line) > 1
        PROVE  ParentOf(n) \in DOMAIN tokens
    <2>1. origin[n] \in Origins
      BY DEF Typed, TokenType
    <2>2. origin[n].line \in Seq(Nat)
      BY <2>1 DEF Origins
    <2>3. Len(origin[n].line) - 1 \in DOMAIN origin[n].line
      BY <1>2, <2>2
    <2> QED
      BY <2>3 DEF ParentOf, TokenInv, Lineage
  <1>3. CASE kind = "proof"
    BY <1>1, <1>3 DEF Uses, UsedClaim, UsedAt
  <1>4. CASE kind = "subject"
    <2>1. ParentOf(n)' = ParentOf(n)
      BY <1>1 DEF ParentOf
    <2> QED
      BY <1>1, <1>2, <1>4, <2>1 DEF Uses, UsedClaim, UsedAt
  <1> QED
    BY <1>3, <1>4 DEF Kinds

\* A handler holds what it held before.
Keeps(kind, q) ==
    Holds(kind, q)' => /\ Holds(kind, q) 
                       /\ HeldClaim(kind, q)' = HeldClaim(kind, q)
                       /\ HeldAt(kind, q)' = HeldAt(kind, q)

\* Nobody gets anything.
LEMMA UseFrame ==
    ASSUME Typed, TokenInv, [Next]_vars, NEW kind \in Kinds, UseInv(kind),
           DOMAIN tokens' = DOMAIN tokens, \A q \in Proc : Keeps(kind, q)
    PROVE  UseInv(kind)'
  <1>1. ASSUME NEW n \in DOMAIN tokens', Uses(kind, n)'
        PROVE  /\ Granted(UsedClaim(kind, n))'
               /\ \A m \in DOMAIN tokens' : m # n /\ Uses(kind, m)' =>
                     Once(UsedClaim(kind, m), UsedAt(kind, m), 
                          UsedClaim(kind, n), UsedAt(kind, n))'
    BY <1>1, UsesStay, GrantsStay DEF UseInv, Once, Granted
  <1>2. ASSUME NEW p \in Proc, Holds(kind, p)'
        PROVE  /\ Granted(HeldClaim(kind, p))'
               /\ \A n \in DOMAIN tokens' : Uses(kind, n)' =>
                     Once(UsedClaim(kind, n), UsedAt(kind, n), 
                          HeldClaim(kind, p), HeldAt(kind, p))'
               /\ \A q \in Proc \ {p} : Holds(kind, q)' =>
                     Once(HeldClaim(kind, q), HeldAt(kind, q), 
                          HeldClaim(kind, p), HeldAt(kind, p))'
    BY <1>2, UsesStay, GrantsStay DEF UseInv, Once, Granted, Keeps
  <1> QED
    BY <1>1, <1>2 DEF UseInv

\* A handler is granted a claim.
LEMMA UseGrant ==
    ASSUME Typed, TokenInv, [Next]_vars, NEW kind \in Kinds, UseInv(kind),
           DOMAIN tokens' = DOMAIN tokens, NEW p \in Proc, NEW claim \in ReplayClaims,
           Replay!Grant(claim), HeldClaim(kind, p)' = claim, HeldAt(kind, p)' = now,
           \A q \in Proc \ {p} : Keeps(kind, q)
    PROVE  UseInv(kind)'
  <1>1. /\ Granted(claim)'
        /\ \A d, at : Granted(d) => Once(d, at, claim, now)
    BY GrantOnce
  <1>2. ASSUME NEW n \in DOMAIN tokens', Uses(kind, n)'
        PROVE  /\ Granted(UsedClaim(kind, n))'
               /\ \A m \in DOMAIN tokens' : m # n /\ Uses(kind, m)' =>
                     Once(UsedClaim(kind, m), UsedAt(kind, m), 
                          UsedClaim(kind, n), UsedAt(kind, n))'
    BY <1>2, UsesStay, GrantsStay DEF UseInv, Once, Granted
  <1>3. ASSUME NEW r \in Proc, Holds(kind, r)'
        PROVE  /\ Granted(HeldClaim(kind, r))'
               /\ \A n \in DOMAIN tokens' : Uses(kind, n)' =>
                     Once(UsedClaim(kind, n), UsedAt(kind, n), 
                          HeldClaim(kind, r), HeldAt(kind, r))'
               /\ \A q \in Proc \ {r} : Holds(kind, q)' =>
                     Once(HeldClaim(kind, q), HeldAt(kind, q), 
                          HeldClaim(kind, r), HeldAt(kind, r))'
    <2>1. ASSUME NEW n \in DOMAIN tokens', Uses(kind, n)'
          PROVE  Once(UsedClaim(kind, n), UsedAt(kind, n), 
                      HeldClaim(kind, r), HeldAt(kind, r))'
      <3>1. /\ n \in DOMAIN tokens /\ Uses(kind, n) /\ Granted(UsedClaim(kind, n))
            /\ UsedClaim(kind, n)' = UsedClaim(kind, n)
            /\ UsedAt(kind, n)' = UsedAt(kind, n)
        BY <2>1, UsesStay DEF UseInv
      <3>2. CASE r = p
        BY <1>1, <3>1, <3>2 DEF Once
      <3>3. CASE r # p
        BY <1>3, <3>1, <3>3 DEF UseInv, Once, Keeps
      <3> QED
        BY <3>2, <3>3
    <2>2. ASSUME NEW q \in Proc \ {r}, Holds(kind, q)'
          PROVE  Once(HeldClaim(kind, q), HeldAt(kind, q), 
                      HeldClaim(kind, r), HeldAt(kind, r))'
      <3>1. CASE r = p
        <4>1. /\ Granted(HeldClaim(kind, q)) /\ HeldClaim(kind, q)' = HeldClaim(kind, q)
              /\ HeldAt(kind, q)' = HeldAt(kind, q)
          BY <2>2, <3>1 DEF UseInv, Keeps
        <4> QED
          BY <1>1, <3>1, <4>1 DEF Once
      <3>2. CASE q = p
        <4>1. /\ Granted(HeldClaim(kind, r)) /\ HeldClaim(kind, r)' = HeldClaim(kind, r)
              /\ HeldAt(kind, r)' = HeldAt(kind, r)
          BY <1>3, <2>2, <3>2 DEF UseInv, Keeps
        <4> QED
          BY <1>1, <3>2, <4>1 DEF Once
      <3>3. CASE r # p /\ q # p
        BY <1>3, <2>2, <3>3 DEF UseInv, Once, Keeps
      <3> QED
        BY <3>1, <3>2, <3>3
    <2>3. Granted(HeldClaim(kind, r))'
      <3>1. CASE r = p
        BY <1>1, <3>1 DEF Granted
      <3>2. CASE r # p
        BY <1>3, <3>2, GrantsStay DEF UseInv, Granted, Keeps
      <3> QED
        BY <3>1, <3>2
    <2> QED
      BY <2>1, <2>2, <2>3
  <1> QED
    BY <1>2, <1>3 DEF UseInv

\* What a handler holds becomes what a token was made with.
LEMMA UseMint ==
    ASSUME Typed, TokenInv, [Next]_vars, NEW kind \in Kinds, UseInv(kind),
           NEW p \in Proc, NEW n, n \notin DOMAIN tokens, 
           DOMAIN tokens' = DOMAIN tokens \cup {n}, ~Holds(kind, p)', 
           Uses(kind, n)' => /\ Holds(kind, p)
                             /\ UsedClaim(kind, n)' = HeldClaim(kind, p)
                             /\ UsedAt(kind, n)' = HeldAt(kind, p),
           \A q \in Proc \ {p} : Keeps(kind, q)
    PROVE  UseInv(kind)'
  <1>1. ASSUME NEW m \in DOMAIN tokens, Uses(kind, m)'
        PROVE  /\ Uses(kind, m) /\ Granted(UsedClaim(kind, m))'
               /\ UsedClaim(kind, m)' = UsedClaim(kind, m) 
               /\ UsedAt(kind, m)' = UsedAt(kind, m)
    BY <1>1, UsesStay, GrantsStay DEF UseInv, Granted
  <1>2. ASSUME NEW k \in DOMAIN tokens', Uses(kind, k)'
        PROVE  /\ Granted(UsedClaim(kind, k))'
               /\ \A m \in DOMAIN tokens' : m # k /\ Uses(kind, m)' =>
                     Once(UsedClaim(kind, m), UsedAt(kind, m), 
                          UsedClaim(kind, k), UsedAt(kind, k))'
    <2>1. CASE k = n
      <3>1. /\ Holds(kind, p) /\ UsedClaim(kind, k)' = HeldClaim(kind, p)
            /\ UsedAt(kind, k)' = HeldAt(kind, p) /\ Granted(HeldClaim(kind, p))
        BY <1>2, <2>1 DEF UseInv
      <3>2. \A m \in DOMAIN tokens : Uses(kind, m) =>
               Once(UsedClaim(kind, m), UsedAt(kind, m), 
                    HeldClaim(kind, p), HeldAt(kind, p))
        BY <3>1 DEF UseInv
      <3> QED
        BY <1>1, <2>1, <3>1, <3>2, GrantsStay DEF Once, Granted
    <2>2. CASE k \in DOMAIN tokens
      <3>1. ASSUME NEW m \in DOMAIN tokens', m # k, Uses(kind, m)'
            PROVE  Once(UsedClaim(kind, m), UsedAt(kind, m), 
                        UsedClaim(kind, k), UsedAt(kind, k))'
        <4>1. CASE m = n
          <5>1. /\ Holds(kind, p) /\ UsedClaim(kind, m)' = HeldClaim(kind, p)
                /\ UsedAt(kind, m)' = HeldAt(kind, p)
            BY <3>1, <4>1
          <5>2. Once(UsedClaim(kind, k), UsedAt(kind, k), 
                     HeldClaim(kind, p), HeldAt(kind, p))
            BY <1>1, <1>2, <2>2, <5>1 DEF UseInv
          <5> QED
            BY <1>1, <1>2, <2>2, <5>1, <5>2 DEF Once
        <4>2. CASE m \in DOMAIN tokens
          BY <1>1, <1>2, <2>2, <3>1, <4>2 DEF UseInv, Once
        <4> QED
          BY <4>1, <4>2
      <3> QED
        BY <1>1, <1>2, <2>2, <3>1
    <2> QED
      BY <2>1, <2>2
  <1>3. ASSUME NEW r \in Proc, Holds(kind, r)'
        PROVE  /\ Granted(HeldClaim(kind, r))'
               /\ \A m \in DOMAIN tokens' : Uses(kind, m)' =>
                     Once(UsedClaim(kind, m), UsedAt(kind, m), 
                          HeldClaim(kind, r), HeldAt(kind, r))'
               /\ \A q \in Proc \ {r} : Holds(kind, q)' =>
                     Once(HeldClaim(kind, q), HeldAt(kind, q), 
                          HeldClaim(kind, r), HeldAt(kind, r))'
    <2>1. /\ r # p /\ Holds(kind, r) /\ HeldClaim(kind, r)' = HeldClaim(kind, r)
          /\ HeldAt(kind, r)' = HeldAt(kind, r)
      BY <1>3 DEF Keeps
    <2>2. Granted(HeldClaim(kind, r))'
      BY <2>1, GrantsStay DEF UseInv, Granted
    <2>3. ASSUME NEW m \in DOMAIN tokens', Uses(kind, m)'
          PROVE  Once(UsedClaim(kind, m), UsedAt(kind, m), 
                      HeldClaim(kind, r), HeldAt(kind, r))'
      <3>1. CASE m = n
        <4>1. /\ Holds(kind, p) /\ UsedClaim(kind, m)' = HeldClaim(kind, p)
              /\ UsedAt(kind, m)' = HeldAt(kind, p)
          BY <2>3, <3>1
        <4>2. Once(HeldClaim(kind, p), HeldAt(kind, p), 
                   HeldClaim(kind, r), HeldAt(kind, r))
          BY <2>1, <4>1 DEF UseInv
        <4> QED
          BY <2>1, <4>1, <4>2 DEF Once
      <3>2. CASE m \in DOMAIN tokens
        BY <1>1, <2>1, <2>3, <3>2 DEF UseInv, Once
      <3> QED
        BY <3>1, <3>2
    <2>4. ASSUME NEW q \in Proc \ {r}, Holds(kind, q)'
          PROVE  Once(HeldClaim(kind, q), HeldAt(kind, q), 
                      HeldClaim(kind, r), HeldAt(kind, r))'
      BY <2>1, <2>4 DEF UseInv, Once, Keeps
    <2> QED
      BY <2>2, <2>3, <2>4
  <1> QED
    BY <1>2, <1>3 DEF UseInv

LEMMA UseStep ==
    ASSUME Typed, TokenInv, [Next]_vars, NEW kind \in Kinds, UseInv(kind)
    PROVE  UseInv(kind)'
  <1>1. CASE UNCHANGED <<tokens, pc, req, granted, proved>>
    BY <1>1, UseFrame DEF Keeps, Holds, HeldClaim, HeldAt
  <1>2. CASE \E d \in Document : Restart(d)
    <2>1. tokens' = tokens /\ \A q \in Proc : pc'[q] = "idle"
      BY <1>2 DEF Restart
    <2>2. \A q \in Proc : Keeps(kind, q)
      BY <2>1 DEF Keeps, Holds, Proved, Active
    <2> QED
      BY <2>1, <2>2, UseFrame
  <1>3. ASSUME NEW p \in Proc, HandlerStep(p) PROVE UseInv(kind)'
    <2>1. \A q \in Proc \ {p} : Keeps(kind, q)
      BY <1>3, Others DEF Keeps, Holds, HeldClaim, HeldAt
    <2>2. CASE Mint(p)
      <3> DEFINE n == Len(tokens) + 1
                 s == req[p].subject
      <3>1. /\ n \notin DOMAIN tokens /\ DOMAIN tokens' = DOMAIN tokens \cup {n}
            /\ origin'[n] = Origin(p, n) /\ pc[p] = "spent"
        BY <2>2, MintFacts
      <3>2. pc'[p] = "decided"
        BY <2>2 DEF Mint, Release, Typed, HandlerType
      <3>3. ~Holds(kind, p)'
        BY <3>2 DEF Holds, Proved, Active
      <3>4. /\ origin'[n].proof = req[p].proof /\ origin'[n].provedAt = proved[p]
            /\ origin'[n].at = granted[p]
        BY <3>1 DEF Origin
      <3>5. CASE kind = "proof"
        <4>1. ASSUME NEW m, m = n, Uses(kind, m)' 
              PROVE  /\ Holds(kind, p) /\ UsedClaim(kind, m)' = HeldClaim(kind, p)
                     /\ UsedAt(kind, m)' = HeldAt(kind, p)
          BY <3>1, <3>4, <3>5, <4>1 
          DEF Uses, UsedClaim, UsedAt, Holds, HeldClaim, HeldAt, Proved, Active
        <4> QED
          BY <2>1, <2>2, <3>1, <3>3, <4>1, UseMint
      <3>6. CASE kind = "subject"
        <4>1. ASSUME NEW m, m = n, Uses(kind, m)' 
              PROVE  /\ Holds(kind, p) /\ UsedClaim(kind, m)' = HeldClaim(kind, p)
                     /\ UsedAt(kind, m)' = HeldAt(kind, p)
          <5>1. FromSTS(s)
            <6>1. ~FromSTS(s) => origin'[m].line = <<m>>
              BY <2>2, <4>1, Root
            <6>2. Len(origin'[m].line) > 1
              BY <3>6, <4>1 DEF Uses
            <6>3. Len(<<m>>) = 1 /\ ~(1 > 1)
              OBVIOUS
            <6> QED
              BY <6>1, <6>2, <6>3, Zenon
          <5>2. /\ s.jti \in DOMAIN tokens /\ tokens'[s.jti] = s
                /\ origin[s.jti].line \in Seq(DOMAIN tokens) 
                /\ origin[s.jti].line # <<>>
                /\ origin'[m].line = Append(origin[s.jti].line, m)
            BY <2>2, <4>1, <5>1, Parent
          <5>3. origin[s.jti].line[Len(origin[s.jti].line)] = s.jti
            BY <5>2 DEF TokenInv, History
          <5>4. ParentOf(m)' = s.jti
            BY <5>2, <5>3 DEF ParentOf
          <5> QED
            BY <3>1, <3>4, <3>6, <4>1, <5>1, <5>2, <5>4
            DEF UsedClaim, UsedAt, Holds, HeldClaim, HeldAt
        <4> QED
          BY <2>1, <2>2, <3>1, <3>3, <4>1, UseMint
      <3> QED
        BY <3>5, <3>6 DEF Kinds
    <2>3. CASE ConsumeProof(p) \/ Consume(p)
      <3>1. PICK claim \in ReplayClaims : 
                    /\ Replay!Grant(claim)
                    /\ ConsumeProof(p) => claim = ProofClaim(req[p].proof)
                    /\ Consume(p) => claim = SubjectClaim(req[p].subject)
        BY <2>3, GrantFacts
      <3>2. /\ UNCHANGED <<tokens, req>> 
            /\ ConsumeProof(p) => /\ pc[p] = "received" /\ pc'[p] = "proved"
                                  /\ proved'[p] = now /\ granted' = granted
            /\ Consume(p) => /\ pc[p] = "cleared" /\ pc'[p] = "spent" 
                             /\ granted'[p] = now /\ proved' = proved
        BY <2>3 DEF ConsumeProof, Consume, Typed, HandlerType
      <3>3. CASE \/ kind = "proof" /\ ConsumeProof(p)
                 \/ kind = "subject" /\ Consume(p)
        <4>1. HeldClaim(kind, p)' = claim /\ HeldAt(kind, p)' = now
          BY <3>1, <3>2, <3>3 DEF HeldClaim, HeldAt
        <4> QED
          BY <2>1, <3>1, <3>2, <4>1, UseGrant
      <3>4. CASE \/ kind = "subject" /\ ConsumeProof(p)
                 \/ kind = "proof" /\ Consume(p)
        <4>1. Keeps(kind, p)
          BY <3>2, <3>4 DEF Keeps, Holds, HeldClaim, HeldAt, Proved, Active
        <4> QED
          BY <2>1, <3>2, <4>1, UseFrame
      <3> QED
        BY <2>3, <3>3, <3>4 DEF Kinds
    <2>4. ASSUME Keeps(kind, p), tokens' = tokens PROVE UseInv(kind)'
      BY <2>1, <2>4, UseFrame
    <2>5. CASE Releasing(p) /\ ~Mint(p)
      <3>1. PICK label \in {"idle", "decided"}, result \in 0..Len(tokens') : 
                    Release(p, label, result)
        BY <2>5, ReleaseFrame
      <3>2. pc'[p] \in {"idle", "decided"}
        BY <3>1 DEF Release, Typed, HandlerType
      <3>3. Keeps(kind, p)
        BY <3>2 DEF Keeps, Holds, Proved, Active
      <3>4. tokens' = tokens
        BY <2>5 DEF Releasing, Refuse, ConsumeProofFails, ConsumeFails, 
                    MissingConfirmation, Respond, Decide
      <3> QED
        BY <2>4, <3>3, <3>4
    <2>6. ASSUME NEW shape \in Shape, NEW subject \in Presentable,
                 Receive(p, shape, subject)
          PROVE  UseInv(kind)'
      <3>1. /\ pc'[p] = IF shape.proof = None THEN "proved" ELSE "received"
            /\ req'[p].proof = shape.proof /\ tokens' = tokens
        BY <2>6 DEF Receive, Typed, HandlerType
      <3>2. ~Holds(kind, p)'
        BY <3>1 DEF Holds, Proved, Active
      <3> QED
        BY <2>4, <3>1, <3>2 DEF Keeps
    <2>7. CASE Snapshot(p) \/ (Decide(p) /\ Verdict(req[p], docs[snap[p]], now) = "ok")
      <3>1. /\ UNCHANGED <<tokens, req, granted, proved>> /\ pc[p] \in Proved
            /\ pc'[p] = "spent" => ~FromSTS(req[p].subject)
        BY <2>7 DEF Snapshot, Decide, Typed, HandlerType, Proved, Active
      <3>2. Keeps(kind, p)
        BY <3>1 DEF Keeps, Holds, HeldClaim, HeldAt
      <3> QED
        BY <2>4, <3>1, <3>2
    <2>8. CASE Audit(p) \/ AuditFails(p)
      <3>1. tokens' = tokens /\ pc'[p] = "audited"
        BY <2>8 DEF Audit, AuditFails, Typed, HandlerType
      <3>2. Keeps(kind, p)
        BY <3>1 DEF Keeps, Holds, Proved, Active
      <3> QED
        BY <2>4, <3>1, <3>2
    <2> QED
      BY <1>3, <2>2, <2>3, <2>5, <2>6, <2>7, <2>8, Steps DEF Advances
  <1> QED
    BY <1>1, <1>2, <1>3 DEF Next, Tick, Reload, vars, handler

\* A proof that was spent for a token is the one the token is bound to.
KeyInv == 
    \A n \in DOMAIN tokens : 
        origin[n].proof # None => tokens[n].jkt = origin[n].proof.jkt

LEMMA KeyStep == Typed /\ KeyInv /\ [Next]_vars => KeyInv'
  <1> SUFFICES ASSUME Typed, KeyInv, [Next]_vars, NEW n, n \in DOMAIN tokens',
                      origin'[n].proof # None
               PROVE  tokens'[n].jkt = origin'[n].proof.jkt
    BY DEF KeyInv
  <1>1. CASE n \in DOMAIN tokens
    BY <1>1, Grow DEF KeyInv
  <1>2. CASE n \notin DOMAIN tokens
    <2>1. PICK p \in Proc : Mint(p)
      BY <1>2, TokensStand
    <2>2. n = Len(tokens) + 1
      BY <1>2, <2>1, MintFacts
    <2>3. tokens'[n] = Minted(p, n) /\ origin'[n] = Origin(p, n)
      BY <2>1, <2>2, MintFacts
    <2> QED
      BY <2>3 DEF Minted, Origin, ConfirmJKT
  <1> QED
    BY <1>1, <1>2

\* A handler spends its subject after it has decided.
ClockInv == 
    \A p \in Proc : 
        pc[p] = "spent" /\ FromSTS(req[p].subject) => clock[p] <= granted[p]

LEMMA ClockStep == Typed /\ ClockInv /\ [Next]_vars => ClockInv'
  <1> SUFFICES ASSUME Typed, ClockInv, [Next]_vars, NEW q \in Proc,
                      pc'[q] = "spent", FromSTS(req'[q].subject)
               PROVE  clock'[q] <= granted'[q]
    BY DEF ClockInv
  <1>1. CASE UNCHANGED <<pc, req, clock, granted>>
    BY <1>1 DEF ClockInv
  <1>2. CASE \E d \in Document : Restart(d)
    BY <1>2 DEF Restart
  <1>3. ASSUME NEW p \in Proc, HandlerStep(p), p # q
        PROVE  clock'[q] <= granted'[q]
    BY <1>3, Others DEF ClockInv
  <1>4. CASE HandlerStep(q)
    <2>1. Advances(q) /\ req'[q] = req[q]
      BY <1>4, Moves DEF Active
    <2>2. CASE Consume(q)
      BY <2>2 DEF Consume, Typed, HandlerType, WorldType
    <2>3. CASE ConsumeProof(q) \/ Snapshot(q)
      BY <2>3 DEF ConsumeProof, Snapshot, Typed, HandlerType
    <2>4. CASE Decide(q) /\ Verdict(req[q], docs[snap[q]], now) = "ok"
      BY <2>1, <2>4 DEF Decide, Typed, HandlerType
    <2> QED
      BY <2>1, <2>2, <2>3, <2>4 DEF Advances
  <1> QED
    BY <1>1, <1>2, <1>3, <1>4 DEF Next, Tick, Reload, vars, handler

-----------------------------------------------------------------------------
(* Records *)

\* What a handler is about to answer with is on record.
AuditInv ==
    /\ \A e \in audit : \E n \in DOMAIN tokens : e = MintEvent(n)
    /\ \A n \in returned : \E e \in audit : e.jti = n
    /\ \A p \in Proc : pc[p] = "audited" /\ out[p] # Denied =>
          \E e \in audit : e.jti = out[p]

LEMMA AuditStep == Typed /\ AuditInv /\ [Next]_vars => AuditInv'
  <1> SUFFICES ASSUME Typed, AuditInv, [Next]_vars PROVE AuditInv'
    OBVIOUS
  <1>1. \A n \in DOMAIN tokens : n \in DOMAIN tokens' /\ MintEvent(n)' = MintEvent(n)
    BY Grow DEF MintEvent
  <1>2. ASSUME UNCHANGED <<audit, returned>>, 
               \A p \in Proc : pc'[p] = "audited" /\ out'[p] # Denied =>
                                  pc[p] = "audited" /\ out'[p] = out[p]
        PROVE  AuditInv'
    BY <1>1, <1>2 DEF AuditInv
  <1>3. CASE UNCHANGED <<audit, returned, pc, out>>
    BY <1>2, <1>3
  <1>4. CASE \E d \in Document : Restart(d)
    BY <1>2, <1>4 DEF Restart
  <1>5. ASSUME NEW p \in Proc, HandlerStep(p) PROVE AuditInv'
    <2>1. \A q \in Proc \ {p} : pc'[q] = pc[q] /\ out'[q] = out[q]
      BY <1>5, Others
    <2>2. CASE Audit(p)
      <3>1. /\ returned' = returned /\ out' = out /\ audit \subseteq audit'
            /\ out[p] # Denied => audit' = audit \cup {MintEvent(out[p])}
            /\ out[p] = Denied => audit' = audit
        BY <2>2 DEF Audit
      <3>2. out[p] # Denied => out[p] \in DOMAIN tokens
        BY DEF Typed, HandlerType, TokenType, Denied
      <3>3. \A e \in audit' : \E n \in DOMAIN tokens' : e = MintEvent(n)'
        BY <1>1, <3>1, <3>2 DEF AuditInv
      <3>4. out[p] # Denied => MintEvent(out[p]).jti = out[p]
        BY DEF MintEvent
      <3> QED
        BY <2>1, <3>1, <3>3, <3>4 DEF AuditInv
    <2>3. CASE Respond(p)
      <3>1. /\ audit' = audit /\ pc[p] = "audited" /\ pc'[p] = "idle"
            /\ \A n \in returned' : n \in returned \/ (n = out[p] /\ out[p] # Denied)
        BY <2>3 DEF Respond, Release, Typed, HandlerType
      <3> QED
        BY <1>1, <2>1, <3>1 DEF AuditInv
    <2>4. ASSUME UNCHANGED <<audit, returned>>, pc'[p] # "audited" \/ out'[p] = Denied
          PROVE  AuditInv'
      BY <1>2, <2>1, <2>4
    <2>5. CASE Releasing(p) /\ ~Respond(p)
      <3>1. PICK label \in {"idle", "decided"}, result \in 0..Len(tokens') : 
                    Release(p, label, result)
        BY <2>5, ReleaseFrame
      <3>2. pc'[p] # "audited"
        BY <3>1 DEF Release, Typed, HandlerType
      <3>3. UNCHANGED <<audit, returned>>
        BY <2>5 DEF Releasing, Refuse, ConsumeProofFails, ConsumeFails, 
                    MissingConfirmation, Mint, Decide
      <3> QED
        BY <2>4, <3>2, <3>3
    <2>6. CASE Advances(p) \/ AuditFails(p)
      BY <2>4, <2>6 
      DEF Advances, ConsumeProof, Snapshot, Consume, Decide, AuditFails, Typed, HandlerType
    <2>7. ASSUME NEW shape \in Shape, NEW subject \in Presentable,
                 Receive(p, shape, subject)
          PROVE  AuditInv'
      BY <2>4, <2>7 DEF Receive, Typed, HandlerType
    <2> QED
      BY <1>5, <2>2, <2>3, <2>5, <2>6, <2>7, Steps
  <1> QED
    BY <1>3, <1>4, <1>5 DEF Next, Tick, Reload, vars, handler

-----------------------------------------------------------------------------
(* What the invariant says *)

IInv == /\ Typed /\ TokenInv /\ KeyInv /\ ClockInv /\ AuditInv
        /\ \A kind \in Kinds : UseInv(kind)

LEMMA ProofImplies == IInv => ProofBindsOnce
  <1> SUFFICES ASSUME IInv, NEW n \in DOMAIN tokens, origin[n].proof # None
               PROVE  /\ tokens[n].jkt = origin[n].proof.jkt
                      /\ \A m \in 1..(n - 1) : 
                            origin[m].proof # None /\ origin[m].proof.jti = origin[n].proof.jti
                            => \/ origin[n].provedAt > ReplayUntil(origin[m].proof.iat)
                               \/ origin[m].provedAt > ReplayUntil(origin[n].proof.iat)
    BY DEF ProofBindsOnce
  <1>1. tokens[n].jkt = origin[n].proof.jkt
    BY DEF IInv, KeyInv
  <1>2. ASSUME NEW m \in 1..(n - 1), origin[m].proof # None,
               origin[m].proof.jti = origin[n].proof.jti
        PROVE  \/ origin[n].provedAt > ReplayUntil(origin[m].proof.iat)
               \/ origin[m].provedAt > ReplayUntil(origin[n].proof.iat)
    <2>1. m \in DOMAIN tokens /\ m # n
      <3>1. DOMAIN tokens = 1..Len(tokens) /\ Len(tokens) \in Nat
        BY DEF IInv, Typed, TokenType
      <3> QED
        BY <3>1
    <2>2. UseInv("proof")
      BY DEF IInv, Kinds
    <2>3. Once(ProofClaim(origin[m].proof), origin[m].provedAt,
               ProofClaim(origin[n].proof), origin[n].provedAt)
      BY <1>2, <2>1, <2>2 DEF UseInv, Uses, UsedClaim, UsedAt
    <2> QED
      BY <1>2, <2>3 DEF Once, ProofClaim
  <1> QED
    BY <1>1, <1>2

LEMMA LinearImplies == IInv => LinearDelegation
  <1> SUFFICES ASSUME IInv, NEW m \in DOMAIN tokens, NEW n \in DOMAIN tokens, m < n,
                      Len(origin[m].line) > 1, Len(origin[m].line) = Len(origin[n].line),
                      ParentOf(m) = ParentOf(n)
               PROVE  \/ origin[n].at > ReplayUntil(tokens[ParentOf(m)].exp)
                      \/ origin[m].at > ReplayUntil(tokens[ParentOf(m)].exp)
    BY DEF LinearDelegation, ParentOf
  <1>1. m # n
    BY DEF IInv, Typed, TokenType
  <1>2. UseInv("subject")
    BY DEF IInv, Kinds
  <1>3. Once(SubjectClaim(tokens[ParentOf(m)]), origin[m].at,
             SubjectClaim(tokens[ParentOf(n)]), origin[n].at)
    BY <1>1, <1>2 DEF UseInv, Uses, UsedClaim, UsedAt
  <1> QED
    BY <1>3 DEF Once, SubjectClaim

LEMMA TokensImply ==
    TokenInv => /\ MintsObeyOneSnapshot /\ ChainIsHistory /\ ChainLifeBounded 
                /\ ScopeNarrowsUnlessEmptied
  <1> SUFFICES ASSUME TokenInv 
               PROVE  /\ MintsObeyOneSnapshot /\ ChainIsHistory /\ ChainLifeBounded 
                      /\ ScopeNarrowsUnlessEmptied
    OBVIOUS
  <1>1. MintsObeyOneSnapshot
    BY DEF TokenInv, Obeys, MintsObeyOneSnapshot
  <1>2. ChainIsHistory
    BY DEF TokenInv, History, ChainIsHistory
  <1>3. ChainLifeBounded
    BY DEF TokenInv, Ends, ChainLifeBounded
  <1>4. ScopeNarrowsUnlessEmptied
    BY DEF TokenInv, Narrows, ScopeNarrowsUnlessEmptied
  <1> QED
    BY <1>1, <1>2, <1>3, <1>4

LEMMA TypeImplies == Typed => TypeOK
  <1> SUFFICES ASSUME Typed PROVE TypeOK
    OBVIOUS
  <1>1. /\ now \in 1..MaxTime /\ docs # <<>> /\ auditUp \in BOOLEAN
        /\ \A i \in DOMAIN docs : docs[i] \in Document
    BY DEF Typed, WorldType
  <1>2. DOMAIN origin = DOMAIN tokens /\ returned \subseteq DOMAIN tokens
    BY DEF Typed, TokenType
  <1>3. ASSUME NEW n \in DOMAIN tokens
        PROVE  /\ tokens[n].jti = n /\ tokens[n].sub \in Principal
               /\ \E a \in Audience : tokens[n].aud = {a}
               /\ tokens[n].jkt # None /\ origin[n].snap \in DOMAIN docs
    <2>1. tokens[n] \in STSToken
      BY DEF Typed, TokenType
    <2>2. tokens[n].sub \in Principal /\ tokens[n].aud \in {{a} : a \in Audience}
      BY <2>1 DEF STSToken
    <2> QED
      BY <2>2 DEF Typed, TokenType
  <1>4. /\ pc \in [Proc -> {"idle", "received", "proved", "snapped", "cleared", 
                            "spent", "decided", "audited"}]
        /\ \A p \in Proc : snap[p] \in 0..Len(docs) /\ clock[p] \in 0..now
    BY DEF Typed, HandlerType, Active
  <1> QED
    BY <1>1, <1>2, <1>3, <1>4 DEF TypeOK

LEMMA AuditImplies == Typed /\ TokenInv /\ AuditInv => AuditBeforeRelease
  <1> SUFFICES ASSUME Typed, TokenInv, AuditInv PROVE AuditBeforeRelease
    OBVIOUS
  <1>1. ASSUME NEW e \in audit
        PROVE  /\ e.jti \in DOMAIN tokens
               /\ e.txn = tokens[e.jti].txn
               /\ e.principal = tokens[e.jti].sub
               /\ e.hops = ActorSubs(tokens[e.jti])
    <2>1. PICK n \in DOMAIN tokens : e = MintEvent(n)
      BY DEF AuditInv
    <2> QED
      BY <2>1 DEF MintEvent
  <1>2. ASSUME NEW n \in returned, NEW i \in DOMAIN origin[n].line
        PROVE  \E e \in audit : e.jti = origin[n].line[i]
    <2>1. n \in DOMAIN tokens /\ origin[n] \in Origins
      BY DEF Typed, TokenType
    <2>2. origin[n].line \in Seq(Nat)
      BY <2>1 DEF Origins
    <2>3. i < Len(origin[n].line) \/ i = Len(origin[n].line)
      BY <2>2
    <2>4. origin[n].line[i] \in returned
      BY <2>1, <2>3 DEF TokenInv, Lineage, History
    <2> QED
      BY <2>4 DEF AuditInv
  <1> QED
    BY <1>1, <1>2 DEF AuditBeforeRelease

-----------------------------------------------------------------------------
(* The exchange implements a ledger *)

\* A function on one more number than another is what that one is, and more.
LEMMA Prolonged ==
    ASSUME NEW k \in Nat, NEW f, NEW g,
           f = [i \in 1..k |-> f[i]], g = [i \in 1..(k + 1) |-> g[i]],
           \A i \in 1..k : f[i] = g[i]
    PROVE  Len(f) = k /\ Len(g) = k + 1 /\ g = Append(f, g[k + 1])
  <1> DEFINE S == {g[i] : i \in 1..(k + 1)}
  <1>1. f \in [1..k -> S] /\ g \in [1..(k + 1) -> S] /\ g[k + 1] \in S
    <2>1. \A i \in 1..(k + 1) : g[i] \in S
      OBVIOUS
    <2>2. k + 1 \in 1..(k + 1) /\ \A i \in 1..k : i \in 1..(k + 1)
      OBVIOUS
    <2> HIDE DEF S
    <2>3. \A i \in 1..k : f[i] \in S
      BY <2>1, <2>2
    <2> QED
      BY <2>1, <2>2, <2>3
  <1> HIDE DEF S
  <1>2. f \in Seq(S) /\ g \in Seq(S)
    BY <1>1, SeqDef
  <1>3. Len(f) = k /\ Len(g) = k + 1
    BY <1>1, <1>2, LenProperties
  <1>4. /\ Append(f, g[k + 1]) \in Seq(S) /\ Len(Append(f, g[k + 1])) = k + 1
        /\ \A i \in 1..k : Append(f, g[k + 1])[i] = f[i]
        /\ Append(f, g[k + 1])[k + 1] = g[k + 1]
    BY <1>1, <1>2, <1>3, AppendProperties
  <1>5. ASSUME NEW i \in 1..Len(g)
        PROVE  g[i] = Append(f, g[k + 1])[i]
    <2>1. i \in 1..k \/ i = k + 1
      BY <1>3
    <2> QED
      BY <1>4, <2>1
  <1> QED
    BY <1>2, <1>3, <1>4, <1>5, SeqEqual

\* Mint adds an entry to the ledger and changes none.
LEMMA EntriesGrow ==
    ASSUME IInv, NEW p \in Proc, Mint(p), [Next]_vars, NEW n, n = Len(tokens) + 1
    PROVE  /\ Len(Entries) = Len(tokens) /\ Len(Entries') = Len(tokens) + 1
           /\ Entries' = Append(Entries, Entries'[n])
           /\ DOMAIN Entries = DOMAIN tokens
           /\ \A m \in DOMAIN tokens : Entries[m] = EntryOf(m)
           /\ Entries'[n] = EntryOf(n)'
  <1>1. /\ Len(tokens) \in Nat /\ DOMAIN tokens = 1..Len(tokens)
        /\ DOMAIN tokens' = 1..(Len(tokens) + 1)
    <2>1. Len(tokens) \in Nat /\ DOMAIN tokens = 1..Len(tokens)
      BY LenProperties DEF IInv, Typed, TokenType
    <2>2. DOMAIN tokens' = DOMAIN tokens \cup {n}
      BY MintFacts DEF IInv
    <2> QED
      BY <2>1, <2>2
  <1>2. \A m \in DOMAIN tokens : EntryOf(m)' = EntryOf(m)
    BY Grow DEF IInv, EntryOf
  <1>3. /\ Entries = [i \in 1..Len(tokens) |-> Entries[i]]
        /\ Entries' = [i \in 1..(Len(tokens) + 1) |-> Entries'[i]]
        /\ \A i \in 1..Len(tokens) : Entries[i] = Entries'[i]
    BY <1>1, <1>2 DEF Entries
  <1>4. /\ Len(Entries) = Len(tokens) /\ Len(Entries') = Len(tokens) + 1 
        /\ Entries' = Append(Entries, Entries'[Len(tokens) + 1])
    BY <1>1, <1>3, Prolonged
  <1> QED
    BY <1>1, <1>4 DEF Entries

\* What a new entry says.
LEMMA NewEntry ==
    ASSUME IInv, NEW p \in Proc, Mint(p), NEW n, n = Len(tokens) + 1
    PROVE  LET e == EntryOf(n)'
               s == req[p].subject
           IN  /\ e.sub = s.sub /\ e.txn = Txn(s, n)
               /\ \E a \in Audience : e.aud = {a}
               /\ \E agent \in s.aud : e.hops = Append(ActorSubs(s), agent)
               /\ s.scope # {} => e.scope \subseteq s.scope
               /\ e.begun = clock[p] /\ e.exp = clock[p] + TTL 
               /\ e.at = granted[p]
               /\ e.begun \in 0..now /\ s.exp \in Nat \ {0}
               /\ e.begun <= s.exp + ClockSkew
               /\ FromSTS(s) => s.txn # None
  <1> DEFINE s == req[p].subject
             e == EntryOf(n)'
  <1>1. /\ tokens'[n] = Minted(p, n) /\ origin'[n] = Origin(p, n)
        /\ req[p] \in Requests /\ s \in Presentable /\ s # Forged
        /\ Verdict(req[p], docs[snap[p]], clock[p]) = "ok"
    BY MintFacts DEF IInv
  <1>2. /\ ~Expired(s, clock[p])
        /\ ~ScopeWidens(req[p].scope, s.scope, 
                        docs[snap[p]].registry[req[p].agent].maxScopes)
        /\ FromSTS(s) => s.txn # None
    BY <1>1, VerdictOk
  <1>3. /\ tokens'[n].sub = s.sub /\ tokens'[n].txn = Txn(s, n)
        /\ ActorSubs(tokens'[n]) = Append(ActorSubs(s), req[p].agent)
        /\ req[p].agent \in s.aud
    BY NewActors DEF IInv
  <1>4. /\ tokens'[n].aud = {req[p].audience} /\ req[p].audience \in Audience
        /\ tokens'[n].nbf = clock[p] /\ tokens'[n].exp = clock[p] + TTL
        /\ origin'[n].at = granted[p]
    BY <1>1 DEF Minted, Origin, Requests
  <1>5. s.scope # {} => tokens'[n].scope \subseteq s.scope
    BY <1>1, <1>2, Narrowing DEF Minted
  <1>6. clock[p] \in 0..now /\ s.exp \in Nat
    BY <1>1, Subjects DEF IInv, Typed, HandlerType
  <1>7. s.exp # 0 /\ clock[p] <= s.exp + ClockSkew
    <2>1. clock[p] \in Nat /\ now \in Nat
      BY <1>6 DEF IInv, Typed, WorldType
    <2> QED
      BY <1>2, <1>6, <2>1, Bounds DEF Expired
  <1>8. /\ e.sub = tokens'[n].sub /\ e.txn = tokens'[n].txn
        /\ e.aud = tokens'[n].aud /\ e.hops = ActorSubs(tokens'[n])
        /\ e.scope = tokens'[n].scope /\ e.begun = tokens'[n].nbf
        /\ e.exp = tokens'[n].exp /\ e.at = origin'[n].at
    BY DEF EntryOf
  <1> HIDE DEF e, s
  <1>9. /\ e.sub = s.sub /\ e.txn = Txn(s, n)
        /\ \E a \in Audience : e.aud = {a}
        /\ \E agent \in s.aud : e.hops = Append(ActorSubs(s), agent)
        /\ s.scope # {} => e.scope \subseteq s.scope
        /\ e.begun = clock[p] /\ e.exp = clock[p] + TTL 
        /\ e.at = granted[p]
        /\ e.begun \in 0..now /\ s.exp \in Nat \ {0}
        /\ e.begun <= s.exp + ClockSkew
        /\ FromSTS(s) => s.txn # None
    BY <1>2, <1>3, <1>4, <1>5, <1>6, <1>7, <1>8
  <1> QED
    BY <1>9 DEF e, s

\* The parent of an entry in the ledger.
LEMMA FromParent ==
    ASSUME NEW n, Len(origin[n].line) > 1
    PROVE  EntryOf(n).from = ParentOf(n)
  BY DEF EntryOf, ParentOf

\* A token that a user token was exchanged for.
LEMMA FirstHop ==
    ASSUME IInv, [Next]_vars, NEW p \in Proc, Mint(p), ~FromSTS(req[p].subject),
           NEW n, n = Len(tokens) + 1
    PROVE  Delegations!Delegate
  <1> DEFINE s == req[p].subject
             e == EntryOf(n)'
  <1>1. /\ s \in IdPToken /\ ActorSubs(s) = <<>>
        /\ origin'[n].line = <<n>> /\ origin'[n].root = s
    BY Root DEF IInv, ActorSubs
  <1>2. e.from = 0 /\ e.root = s
    BY <1>1 DEF EntryOf
  <1>3. /\ e.sub = s.sub /\ e.txn = Txn(s, n)
        /\ \E a \in Audience : e.aud = {a}
        /\ \E agent \in s.aud : e.hops = Append(ActorSubs(s), agent)
        /\ s.scope # {} => e.scope \subseteq s.scope
        /\ e.exp = e.begun + TTL
        /\ e.begun \in 0..now /\ e.begun <= s.exp + ClockSkew
    <2>1. /\ e.sub = s.sub /\ e.txn = Txn(s, n)
          /\ \E a \in Audience : e.aud = {a}
          /\ \E agent \in s.aud : e.hops = Append(ActorSubs(s), agent)
          /\ s.scope # {} => e.scope \subseteq s.scope
          /\ e.begun = clock[p] /\ e.exp = clock[p] + TTL /\ e.at = granted[p]
          /\ e.begun \in 0..now /\ s.exp \in Nat \ {0}
          /\ e.begun <= s.exp + ClockSkew
          /\ FromSTS(s) => s.txn # None
      BY NewEntry
    <2> HIDE DEF e, s
    <2> QED
      BY <2>1
  <1>4. /\ Len(Entries) = Len(tokens) /\ Len(Entries') = Len(tokens) + 1
        /\ Entries' = Append(Entries, e) /\ Entries'[n] = e
    BY EntriesGrow
  <1>5. UNCHANGED <<now, Recorded, returned>>
    BY DEF Mint, Recorded
  <1>6. e.txn = IF s.txn = None THEN n ELSE s.txn
    BY <1>3 DEF Txn
  <1> HIDE DEF e, s
  <1>7. Delegations!Entitled(e)
    BY <1>1, <1>2 DEF Delegations!Entitled
  <1>8. Delegations!Delegated(e, Delegations!Parent(e))
    BY <1>1, <1>2, <1>3 DEF Delegations!Delegated, Delegations!Parent
  <1>9. Delegations!Inherited(e, Delegations!Parent(e))
    BY <1>2, <1>3, <1>4, <1>6 DEF Delegations!Inherited, Delegations!Parent
  <1>10. Delegations!Single(e, Delegations!Parent(e))
    BY <1>2 DEF Delegations!Single
  <1> QED
    BY <1>4, <1>5, <1>7, <1>8, <1>9, <1>10 DEF Delegations!Delegate

\* A token that an STS token was exchanged for.
LEMMA NextHop ==
    ASSUME IInv, [Next]_vars, NEW p \in Proc, Mint(p), FromSTS(req[p].subject),
           NEW n, n = Len(tokens) + 1
    PROVE  Delegations!Delegate
  <1> DEFINE s == req[p].subject
             e == EntryOf(n)'
             line == origin[s.jti].line
  <1>1. /\ s.jti \in DOMAIN tokens /\ s = tokens[s.jti] /\ s.jti \in returned
        /\ line \in Seq(DOMAIN tokens) /\ line # <<>>
        /\ origin'[n].line = Append(line, n)
        /\ origin'[n].root = origin[s.jti].root
    <2>1. Typed /\ TokenInv
      BY DEF IInv
    <2> QED
      BY <2>1, Parent, SMTT(30)
  <1>2. line[Len(line)] = s.jti
    BY <1>1 DEF IInv, TokenInv, History
  <1>3. s.jti # 0
    <2>1. DOMAIN tokens = 1..Len(tokens)
      BY LenProperties DEF IInv, Typed, TokenType
    <2> HIDE DEF s
    <2> QED
      BY <1>1, <2>1
  <1>4. e.from = s.jti
    <2>1. e.from = IF Len(origin'[n].line) > 1 
                   THEN origin'[n].line[Len(origin'[n].line) - 1] ELSE 0
      BY DEF EntryOf
    <2>2. n \in Nat
      BY DEF IInv, Typed, TokenType
    <2> HIDE DEF line, e, s
    <2>3. /\ Len(Append(line, n)) = Len(line) + 1 /\ Len(line) \in Nat \ {0}
          /\ Append(line, n)[Len(line)] = line[Len(line)]
      BY <1>1
    <2> QED
      BY <1>1, <1>2, <2>1, <2>3
  <1>5. e.root = origin[s.jti].root
    BY <1>1 DEF EntryOf
  <1>6. /\ e.sub = s.sub /\ e.txn = Txn(s, n) /\ s.txn # None
        /\ \E a \in Audience : e.aud = {a}
        /\ \E agent \in s.aud : e.hops = Append(ActorSubs(s), agent)
        /\ s.scope # {} => e.scope \subseteq s.scope
        /\ e.begun = clock[p] /\ e.exp = e.begun + TTL /\ e.at = granted[p]
        /\ e.begun \in 0..now /\ s.exp \in Nat \ {0}
        /\ e.begun <= s.exp + ClockSkew
    <2>1. /\ e.sub = s.sub /\ e.txn = Txn(s, n)
          /\ \E a \in Audience : e.aud = {a}
          /\ \E agent \in s.aud : e.hops = Append(ActorSubs(s), agent)
          /\ s.scope # {} => e.scope \subseteq s.scope
          /\ e.begun = clock[p] /\ e.exp = clock[p] + TTL /\ e.at = granted[p]
          /\ e.begun \in 0..now /\ s.exp \in Nat \ {0}
          /\ e.begun <= s.exp + ClockSkew
          /\ FromSTS(s) => s.txn # None
      BY NewEntry
    <2>2. FromSTS(s)
      OBVIOUS
    <2> HIDE DEF e, s
    <2> QED
      BY <2>1, <2>2
  <1>7. /\ Len(Entries) = Len(tokens) /\ Len(Entries') = Len(tokens) + 1
        /\ Entries' = Append(Entries, e) /\ Entries'[n] = e
        /\ DOMAIN Entries = DOMAIN tokens
        /\ \A m \in DOMAIN tokens : Entries[m] = EntryOf(m)
    BY EntriesGrow
  <1>8. UNCHANGED <<now, Recorded, returned>>
    BY DEF Mint, Recorded
  <1>9. Delegations!Parent(e) = EntryOf(s.jti)
    BY <1>1, <1>3, <1>4, <1>7 DEF Delegations!Parent
  <1>10. /\ EntryOf(s.jti).root = origin[s.jti].root /\ EntryOf(s.jti).sub = s.sub
         /\ EntryOf(s.jti).txn = s.txn /\ EntryOf(s.jti).aud = s.aud
         /\ EntryOf(s.jti).hops = ActorSubs(s) /\ EntryOf(s.jti).scope = s.scope
         /\ EntryOf(s.jti).exp = s.exp
    BY <1>1 DEF EntryOf
  <1>11. ASSUME NEW m \in DOMAIN tokens, EntryOf(m).from = s.jti
         PROVE  \/ e.at > s.exp + ClockSkew
                \/ EntryOf(m).at > s.exp + ClockSkew
    <2>1. Len(origin[m].line) > 1 
      BY <1>3, <1>11 DEF EntryOf
    <2>2. ParentOf(m) = s.jti
      BY <1>11, <2>1, FromParent
    <2>3. UseInv("subject") /\ pc[p] = "spent"
      BY DEF IInv, Kinds, Mint
    <2>4. Once(SubjectClaim(tokens[ParentOf(m)]), origin[m].at, SubjectClaim(s), granted[p])
      BY <2>1, <2>3 
      DEF UseInv, Uses, UsedClaim, UsedAt, Holds, HeldClaim, HeldAt
    <2>5. \/ granted[p] > ReplayUntil(s.exp) \/ origin[m].at > ReplayUntil(s.exp)
      BY <1>1, <2>2, <2>4 DEF Once, SubjectClaim
    <2>6. EntryOf(m).at = origin[m].at
      BY DEF EntryOf
    <2> QED
      BY <1>6, <2>5, <2>6 DEF ReplayUntil
  <1>12. e.at \in e.begun..now
    <2>1. pc[p] = "spent"
      BY DEF Mint
    <2>2. clock[p] <= granted[p]
      BY <2>1 DEF IInv, ClockInv
    <2>3. granted[p] \in 0..now /\ clock[p] \in 0..now /\ now \in Nat
      BY DEF IInv, Typed, HandlerType, WorldType
    <2> HIDE DEF e
    <2> QED
      BY <1>6, <2>2, <2>3
  <1>13. e.txn = s.txn
    BY <1>6 DEF Txn
  <1> HIDE DEF e, s, line
  <1>14. Delegations!Entitled(e)
    BY <1>1, <1>3, <1>4 DEF Delegations!Entitled
  <1>15. Delegations!Delegated(e, EntryOf(s.jti))
    BY <1>6, <1>10 DEF Delegations!Delegated
  <1>16. Delegations!Inherited(e, EntryOf(s.jti))
    BY <1>5, <1>6, <1>10, <1>13 DEF Delegations!Inherited
  <1>17. Delegations!Single(e, EntryOf(s.jti))
    BY <1>4, <1>7, <1>10, <1>11, <1>12 DEF Delegations!Single
  <1> QED
    BY <1>7, <1>8, <1>9, <1>14, <1>15, <1>16, <1>17 DEF Delegations!Delegate

\* Every step of the exchange is one of the ledger, or none.
LEMMA LedgerStep ==
    ASSUME IInv, [Next]_vars
    PROVE  Delegations!Next \/ UNCHANGED <<now, Entries, Recorded, returned>>
  <1>1. ASSUME NEW p \in Proc, Mint(p) PROVE Delegations!Next
    BY <1>1, FirstHop, NextHop DEF Delegations!Next
  <1>2. ASSUME \A p \in Proc : ~Mint(p) PROVE Entries' = Entries
    BY <1>2, TokensStand DEF Entries, EntryOf
  <1>3. CASE Tick
    <2>1. Entries' = Entries
      BY <1>3 DEF Tick, Entries, EntryOf
    <2> QED
      BY <1>3, <2>1 DEF Tick, Recorded, Delegations!Tick, Delegations!Next
  <1>4. ASSUME NEW p \in Proc, Audit(p), \A q \in Proc : ~Mint(q)
        PROVE  Delegations!Next \/ UNCHANGED <<now, Entries, Recorded, returned>>
    <2>1. CASE out[p] = Denied
      BY <1>2, <1>4, <2>1 DEF Audit, Recorded
    <2>2. CASE out[p] # Denied
      <3>1. out[p] \in DOMAIN tokens
        BY <2>2 DEF IInv, Typed, HandlerType, TokenType, Denied
      <3>2. audit' = audit \cup {MintEvent(out[p])} /\ MintEvent(out[p]).jti = out[p]
        BY <1>4, <2>2 DEF Audit, MintEvent
      <3>3. Recorded' = Recorded \cup {out[p]} 
        BY <3>2 DEF Recorded
      <3>4. out[p] \in DOMAIN Entries
        BY <3>1 DEF Entries
      <3>5. UNCHANGED <<now, Entries, returned>>
        BY <1>2, <1>4 DEF Audit
      <3>6. Delegations!Record
        BY <3>3, <3>4, <3>5 DEF Delegations!Record
      <3> QED
        BY <3>6 DEF Delegations!Next
    <2> QED
      BY <2>1, <2>2
  <1>5. ASSUME NEW p \in Proc, Respond(p), \A q \in Proc : ~Mint(q)
        PROVE  Delegations!Next \/ UNCHANGED <<now, Entries, Recorded, returned>>
    <2>1. UNCHANGED <<now, Entries, Recorded>>
      BY <1>2, <1>5 DEF Respond, Recorded
    <2>2. CASE out[p] = Denied
      BY <1>5, <2>1, <2>2 DEF Respond
    <2>3. CASE out[p] # Denied
      <3>1. out[p] \in Recorded
        BY <1>5, <2>3 DEF Respond, IInv, AuditInv, Recorded
      <3>2. Delegations!Release
        BY <1>5, <2>1, <2>3, <3>1 DEF Respond, Delegations!Release
      <3> QED
        BY <3>2 DEF Delegations!Next
    <2> QED
      BY <2>2, <2>3
  <1>6. ASSUME \A p \in Proc : ~Mint(p) /\ ~Audit(p) /\ ~Respond(p), ~Tick
        PROVE  UNCHANGED <<now, Entries, Recorded, returned>>
    <2>1. UNCHANGED <<now, audit, returned>>
      BY <1>6 DEF Next, HandlerStep, vars, Reload, Restart, Receive, Refuse, ConsumeProof, 
         ConsumeProofFails, Snapshot, Decide, Consume, ConsumeFails, 
         MissingConfirmation, AuditFails, Replay!Grant
    <2> QED
      BY <1>2, <1>6, <2>1 DEF Recorded
  <1> QED
    BY <1>1, <1>3, <1>4, <1>5, <1>6

-----------------------------------------------------------------------------
(* Theorems *)

\* The invariant holds in every state of the exchange, whatever its clients
\* present, its operator installs and its log refuses, and however often it dies.
THEOREM Inductive == Spec => []IInv
  <1>1. Init => IInv
    <2>1. Init => /\ TokenInv /\ KeyInv /\ ClockInv /\ AuditInv 
                  /\ \A kind \in Kinds : UseInv(kind)
      BY DEF Init, TokenInv, KeyInv, ClockInv, AuditInv, UseInv, Holds, Proved, Active
    <2> QED
      BY <2>1, InitTyped DEF IInv
  <1>2. IInv /\ [Next]_vars => IInv'
    <2> SUFFICES ASSUME IInv, [Next]_vars PROVE IInv'
      OBVIOUS
    <2>1. Typed' /\ TokenInv' /\ KeyInv' /\ ClockInv' /\ AuditInv'
      BY TypedStep, TokenStep, KeyStep, ClockStep, AuditStep DEF IInv
    <2>2. ASSUME NEW kind \in Kinds PROVE UseInv(kind)'
      BY UseStep DEF IInv
    <2> QED
      BY <2>1, <2>2 DEF IInv
  <1> QED
    BY <1>1, <1>2, PTL DEF Spec

\* The state of the exchange has its type, whatever it is asked (sts.go, http.go).
THEOREM TypeCorrect == Spec => []TypeOK
  <1>1. IInv => TypeOK
    BY TypeImplies DEF IInv
  <1> QED
    BY <1>1, Inductive, PTL

\* The chain in a token is its history, at any depth (AppendChain, NestedAct).
THEOREM ChainSaysWhatHappened == Spec => []ChainIsHistory
  <1>1. IInv => ChainIsHistory
    BY TokensImply DEF IInv
  <1> QED
    BY <1>1, Inductive, PTL

\* A subject is good for one token in its window, for any number of handlers that
\* race, fail and die with it (Consume before mint).
THEOREM SubjectOnce == Spec => []LinearDelegation
  <1>1. IInv => LinearDelegation
    BY LinearImplies
  <1> QED
    BY <1>1, Inductive, PTL

\* A proof gives its key to one token while it is fresh (handleToken).
THEOREM ProofOnce == Spec => []ProofBindsOnce
  <1>1. IInv => ProofBindsOnce
    BY ProofImplies
  <1> QED
    BY <1>1, Inductive, PTL

\* One document decides, for any documents and reloads (snapshot).
THEOREM OneSnapshot == Spec => []MintsObeyOneSnapshot
  <1>1. IInv => MintsObeyOneSnapshot
    BY TokensImply DEF IInv
  <1> QED
    BY <1>1, Inductive, PTL

\* A chain ends, for any lifetime, skew and depth (ValidateTime, exp: now + ttl).
THEOREM ChainsEnd == Spec => []ChainLifeBounded
  <1>1. IInv => ChainLifeBounded
    BY TokensImply DEF IInv
  <1> QED
    BY <1>1, Inductive, PTL

\* Scopes narrow along a chain as long as none on the way is empty (narrowScope).
THEOREM ScopeNarrows == Spec => []ScopeNarrowsUnlessEmptied
  <1>1. IInv => ScopeNarrowsUnlessEmptied
    BY TokensImply DEF IInv
  <1> QED
    BY <1>1, Inductive, PTL

\* The log knows what was released, whatever fails (Exchange appends first).
THEOREM RecordBeforeRelease == Spec => []AuditBeforeRelease
  <1>1. IInv => AuditBeforeRelease
    BY AuditImplies DEF IInv
  <1> QED
    BY <1>1, Inductive, PTL

\* The exchange implements the ledger: for any handlers that race, documents that
\* change, logs that refuse and processes that die, the tokens are what one actor
\* would have granted, one after the other (Exchange, handleToken).
THEOREM ImplementsLedger == Spec => KeepsLedger
  <1>1. Init => Delegations!Init
    BY DEF Init, Delegations!Init, Entries, Recorded
  <1>2. IInv /\ [Next]_vars => [Delegations!Next]_(Delegations!ledger)
    BY LedgerStep DEF Delegations!ledger
  <1> QED
    BY <1>1, <1>2, Inductive, PTL DEF Spec, KeepsLedger, Delegations!Spec
=============================================================================
