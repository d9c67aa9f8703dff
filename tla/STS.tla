--------------------------------- MODULE STS ---------------------------------
(***************************************************************************)
(* Token exchange, internal/sts/sts.go and http.go: concurrent requests,   *)
(* each of which consumes its DPoP proof, takes a snapshot of the identity *)
(* documents, decides, consumes the subject token, mints, appends to the   *)
(* audit log and answers, while reloads replace the documents and the      *)
(* process may die and restart.                                            *)
(*                                                                         *)
(* The replay cache is the abstract one (SingleUse), which ReplayCache     *)
(* implements; a replay log is configured, so its grants survive a         *)
(* restart.  Signatures are abstract: a subject is the claims of a token   *)
(* that verifies, or Forged.  The jti of a minted token is its index.      *)
(***************************************************************************)
EXTENDS Claims, IdentityDocs

CONSTANTS Proc,       \* request handlers
          IdPToken,   \* claims of the user tokens the IdP has signed
          Actor,      \* actor tokens that attest: [workload, jkt]
          Proof,      \* DPoP proofs of clients: [jti, iat, jkt]
          Shape,      \* requests without their subject token
          Document,   \* the contents the document files may have
          None,       \* no jkt, no txn, no actor, no proof, no request
          Forged,     \* a subject token that verifies under no key
          TTL,        \* lifetime of a minted token
          MaxTime,    \* bound on the clock
          MaxTokens,  \* bound on the minted tokens
          MaxDocs     \* bound on the documents installed over time

ASSUME STSAssumption ==
    /\ TTL \in Nat \ {0}
    /\ MaxTime \in Nat \ {0}
    /\ MaxTokens \in Nat
    /\ MaxDocs \in Nat \ {0}
    /\ None \notin Proc
    /\ Forged \notin IdPToken
    /\ \A s \in IdPToken : /\ s.iss # "sts"
                           /\ s.sub \in Principal
                           /\ s.exp \in Nat /\ s.nbf \in Nat
                           /\ s.act \in Seq(Agent) /\ s.actchain \in Seq(Agent)
                           /\ s.scope \in SUBSET Scope
    /\ None \notin Proof
    /\ \A proof \in Proof : proof.jti \in Nat /\ proof.iat \in Nat
    /\ \A shape \in Shape : /\ shape.agent \in Agent
                            /\ shape.audience \in Audience
                            /\ shape.scope \in SUBSET Scope
                            /\ shape.actor \in Actor \cup {None}
                            /\ shape.proof \in Proof \cup {None}
    /\ \A d \in Document : /\ IsRegistry(d.registry)
                           /\ d.denylist \in Denylist

VARIABLES now,       \* the wall clock
          docs,      \* the documents installed so far; the last one is live
          grants,    \* the replay cache: what it granted
          audit,     \* the mints on record in the audit log
          auditUp,   \* the logger is not poisoned
          tokens,    \* claims of the tokens signed so far, by jti
          origin,    \* history: how each of them came about
          returned,  \* the jtis of those that reached a client
          pc,        \* where a handler is
          req,       \* its request
          snap,      \* the index in docs of its snapshot
          clock,     \* the time by which it decided
          granted,   \* the time at which it consumed its subject, or 0
          proved,    \* the time at which it consumed its proof, or 0
          out        \* the jti it will answer with, or Denied

handler == <<pc, req, snap, clock, granted, proved, out>>

vars == <<now, docs, grants, audit, auditUp, tokens, origin, returned, handler>>

Denied == 0

\* The replay cache keeps both kinds of jti, in namespaces of their own.
RawKey(jti) == [space |-> "raw", jti |-> jti]
ReplayJTI(jti) == [space |-> "dpop", jti |-> jti]

Keys == [space : {"raw", "dpop"}, jti : Nat]

Replay == INSTANCE SingleUse WITH Claim <- [jti : Keys, exp : Nat, 
                                            aliases : SUBSET Keys]

-----------------------------------------------------------------------------
(* What a request is decided by *)

\* verifySubject: which key verified the token decides what it is.
FromSTS(subject) == subject.iss = "sts"

\* The reason of the first check that fails before anything is consumed, in
\* the order of the checks, or "ok".
Verdict(r, doc, t) ==
    LET s == r.subject
        registered == Authorize(doc.registry, r.agent, r.actor.workload, 
                                r.audience, t)
        agent == doc.registry[r.agent]
    IN  IF r.actor = None THEN "invalid_actor_token"
        ELSE IF registered # "ok" THEN registered
        ELSE IF DeniesAgent(doc.denylist, r.agent) THEN "agent_denied"
        ELSE IF DeniesWorkload(doc.denylist, r.actor.workload)
             THEN "workload_denied"
        ELSE IF s = Forged THEN "invalid_subject_token"
        ELSE IF DeniesPrincipal(doc.denylist, s.sub) THEN "principal_denied"
        ELSE IF Expired(s, t) THEN "expired"
        ELSE IF NotYetValid(s, t) THEN "invalid_subject_token"
        ELSE IF r.agent \notin s.aud 
             THEN IF FromSTS(s) THEN "chain_integrity" 
                                ELSE "invalid_subject_token"
        ELSE IF ScopeWidens(r.scope, s.scope, agent.maxScopes) 
             THEN "scope_widening"
        ELSE IF Len(AppendChain(s)) + 1 > agent.maxDepth 
             THEN "depth_exceeded"
        ELSE IF ~FromSTS(s) /\ (s.actchain # <<>> \/ s.act # <<>>) 
             THEN "chain_integrity"
        ELSE IF FromSTS(s) /\ s.txn = None THEN "chain_integrity"
        ELSE "ok"

\* The key the new token is bound to: one proven by DPoP, or the one the
\* workload attested with.
ConfirmJKT(r) == IF r.proof # None THEN r.proof.jkt ELSE r.actor.jkt

\* A first hop starts a transaction unless the IdP already named one.
Txn(subject, jti) == 
    IF ~FromSTS(subject) /\ subject.txn = None THEN jti ELSE subject.txn

\* With a seeded bug: only the attested key is bound, never a proven one.
MintedUnbound(p, jti) ==
    LET r == req[p]
        s == r.subject
        maxScopes == docs[snap[p]].registry[r.agent].maxScopes
    IN  [iss |-> "sts", sub |-> s.sub, aud |-> {r.audience}, 
         exp |-> clock[p] + TTL, nbf |-> clock[p], jti |-> jti, 
         txn |-> Txn(s, jti), 
         act |-> NestedAct(r.agent, s.act), actchain |-> AppendChain(s),
         scope |-> NarrowScope(r.scope, s.scope, maxScopes),
         jkt |-> r.actor.jkt]

Minted(p, jti) ==
    LET r == req[p]
        s == r.subject
        maxScopes == docs[snap[p]].registry[r.agent].maxScopes
    IN  [iss |-> "sts", 
         sub |-> s.sub, 
         aud |-> {r.audience}, 
         exp |-> clock[p] + TTL,
         nbf |-> clock[p], 
         jti |-> jti, 
         txn |-> Txn(s, jti), 
         act |-> NestedAct(r.agent, s.act),
         actchain |-> AppendChain(s),
         scope |-> NarrowScope(r.scope, s.scope, maxScopes),
         jkt |-> ConfirmJKT(r)]

\* How a token came about: the tokens it descends from and itself, the user
\* token it started from, its request, the snapshot it was decided by, and
\* when the replay cache granted its subject and its proof.
Origin(p, jti) ==
    LET s == req[p].subject
    IN  [line |-> IF FromSTS(s) THEN Append(origin[s.jti].line, jti) 
                                ELSE <<jti>>,
         root |-> IF FromSTS(s) THEN origin[s.jti].root ELSE s,
         agent |-> req[p].agent,
         workload |-> req[p].actor.workload,
         snap |-> snap[p],
         at |-> granted[p],
         proof |-> req[p].proof,
         provedAt |-> proved[p]]

-----------------------------------------------------------------------------

Init ==
    /\ now = 1
    /\ docs \in {<<d>> : d \in Document}
    /\ grants = <<>>
    /\ audit = {}
    /\ auditUp = TRUE
    /\ tokens = <<>>
    /\ origin = <<>>
    /\ returned = {}
    /\ pc = [p \in Proc |-> "idle"]
    /\ req = [p \in Proc |-> None]
    /\ snap = [p \in Proc |-> 0]
    /\ clock = [p \in Proc |-> 0]
    /\ granted = [p \in Proc |-> 0]
    /\ proved = [p \in Proc |-> 0]
    /\ out = [p \in Proc |-> Denied]

\* The handler goes to a label and has no more use for its request.
Release(p, label, result) ==
    /\ pc' = [pc EXCEPT ![p] = label]
    /\ req' = [req EXCEPT ![p] = None]
    /\ snap' = [snap EXCEPT ![p] = 0]
    /\ clock' = [clock EXCEPT ![p] = 0]
    /\ granted' = [granted EXCEPT ![p] = 0]
    /\ proved' = [proved EXCEPT ![p] = 0]
    /\ out' = [out EXCEPT ![p] = result]

\* The tokens that somebody outside the STS can present.
Presentable == {Forged} \cup IdPToken \cup {tokens[n] : n \in returned}

\* dpop.Verify accepts the iat of a proof.
ProofFresh(proof, t) == t <= proof.iat + ClockSkew /\ proof.iat <= t + ClockSkew

\* handleToken gets past the limiter, the form and the signature of the proof.
Receive(p, shape, subject) ==
    /\ pc[p] = "idle"
    /\ shape.proof # None => ProofFresh(shape.proof, now)
    /\ pc' = [pc EXCEPT ![p] = IF shape.proof = None THEN "proved" 
                                                     ELSE "received"]
    /\ req' = [req EXCEPT ![p] = [agent |-> shape.agent, 
                                  audience |-> shape.audience,
                                  scope |-> shape.scope, 
                                  actor |-> shape.actor,
                                  proof |-> shape.proof, 
                                  subject |-> subject]]
    /\ UNCHANGED <<now, docs, grants, audit, auditUp, tokens, origin, 
                   returned, snap, clock, granted, proved, out>>

\* The limiter, the form, the DPoP header or a missing parameter stop a
\* request before any token of it is looked at.
Refuse(p) ==
    /\ pc[p] = "idle"
    /\ Release(p, "decided", Denied)
    /\ UNCHANGED <<now, docs, grants, audit, auditUp, tokens, origin, returned>>

ProofClaim(proof) == [jti |-> ReplayJTI(proof.jti), exp |-> proof.iat, 
                      aliases |-> {RawKey(proof.jti)}]

\* Consume would find the key, or an alias of it, or a window that is over.
Replayed(claim) ==
    \/ \E i \in DOMAIN grants : Replay!Conflicts(claim, grants[i].claim)
    \/ ReplayUntil(claim.exp) < now

\* With a seeded bug: the proof is looked up but not recorded.
ConsumeProofUnrecorded(p) ==
    /\ pc[p] = "received"
    /\ ~Replayed(ProofClaim(req[p].proof))
    /\ pc' = [pc EXCEPT ![p] = "proved"]
    /\ proved' = [proved EXCEPT ![p] = now]
    /\ UNCHANGED <<now, docs, grants, audit, auditUp, tokens, origin, returned, 
                   req, snap, clock, granted, out>>

\* handleToken spends the proof before it looks at any token.
ConsumeProof(p) ==
    /\ pc[p] = "received"
    /\ Replay!Grant(ProofClaim(req[p].proof))
    /\ pc' = [pc EXCEPT ![p] = "proved"]
    /\ proved' = [proved EXCEPT ![p] = now]
    /\ UNCHANGED <<docs, audit, auditUp, tokens, origin, returned, 
                   req, snap, clock, granted, out>>

\* The proof was spent before, or the replay log could not be written.
ConsumeProofFails(p) ==
    /\ pc[p] = "received"
    /\ Release(p, "decided", Denied)
    /\ UNCHANGED <<now, docs, grants, audit, auditUp, tokens, origin, returned>>

\* The first act of exchange.
Snapshot(p) ==
    /\ pc[p] = "proved"
    /\ pc' = [pc EXCEPT ![p] = "snapped"]
    /\ snap' = [snap EXCEPT ![p] = Len(docs)]
    /\ UNCHANGED <<now, docs, grants, audit, auditUp, tokens, origin, 
                   returned, req, clock, granted, proved, out>>

\* With a seeded bug: the denylist is read again instead of the snapshot's.
DecideTorn(p) ==
    /\ pc[p] = "snapped"
    /\ LET doc == [registry |-> docs[snap[p]].registry,
                   denylist |-> docs[Len(docs)].denylist]
       IN  IF Verdict(req[p], doc, now) = "ok"
           THEN /\ pc' = [pc EXCEPT ![p] = IF FromSTS(req[p].subject) 
                                           THEN "cleared" ELSE "spent"]
                /\ clock' = [clock EXCEPT ![p] = now]
                /\ UNCHANGED <<req, snap, granted, proved, out>>
           ELSE Release(p, "decided", Denied)
    /\ UNCHANGED <<now, docs, grants, audit, auditUp, tokens, origin, returned>>

\* Every check that changes nothing, by one reading of the clock.
Decide(p) ==
    /\ pc[p] = "snapped"
    /\ IF Verdict(req[p], docs[snap[p]], now) = "ok"
       THEN /\ pc' = [pc EXCEPT ![p] = IF FromSTS(req[p].subject) 
                                       THEN "cleared" ELSE "spent"]
            /\ clock' = [clock EXCEPT ![p] = now]
            /\ UNCHANGED <<req, snap, granted, proved, out>>
       ELSE Release(p, "decided", Denied)
    /\ UNCHANGED <<now, docs, grants, audit, auditUp, tokens, origin, returned>>

SubjectClaim(subject) == [jti |-> RawKey(subject.jti), exp |-> subject.exp, 
                          aliases |-> {}]

\* With a seeded bug: the jti is looked up but not recorded.
ConsumeUnrecorded(p) ==
    /\ pc[p] = "cleared"
    /\ ~Replayed(SubjectClaim(req[p].subject))
    /\ pc' = [pc EXCEPT ![p] = "spent"]
    /\ granted' = [granted EXCEPT ![p] = now]
    /\ UNCHANGED <<now, docs, grants, audit, auditUp, tokens, origin, returned, 
                   req, snap, clock, proved, out>>

Consume(p) ==
    /\ pc[p] = "cleared"
    /\ Replay!Grant(SubjectClaim(req[p].subject))
    /\ pc' = [pc EXCEPT ![p] = "spent"]
    /\ granted' = [granted EXCEPT ![p] = now]
    /\ UNCHANGED <<docs, audit, auditUp, tokens, origin, returned, 
                   req, snap, clock, proved, out>>

\* The jti was spent before, its window closed since the decision, or the
\* replay log could not be written.
ConsumeFails(p) ==
    /\ pc[p] = "cleared"
    /\ Release(p, "decided", Denied)
    /\ UNCHANGED <<now, docs, grants, audit, auditUp, tokens, origin, returned>>

\* Only now does the exchange look for a key to bind the token to.
MissingConfirmation(p) ==
    /\ pc[p] = "spent"
    /\ ConfirmJKT(req[p]) = None
    /\ Release(p, "decided", Denied)
    /\ UNCHANGED <<now, docs, grants, audit, auditUp, tokens, origin, returned>>

Mint(p) ==
    /\ pc[p] = "spent"
    /\ ConfirmJKT(req[p]) # None
    /\ Len(tokens) < MaxTokens
    /\ LET jti == Len(tokens) + 1
       IN  /\ tokens' = Append(tokens, Minted(p, jti))
           /\ origin' = Append(origin, Origin(p, jti))
           /\ Release(p, "decided", jti)
    /\ UNCHANGED <<now, docs, grants, audit, auditUp, returned>>

\* What Exchange records of a mint; what it records of a denial is left out.
MintEvent(jti) ==
    [jti |-> jti, txn |-> tokens[jti].txn, principal |-> tokens[jti].sub, 
     hops |-> ActorSubs(tokens[jti])]

Audit(p) ==
    /\ pc[p] = "decided"
    /\ auditUp
    /\ audit' = IF out[p] = Denied THEN audit 
                                   ELSE audit \cup {MintEvent(out[p])}
    /\ pc' = [pc EXCEPT ![p] = "audited"]
    /\ UNCHANGED <<now, docs, grants, auditUp, tokens, origin, returned,
                   req, snap, clock, granted, proved, out>>

\* With a seeded bug: the token is returned although the append failed.
AuditFailsOpen(p) ==
    /\ pc[p] = "decided"
    /\ auditUp' \in {auditUp, FALSE}
    /\ pc' = [pc EXCEPT ![p] = "audited"]
    /\ UNCHANGED <<now, docs, grants, audit, tokens, origin, returned,
                   req, snap, clock, granted, proved, out>>

\* A record too large leaves the logger usable, any other failure does not.
AuditFails(p) ==
    /\ pc[p] = "decided"
    /\ auditUp' \in {auditUp, FALSE}
    /\ pc' = [pc EXCEPT ![p] = "audited"]
    /\ out' = [out EXCEPT ![p] = Denied]
    /\ UNCHANGED <<now, docs, grants, audit, tokens, origin, returned,
                   req, snap, clock, granted, proved>>

Respond(p) ==
    /\ pc[p] = "audited"
    /\ returned' = IF out[p] = Denied THEN returned 
                                      ELSE returned \cup {out[p]}
    /\ Release(p, "idle", Denied)
    /\ UNCHANGED <<now, docs, grants, audit, auditUp, tokens, origin>>

-----------------------------------------------------------------------------

Tick ==
    /\ now < MaxTime
    /\ now' = now + 1
    /\ UNCHANGED <<docs, grants, audit, auditUp, tokens, origin, returned, 
                   handler>>

\* Reloader.Reload: every document loads and all are installed under one
\* lock, or nothing changes.
Reload(d) ==
    /\ Len(docs) < MaxDocs
    /\ docs' = Append(docs, d)
    /\ UNCHANGED <<now, grants, audit, auditUp, tokens, origin, returned,
                   handler>>

\* The process dies and another one opens the same files.
Restart(d) ==
    /\ Len(docs) < MaxDocs
    /\ docs' = Append(docs, d)
    /\ auditUp' = TRUE
    /\ pc' = [p \in Proc |-> "idle"]
    /\ req' = [p \in Proc |-> None]
    /\ snap' = [p \in Proc |-> 0]
    /\ clock' = [p \in Proc |-> 0]
    /\ granted' = [p \in Proc |-> 0]
    /\ proved' = [p \in Proc |-> 0]
    /\ out' = [p \in Proc |-> Denied]
    /\ UNCHANGED <<now, grants, audit, tokens, origin, returned>>

HandlerStep(p) ==
    \/ \E shape \in Shape, subject \in Presentable : Receive(p, shape, subject)
    \/ Refuse(p)
    \/ ConsumeProof(p)
    \/ ConsumeProofFails(p)
    \/ Snapshot(p)
    \/ Decide(p)
    \/ Consume(p)
    \/ ConsumeFails(p)
    \/ MissingConfirmation(p)
    \/ Mint(p)
    \/ Audit(p)
    \/ AuditFails(p)
    \/ Respond(p)

Next == 
    \/ Tick 
    \/ \E d \in Document : Reload(d) \/ Restart(d)
    \/ \E p \in Proc : HandlerStep(p)

Spec == Init /\ [][Next]_vars

-----------------------------------------------------------------------------
(* Properties *)

TypeOK ==
    /\ now \in 1..MaxTime
    /\ docs # <<>> /\ \A i \in DOMAIN docs : docs[i] \in Document
    /\ auditUp \in BOOLEAN
    /\ DOMAIN origin = DOMAIN tokens
    /\ \A n \in DOMAIN tokens : 
          /\ tokens[n].jti = n
          /\ tokens[n].sub \in Principal
          /\ \E a \in Audience : tokens[n].aud = {a}
          /\ tokens[n].jkt # None
          /\ origin[n].snap \in DOMAIN docs
    /\ returned \subseteq DOMAIN tokens
    /\ pc \in [Proc -> {"idle", "received", "proved", "snapped", "cleared", 
                        "spent", "decided", "audited"}]
    /\ \A p \in Proc : /\ snap[p] \in 0..Len(docs)
                       /\ clock[p] \in 0..now

\* The actors in a token are the agents that really asked, in order: the
\* hops of its claims are the agents of the exchanges it came about by, act
\* nests them the other way round, each hop was made with a token meant for
\* the agent that made it, and sub and txn never changed on the way
\* (AppendChain, NestedAct; AI1, AI3, AI4, AI7).
ChainIsHistory ==
    \A n \in DOMAIN tokens :
        LET t == tokens[n]
            line == origin[n].line
            hops == ActorSubs(t)
        IN  /\ Len(hops) = Len(line) 
            /\ Len(t.act) = Len(line)
            /\ line[Len(line)] = n
            /\ \A i \in DOMAIN line :
                  /\ hops[i] = origin[line[i]].agent
                  /\ t.act[Len(line) + 1 - i] = hops[i]
                  /\ tokens[line[i]].sub = t.sub
                  /\ tokens[line[i]].txn = t.txn
                  /\ i > 1 => tokens[line[i - 1]].aud = {hops[i]}

\* No STS token is exchanged for two tokens within the window in which it
\* verifies, whatever handlers race, fail or die (Consume before mint; AI12).
LinearDelegation ==
    \A m, n \in DOMAIN tokens :
        LET before == origin[m].line 
            after == origin[n].line
        IN  /\ m < n /\ Len(before) > 1 /\ Len(before) = Len(after)
            /\ before[Len(before) - 1] = after[Len(after) - 1]
            => LET s == tokens[before[Len(before) - 1]]
               IN  \/ origin[n].at > ReplayUntil(s.exp)
                   \/ origin[m].at > ReplayUntil(s.exp)

\* No DPoP proof gives its key to two tokens while the proof is fresh, although
\* it is spent before the request is even looked at (handleToken; AI19).
ProofBindsOnce ==
    \A n \in DOMAIN tokens : 
        LET o == origin[n]
        IN  o.proof # None => 
              /\ tokens[n].jkt = o.proof.jkt
              /\ \A m \in 1..(n - 1) : 
                    origin[m].proof # None /\ origin[m].proof.jti = o.proof.jti
                    => \/ o.provedAt > ReplayUntil(origin[m].proof.iat)
                       \/ origin[m].provedAt > ReplayUntil(o.proof.iat)

\* Every mint was allowed by one document alone: the registry entry and the
\* denylist that were live together when the request came in, not a mixture
\* of two reloads (snapshot, installIdentity; AI2, AI6, AI14, AI18).
MintsObeyOneSnapshot ==
    \A n \in DOMAIN tokens :
        LET t == tokens[n]
            o == origin[n]
            doc == docs[o.snap]
        IN  /\ \E a \in t.aud : 
                  Authorize(doc.registry, o.agent, o.workload, a, t.nbf) = "ok"
            /\ t.scope \subseteq doc.registry[o.agent].maxScopes
            /\ Depth(t) <= doc.registry[o.agent].maxDepth
            /\ ~DeniesAgent(doc.denylist, o.agent)
            /\ ~DeniesWorkload(doc.denylist, o.workload)
            /\ ~DeniesPrincipal(doc.denylist, t.sub)

\* A chain that is renewed at every hop still ends: a token outlives the user
\* token by no more than a lifetime and a clock skew for each of its hops
\* (ValidateTime, exp: now + ttl, the depth cap).
ChainLifeBounded ==
    \A n \in DOMAIN tokens :
        tokens[n].exp <= origin[n].root.exp 
                         + Depth(tokens[n]) * (TTL + ClockSkew)

\* A token reaches a client only after the log has the records of its mint and
\* of every mint that it descends from, and every mint on record is of a token
\* that was signed with just that transaction, principal and hops (Exchange
\* appends first; AI8, AI9).
AuditBeforeRelease ==
    /\ \A n \in returned : \A i \in DOMAIN origin[n].line :
          \E e \in audit : e.jti = origin[n].line[i]
    /\ \A e \in audit : /\ e.jti \in DOMAIN tokens
                       /\ e.txn = tokens[e.jti].txn
                       /\ e.principal = tokens[e.jti].sub
                       /\ e.hops = ActorSubs(tokens[e.jti])

\* As long as no token on the way lost every scope, scopes only narrow from
\* one hop to any later one (narrowScope; AI5).
ScopeNarrowsUnlessEmptied ==
    \A n \in DOMAIN tokens : 
        LET line == origin[n].line
        IN  \A i, j \in DOMAIN line :
              /\ i < j
              /\ \A k \in i..(j - 1) : tokens[line[k]].scope # {}
              => tokens[line[j]].scope \subseteq tokens[line[i]].scope

\* What a token says and how it came about, as an entry of a ledger.
EntryOf(n) == 
    LET line == origin[n].line
    IN  [from |-> IF Len(line) > 1 THEN line[Len(line) - 1] ELSE 0,
         root |-> origin[n].root, sub |-> tokens[n].sub, txn |-> tokens[n].txn,
         aud |-> tokens[n].aud, hops |-> ActorSubs(tokens[n]), 
         scope |-> tokens[n].scope, begun |-> tokens[n].nbf, 
         exp |-> tokens[n].exp, at |-> origin[n].at]

Entries == [n \in DOMAIN tokens |-> EntryOf(n)]

Recorded == {e.jti : e \in audit}

Delegations == INSTANCE Ledger WITH 
    UserToken <- IdPToken, entries <- Entries, recorded <- Recorded, 
    released <- returned

\* The exchange implements a ledger of delegations: although a request is read,
\* spent, decided, minted, recorded and answered in steps that race, each token
\* is what a released parent, or a user token, allowed at one moment, and no
\* parent is delegated from twice while it is valid (Exchange, handleToken).
KeepsLedger == Delegations!Spec

-----------------------------------------------------------------------------

\* AI5 as the README and the token profile state it: scope only narrows.
ScopeOnlyNarrows ==
    \A n \in DOMAIN tokens : 
        LET line == origin[n].line
        IN  \A i, j \in DOMAIN line :
              i < j => tokens[line[j]].scope \subseteq tokens[line[i]].scope

=============================================================================
