------------------------------- MODULE Gateway -------------------------------
(***************************************************************************)
(* visor-gateway, internal/gateway/gateway.go with the nonce cache of      *)
(* internal/dpop/nonce.go: concurrent requests, each of which has its      *)
(* token verified, the denylist file read for it, its DPoP proof checked,  *)
(* the jti of the proof and then its nonce consumed, and its record        *)
(* written before it is forwarded.                                         *)
(*                                                                         *)
(* The proof replay cache is the abstract one (SingleUse).  Its log may be *)
(* lost while the process is down; the nonces always are.  Signatures and  *)
(* hashes are abstract: a proof names the key it was signed with and the   *)
(* token it was made for.                                                  *)
(***************************************************************************)
EXTENDS Claims, IdentityDocs, FiniteSets

CONSTANTS Proc,       \* request handlers
          Self,       \* the audience the gateway is configured with
          Token,      \* claims of the STS tokens that clients hold, and the
                      \* workload they were minted for, which is not a claim
          Proof,      \* what a client signs but the nonce: [jti, iat, jkt, ath]
          File,       \* what the denylist file may hold: a denylist, or None
          None,       \* no request, an unreadable file, no jkt
          NonceTTL,   \* how long a nonce is good for
          MaxTime,    \* bound on the clock
          MaxNonces,  \* bound on the nonces issued
          MaxEdits    \* bound on the contents of the denylist file

ASSUME GatewayAssumption ==
    /\ NonceTTL \in Nat \ {0}
    /\ MaxTime \in Nat \ {0}
    /\ MaxNonces \in Nat
    /\ MaxEdits \in Nat \ {0}
    /\ None \notin Proc
    /\ \A f \in File : f = None \/ f \in Denylist
    /\ None \notin Proof
    /\ \A proof \in Proof : proof.jti \in Nat /\ proof.iat \in Nat
    /\ \A t \in Token : t.act \in Seq(Agent) /\ t.actchain \in Seq(Agent)

VARIABLES now,        \* the wall clock
          files,      \* what the denylist file held over time; the last is live
          issued,     \* how many nonces were issued
          nonces,     \* the cache: when the nonce of that number ends, or 0
          known,      \* the nonces that clients were sent
          grants,     \* the proof replay cache: what it granted
          auditUp,    \* the logger is not poisoned
          audit,      \* the requests on record as allowed
          forwarded,  \* the requests that went to the backend
          lost,       \* history: a replay log was lost
          pc,         \* where a handler is
          req,        \* its request, with what the denylist held as it came
          checked,    \* the index in files of the denylist it was checked by
          clock,      \* the time by which it checks the proof
          fresh       \* the nonce its answer will carry, or 0

handler == <<pc, req, checked, clock, fresh>>

vars == <<now, files, issued, nonces, known, grants, auditUp, audit, 
          forwarded, lost, handler>>

NoNonce == 0

ProofClaims == [jti : Nat, exp : Nat, aliases : {{}}]

Replay == INSTANCE SingleUse WITH Claim <- ProofClaims

-----------------------------------------------------------------------------

\* Verifier.Verify and Mapping.Complete.
Verifies(token, t) ==
    /\ token.aud = {Self}
    /\ ValidateTime(token, t)
    /\ token.act # <<>> /\ token.txn # None

\* The positions the denylist is applied to: the principal, then the agents.
Hops(token) == <<token.sub>> \o ActorSubs(token)

ProofFresh(proof, t) == t <= proof.iat + ClockSkew /\ proof.iat <= t + ClockSkew

\* dpop.Verify, with the nonce aside.
ProvesPossession(r, t) ==
    /\ r.token.jkt # None
    /\ r.proof # None
    /\ r.proof.jkt = r.token.jkt
    /\ r.proof.ath = r.token
    /\ ProofFresh(r.proof, t)

-----------------------------------------------------------------------------

Init ==
    /\ now = 1
    /\ files \in {<<f>> : f \in File \ {None}}
    /\ issued = 0
    /\ nonces = [n \in 1..MaxNonces |-> 0]
    /\ known = {}
    /\ grants = <<>>
    /\ auditUp = TRUE
    /\ audit = <<>>
    /\ forwarded = <<>>
    /\ lost = FALSE
    /\ pc = [p \in Proc |-> "idle"]
    /\ req = [p \in Proc |-> None]
    /\ checked = [p \in Proc |-> 0]
    /\ clock = [p \in Proc |-> 0]
    /\ fresh = [p \in Proc |-> NoNonce]

\* The handler goes to a label and changes nothing else.
Goto(p, label) == 
    /\ pc' = [pc EXCEPT ![p] = label]
    /\ UNCHANGED <<now, files, issued, nonces, known, grants, auditUp, audit, 
                   forwarded, lost, req, checked, clock, fresh>>

\* NonceCache.Issue: collect what has ended, then add a nonce.
Issue(p) ==
    /\ issued < MaxNonces
    /\ issued' = issued + 1
    /\ nonces' = [n \in 1..MaxNonces |-> 
                    CASE n = issued + 1 -> now + NonceTTL
                      [] n # issued + 1 /\ nonces[n] < now -> 0
                      [] OTHER -> nonces[n]]
    /\ fresh' = [fresh EXCEPT ![p] = issued + 1]

\* A client sends a token with a proof it signed for a nonce it was sent.
Arrive(p, token, proof, nonce) ==
    /\ pc[p] = "idle"
    /\ req' = [req EXCEPT ![p] = [token |-> token, proof |-> proof, 
                                  nonce |-> nonce, arrived |-> Len(files)]]
    /\ pc' = [pc EXCEPT ![p] = IF Verifies(token, now) THEN "verified" 
                                                       ELSE "denied"]
    /\ UNCHANGED <<now, files, issued, nonces, known, grants, auditUp, audit, 
                   forwarded, lost, checked, clock, fresh>>

\* The limiter, a missing or a forged token.
Refuse(p) == pc[p] = "idle" /\ Goto(p, "denied")

\* With a seeded bug: the denylist is the one the gateway opened with.
CheckDenylistOnce(p) ==
    /\ pc[p] = "verified"
    /\ LET denylist == files[1]
           hops == Hops(req[p].token)
           clear == /\ denylist # None
                    /\ DenyChain(denylist, hops[1], hops[Len(hops)], hops) = "ok"
       IN  pc' = [pc EXCEPT ![p] = IF clear THEN "cleared" ELSE "denied"]
    /\ checked' = [checked EXCEPT ![p] = 1]
    /\ UNCHANGED <<now, files, issued, nonces, known, grants, auditUp, audit, 
                   forwarded, lost, req, clock, fresh>>

\* denyIdentity reads the file again; one that cannot be read denies all.
CheckDenylist(p) ==
    /\ pc[p] = "verified"
    /\ LET denylist == files[Len(files)]
           hops == Hops(req[p].token)
           clear == /\ denylist # None
                    /\ DenyChain(denylist, hops[1], hops[Len(hops)], hops) = "ok"
       IN  pc' = [pc EXCEPT ![p] = IF clear THEN "cleared" ELSE "denied"]
    /\ checked' = [checked EXCEPT ![p] = Len(files)]
    /\ UNCHANGED <<now, files, issued, nonces, known, grants, auditUp, audit, 
                   forwarded, lost, req, clock, fresh>>

\* requireDPoP reads the clock by which it checks the proof and the nonce.
CheckProof(p) ==
    /\ pc[p] = "cleared"
    /\ pc' = [pc EXCEPT ![p] = IF ProvesPossession(req[p], now) THEN "proven" 
                                                                ELSE "challenge"]
    /\ clock' = [clock EXCEPT ![p] = now]
    /\ UNCHANGED <<now, files, issued, nonces, known, grants, auditUp, audit, 
                   forwarded, lost, req, checked, fresh>>

\* NonceCache.Has
Has(nonce, t) == nonce # NoNonce /\ nonces[nonce] >= t

HasNonce(p) ==
    /\ pc[p] = "proven"
    /\ Goto(p, IF Has(req[p].nonce, clock[p]) THEN "fresh" ELSE "challenge")

ProofClaim(proof) == [jti |-> proof.jti, exp |-> proof.iat, aliases |-> {}]

\* With a seeded bug: the jti of the proof is not recorded.
ConsumeProofUnrecorded(p) == pc[p] = "fresh" /\ Goto(p, "spent")

ConsumeProof(p) ==
    /\ pc[p] = "fresh"
    /\ Replay!Grant(ProofClaim(req[p].proof))
    /\ pc' = [pc EXCEPT ![p] = "spent"]
    /\ UNCHANGED <<files, issued, nonces, known, auditUp, audit, forwarded, 
                   lost, req, checked, clock, fresh>>

\* The proof was spent before, its window closed, or the log failed.
ConsumeProofFails(p) ==
    /\ pc[p] = "fresh"
    /\ \/ Goto(p, "challenge")
       \/ Goto(p, "denied")

\* With a seeded bug: the nonce is looked up again but not removed.
ConsumeNonceKept(p) ==
    /\ pc[p] = "spent"
    /\ Goto(p, IF Has(req[p].nonce, clock[p]) THEN "allowed" ELSE "challenge")

\* NonceCache.Consume: another request may have been faster.
ConsumeNonce(p) ==
    /\ pc[p] = "spent"
    /\ pc' = [pc EXCEPT ![p] = IF Has(req[p].nonce, clock[p]) THEN "allowed" 
                                                              ELSE "challenge"]
    /\ nonces' = [nonces EXCEPT ![req[p].nonce] = 0]
    /\ UNCHANGED <<now, files, issued, known, grants, auditUp, audit, forwarded, 
                   lost, req, checked, clock, fresh>>

\* writeDenyDPoP puts a fresh nonce on every 401.
Challenge(p) ==
    /\ pc[p] = "challenge"
    /\ Issue(p)
    /\ pc' = [pc EXCEPT ![p] = "denied"]
    /\ UNCHANGED <<now, files, known, grants, auditUp, audit, forwarded, lost, 
                   req, checked, clock>>

\* The answer reaches the client, with its nonce if it has one.
Answer(p) ==
    /\ known' = known \cup ({fresh[p]} \ {NoNonce})
    /\ pc' = [pc EXCEPT ![p] = "idle"]
    /\ req' = [req EXCEPT ![p] = None]
    /\ checked' = [checked EXCEPT ![p] = 0]
    /\ clock' = [clock EXCEPT ![p] = 0]
    /\ fresh' = [fresh EXCEPT ![p] = NoNonce]

\* writeDeny: on record or not, the answer is a refusal either way.
Deny(p) ==
    /\ pc[p] = "denied"
    /\ Answer(p)
    /\ auditUp' \in {auditUp, FALSE}
    /\ UNCHANGED <<now, files, issued, nonces, grants, audit, forwarded, lost>>

\* The request as its record and the backend have it.
Decision(p) == 
    [token |-> req[p].token, proof |-> req[p].proof, nonce |-> req[p].nonce, 
     arrived |-> req[p].arrived, checked |-> checked[p]]

Record(p) ==
    /\ pc[p] = "allowed"
    /\ auditUp
    /\ audit' = Append(audit, Decision(p))
    /\ pc' = [pc EXCEPT ![p] = "recorded"]
    /\ UNCHANGED <<now, files, issued, nonces, known, grants, auditUp, 
                   forwarded, lost, req, checked, clock, fresh>>

\* With a seeded bug: the request goes on although it could not be recorded.
RecordFailsOpen(p) ==
    /\ pc[p] = "allowed"
    /\ auditUp' \in {auditUp, FALSE}
    /\ pc' = [pc EXCEPT ![p] = "recorded"]
    /\ UNCHANGED <<now, files, issued, nonces, known, grants, audit, forwarded, 
                   lost, req, checked, clock, fresh>>

\* failClosed
RecordFails(p) ==
    /\ pc[p] = "allowed"
    /\ auditUp' \in {auditUp, FALSE}
    /\ Answer(p)
    /\ UNCHANGED <<now, files, issued, nonces, grants, audit, forwarded, lost>>

\* Allowed: the nonce for the next request, then the backend.
Forward(p) ==
    /\ pc[p] = "recorded"
    /\ Issue(p)
    /\ forwarded' = Append(forwarded, Decision(p))
    /\ pc' = [pc EXCEPT ![p] = "forwarded"]
    /\ UNCHANGED <<now, files, known, grants, auditUp, audit, lost, 
                   req, checked, clock>>

Finish(p) ==
    /\ pc[p] = "forwarded"
    /\ Answer(p)
    /\ UNCHANGED <<now, files, issued, nonces, grants, auditUp, audit, 
                   forwarded, lost>>

-----------------------------------------------------------------------------

Tick ==
    /\ now < MaxTime
    /\ now' = now + 1
    /\ UNCHANGED <<files, issued, nonces, known, grants, auditUp, audit, 
                   forwarded, lost, handler>>

\* An operator writes the denylist file.
Edit(file) ==
    /\ Len(files) < MaxEdits
    /\ files' = Append(files, file)
    /\ UNCHANGED <<now, issued, nonces, known, grants, auditUp, audit, 
                   forwarded, lost, handler>>

\* The process dies, and starts again if the denylist loads.  It has no nonce,
\* and no proof either if the replay log was lost in between.
Restart ==
    /\ files[Len(files)] # None
    /\ auditUp' = TRUE
    /\ nonces' = [n \in 1..MaxNonces |-> 0]
    /\ \/ UNCHANGED <<grants, lost>>
       \/ grants' = <<>> /\ lost' = TRUE
    /\ pc' = [p \in Proc |-> "idle"]
    /\ req' = [p \in Proc |-> None]
    /\ checked' = [p \in Proc |-> 0]
    /\ clock' = [p \in Proc |-> 0]
    /\ fresh' = [p \in Proc |-> NoNonce]
    /\ UNCHANGED <<now, files, issued, known, audit, forwarded>>

HandlerStep(p) ==
    \/ \E token \in Token, proof \in Proof \cup {None}, 
          nonce \in known \cup {NoNonce} : Arrive(p, token, proof, nonce)
    \/ Refuse(p)
    \/ CheckDenylist(p)
    \/ CheckProof(p)
    \/ HasNonce(p)
    \/ ConsumeProof(p)
    \/ ConsumeProofFails(p)
    \/ ConsumeNonce(p)
    \/ Challenge(p)
    \/ Deny(p)
    \/ Record(p)
    \/ RecordFails(p)
    \/ Forward(p)
    \/ Finish(p)

Next ==
    \/ Tick
    \/ Restart
    \/ \E file \in File : Edit(file)
    \/ \E p \in Proc : HandlerStep(p)

Spec == Init /\ [][Next]_vars

-----------------------------------------------------------------------------
(* Properties *)

Requests == [token : Token, proof : Proof \cup {None}, nonce : 0..issued, 
             arrived : 1..Len(files)]

Grants == [claim : ProofClaims, at : Nat]

Decisions == [token : Token, proof : Proof, nonce : Nat, arrived : Nat, 
              checked : Nat]

NonceType ==
    /\ now \in 1..MaxTime
    /\ issued \in 0..MaxNonces
    /\ nonces \in [1..MaxNonces -> Nat]
    /\ \A n \in 1..MaxNonces : nonces[n] # 0 => n <= issued
    /\ known \subseteq 1..issued

SinkType ==
    /\ files \in Seq(File) /\ files # <<>>
    /\ grants \in Seq(Grants)
    /\ audit \in Seq(Decisions) /\ forwarded \in Seq(Decisions)

HandlerType ==
    /\ pc \in [Proc -> {"idle", "verified", "cleared", "proven", "fresh", 
                        "spent", "allowed", "recorded", "forwarded", 
                        "challenge", "denied"}]
    /\ checked \in [Proc -> 0..Len(files)]
    /\ clock \in [Proc -> 0..now]
    /\ fresh \in [Proc -> 0..issued]

TypeOK == 
    NonceType /\ SinkType /\ HandlerType /\ req \in [Proc -> Requests \cup {None}]

\* A nonce is good for one forwarded request, whoever races for it and however
\* often the gateway restarts, with its replay log or without: so no proof
\* that was captured is ever good for a second one (Has, then Consume; AI22).
NonceBacksOneForward ==
    \A i, j \in DOMAIN forwarded : 
        i # j => forwarded[i].nonce # forwarded[j].nonce

\* A proof jti is good for one forwarded request while the proof is fresh,
\* even under another nonce and even across a restart, as long as the replay
\* log is not lost (ConsumeProof before the nonce; AI19).
ProofBacksOneForward ==
    lost \/ \A i, j \in DOMAIN forwarded : 
               i < j /\ forwarded[i].proof.jti = forwarded[j].proof.jti
               => \E k \in DOMAIN grants : 
                    /\ grants[k].claim.jti = forwarded[j].proof.jti
                    /\ \/ grants[k].at > ReplayUntil(forwarded[i].proof.iat)
                       \/ grants[k].at > ReplayUntil(forwarded[j].proof.iat)

\* What is forwarded was cleared by a denylist that the file held when the
\* request came or later, so a revocation that was written binds the very next
\* request, and that denylist has nobody in the chain (denyIdentity; AI18).
RevocationBindsNextRequest ==
    \A i \in DOMAIN forwarded :
        LET f == forwarded[i]
            agents == {Hops(f.token)[k] : k \in 2..Len(Hops(f.token))}
        IN  /\ f.arrived <= f.checked
            /\ files[f.checked] # None
            /\ ~DeniesPrincipal(files[f.checked], f.token.sub)
            /\ files[f.checked].agents \cap agents = {}

\* The backend gets only what is on record, and gets it once (record, then
\* proxy; AI8, AI16).
ForwardedIsRecorded ==
    \A i \in DOMAIN forwarded : 
        Cardinality({k \in 1..i : forwarded[k] = forwarded[i]})
            <= Cardinality({k \in DOMAIN audit : audit[k] = forwarded[i]})

-----------------------------------------------------------------------------

\* AI18 as the README states it: a denied workload does not pass the gateway.
DeniedWorkloadStopped ==
    \A i \in DOMAIN forwarded :
        LET f == forwarded[i]
        IN  ~DeniesWorkload(files[f.checked], f.token.workload)
=============================================================================
