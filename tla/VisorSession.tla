----------------------------- MODULE VisorSession -----------------------------
(***************************************************************************)
(* visor-session: it asks visor-gateway who the bearer of its token is and *)
(* becomes mcp-visor with that identity (internal/visorsession,            *)
(* internal/visoradapter, cmd/agent-identity-plane/visor_session*.go).     *)
(* What answers need not be an identity-only gateway.                      *)
(*                                                                         *)
(* A token is its claims; a scope is a set; None stands for an empty       *)
(* string.  Signatures, proofs and encodings are left out.                 *)
(***************************************************************************)
EXTENDS Naturals, Sequences

CONSTANTS Tokens,     \* claims a session may be started with
          Forged,     \* mappings an answer may hold
          ShortName,  \* the last path segment of an agent
          None

VARIABLES token,    \* the access token
          flags,    \* names of the extra arguments
          env,      \* names in the environment
          gateway,  \* what answers: "identity", "proxy" or "other"
          pc,
          nonce,    \* the nonce of the next request
          sent,     \* requests that were sent
          mapping,  \* the mapping Fetch returned
          child     \* what mcp-visor was started with, or None

vars == <<token, flags, env, gateway, pc, nonce, sent, mapping, child>>

-----------------------------------------------------------------------------
(* visoradapter *)

\* chainFromClaims
Actor(c) == IF c.actors = <<>> THEN None ELSE c.actors[Len(c.actors)]
Hops(c) == <<c.sub>> \o c.actors
Single(c) == \E a \in c.aud : c.aud = {a}

\* contextFromChain, sealed
Context(c) ==
    [principal |-> c.sub, agent |-> Actor(c), txn |-> c.txn, chain |-> Hops(c),
     scopes |-> c.scope, iss |-> c.iss, aud |-> c.aud, id |-> c.jti, 
     exp |-> c.exp, jkt |-> c.jkt, workload |-> None, dpop |-> TRUE, 
     sealed |-> TRUE]

\* FromChain
FromChain(c, short) ==
    [client |-> IF short THEN ShortName[Actor(c)] ELSE Actor(c),
     session |-> c.txn, principal |-> c.sub, acting |-> Actor(c), 
     hops |-> Hops(c), scope |-> c.scope, jti |-> c.jti, actor |-> Context(c)]

\* ValidateStructure
ValidStructure(a) ==
    /\ None \notin {a.principal, a.agent, a.txn}
    /\ a.dpop
    /\ a.chain # <<>>
    /\ a.chain[1] = a.principal
    /\ a.chain[Len(a.chain)] = a.agent
    /\ a.sealed

\* Complete
Complete(m) ==
    /\ None \notin {m.acting, m.client, m.session, m.principal}
    /\ ValidStructure(m.actor)

-----------------------------------------------------------------------------
(* Answers *)

Challenge == [kind |-> "challenge"]

\* Denials, redirects, lost answers, bodies that are too long.
Other == [kind |-> "other"]

Mapped(m) == [kind |-> "ok", typed |-> TRUE, 
              headers |-> <<m.client, m.session>>, mapping |-> m]

Headers == {<<m.client, m.session>> : m \in Forged} \cup {<<None, None>>}

Anything ==
    {Challenge, Other} \cup 
    [kind : {"ok"}, typed : BOOLEAN, headers : Headers, mapping : Forged]

\* What an identity-only gateway lets through handlePEP and requireDPoP.
Admitted(c) ==
    /\ None \notin {c.sub, Actor(c), c.txn, c.jkt}
    /\ Single(c)

\* stripBackendMapping: a backend's answer is not a mapping, and the identity 
\* headers on it are the gateway's, or none after an informational response.
StripBackendMapping(r, c) ==
    IF r.kind = "ok" 
    THEN [r EXCEPT !.typed = FALSE, !.headers = <<Actor(c), c.txn>>] 
    ELSE r

\* handlePEP: a proof without a nonce is challenged; then the mapping is the
\* answer, or the backend's is.
Answers ==
    CASE gateway = "other" -> Anything
      [] ~Admitted(token) -> {Other}
      [] nonce = None -> {Challenge}
      [] gateway = "identity" -> 
            {Mapped(FromChain(token, short)) : short \in BOOLEAN}
      [] OTHER -> {StripBackendMapping(r, token) : r \in Anything \ {Challenge}}

-----------------------------------------------------------------------------
(* visorsession *)

IdentityFlags == {"client-id", "session-id", "verified-actor-fd"}

\* With a seeded bug: the hops of the mapping are not compared.
MappingAgreesButHops(m, c) ==
    LET a == m.actor
    IN  /\ c.txn # None /\ m.session = c.txn /\ a.txn = c.txn
        /\ m.principal = c.sub /\ a.principal = c.sub 
        /\ m.acting = Actor(c) /\ a.agent = Actor(c)
        /\ m.client \in {Actor(c), ShortName[Actor(c)]}
        /\ m.scope = c.scope /\ a.scopes = c.scope /\ a.iss = c.iss 
        /\ Single(c) /\ a.aud = c.aud
        /\ a.id = c.jti /\ m.jti = c.jti /\ a.exp = c.exp /\ a.jkt = c.jkt
        /\ a.dpop /\ a.workload = None

\* With a seeded bug: only the complete name of an agent is taken.
MappingAgreesLongName(m, c) ==
    MappingAgreesButHops(m, c) /\ m.client = Actor(c) 
    /\ m.hops = Hops(c) /\ m.actor.chain = Hops(c) 

\* mappingAgreesWithToken
MappingAgrees(m, c) ==
    LET a == m.actor
    IN  /\ c.txn # None /\ m.session = c.txn /\ a.txn = c.txn
        /\ m.principal = c.sub /\ a.principal = c.sub 
        /\ m.acting = Actor(c) /\ a.agent = Actor(c)
        /\ m.client \in {Actor(c), ShortName[Actor(c)]}
        /\ m.hops = Hops(c) /\ a.chain = Hops(c)
        /\ m.scope = c.scope /\ a.scopes = c.scope /\ a.iss = c.iss 
        /\ Single(c) /\ a.aud = c.aud
        /\ a.id = c.jti /\ m.jti = c.jti /\ a.exp = c.exp /\ a.jkt = c.jkt
        /\ a.dpop /\ a.workload = None

\* fetchMapping, when the status is 200
Accepted(r) ==
    /\ r.kind = "ok" 
    /\ r.typed
    /\ Complete(r.mapping)
    /\ r.headers = <<r.mapping.client, r.mapping.session>>
    /\ MappingAgrees(r.mapping, token)

Init ==
    /\ token \in Tokens
    /\ flags \in SUBSET {"policy", "client-id"}
    /\ env \in SUBSET {"PATH", "AIP_ACCESS_TOKEN"}
    /\ gateway \in {"identity", "proxy", "other"}
    /\ pc = "start"
    /\ nonce = None
    /\ sent = 0
    /\ mapping = None
    /\ child = None

\* RejectIdentityArgs, before anything is sent
Start ==
    /\ pc = "start"
    /\ pc' = IF flags \cap IdentityFlags = {} THEN "fetch" ELSE "refused"
    /\ UNCHANGED <<token, flags, env, gateway, nonce, sent, mapping, child>>

\* Only the first request's challenge is answered.
Challenged(r) == r.kind = "challenge" /\ nonce = None

\* Fetch: one request and what becomes of its answer.
Fetch ==
    /\ pc = "fetch"
    /\ sent' = sent + 1
    /\ \E r \in Answers :
          \/ /\ Accepted(r)
             /\ pc' = "mapped" /\ mapping' = r.mapping
             /\ UNCHANGED nonce
          \/ /\ Challenged(r)
             /\ nonce' = "issued"
             /\ UNCHANGED <<pc, mapping>>
          \/ /\ ~Accepted(r) /\ ~Challenged(r)
             /\ pc' = "refused"
             /\ UNCHANGED <<nonce, mapping>>
    /\ UNCHANGED <<token, flags, env, gateway, child>>

ChildEnv(e) == e \ {"AIP_ACCESS_TOKEN"}

\* Command and execVisor: the process becomes mcp-visor, if the pipe holds the
\* context and the program is there.
Exec ==
    /\ pc = "mapped"
    /\ \/ /\ pc' = "visor"
          /\ child' = [client |-> mapping.client, session |-> mapping.session,
                       flags |-> flags, fd |-> mapping.actor, 
                       env |-> ChildEnv(env)]
       \/ pc' = "failed" /\ UNCHANGED child
    /\ UNCHANGED <<token, flags, env, gateway, nonce, sent, mapping>>

Next == Start \/ Fetch \/ Exec

Spec == Init /\ [][Next]_vars

-----------------------------------------------------------------------------
(* Properties *)

\* Whatever answers, mcp-visor runs as the bearer of the token: its client and 
\* session are the token's, what it reads from fd 3 is what the adapter makes 
\* of the token's claims, no flag of the caller's competes with it, and the 
\* token is not in its environment.  A gateway that proxies starts nothing, 
\* though its backend answers with a mapping of the bearer (AI21).
ChildIsBearer ==
    child # None =>
        /\ gateway # "proxy"
        /\ \E short \in BOOLEAN : child.client = FromChain(token, short).client
        /\ child.session = token.txn
        /\ child.fd = Context(token)
        /\ child.flags \cap IdentityFlags = {}
        /\ "AIP_ACCESS_TOKEN" \notin child.env

\* What the adapter makes of a token is what the session takes for that token, 
\* with short names or complete ones: behind an identity-only gateway that admits the
\* token (and still knows its nonce) refuses nothing but the flags of the caller.
HonestAccepted ==
    gateway = "identity" /\ Admitted(token) /\ flags \cap IdentityFlags = {}
        => pc # "refused"
=============================================================================
