------------------------------- MODULE Sessions -------------------------------
(* visor-gateway, and the visor-session that asks it who somebody is.        *)
(*                                                                           *)
(* A behaviour is one of four parts.  The first three restrict the steps of  *)
(* Gateway, each to other proofs, and add none.  In the last one a session   *)
(* meets what may answer it instead.                                         *)
EXTENDS Gateway

CONSTANTS RaceProof, LateProof, RevokeProof, Tokens, Forged, ShortName

VARIABLES part,  \* "race":    two handlers, at one time
                 \* "late":    one handler, while time goes by
                 \* "revoke":  one handler, while the denylist is edited
                 \* "session": a visor-session
          token, flags, env, gateway, step, nonce, sent, mapping, child

session == <<token, flags, env, gateway, step, nonce, sent, mapping, child>>

sessionsVars == <<vars, part, session>>

Session == INSTANCE VisorSession WITH pc <- step

\* Claims have a sequence of agents, and no agent has an empty last segment.  
\* A mapping decodes to an actor context with a field for each of its parts.
ASSUME SessionsAssumption ==
    /\ \A c \in Tokens : 
          /\ c.actors \in Seq({c.actors[i] : i \in DOMAIN c.actors})
          /\ Session!Actor(c) # None => ShortName[Session!Actor(c)] # None
    /\ \A m \in Forged :
          LET a == m.actor
          IN  /\ a = [principal |-> a.principal, agent |-> a.agent, txn |-> a.txn, 
                      chain |-> a.chain, scopes |-> a.scopes, iss |-> a.iss, 
                      aud |-> a.aud, id |-> a.id, exp |-> a.exp, jkt |-> a.jkt, 
                      workload |-> a.workload, dpop |-> a.dpop, 
                      sealed |-> a.sealed]
              /\ a.dpop \in BOOLEAN /\ a.sealed \in BOOLEAN

-----------------------------------------------------------------------------

SessionsInit == 
    /\ Init
    /\ part \in {"race", "late", "revoke", "session"}
    /\ files = <<NoDenials>>
    /\ IF part = "session" THEN Session!Init
                           ELSE /\ token = None /\ flags = None /\ env = None
                                /\ gateway = None /\ step = None 
                                /\ nonce = None /\ sent = None 
                                /\ mapping = None /\ child = None

\* A client of this part may send this proof now.
Turn(p, proof) ==
    \/ part = "race" /\ proof \in RaceProof
    \/ /\ part = "late" /\ proof \in LateProof \cup {None}
       /\ \A q \in Proc \ {p} : pc[q] = "idle"
    \/ /\ part = "revoke" /\ proof \in RevokeProof
       /\ \A q \in Proc \ {p} : pc[q] = "idle"

Stay == UNCHANGED <<part, session>>

SessionsNext ==
    \/ part = "late" /\ Tick /\ Stay
    \/ part \in {"race", "late"} /\ Restart /\ Stay
    \/ part = "revoke" /\ (\E file \in File : Edit(file)) /\ Stay
    \/ \E p \in Proc :
          \/ \E t \in Token, proof \in Proof \cup {None}, 
                n \in known \cup {NoNonce} : 
                Turn(p, proof) /\ Arrive(p, t, proof, n) /\ Stay
          \/ Turn(p, None) /\ Refuse(p) /\ Stay
          \/ CheckDenylist(p) /\ Stay
          \/ CheckProof(p) /\ Stay
          \/ HasNonce(p) /\ Stay
          \/ ConsumeProof(p) /\ Stay
          \/ ConsumeProofFails(p) /\ Stay
          \/ ConsumeNonce(p) /\ Stay
          \/ Challenge(p) /\ Stay
          \/ Deny(p) /\ Stay
          \/ Record(p) /\ Stay
          \/ RecordFails(p) /\ Stay
          \/ Forward(p) /\ Stay
          \/ Finish(p) /\ Stay
    \/ part = "session" /\ Session!Start /\ UNCHANGED <<vars, part>>
    \/ part = "session" /\ Session!Fetch /\ UNCHANGED <<vars, part>>
    \/ part = "session" /\ Session!Exec /\ UNCHANGED <<vars, part>>

SessionsSpec == SessionsInit /\ [][SessionsNext]_sessionsVars

-----------------------------------------------------------------------------
(* Properties of the session *)

\* Whatever answers it, a session starts mcp-visor as the bearer of its token
\* or not at all, and never on the word of what is behind a proxying gateway
\* (Fetch, mappingAgreesWithToken, stripBackendMapping; AI21).
ChildIsBearer == part = "session" => Session!ChildIsBearer

\* A session that may start, with a token the identity-only gateway admits, is
\* not refused: both ends read the same token in the same way (FromChain,
\* mappingAgreesWithToken).
HonestAccepted == part = "session" => Session!HonestAccepted
=============================================================================
