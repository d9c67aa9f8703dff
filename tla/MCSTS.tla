-------------------------------- MODULE MCSTS --------------------------------
(* A user delegates to a1, which delegates to a2, which calls the resource   *)
(* or delegates back.  One reload denies a2; workloads attest with a key     *)
(* of their own or without one.  A behaviour is one of two parts, each of    *)
(* which restricts the steps of STS and adds none.                           *)
EXTENDS STS, TLC

CONSTANTS h1, h2

VARIABLE part  \* "chain": one request at a time, while time goes by
               \* "race":  two handlers, reloads and restarts, at one time

mcVars == <<vars, part>>

MCAgent == {"a1", "a2"}
MCWorkload == {"w1", "w2"}
MCAudience == MCAgent \cup {"db"}
MCPrincipal == {"u"}
MCScope == {"read", "write"}

Key1 == [workload |-> "w1", jkt |-> "k1"]
Key2 == [workload |-> "w2", jkt |-> "k2"]
Svid1 == [workload |-> "w1", jkt |-> None]
Svid2 == [workload |-> "w2", jkt |-> None]
MCActor == {Key1, Key2, Svid1, Svid2}

MCIdPToken == 
    { [iss |-> "idp", sub |-> "u", aud |-> {"a1"}, exp |-> 2, nbf |-> 0, 
       jti |-> 0, txn |-> None, act |-> <<>>, actchain |-> <<>>, 
       scope |-> {"read"}, jkt |-> None] }

\* Their jtis may be those of the first tokens that are minted.
Proof1 == [jti |-> 1, iat |-> 1, jkt |-> "k3"]
Proof2 == [jti |-> 2, iat |-> 1, jkt |-> "k3"]
MCProof == {Proof1, Proof2}

Ask(agent, audience, scope, actor) == 
    [agent |-> agent, audience |-> audience, scope |-> scope, 
     actor |-> actor, proof |-> None]

AskProving(proof, agent, audience, scope, actor) == 
    [Ask(agent, audience, scope, actor) EXCEPT !.proof = proof]

ChainShape ==
           { Ask("a1", "a2", {}, Key1),
             Ask("a2", "db", {"write"}, Key2),
             Ask("a2", "a1", {}, Key2),
             Ask("a2", "db", {}, Svid2),
             Ask("a1", "db", {}, Key1) }

\* Two hops, the first confirmed by either proof alone, the second by the key of the
\* workload, which the reload denies.
RaceShape == { AskProving(Proof1, "a1", "a2", {"read"}, Svid1),
               AskProving(Proof2, "a1", "a2", {"read"}, Svid1),
               Ask("a2", "db", {}, Key2) }

MCShape == ChainShape \cup RaceShape

Handlers == Permutations({h1, h2})

Entry(workload, audiences, maxScopes, maxDepth, until) ==
    [workloads |-> {workload}, audiences |-> audiences, 
     maxScopes |-> maxScopes, maxDepth |-> maxDepth, from |-> 0, until |-> until]

MCRegistry == 
    [a \in MCAgent |-> 
        IF a = "a1" THEN Entry("w1", {"a2", "db"}, {"read", "write"}, 3, 0)
                    ELSE Entry("w2", {"a1", "db"}, {"write"}, 2, 4)]

MCDocument == 
    { [registry |-> MCRegistry, denylist |-> NoDenials],
      [registry |-> MCRegistry, 
       denylist |-> [NoDenials EXCEPT !.agents = {"a2"}]] }

-----------------------------------------------------------------------------

MCInit == Init /\ part \in {"chain", "race"}

\* A request may come in.
Turn(p, shape) == 
    /\ \/ part = "race" /\ shape \in RaceShape
       \/ /\ part = "chain" /\ shape \in ChainShape
          /\ \A q \in Proc \ {p} : pc[q] = "idle"
    /\ UNCHANGED part

\* What fails by itself does so in the race.
Failing == part = "race" /\ UNCHANGED part

MCNext ==
    \/ part = "chain" /\ Tick /\ UNCHANGED part
    \/ part = "race" /\ (\E d \in Document : Reload(d)) /\ UNCHANGED part
    \/ part = "race" /\ (\E d \in Document : Restart(d)) /\ UNCHANGED part
    \/ \E p \in Proc :
          \/ \E shape \in Shape, subject \in Presentable :
                Turn(p, shape) /\ Receive(p, shape, subject)
          \/ Failing /\ Refuse(p)
          \/ ConsumeProof(p) /\ UNCHANGED part
          \/ ConsumeProofFails(p) /\ UNCHANGED part
          \/ Snapshot(p) /\ UNCHANGED part
          \/ Decide(p) /\ UNCHANGED part
          \/ Consume(p) /\ UNCHANGED part
          \/ Failing /\ ConsumeFails(p)
          \/ MissingConfirmation(p) /\ UNCHANGED part
          \/ Mint(p) /\ UNCHANGED part
          \/ Audit(p) /\ UNCHANGED part
          \/ Failing /\ AuditFails(p)
          \/ Respond(p) /\ UNCHANGED part

MCSpec == MCInit /\ [][MCNext]_mcVars
=============================================================================
