------------------------------ MODULE MCGateway ------------------------------
(* Clients hold one token of two hops, u to a1 to a2, and may use a jti      *)
(* twice, for two nonces and at two times.  A session has a token that may   *)
(* lack something and meets mappings with something changed.                 *)
EXTENDS Sessions, TLC

CONSTANTS h1, h2

MCAgent == {"a1", "a2"}
MCWorkload == {"w2"}
MCAudience == {"db"}
MCPrincipal == {"u"}
MCScope == {"read"}

Chain == [sub |-> "u", aud |-> {"db"}, exp |-> 3, nbf |-> 1, txn |-> "t",
          act |-> <<"a2", "a1">>, actchain |-> <<"a1">>, jkt |-> "k2",
          workload |-> "w2"]
MCToken == {Chain}

Sign(jti, iat, jkt) == [jti |-> jti, iat |-> iat, jkt |-> jkt, ath |-> Chain]

MCRaceProof == {Sign(1, 1, "k2"), Sign(2, 1, "k2")}
MCLateProof == {Sign(1, 1, "k2"), Sign(1, 2, "k2"), Sign(2, 3, "k1")}

\* The first agent of the chain is denied, not the one that calls.
Revoked == [NoDenials EXCEPT !.agents = {"a1"}]
Evicted == [NoDenials EXCEPT !.workloads = {"w2"}]

MCRevokeProof == {Sign(1, 1, "k2")}

MCProof == MCRaceProof \cup MCLateProof
MCFile == {NoDenials, Revoked, None}
WorkloadFile == {NoDenials, Evicted}

Handlers == Permutations({h1, h2})

-----------------------------------------------------------------------------
(* A token with two agents, and tokens that lack or repeat something; mappings *)
(* of each of them, with one field changed.                                    *)
MCShortName == [a \in {"x/a", "x/b", "a", None} |-> 
                   CASE a = "x/a" -> "a" [] a = "x/b" -> "b" [] OTHER -> a]

Bearer == [sub |-> "u", actors |-> <<"x/a", "x/b">>, txn |-> "t", scope |-> {"r"},
         iss |-> "sts", aud |-> {"g"}, jti |-> "i", exp |-> 1, jkt |-> "k"]

MCClaims ==
    {Bearer, [Bearer EXCEPT !.actors = <<"x/a">>], [Bearer EXCEPT !.actors = <<>>], 
     [Bearer EXCEPT !.txn = None], [Bearer EXCEPT !.scope = {}],
     [Bearer EXCEPT !.aud = {"g", "h"}], [Bearer EXCEPT !.aud = {}],
     [Bearer EXCEPT !.jkt = None], [Bearer EXCEPT !.actors = <<"a">>]}

Changed(a) ==
    {a, [a EXCEPT !.principal = "v"], [a EXCEPT !.agent = "x/a"], 
     [a EXCEPT !.agent = None], [a EXCEPT !.txn = "s"], 
     [a EXCEPT !.chain = <<"u", "x/b">>], [a EXCEPT !.chain = <<>>], 
     [a EXCEPT !.scopes = {"r", "w"}], [a EXCEPT !.iss = "idp"], 
     [a EXCEPT !.aud = {}], [a EXCEPT !.aud = {"h"}], [a EXCEPT !.id = "j"], 
     [a EXCEPT !.exp = 2], [a EXCEPT !.jkt = "l"], [a EXCEPT !.jkt = None],
     [a EXCEPT !.workload = "w"], [a EXCEPT !.dpop = FALSE], 
     [a EXCEPT !.sealed = FALSE]}

Adapter == INSTANCE VisorSession 
           WITH Tokens <- {}, Forged <- {}, ShortName <- MCShortName, pc <- step

MCMappings ==
    UNION {LET m == Adapter!FromChain(c, FALSE) 
           IN  {[m EXCEPT !.actor = a] : a \in Changed(m.actor)} \cup
               {Adapter!FromChain(c, TRUE), [m EXCEPT !.client = "x/a"], 
                [m EXCEPT !.session = "s"], [m EXCEPT !.principal = "v"], 
                [m EXCEPT !.acting = "x/a"], [m EXCEPT !.hops = <<"u", "x/b">>], 
                [m EXCEPT !.scope = {"w"}], [m EXCEPT !.jti = "j"]} : c \in MCClaims}
=============================================================================
