-------------------------------- MODULE MCKeys --------------------------------
(* Keys with three kids over two key pairs, and with two Ed25519 keys and an *)
(* RSA key that workloads attest with; in the key sets of the provider these *)
(* are alone, follow one another, share a name or have none.                 *)
EXTENDS Keys, TLC

CONSTANTS k1, k2, k3, m1, m2

Interchangeable == Permutations({k1, k2, k3}) \cup Permutations({m1, m2})
                       \cup Permutations(URI)

MCAlgOf == [k \in {"e1", "e2", "r1"} |-> IF k = "r1" THEN "RS256" ELSE "EdDSA"]

Key(kid, alg, by, sub) == [kid |-> kid, alg |-> alg, by |-> by, sub |-> sub]

MCKeySets ==
    {<<Key("a", None, "e1", None)>>, 
     <<Key("a", "EdDSA", "e1", None), Key("b", "EdDSA", "e2", None)>>,
     <<Key("a", "RS256", "r1", None), Key("a", "EdDSA", "e1", None)>>,
     <<Key(None, "EdDSA", "e1", None), Key("b", "RS256", "r1", None)>>,
     <<Key("b", None, "e2", None)>>}

MCFiles ==
    {<<Key("a", "EdDSA", "e2", "w")>>,
     <<Key("a", "EdDSA", "e1", "v"), Key("b", "EdDSA", "e1", "v"), 
       Key("a", "EdDSA", "e2", "w")>>,
     <<Key("a", None, "e1", None), Key(None, "EdDSA", "e2", "w")>>}

MCTokens ==
    [kid : {None, "a", "b"}, alg : {"EdDSA", "RS256"}, by : {"e1", "e2", "r1"},
     sub : {"w"}, iss : {"idp"}, valid : {TRUE}] \cup
    {[kid |-> "b", alg |-> "EdDSA", by |-> "e1", sub |-> "v", iss |-> "idp", 
      valid |-> TRUE],
     [kid |-> "a", alg |-> "EdDSA", by |-> "e1", sub |-> None, iss |-> "idp", 
      valid |-> TRUE],
     [kid |-> "a", alg |-> "EdDSA", by |-> "e1", sub |-> "w", iss |-> "other", 
      valid |-> TRUE],
     [kid |-> "a", alg |-> "EdDSA", by |-> "e2", sub |-> "w", iss |-> "idp", 
      valid |-> FALSE]}
=============================================================================
