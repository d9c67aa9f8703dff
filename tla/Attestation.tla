------------------------------ MODULE Attestation ------------------------------
(***************************************************************************)
(* Who runs an actor token's workload: internal/attest, with the choice of *)
(* the verifying key in internal/token/jws.go and the live keys of an OIDC *)
(* provider in internal/verify.  The provider rotates its keys and moves   *)
(* its key set between the requests of one attestation.                    *)
(*                                                                         *)
(* A signature is the key that made it; a key's type fixes its algorithm.  *)
(* Audience and expiry of an actor token are one bit.                      *)
(***************************************************************************)
EXTENDS Naturals, Sequences

CONSTANTS Tokens,   \* actor tokens: [kid, alg, by, sub, iss, valid]
          Files,    \* what the files of workload keys hold, in their order
          KeySets,  \* what the provider publishes: sequences of [kid, alg, by, sub]
          AlgOf,    \* the algorithm of a key pair
          Spiffe,   \* subjects that are spiffe:// names
          Issuer,   \* the configured provider
          URI,      \* where it keeps its key set
          None      \* an empty string, or no result

VARIABLES local,   \* the keys of LocalKeys
          uri,     \* the jwks_uri of the discovery document
          docs,    \* the key set at each of them
          pc,      \* where the attestation is
          tok,     \* its actor token
          found,   \* the jwks_uri it was told
          result,  \* the workload identity, or None
          lost,    \* a request to the provider failed
          seen     \* history: the key sets published since it began

vars == <<local, uri, docs, pc, tok, found, result, lost, seen>>

-----------------------------------------------------------------------------
(* internal/token/jws.go *)

\* A key set has keys at some positions; the order is that of the positions.
First(ks, positions) == 
    ks[CHOOSE i \in positions : \A j \in positions : i <= j]

Last(ks, positions) == 
    ks[CHOOSE i \in positions : \A j \in positions : j <= i]

Singleton(positions) == \E i \in positions : positions = {i}

Namesakes(ks, i) == {j \in DOMAIN ks : j = i \/ (ks[i].kid # None /\ ks[j].kid = ks[i].kid)}

\* MergeJWKS: a key takes the place of an earlier one of the same name.
MergeJWKS(ks) ==
    [i \in {i \in DOMAIN ks : \A j \in Namesakes(ks, i) : i <= j} |-> 
        Last(ks, Namesakes(ks, i))]

\* With a seeded bug: the key is chosen by its name alone.
SelectKeyByName(ks, kid, alg) ==
    LET matched == {i \in DOMAIN ks : kid \in {None, ks[i].kid}}
    IN  IF matched = {} THEN None ELSE First(ks, matched)

\* selectKey: by kid and alg; without a kid only what is unambiguous.
SelectKey(ks, kid, alg) ==
    LET matched == {i \in DOMAIN ks : /\ kid \in {None, ks[i].kid}
                                      /\ ks[i].alg \in {None, alg}}
        candidates == IF kid = None /\ ~Singleton(matched) 
                      THEN {i \in DOMAIN ks : Singleton(DOMAIN ks)} ELSE matched
    IN  IF candidates = {} THEN None ELSE First(ks, candidates)

\* matchAlg, and verifySig under the key's own type
Matches(t, k) == 
    /\ t.alg = AlgOf[k.by]
    /\ k.alg \in {None, t.alg}
    /\ k.by = t.by

\* VerifyKey: the key that satisfied the signature, or None.
VerifyKey(t, ks) ==
    LET k == SelectKey(ks, t.kid, t.alg)
    IN  IF k # None /\ Matches(t, k) THEN k ELSE None

-----------------------------------------------------------------------------
(* internal/attest *)

\* LocalKeys.Attest: the key is that workload's, and it possesses it.
LocalAttest(t) ==
    LET k == VerifyKey(t, local)
    IN  IF k # None /\ t.sub # None /\ k.sub = t.sub /\ t.valid
        THEN [id |-> t.sub, jkt |-> k.by] ELSE None

\* SPIFFEJWT.Attest: the key is the provider's, the workload possesses none.
SVIDAttest(t, ks) ==
    IF /\ VerifyKey(t, ks) # None
       /\ t.sub \in Spiffe /\ t.iss = Issuer /\ t.valid
    THEN [id |-> t.sub, jkt |-> None] ELSE None

-----------------------------------------------------------------------------
(* The provider *)

Init ==
    /\ \E ks \in Files : local = MergeJWKS(ks)
    /\ uri \in URI
    /\ \E ks \in KeySets : docs = [u \in URI |-> ks]
    /\ pc = "idle"
    /\ tok = None /\ found = None /\ result = None
    /\ lost = FALSE
    /\ seen = {}

\* It publishes another key set, at the same place or at another one; what was
\* at the old place stays there.
Publish(u, ks) ==
    /\ pc # "done"
    /\ uri' = u
    /\ docs' = [docs EXCEPT ![u] = ks]
    /\ seen' = IF pc = "idle" THEN {} ELSE seen \cup {ks}
    /\ UNCHANGED <<local, pc, tok, found, result, lost>>

-----------------------------------------------------------------------------
(* An attestation *)

\* FirstSuccessful: the local keys first, and the provider if they do not do.
Begin(t) ==
    /\ pc = "idle"
    /\ tok' = t
    /\ result' = LocalAttest(t)
    /\ pc' = IF LocalAttest(t) = None THEN "begun" ELSE "done"
    /\ seen' = {docs[uri]}
    /\ UNCHANGED <<local, uri, docs, found, lost>>

\* A request to the provider fails: the workload is unattested.
Lose ==
    /\ pc \in {"begun", "discovered"}
    /\ pc' = "done"
    /\ lost' = TRUE
    /\ UNCHANGED <<local, uri, docs, tok, found, result, seen>>

\* With a seeded bug: discovery is done once.
FetchOIDCOnce ==
    /\ pc = "begun"
    /\ pc' = "discovered"
    /\ found' = IF found = None THEN uri ELSE found
    /\ UNCHANGED <<local, uri, docs, tok, result, lost, seen>>

\* FetchOIDC: where the keys are,
FetchOIDC ==
    /\ pc = "begun"
    /\ pc' = "discovered"
    /\ found' = uri
    /\ UNCHANGED <<local, uri, docs, tok, result, lost, seen>>

\* FetchJWKS: and what they are; an empty set attests nobody.
FetchJWKS ==
    /\ pc = "discovered"
    /\ pc' = "done"
    /\ result' = SVIDAttest(tok, docs[found])
    /\ UNCHANGED <<local, uri, docs, tok, found, lost, seen>>

\* The exchange has its answer.
End ==
    /\ pc = "done"
    /\ pc' = "idle"
    /\ tok' = None /\ result' = None /\ lost' = FALSE /\ seen' = {}
    /\ UNCHANGED <<local, uri, docs, found>>

Next ==
    \/ \E t \in Tokens : Begin(t)
    \/ End \/ Lose \/ FetchOIDC \/ FetchJWKS
    \/ \E u \in URI, ks \in KeySets : Publish(u, ks)

Spec == Init /\ [][Next]_vars

-----------------------------------------------------------------------------
(* Properties *)

Attested == pc = "done" /\ result # None

\* A key that was withdrawn before an attestation began attests nobody, wherever 
\* the provider has moved in the meantime: the signature is by a key, of its own
\* algorithm, that was published since (LiveOIDC).  A key that a workload is
\* said to possess has signed its token and is given to this very workload by a 
\* file: it is never the provider's, nor another workload's.
OnlyLiveKeys ==
    Attested =>
        IF result.jkt = None
        THEN \E ks \in seen : \E i \in DOMAIN ks : 
                 ks[i].by = tok.by /\ AlgOf[ks[i].by] = tok.alg
        ELSE /\ result.jkt = tok.by
             /\ \E i \in DOMAIN local : 
                    local[i].by = result.jkt /\ local[i].sub = result.id

\* What a signer with this key puts in its token.
Honest(t, k) == t.kid # None /\ t.kid = k.kid /\ t.by = k.by /\ t.alg = AlgOf[k.by]

\* The last file that names a key gives it to this workload.
InLastFile(t) ==
    \E ks \in Files : \E i \in DOMAIN ks :
        /\ local = MergeJWKS(ks)
        /\ \A j \in DOMAIN ks : j > i => ks[j].kid # ks[i].kid
        /\ ks[i].sub # None /\ t.sub = ks[i].sub /\ Honest(t, ks[i])

\* Its key stays published under its name.
InPlace(t) ==
    /\ t.sub \in Spiffe /\ t.iss = Issuer
    /\ \A ks \in seen : \E i \in DOMAIN ks : Honest(t, ks[i])

\* A rotation refuses nobody whose key stays published under its name while the
\* attestation runs, though the key set moves between the two requests and keys
\* of another algorithm have the same name; and a workload is attested by the
\* last file that names its key, whatever earlier files say of that name.
ThroughoutAttested ==
    pc = "done" /\ tok.valid =>
        /\ InLastFile(tok) => result # None /\ result.jkt = tok.by
        /\ InPlace(tok) /\ ~lost => result # None
=============================================================================
