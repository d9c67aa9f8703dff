--------------------------------- MODULE Keys ---------------------------------
(* The keys that tokens are signed with, and those that workloads attest     *)
(* with.                                                                     *)
(*                                                                           *)
(* In part "ring" an operator rotates kids over key pairs while exchanges    *)
(* are under way.  In part "attest" workloads attest to the token endpoint,  *)
(* with keys of their own from files or with those of a provider.            *)
EXTENDS Keyring

CONSTANTS Tokens, Files, KeySets, AlgOf, Spiffe, Issuer, URI, None

\* A token is by some key; key sets are sequences, and a key that declares an
\* algorithm declares its own; and no key, and no identity, is an empty string.
ASSUME KeysAssumption ==
    /\ \A t \in Tokens : t.by # None
    /\ \A ks \in Files \cup KeySets : 
          /\ ks \in Seq({ks[i] : i \in DOMAIN ks})
          /\ \A i \in DOMAIN ks : /\ ks[i] # None 
                                  /\ ks[i].alg \in {None, AlgOf[ks[i].by]}
    /\ \A t \in Tokens : \A jkt \in {t.by, None} :
          None # [id |-> t.sub, jkt |-> jkt]

\* A provider that gives two keys one name tells them apart by algorithm.
ASSUME NamesAssumption ==
    \A ks \in KeySets : \A i, j \in DOMAIN ks : 
        i # j /\ ks[i].kid # None /\ ks[i].kid = ks[j].kid => 
            None \notin {ks[i].alg, ks[j].alg} /\ ks[i].alg # ks[j].alg

VARIABLES part, local, uri, docs, step, tok, found, result, lost, seen

workload == <<local, uri, docs, step, tok, found, result, lost, seen>>

keysVars == <<vars, part, workload>>

Workload == INSTANCE Attestation WITH pc <- step

-----------------------------------------------------------------------------

KeysInit ==
    /\ Init
    /\ \/ /\ part = "ring" 
          /\ local = None /\ uri = None /\ docs = None /\ step = "off"
          /\ tok = None /\ found = None /\ result = None /\ lost = None
          /\ seen = None
       \/ part = "attest" /\ Workload!Init

Stay == part = "ring" /\ UNCHANGED <<part, workload>>
Idle == part = "attest" /\ UNCHANGED <<vars, part>>

KeysNext ==
    \/ Stay /\ Tick
    \/ Stay /\ Refresh
    \/ \E x \in Exchange : 
          \/ Stay /\ Begin(x)
          \/ Stay /\ ReadClock(x)
          \/ Stay /\ SignClaims(x)
          \/ Stay /\ Abandon(x)
    \/ Stay /\ \E next \in Rings : Reload(next)
    \/ Stay /\ \E k \in Kid : Burn(k)
    \/ Stay /\ \E k \in Kid : StartWait(k)
    \/ Idle /\ \E t \in Tokens : Workload!Begin(t)
    \/ Idle /\ Workload!End
    \/ Idle /\ Workload!Lose
    \/ Idle /\ Workload!FetchOIDC
    \/ Idle /\ Workload!FetchJWKS
    \/ Idle /\ \E u \in URI, ks \in KeySets : Workload!Publish(u, ks)

KeysSpec == KeysInit /\ [][KeysNext]_keysVars

-----------------------------------------------------------------------------
(* Properties of attestation *)

\* A workload is attested by a key of the provider that was live since the
\* attestation began, or as the possessor of a key of its own (LiveOIDC,
\* LocalKeys).
OnlyLiveKeys == part = "attest" => Workload!OnlyLiveKeys

\* Nobody is refused whose key is in place throughout, in the last file that
\* names it or at the provider, however the provider moves (selectKey,
\* MergeJWKS).
ThroughoutAttested == part = "attest" => Workload!ThroughoutAttested
=============================================================================
