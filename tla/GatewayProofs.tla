---------------------------- MODULE GatewayProofs ----------------------------
(***************************************************************************)
(* Proofs about visor-gateway, for any requests, handlers, nonces, clocks, *)
(* contents of the denylist file and restarts: what a nonce, a proof and a *)
(* record are good for, and that a revocation binds.  Then about a session *)
(* and whatever answers it: who mcp-visor runs as.                         *)
(***************************************************************************)
EXTENDS Sessions, FiniteSetTheorems, TLAPS

\* Where a handler has a verified request, where it has shown the request's key
\* and where its nonce is spent.
Verified == {"verified", "cleared", "proven", "fresh", "spent", "allowed", 
             "recorded"}
Cleared == Verified \ {"verified"}
Proven == Cleared \ {"cleared"}
ProofSpent == {"spent", "allowed", "recorded"}
NonceSpent == {"allowed", "recorded"}

\* What a handler holds of its request.
RequestInv ==
    \A p \in Proc :
        /\ pc[p] \in Verified => req[p] \in Requests
        /\ pc[p] \in Proven => req[p].proof # None /\ clock[p] >= 1

\* A nonce that was spent is gone from the cache for good: no handler that has
\* spent one shares it with another or with what was forwarded.
NonceInv ==
    /\ \A i \in DOMAIN forwarded : /\ forwarded[i].nonce \in 1..issued
                                   /\ nonces[forwarded[i].nonce] = 0
    /\ \A p \in Proc : pc[p] \in NonceSpent =>
          /\ req[p].nonce \in 1..issued
          /\ nonces[req[p].nonce] = 0
          /\ \A i \in DOMAIN forwarded : forwarded[i].nonce # req[p].nonce
          /\ \A q \in Proc \ {p} : 
                pc[q] \in NonceSpent => req[q].nonce # req[p].nonce
    /\ NonceBacksOneForward

\* What was forwarded or is about to be is on record.
RecordInv ==
    /\ \A i \in DOMAIN forwarded : \E k \in DOMAIN audit : audit[k] = forwarded[i]
    /\ \A p \in Proc : pc[p] = "recorded" =>
          \E k \in DOMAIN audit : audit[k] = Decision(p)

\* Contents of the denylist file clear a token.
Clears(file, t) ==
    LET hops == Hops(t)
    IN  /\ file # None
        /\ DenyChain(file, hops[1], hops[Len(hops)], hops) = "ok"

\* What was forwarded or is about to be was cleared since it arrived.
DenylistInv ==
    /\ \A p \in Proc : pc[p] \in Cleared =>
          /\ checked[p] \in DOMAIN files /\ req[p].arrived <= checked[p]
          /\ Clears(files[checked[p]], req[p].token)
    /\ \A i \in DOMAIN forwarded : 
          LET f == forwarded[i]
          IN  /\ f.checked \in DOMAIN files /\ f.arrived <= f.checked 
              /\ Clears(files[f.checked], f.token)

\* Two grants are for two proofs.
Apart(a, b) == 
    \E k, l \in DOMAIN grants : /\ k # l
                                /\ grants[k].claim = ProofClaim(a)
                                /\ grants[l].claim = ProofClaim(b)

Granted(a) == \E k \in DOMAIN grants : grants[k].claim = ProofClaim(a)

\* The cache grants a jti again only when the window of its last proof is over, 
\* and unless its log was lost, every two requests that are forwarded or about
\* to be have grants of their own.
ProofInv ==
    /\ \A k, l \in DOMAIN grants : 
          k < l /\ grants[k].claim.jti = grants[l].claim.jti
          => ReplayUntil(grants[k].claim.exp) < grants[l].at
    /\ ~lost =>
          /\ \A i \in DOMAIN forwarded : Granted(forwarded[i].proof)
          /\ \A i, j \in DOMAIN forwarded : 
                i # j => Apart(forwarded[i].proof, forwarded[j].proof)
          /\ \A p \in Proc : pc[p] \in ProofSpent =>
                /\ Granted(req[p].proof)
                /\ \A i \in DOMAIN forwarded : 
                      Apart(forwarded[i].proof, req[p].proof)
                /\ \A q \in Proc \ {p} : pc[q] \in ProofSpent =>
                      Apart(req[q].proof, req[p].proof)

IInv == /\ TypeOK /\ RequestInv /\ NonceInv /\ RecordInv /\ DenylistInv 
        /\ ProofInv

-----------------------------------------------------------------------------
(* Types *)

LEMMA Bounds == 
    /\ NonceTTL \in Nat \ {0} /\ MaxTime \in Nat \ {0} /\ MaxNonces \in Nat
  BY GatewayAssumption

LEMMA InitTyped == Init => IInv
  <1> SUFFICES ASSUME Init PROVE IInv
    OBVIOUS
  <1>1. TypeOK
    <2>1. NonceType /\ HandlerType
      BY Bounds DEF Init, NonceType, HandlerType, NoNonce
    <2>2. PICK f \in File : files = <<f>>
      BY DEF Init
    <2> QED
      BY <2>1, <2>2 DEF Init, TypeOK, SinkType
  <1>2. RequestInv /\ NonceInv /\ RecordInv /\ DenylistInv /\ ProofInv
    BY DEF Init, RequestInv, NonceInv, NonceBacksOneForward, RecordInv, 
           DenylistInv, ProofInv, Verified, Cleared, Proven, ProofSpent, NonceSpent
  <1> QED
    BY <1>1, <1>2 DEF IInv

\* Steps of a handler that are about nothing but the handler and the sinks.
NonceQuiet(p) ==
    \/ \E t \in Token, proof \in Proof \cup {None}, 
          n \in known \cup {NoNonce} : Arrive(p, t, proof, n)
    \/ Refuse(p) \/ CheckDenylist(p) \/ CheckProof(p) \/ HasNonce(p)
    \/ ConsumeProof(p) \/ ConsumeProofFails(p) \/ Record(p)

\* Steps of a handler that end with an answer to the client.
Answering(p) == Deny(p) \/ RecordFails(p) \/ Finish(p)

LEMMA Steps ==
    ASSUME NEW p \in Proc, HandlerStep(p)
    PROVE  \/ NonceQuiet(p) \/ Answering(p) 
           \/ ConsumeNonce(p) \/ Challenge(p) \/ Forward(p)
  BY DEF HandlerStep, NonceQuiet, Answering

LEMMA QuietFrame ==
    ASSUME NEW p \in Proc, NonceQuiet(p)
    PROVE  UNCHANGED <<now, issued, nonces, known>>
  BY DEF NonceQuiet, Arrive, Refuse, CheckDenylist, CheckProof, HasNonce, ConsumeProof, 
         Replay!Grant, ConsumeProofFails, Record, Goto

LEMMA AnswerFrame ==
    ASSUME NEW p \in Proc, Answering(p)
    PROVE  /\ UNCHANGED <<now, files, issued, nonces, grants, audit, forwarded, lost>>
           /\ Answer(p)
  BY DEF Answering, Deny, RecordFails, Finish

LEMMA AnswerKnown ==
    ASSUME TypeOK, NEW p \in Proc, Answer(p)
    PROVE  known' \subseteq 1..issued
  <1>1. issued \in Nat /\ known \subseteq 1..issued /\ fresh[p] \in 0..issued
    BY Bounds DEF TypeOK, NonceType, HandlerType
  <1>2. SUFFICES ASSUME NEW n \in known' PROVE n \in 1..issued
    OBVIOUS
  <1>3. n \in known \/ (n = fresh[p] /\ n # 0)
    BY DEF Answer, NoNonce
  <1>4. CASE n \in known
    BY <1>1, <1>4
  <1>5. CASE n = fresh[p] /\ n # 0
    BY <1>1, <1>5
  <1> QED
    BY <1>3, <1>4, <1>5

LEMMA NonceTyped == TypeOK /\ [Next]_vars => NonceType' /\ issued <= issued'
  <1> SUFFICES ASSUME TypeOK, [Next]_vars PROVE NonceType' /\ issued <= issued'
    OBVIOUS
  <1> USE Bounds DEF TypeOK, NonceType, HandlerType, NoNonce
  <1>1. CASE UNCHANGED vars
    BY <1>1 DEF vars, handler
  <1>2. CASE Tick
    BY <1>2 DEF Tick, handler
  <1>3. CASE Restart
    BY <1>3 DEF Restart
  <1>4. ASSUME NEW file \in File, Edit(file) PROVE NonceType' /\ issued <= issued'
    BY <1>4 DEF Edit, handler
  <1>5. ASSUME NEW p \in Proc, HandlerStep(p) PROVE NonceType' /\ issued <= issued'
    <2>1. CASE NonceQuiet(p)
      <3>1. UNCHANGED <<now, issued, nonces, known>>
        BY <2>1, QuietFrame
      <3> QED
        BY <3>1
    <2>2. CASE Answering(p)
      <3>1. UNCHANGED <<now, issued, nonces>> /\ Answer(p)
        BY <2>2, AnswerFrame
      <3>2. known' \subseteq 1..issued
        BY <3>1, AnswerKnown
      <3> QED
        BY <3>1, <3>2
    <2>3. CASE ConsumeNonce(p)
      <3>1. /\ nonces' \in [1..MaxNonces -> Nat]
            /\ \A n \in 1..MaxNonces : nonces'[n] \in {0, nonces[n]}
        BY <2>3 DEF ConsumeNonce
      <3> QED
        BY <2>3, <3>1 DEF ConsumeNonce
    <2>4. ASSUME Issue(p), UNCHANGED <<now, known>> 
          PROVE  NonceType' /\ issued <= issued'
      BY <2>4 DEF Issue
    <2> QED
      BY <1>5, <2>1, <2>2, <2>3, <2>4, Steps DEF Challenge, Forward
  <1> QED
    BY <1>1, <1>2, <1>3, <1>4, <1>5 DEF Next

\* What a handler that spends its proof, or is about to be on record, holds.
LEMMA HoldsProof ==
    ASSUME TypeOK, RequestInv, NEW p \in Proc, pc[p] \in Proven
    PROVE  /\ req[p] \in Requests /\ req[p].proof \in Proof
           /\ ProofClaim(req[p].proof) \in ProofClaims
           /\ Decision(p) \in Decisions
  <1>1. req[p] \in Requests /\ req[p].proof # None
    BY DEF RequestInv, Proven, Cleared, Verified
  <1>2. req[p].proof \in Proof /\ req[p].token \in Token 
        /\ req[p].nonce \in Nat /\ req[p].arrived \in Nat /\ checked[p] \in Nat
    BY <1>1 DEF Requests, TypeOK, HandlerType, NonceType
  <1> QED
    BY <1>1, <1>2, GatewayAssumption DEF ProofClaim, ProofClaims, Decision, Decisions

LEMMA SinkTyped == 
    TypeOK /\ RequestInv /\ [Next]_vars => SinkType' /\ Len(files) <= Len(files')
  <1> SUFFICES ASSUME TypeOK, RequestInv, [Next]_vars 
               PROVE  SinkType' /\ Len(files) <= Len(files')
    OBVIOUS
  <1> USE DEF TypeOK, SinkType
  <1>1. CASE UNCHANGED <<files, grants, audit, forwarded>>
    BY <1>1
  <1>2. CASE Restart
    <2>1. UNCHANGED <<files, audit, forwarded>>
      BY <1>2 DEF Restart
    <2>2. grants' \in Seq(Grants)
      <3>1. grants' = grants \/ grants' = <<>>
        BY <1>2 DEF Restart
      <3>2. grants \in Seq(Grants) /\ <<>> \in Seq(Grants)
        OBVIOUS
      <3> HIDE DEF TypeOK, SinkType
      <3> QED
        BY <3>1, <3>2
    <2> QED
      BY <2>1, <2>2
  <1>3. ASSUME NEW file \in File, Edit(file) 
        PROVE  SinkType' /\ Len(files) <= Len(files')
    BY <1>3 DEF Edit
  <1>4. ASSUME NEW p \in Proc, HandlerStep(p) 
        PROVE  SinkType' /\ Len(files) <= Len(files')
    <2>1. CASE ConsumeProof(p)
      <3>1. ProofClaim(req[p].proof) \in ProofClaims
        BY <2>1, HoldsProof DEF ConsumeProof, Proven, Cleared, Verified
      <3>2. [claim |-> ProofClaim(req[p].proof), at |-> now] \in Grants
        BY <3>1 DEF Grants, NonceType
      <3> QED
        BY <2>1, <3>2 DEF ConsumeProof, Replay!Grant
    <2>2. CASE Record(p)
      BY <2>2, HoldsProof, SMTT(30) DEF Record, Proven, Cleared, Verified
    <2>3. CASE Forward(p)
      BY <2>3, HoldsProof DEF Forward, Proven, Cleared, Verified
    <2> QED
      BY <1>1, <1>4, <2>1, <2>2, <2>3 
      DEF HandlerStep, Arrive, Refuse, CheckDenylist, CheckProof, HasNonce, Goto,
          ConsumeProofFails, ConsumeNonce, Challenge, Deny, RecordFails, Finish
  <1> QED
    BY <1>1, <1>2, <1>3, <1>4 DEF Next, Tick, vars

LEMMA HandlerTyped == TypeOK /\ RequestInv /\ [Next]_vars => HandlerType'
  <1> SUFFICES ASSUME TypeOK, RequestInv, [Next]_vars PROVE HandlerType'
    OBVIOUS
  <1>0. /\ now \in Nat /\ issued \in Nat /\ Len(files) \in Nat
        /\ now' \in Nat /\ issued' \in Nat /\ Len(files') \in Nat
        /\ issued <= issued' /\ Len(files) <= Len(files')
    BY NonceTyped, SinkTyped, Bounds, SMTT(30) DEF TypeOK, NonceType, SinkType
  <1>1. HandlerType
    BY DEF TypeOK
  <1> USE <1>0, <1>1 DEF HandlerType, NoNonce
  <1>2. CASE UNCHANGED vars
    BY <1>2 DEF vars, handler
  <1>3. CASE Tick
    BY <1>3 DEF Tick, handler
  <1>4. CASE Restart
    BY <1>4 DEF Restart
  <1>5. ASSUME NEW file \in File, Edit(file) PROVE HandlerType'
    BY <1>5 DEF Edit, handler
  <1>6. ASSUME NEW p \in Proc, HandlerStep(p) PROVE HandlerType'
    <2>1. CASE Answering(p)
      <3>1. UNCHANGED <<now, files, issued>> /\ Answer(p)
        BY <2>1, AnswerFrame
      <3> QED
        BY <3>1 DEF Answer
    <2>2. ASSUME Issue(p), UNCHANGED <<now, files, checked, clock>>,
                 NEW label \in {"denied", "forwarded"}, pc' = [pc EXCEPT ![p] = label]
          PROVE  HandlerType'
      <3>1. fresh' = [fresh EXCEPT ![p] = issued'] /\ issued' = issued + 1
        BY <2>2 DEF Issue
      <3> QED
        BY <2>2, <3>1
    <2>3. ASSUME UNCHANGED <<now, files, issued, fresh>>,
                 NEW label \in {"denied", "verified", "cleared", "proven", "fresh", 
                               "spent", "allowed", "recorded", "challenge"}, 
                 pc' = [pc EXCEPT ![p] = label],
                 \/ checked' = checked
                 \/ checked' = [checked EXCEPT ![p] = Len(files)],
                 \/ clock' = clock
                 \/ clock' = [clock EXCEPT ![p] = now]
          PROVE  HandlerType'
      <3>1. pc' \in [Proc -> {"idle", "verified", "cleared", "proven", "fresh", 
                   "spent", "allowed", "recorded", "forwarded", "challenge", "denied"}]
        BY <2>3
      <3>2. checked' \in [Proc -> 0..Len(files')]
        BY <2>3
      <3>3. clock' \in [Proc -> 0..now']
        <4>1. now' = now /\ now \in 0..now /\ clock \in [Proc -> 0..now]
          BY <2>3
        <4> HIDE DEF HandlerType
        <4> QED
          BY <2>3, <4>1
      <3>4. fresh' \in [Proc -> 0..issued']
        BY <2>3
      <3> QED
        BY <3>1, <3>2, <3>3, <3>4
    <2>4. CASE NonceQuiet(p) \/ ConsumeNonce(p)
      BY <2>3, <2>4 
      DEF NonceQuiet, Arrive, Refuse, CheckDenylist, CheckProof, HasNonce, 
          ConsumeProof, Replay!Grant, ConsumeProofFails, ConsumeNonce, Record, Goto
    <2> QED
      BY <1>6, <2>1, <2>2, <2>4, Steps DEF Challenge, Forward
  <1> QED
    BY <1>2, <1>3, <1>4, <1>5, <1>6 DEF Next

\* A request stays one when the nonces and the contents of the file grow.
LEMMA RequestsGrow ==
    ASSUME TypeOK, NonceType', issued <= issued', SinkType', 
           Len(files) <= Len(files')
    PROVE  Requests \subseteq Requests'
  <1>1. 0..issued \subseteq 0..issued' /\ 1..Len(files) \subseteq 1..Len(files')
    BY DEF TypeOK, NonceType, SinkType
  <1> QED
    BY <1>1 DEF Requests

LEMMA ArriveRequest ==
    ASSUME TypeOK, NEW t \in Token, NEW proof \in Proof \cup {None},
           NEW n \in known \cup {NoNonce}
    PROVE  [token |-> t, proof |-> proof, nonce |-> n, 
            arrived |-> Len(files)] \in Requests
  <1>1. n \in 0..issued /\ Len(files) \in 1..Len(files)
    BY Bounds DEF TypeOK, NonceType, SinkType, NoNonce
  <1> QED
    BY <1>1 DEF Requests

LEMMA RequestTyped == 
    TypeOK /\ RequestInv /\ [Next]_vars => req' \in [Proc -> Requests' \cup {None}]
  <1> SUFFICES ASSUME TypeOK, RequestInv, [Next]_vars 
               PROVE  req' \in [Proc -> Requests' \cup {None}]
    OBVIOUS
  <1>0. Requests \subseteq Requests'
    BY NonceTyped, SinkTyped, RequestsGrow
  <1> USE <1>0 DEF TypeOK
  <1>1. CASE UNCHANGED req
    BY <1>1
  <1>2. CASE Restart
    BY <1>2 DEF Restart
  <1>3. ASSUME NEW p \in Proc, HandlerStep(p) 
        PROVE  req' \in [Proc -> Requests' \cup {None}]
    <2>1. CASE Answering(p)
      BY <2>1, AnswerFrame DEF Answer
    <2>2. ASSUME NEW t \in Token, NEW proof \in Proof \cup {None},
                 NEW n \in known \cup {NoNonce}, Arrive(p, t, proof, n)
          PROVE  req' \in [Proc -> Requests' \cup {None}]
      <3>1. [token |-> t, proof |-> proof, nonce |-> n, 
             arrived |-> Len(files)] \in Requests
        BY ArriveRequest
      <3> QED
        BY <2>2, <3>1 DEF Arrive
    <2>3. CASE ConsumeProof(p)
      BY <1>1, <2>3 DEF ConsumeProof
    <2> QED
      BY <1>1, <1>3, <2>1, <2>2, <2>3
      DEF HandlerStep, Refuse, CheckDenylist, CheckProof, HasNonce, Goto,
          ConsumeProofFails, ConsumeNonce, Challenge, Record, Forward, Answering
  <1> QED
    BY <1>1, <1>2, <1>3 DEF Next, Tick, Edit, vars, handler

LEMMA TypeStep == TypeOK /\ RequestInv /\ [Next]_vars => TypeOK'
  BY NonceTyped, SinkTyped, HandlerTyped, RequestTyped DEF TypeOK

-----------------------------------------------------------------------------
(* Requests *)

\* Steps by which a handler goes on with its request.
Advances(p) == \/ CheckDenylist(p) \/ CheckProof(p) \/ HasNonce(p) 
               \/ ConsumeProof(p) \/ ConsumeNonce(p) \/ Record(p)

\* A step of one handler leaves the others where they are.
LEMMA Others ==
    ASSUME TypeOK, NEW p \in Proc, HandlerStep(p), NEW q \in Proc \ {p}
    PROVE  /\ pc'[q] = pc[q] /\ req'[q] = req[q] 
           /\ checked'[q] = checked[q] /\ clock'[q] = clock[q]
  <1> USE DEF TypeOK, HandlerType
  <1>1. CASE NonceQuiet(p)
    BY <1>1 DEF NonceQuiet, Arrive, Refuse, CheckDenylist, CheckProof, HasNonce, 
                ConsumeProof, Replay!Grant, ConsumeProofFails, Record, Goto
  <1>2. CASE Answering(p)
    BY <1>2, AnswerFrame DEF Answer
  <1>3. CASE ConsumeNonce(p) \/ Challenge(p) \/ Forward(p)
    BY <1>3 DEF ConsumeNonce, Challenge, Forward
  <1> QED
    BY <1>1, <1>2, <1>3, Steps

\* A handler with a verified request has just got it, or goes on with it.
LEMMA Moves ==
    ASSUME TypeOK, NEW p \in Proc, HandlerStep(p), pc'[p] \in Verified
    PROVE  \/ /\ pc'[p] = "verified" /\ req'[p] \in Requests
              /\ UNCHANGED <<files, grants, lost, audit, forwarded>>
           \/ Advances(p) /\ req' = req
  <1> USE DEF TypeOK, HandlerType
  <1>1. ASSUME NEW t \in Token, NEW proof \in Proof \cup {None},
               NEW n \in known \cup {NoNonce}, Arrive(p, t, proof, n)
        PROVE  /\ req'[p] \in Requests /\ pc'[p] \in {"verified", "denied"} 
               /\ UNCHANGED <<files, grants, lost, audit, forwarded>>
    <2>1. [token |-> t, proof |-> proof, nonce |-> n, 
           arrived |-> Len(files)] \in Requests
      BY ArriveRequest
    <2> QED
      BY <1>1, <2>1 DEF Arrive
  <1>2. CASE Answering(p)
    BY <1>2, AnswerFrame DEF Answer, Verified
  <1>3. CASE Challenge(p) \/ Forward(p)
    BY <1>3 DEF Challenge, Forward, Verified
  <1>4. CASE Refuse(p) \/ ConsumeProofFails(p)
    BY <1>4 DEF Refuse, ConsumeProofFails, Goto, Verified
  <1>5. CASE Advances(p)
    BY <1>5 DEF Advances, CheckDenylist, CheckProof, HasNonce, ConsumeProof, 
                ConsumeNonce, Record, Goto
  <1> QED
    BY <1>1, <1>2, <1>3, <1>4, <1>5, Steps DEF NonceQuiet, Advances, Verified

LEMMA RequestStep == TypeOK /\ RequestInv /\ [Next]_vars => RequestInv'
  <1> SUFFICES ASSUME TypeOK, RequestInv, [Next]_vars, NEW q \in Proc, 
                      pc'[q] \in Verified
               PROVE  /\ req'[q] \in Requests'
                      /\ pc'[q] \in Proven => req'[q].proof # None /\ clock'[q] >= 1
    BY DEF RequestInv, Proven, Cleared
  <1>0. Requests \subseteq Requests'
    BY NonceTyped, SinkTyped, RequestsGrow
  <1>1. CASE UNCHANGED <<pc, req, clock>>
    BY <1>0, <1>1 DEF RequestInv
  <1>2. CASE Restart
    BY <1>2 DEF Restart, Verified
  <1>3. ASSUME NEW p \in Proc, HandlerStep(p)
        PROVE  /\ req'[q] \in Requests'
               /\ pc'[q] \in Proven => req'[q].proof # None /\ clock'[q] >= 1
    <2>1. CASE q # p
      BY <1>0, <1>3, <2>1, Others DEF RequestInv
    <2>2. CASE q = p /\ pc'[p] = "verified" /\ req'[p] \in Requests
      BY <1>0, <2>2 DEF Proven, Cleared
    <2>3. CASE q = p /\ Advances(p) /\ req' = req
      <3>1. pc[p] \in Verified
        BY <2>3 DEF Advances, CheckDenylist, CheckProof, HasNonce, ConsumeProof, 
                    ConsumeNonce, Record, Verified
      <3>2. CASE CheckDenylist(p)
        BY <1>0, <2>3, <3>1, <3>2 
        DEF CheckDenylist, RequestInv, TypeOK, HandlerType, Proven, Cleared, Verified
      <3>3. CASE CheckProof(p)
        BY <1>0, <2>3, <3>1, <3>3 
        DEF CheckProof, ProvesPossession, RequestInv, TypeOK, HandlerType, NonceType,
            Proven, Cleared, Verified
      <3>4. CASE pc[p] \in Proven /\ UNCHANGED clock
        BY <1>0, <2>3, <3>1, <3>4 DEF RequestInv
      <3> QED
        BY <2>3, <3>2, <3>3, <3>4 
        DEF Advances, HasNonce, ConsumeProof, ConsumeNonce, Record, Goto, 
            Proven, Cleared, Verified
    <2> QED
      BY <1>3, <2>1, <2>2, <2>3, Moves
  <1> QED
    BY <1>1, <1>2, <1>3 DEF Next, Tick, Edit, vars, handler

-----------------------------------------------------------------------------
(* Nonces *)

\* A step that forwards nothing, spends no nonce for a handler and brings none back.
LEMMA NonceFrame ==
    ASSUME TypeOK, NonceInv, NonceType', issued <= issued', forwarded' = forwarded,
           \A n \in 1..issued : nonces[n] = 0 => nonces'[n] = 0,
           \A q \in Proc : pc'[q] \in NonceSpent => 
                              pc[q] \in NonceSpent /\ req'[q] = req[q]
    PROVE  NonceInv'
  <1>1. 1..issued \subseteq 1..issued'
    BY Bounds DEF TypeOK, NonceType
  <1>2. \A i \in DOMAIN forwarded' : /\ forwarded'[i].nonce \in 1..issued'
                                     /\ nonces'[forwarded'[i].nonce] = 0
    BY <1>1 DEF NonceInv
  <1>3. ASSUME NEW p \in Proc, pc'[p] \in NonceSpent
        PROVE  /\ req'[p].nonce \in 1..issued' /\ nonces'[req'[p].nonce] = 0
               /\ \A i \in DOMAIN forwarded' : forwarded'[i].nonce # req'[p].nonce
               /\ \A q \in Proc \ {p} : 
                     pc'[q] \in NonceSpent => req'[q].nonce # req'[p].nonce
    BY <1>1, <1>3 DEF NonceInv
  <1> QED
    BY <1>2, <1>3 DEF NonceInv, NonceBacksOneForward

\* The nonce cache keeps what was spent out of it.
LEMMA IssueKeeps ==
    ASSUME TypeOK, NEW p \in Proc, Issue(p)
    PROVE  /\ issued' = issued + 1
           /\ \A n \in 1..issued : nonces[n] = 0 => nonces'[n] = 0
  BY Bounds DEF Issue, TypeOK, NonceType

LEMMA NonceStep == 
    TypeOK /\ RequestInv /\ NonceInv /\ [Next]_vars => NonceInv'
  <1> SUFFICES ASSUME TypeOK, RequestInv, NonceInv, [Next]_vars PROVE NonceInv'
    OBVIOUS
  <1>0. NonceType' /\ issued <= issued' /\ issued \in Nat /\ issued' \in Nat
    BY NonceTyped DEF TypeOK, NonceType
  <1>1. CASE UNCHANGED <<nonces, forwarded, pc, req>>
    BY <1>0, <1>1, NonceFrame
  <1>2. CASE Restart
    <2>1. /\ forwarded' = forwarded /\ issued' = issued
          /\ \A n \in 1..issued : nonces[n] = 0 => nonces'[n] = 0
          /\ \A q \in Proc : pc'[q] \notin NonceSpent
      BY <1>2, Bounds DEF Restart, TypeOK, NonceType, NonceSpent
    <2> QED
      BY <1>0, <2>1, NonceFrame
  <1>3. ASSUME NEW p \in Proc, HandlerStep(p) PROVE NonceInv'
    <2>1. \A q \in Proc \ {p} : pc'[q] = pc[q] /\ req'[q] = req[q]
      BY <1>3, Others
    <2>2. CASE Forward(p)
      <3>1. /\ issued' = issued + 1 /\ req' = req
            /\ \A n \in 1..issued : nonces[n] = 0 => nonces'[n] = 0
            /\ forwarded' = Append(forwarded, Decision(p))
            /\ pc[p] \in NonceSpent /\ pc'[p] \notin NonceSpent
        BY <2>2, IssueKeeps DEF Forward, NonceSpent, TypeOK, HandlerType
      <3>2. forwarded \in Seq(Decisions) /\ Decision(p).nonce = req[p].nonce
        BY DEF TypeOK, SinkType, Decision
      <3>3. \A i \in DOMAIN forwarded' : 
               \/ i \in DOMAIN forwarded /\ forwarded'[i] = forwarded[i]
               \/ i = Len(forwarded) + 1 /\ forwarded'[i] = Decision(p)
        BY <3>1, <3>2
      <3>4. 1..issued \subseteq 1..issued'
        BY <1>0
      <3>5. \A i \in DOMAIN forwarded' : /\ forwarded'[i].nonce \in 1..issued'
                                         /\ nonces'[forwarded'[i].nonce] = 0
        BY <3>1, <3>2, <3>3, <3>4 DEF NonceInv
      <3>6. NonceBacksOneForward'
        BY <3>1, <3>2, <3>3 DEF NonceInv, NonceBacksOneForward
      <3>7. ASSUME NEW q \in Proc, pc'[q] \in NonceSpent
            PROVE  /\ req'[q].nonce \in 1..issued' /\ nonces'[req'[q].nonce] = 0
                   /\ \A i \in DOMAIN forwarded' : forwarded'[i].nonce # req'[q].nonce
                   /\ \A r \in Proc \ {q} : 
                         pc'[r] \in NonceSpent => req'[r].nonce # req'[q].nonce
        <4>1. q # p /\ pc[q] \in NonceSpent /\ req'[q] = req[q]
          BY <2>1, <3>1, <3>7
        <4>2. \A r \in Proc : pc'[r] \in NonceSpent => pc[r] \in NonceSpent
          BY <2>1, <3>1
        <4> QED
          BY <3>1, <3>2, <3>3, <3>4, <4>1, <4>2 DEF NonceInv
      <3> QED
        BY <3>5, <3>6, <3>7 DEF NonceInv
    <2>3. CASE ConsumeNonce(p) /\ pc'[p] = "allowed"
      <3> DEFINE n == req[p].nonce
      <3>1. /\ issued' = issued /\ forwarded' = forwarded /\ req' = req
            /\ nonces' = [nonces EXCEPT ![n] = 0] /\ pc[p] = "spent"
            /\ Has(n, clock[p])
        BY <2>3 DEF ConsumeNonce, TypeOK, HandlerType
      <3>2. clock[p] \in Nat /\ clock[p] >= 1 /\ n \in 0..issued
        <4>1. req[p] \in Requests /\ clock[p] >= 1
          BY <3>1 DEF RequestInv, Verified, Cleared, Proven
        <4>2. clock[p] \in Nat
          BY DEF TypeOK, HandlerType, NonceType
        <4> QED
          BY <4>1, <4>2 DEF Requests
      <3>3. n \in 1..issued /\ n \in 1..MaxNonces /\ nonces[n] # 0
        BY <3>1, <3>2, Bounds DEF Has, NoNonce, TypeOK, NonceType
      <3>4. nonces'[n] = 0 /\ \A m \in 1..issued : nonces[m] = 0 => nonces'[m] = 0
        BY <3>1, <3>3, Bounds DEF TypeOK, NonceType
      <3>5. \A i \in DOMAIN forwarded : forwarded[i].nonce # n
        BY <3>3 DEF NonceInv
      <3>6. \A q \in Proc \ {p} : pc'[q] \in NonceSpent => req'[q].nonce # n
        BY <2>1, <3>3 DEF NonceInv
      <3> HIDE DEF n
      <3>7. ASSUME NEW q \in Proc, pc'[q] \in NonceSpent
            PROVE  /\ req'[q].nonce \in 1..issued' /\ nonces'[req'[q].nonce] = 0
                   /\ \A i \in DOMAIN forwarded' : forwarded'[i].nonce # req'[q].nonce
                   /\ \A r \in Proc \ {q} : 
                         pc'[r] \in NonceSpent => req'[r].nonce # req'[q].nonce
        <4>1. CASE q = p
          BY <3>1, <3>3, <3>4, <3>5, <3>6, <4>1 DEF n
        <4>2. CASE q # p
          <5>1. pc[q] \in NonceSpent /\ req'[q] = req[q]
            BY <2>1, <3>7, <4>2
          <5>2. req'[p].nonce = n /\ req'[q].nonce # n
            BY <3>1, <3>6, <3>7, <4>2 DEF n
          <5> QED
            BY <2>1, <3>1, <3>4, <4>2, <5>1, <5>2 DEF NonceInv
        <4> QED
          BY <4>1, <4>2
      <3> QED
        BY <3>1, <3>4, <3>7 DEF NonceInv, NonceBacksOneForward
    <2>4. ASSUME pc'[p] \in NonceSpent => pc[p] \in NonceSpent /\ req'[p] = req[p],
                 forwarded' = forwarded,
                 \A n \in 1..issued : nonces[n] = 0 => nonces'[n] = 0
          PROVE  NonceInv'
      BY <1>0, <2>1, <2>4, NonceFrame
    <2>5. CASE ConsumeNonce(p) /\ pc'[p] # "allowed"
      <3>1. /\ pc'[p] \notin NonceSpent /\ forwarded' = forwarded
            /\ \A n \in 1..issued : nonces[n] = 0 => nonces'[n] = 0
        BY <2>5, Bounds DEF ConsumeNonce, NonceSpent, TypeOK, HandlerType, NonceType
      <3> QED
        BY <2>4, <3>1
    <2>6. CASE Challenge(p)
      BY <2>4, <2>6, IssueKeeps DEF Challenge, NonceSpent, TypeOK, HandlerType
    <2>7. CASE Answering(p)
      BY <2>4, <2>7, AnswerFrame DEF Answer, NonceSpent, TypeOK, HandlerType
    <2>8. CASE NonceQuiet(p)
      <3>1. nonces' = nonces
        BY <2>8, QuietFrame
      <3>2. /\ pc'[p] \in NonceSpent => pc[p] \in NonceSpent /\ req'[p] = req[p]
            /\ forwarded' = forwarded
        BY <2>8 DEF NonceQuiet, Arrive, Refuse, CheckDenylist, CheckProof, HasNonce, 
                    ConsumeProof, Replay!Grant, ConsumeProofFails, Record, Goto,
                    NonceSpent, TypeOK, HandlerType
      <3> QED
        BY <2>4, <3>1, <3>2
    <2> QED
      BY <1>3, <2>2, <2>3, <2>5, <2>6, <2>7, <2>8, Steps
  <1> QED
    BY <1>1, <1>2, <1>3 DEF Next, Tick, Edit, vars, handler

-----------------------------------------------------------------------------
(* Records *)

LEMMA RecordStep == 
    TypeOK /\ RequestInv /\ RecordInv /\ [Next]_vars => RecordInv'
  <1> SUFFICES ASSUME TypeOK, RequestInv, RecordInv, [Next]_vars PROVE RecordInv'
    OBVIOUS
  <1>0. audit \in Seq(Decisions) /\ forwarded \in Seq(Decisions)
    BY DEF TypeOK, SinkType
  <1>1. CASE UNCHANGED <<audit, forwarded, pc, req, checked>>
    BY <1>1 DEF RecordInv, Decision
  <1>2. CASE Restart
    BY <1>2 DEF Restart, RecordInv
  <1>3. ASSUME NEW p \in Proc, HandlerStep(p) PROVE RecordInv'
    <2>1. \A q \in Proc \ {p} : 
             /\ pc'[q] = pc[q] /\ req'[q] = req[q] /\ checked'[q] = checked[q]
             /\ Decision(q)' = Decision(q)
      BY <1>3, Others DEF Decision
    <2>2. CASE Record(p)
      <3>1. /\ audit' = Append(audit, Decision(p)) /\ forwarded' = forwarded
            /\ Decision(p)' = Decision(p)
        BY <2>2 DEF Record, Decision
      <3>2. /\ \A k \in DOMAIN audit : k \in DOMAIN audit' /\ audit'[k] = audit[k]
            /\ Len(audit) + 1 \in DOMAIN audit' 
            /\ audit'[Len(audit) + 1] = Decision(p)
        BY <1>0, <3>1
      <3>3. \A i \in DOMAIN forwarded' : 
               \E k \in DOMAIN audit' : audit'[k] = forwarded'[i]
        BY <3>1, <3>2 DEF RecordInv
      <3>4. ASSUME NEW q \in Proc, pc'[q] = "recorded"
            PROVE  \E k \in DOMAIN audit' : audit'[k] = Decision(q)'
        BY <2>1, <3>1, <3>2, <3>4 DEF RecordInv
      <3> QED
        BY <3>3, <3>4 DEF RecordInv
    <2>3. CASE Forward(p)
      <3>1. /\ audit' = audit /\ forwarded' = Append(forwarded, Decision(p))
            /\ pc[p] = "recorded" /\ pc'[p] # "recorded"
        BY <2>3 DEF Forward, TypeOK, HandlerType
      <3>2. \A i \in DOMAIN forwarded' : 
               \/ i \in DOMAIN forwarded /\ forwarded'[i] = forwarded[i]
               \/ forwarded'[i] = Decision(p)
        BY <1>0, <3>1
      <3>3. \A i \in DOMAIN forwarded' : 
               \E k \in DOMAIN audit' : audit'[k] = forwarded'[i]
        BY <3>1, <3>2 DEF RecordInv
      <3>4. \A q \in Proc : pc'[q] = "recorded" =>
               \E k \in DOMAIN audit' : audit'[k] = Decision(q)'
        BY <2>1, <3>1 DEF RecordInv
      <3> QED
        BY <3>3, <3>4 DEF RecordInv
    <2>4. ASSUME UNCHANGED <<audit, forwarded>>, pc'[p] # "recorded" PROVE RecordInv'
      BY <2>1, <2>4 DEF RecordInv
    <2>5. CASE ConsumeNonce(p) \/ Challenge(p)
      BY <2>4, <2>5 DEF ConsumeNonce, Challenge, TypeOK, HandlerType
    <2>6. CASE Answering(p)
      BY <2>4, <2>6, AnswerFrame DEF Answer, TypeOK, HandlerType
    <2>7. CASE NonceQuiet(p) /\ ~Record(p)
      BY <2>4, <2>7 
      DEF NonceQuiet, Arrive, Refuse, CheckDenylist, CheckProof, HasNonce, 
          ConsumeProof, Replay!Grant, ConsumeProofFails, Goto, TypeOK, HandlerType
    <2> QED
      BY <1>3, <2>2, <2>3, <2>5, <2>6, <2>7, Steps
  <1> QED
    BY <1>1, <1>2, <1>3 DEF Next, Tick, Edit, vars, handler

-----------------------------------------------------------------------------
(* The denylist *)

LEMMA DenylistStep == 
    TypeOK /\ RequestInv /\ DenylistInv /\ [Next]_vars => DenylistInv'
  <1> SUFFICES ASSUME TypeOK, RequestInv, DenylistInv, [Next]_vars PROVE DenylistInv'
    OBVIOUS
  <1>0. files \in Seq(File) /\ files # <<>> /\ forwarded \in Seq(Decisions)
    BY DEF TypeOK, SinkType
  <1>1. CASE UNCHANGED <<files, forwarded, pc, req, checked>>
    BY <1>1 DEF DenylistInv
  <1>2. CASE Restart
    BY <1>2 DEF Restart, DenylistInv, Cleared, Verified
  <1>3. ASSUME NEW file \in File, Edit(file) PROVE DenylistInv'
    <2>1. /\ UNCHANGED <<forwarded, pc, req, checked>>
          /\ \A n \in DOMAIN files : n \in DOMAIN files' /\ files'[n] = files[n]
      BY <1>0, <1>3 DEF Edit, handler
    <2> QED
      BY <2>1 DEF DenylistInv
  <1>4. ASSUME NEW p \in Proc, HandlerStep(p) PROVE DenylistInv'
    <2>1. \A q \in Proc \ {p} : 
             pc'[q] = pc[q] /\ req'[q] = req[q] /\ checked'[q] = checked[q]
      BY <1>4, Others
    <2>2. CASE CheckDenylist(p)
      <3>1. /\ UNCHANGED <<files, forwarded, req>> /\ pc[p] = "verified"
            /\ checked'[p] = Len(files) 
            /\ pc'[p] \in Cleared => Clears(files[Len(files)], req[p].token)
        BY <2>2 DEF CheckDenylist, Clears, Cleared, Verified, TypeOK, HandlerType
      <3>2. Len(files) \in DOMAIN files /\ req[p].arrived <= Len(files)
        BY <1>0, <3>1 DEF RequestInv, Requests, Verified
      <3> QED
        BY <2>1, <3>1, <3>2 DEF DenylistInv
    <2>3. CASE Forward(p)
      <3>1. /\ UNCHANGED files /\ forwarded' = Append(forwarded, Decision(p))
            /\ pc[p] \in Cleared /\ pc'[p] \notin Cleared
        BY <2>3 DEF Forward, Cleared, Verified, TypeOK, HandlerType
      <3>2. \A i \in DOMAIN forwarded' : 
               \/ i \in DOMAIN forwarded /\ forwarded'[i] = forwarded[i]
               \/ forwarded'[i] = Decision(p)
        BY <1>0, <3>1
      <3>3. /\ Decision(p).checked \in DOMAIN files
            /\ Decision(p).arrived <= Decision(p).checked
            /\ Clears(files[Decision(p).checked], Decision(p).token)
        BY <3>1 DEF DenylistInv, Decision
      <3> QED
        BY <2>1, <3>1, <3>2, <3>3 DEF DenylistInv
    <2>4. ASSUME UNCHANGED <<files, forwarded>>, 
                 pc'[p] \in Cleared => 
                    pc[p] \in Cleared /\ req'[p] = req[p] /\ checked'[p] = checked[p]
          PROVE  DenylistInv'
      BY <2>1, <2>4 DEF DenylistInv
    <2>5. CASE ConsumeNonce(p) \/ Challenge(p)
      BY <2>4, <2>5 
      DEF ConsumeNonce, Challenge, Cleared, Verified, TypeOK, HandlerType
    <2>6. CASE Answering(p)
      BY <2>4, <2>6, AnswerFrame DEF Answer, Cleared, Verified, TypeOK, HandlerType
    <2>7. CASE NonceQuiet(p) /\ ~CheckDenylist(p)
      BY <2>4, <2>7 
      DEF NonceQuiet, Arrive, Refuse, CheckProof, HasNonce, ConsumeProof, Record,
          Replay!Grant, ConsumeProofFails, Goto, TypeOK, HandlerType, Cleared, Verified
    <2> QED
      BY <1>4, <2>2, <2>3, <2>5, <2>6, <2>7, Steps
  <1> QED
    BY <1>1, <1>2, <1>3, <1>4 DEF Next, Tick, vars, handler

-----------------------------------------------------------------------------
(* Proofs *)

\* A grant appended to the cache leaves the others where they are.
LEMMA GrantFacts ==
    ASSUME TypeOK, RequestInv, NEW p \in Proc, ConsumeProof(p)
    PROVE  /\ UNCHANGED <<req, forwarded, lost>>
           /\ Len(grants) + 1 \in DOMAIN grants'
           /\ grants'[Len(grants) + 1].claim = ProofClaim(req[p].proof)
           /\ grants'[Len(grants) + 1].at = now
           /\ \A k \in DOMAIN grants : 
                 k \in DOMAIN grants' /\ grants'[k] = grants[k] /\ k < Len(grants) + 1
           /\ \A k \in DOMAIN grants' : k \in DOMAIN grants \/ k = Len(grants) + 1
  <1>1. grants \in Seq(Grants)
    BY DEF TypeOK, SinkType
  <1>2. /\ pc[p] = "fresh" /\ pc'[p] = "spent" /\ UNCHANGED <<req, forwarded, lost>>
        /\ grants' = Append(grants, [claim |-> ProofClaim(req[p].proof), at |-> now])
    BY DEF ConsumeProof, Replay!Grant, TypeOK, HandlerType
  <1> QED
    BY <1>1, <1>2

\* Grants stay apart when others are added.
LEMMA ApartStays ==
    ASSUME \A k \in DOMAIN grants : k \in DOMAIN grants' /\ grants'[k] = grants[k],
           NEW a, NEW b
    PROVE  (Apart(a, b) => Apart(a, b)') /\ (Granted(a) => Granted(a)')
  BY DEF Apart, Granted

\* The requests that have grants of their own.
GrantsInv ==
    /\ \A i \in DOMAIN forwarded : Granted(forwarded[i].proof)
    /\ \A i, j \in DOMAIN forwarded : 
          i # j => Apart(forwarded[i].proof, forwarded[j].proof)
    /\ \A p \in Proc : pc[p] \in ProofSpent =>
          /\ Granted(req[p].proof)
          /\ \A i \in DOMAIN forwarded : Apart(forwarded[i].proof, req[p].proof)
          /\ \A q \in Proc \ {p} : pc[q] \in ProofSpent =>
                Apart(req[q].proof, req[p].proof)

WindowsInv ==
    \A k, l \in DOMAIN grants : 
       k < l /\ grants[k].claim.jti = grants[l].claim.jti
       => ReplayUntil(grants[k].claim.exp) < grants[l].at

LEMMA ProofParts == ProofInv <=> WindowsInv /\ (~lost => GrantsInv)
  BY DEF ProofInv, WindowsInv, GrantsInv

LEMMA WindowsStep == TypeOK /\ RequestInv /\ WindowsInv /\ [Next]_vars => WindowsInv'
  <1> SUFFICES ASSUME TypeOK, RequestInv, WindowsInv, [Next]_vars PROVE WindowsInv'
    OBVIOUS
  <1>1. CASE UNCHANGED grants
    BY <1>1 DEF WindowsInv
  <1>2. CASE grants' = <<>>
    BY <1>2 DEF WindowsInv
  <1>3. ASSUME NEW p \in Proc, ConsumeProof(p) PROVE WindowsInv'
    <2> DEFINE new == Len(grants) + 1
               jti == ProofClaim(req[p].proof).jti
    <2>1. \A k \in DOMAIN grants : 
             grants[k].claim.jti = jti => ReplayUntil(grants[k].claim.exp) < now
      <3>1. Replay!Grant(ProofClaim(req[p].proof))
        BY <1>3 DEF ConsumeProof
      <3> QED
        BY <3>1 DEF Replay!Grant, Replay!Conflicts, Replay!Until, Replay!ReplayUntil,
                    ReplayUntil
    <2>2. /\ DOMAIN grants = 1..Len(grants) /\ Len(grants) \in Nat
          /\ grants'[new].claim.jti = jti /\ grants'[new].at = now
          /\ \A k \in DOMAIN grants : 
                k \in DOMAIN grants' /\ grants'[k] = grants[k] /\ k < new
          /\ \A k \in DOMAIN grants' : k \in DOMAIN grants \/ k = new
      BY <1>3, GrantFacts DEF TypeOK, SinkType
    <2> HIDE DEF jti
    <2>3. SUFFICES ASSUME NEW k \in DOMAIN grants', NEW l \in DOMAIN grants', k < l,
                          grants'[k].claim.jti = grants'[l].claim.jti
                   PROVE  ReplayUntil(grants'[k].claim.exp) < grants'[l].at
      BY DEF WindowsInv
    <2>4. k \in DOMAIN grants /\ grants'[k] = grants[k]
      BY <2>2, <2>3
    <2>5. CASE l \in DOMAIN grants
      BY <2>2, <2>3, <2>4, <2>5 DEF WindowsInv
    <2>6. CASE l = new
      BY <2>1, <2>2, <2>3, <2>4, <2>6
    <2> QED
      BY <2>2, <2>3, <2>5, <2>6
  <1>4. ASSUME NEW p \in Proc, HandlerStep(p), ~ConsumeProof(p) PROVE UNCHANGED grants
    BY <1>4 DEF HandlerStep, Arrive, Refuse, CheckDenylist, CheckProof, HasNonce, Goto,
                ConsumeProofFails, ConsumeNonce, Challenge, Deny, Record, RecordFails, 
                Forward, Finish
  <1> QED
    BY <1>1, <1>2, <1>3, <1>4 DEF Next, Tick, Edit, Restart, vars

LEMMA GrantsStep == 
    TypeOK /\ RequestInv /\ GrantsInv /\ [Next]_vars => lost' \/ GrantsInv'
  <1> SUFFICES ASSUME TypeOK, RequestInv, GrantsInv, [Next]_vars, ~lost'
               PROVE  GrantsInv'
    OBVIOUS
  <1>0. forwarded \in Seq(Decisions)
    BY DEF TypeOK, SinkType
  <1>1. CASE UNCHANGED <<grants, forwarded, pc, req>>
    BY <1>1 DEF GrantsInv, Granted, Apart
  <1>2. CASE Restart
    <2>1. UNCHANGED <<grants, forwarded>> /\ \A q \in Proc : pc'[q] \notin ProofSpent
      BY <1>2 DEF Restart, ProofSpent
    <2> QED
      BY <2>1 DEF GrantsInv, Granted, Apart
  <1>3. ASSUME NEW p \in Proc, HandlerStep(p) PROVE GrantsInv'
    <2>1. \A q \in Proc \ {p} : pc'[q] = pc[q] /\ req'[q] = req[q]
      BY <1>3, Others
    <2>2. CASE ConsumeProof(p)
      <3> DEFINE new == Len(grants) + 1
      <3>1. /\ forwarded' = forwarded /\ req' = req /\ new \in DOMAIN grants'
            /\ grants'[new].claim = ProofClaim(req[p].proof)
            /\ \A k \in DOMAIN grants : 
                  k \in DOMAIN grants' /\ grants'[k] = grants[k] /\ k < new
            /\ \A k \in DOMAIN grants : k # new
        <4>1. \A k \in DOMAIN grants : k < new => k # new
          BY DEF TypeOK, SinkType
        <4> QED
          BY <2>2, <4>1, GrantFacts
      <3> HIDE DEF new
      <3>2. \A a, b : /\ Apart(a, b) => Apart(a, b)'
                      /\ Granted(a) => Granted(a)'
                      /\ Granted(a) => Apart(a, req[p].proof)' 
                                       /\ Apart(req[p].proof, a)'
        BY <3>1 DEF Apart, Granted
      <3>3. Granted(req[p].proof)'
        BY <3>1 DEF Granted
      <3>4. \A i \in DOMAIN forwarded' : Granted(forwarded[i].proof)'
        BY <3>1, <3>2 DEF GrantsInv
      <3>5. \A i, j \in DOMAIN forwarded' : 
               i # j => Apart(forwarded[i].proof, forwarded[j].proof)'
        BY <3>1, <3>2 DEF GrantsInv
      <3>6. ASSUME NEW q \in Proc, pc'[q] \in ProofSpent
            PROVE  /\ Granted(req[q].proof)'
                   /\ \A i \in DOMAIN forwarded' : 
                         Apart(forwarded[i].proof, req[q].proof)'
                   /\ \A r \in Proc \ {q} : pc'[r] \in ProofSpent =>
                         Apart(req[r].proof, req[q].proof)'
        <4>1. CASE q = p
          BY <2>1, <3>1, <3>2, <3>3, <4>1 DEF GrantsInv
        <4>2. CASE q # p
          <5>1. pc[q] \in ProofSpent /\ Granted(req[q].proof)
            BY <2>1, <3>6, <4>2 DEF GrantsInv
          <5>2. ASSUME NEW r \in Proc \ {q}, pc'[r] \in ProofSpent
                PROVE  Apart(req[r].proof, req[q].proof)'
            BY <2>1, <3>1, <3>2, <5>1, <5>2 DEF GrantsInv
          <5> QED
            BY <3>1, <3>2, <5>1, <5>2 DEF GrantsInv
        <4> QED
          BY <4>1, <4>2
      <3> QED
        BY <3>1, <3>4, <3>5, <3>6 DEF GrantsInv, Apart, Granted
    <2>3. CASE Forward(p)
      <3>1. /\ UNCHANGED <<grants, req>> /\ forwarded' = Append(forwarded, Decision(p))
            /\ pc[p] \in ProofSpent /\ pc'[p] \notin ProofSpent
        BY <2>3 DEF Forward, ProofSpent, TypeOK, HandlerType
      <3>2. \A i \in DOMAIN forwarded' : 
               \/ i \in DOMAIN forwarded /\ forwarded'[i] = forwarded[i]
               \/ i = Len(forwarded) + 1 /\ forwarded'[i].proof = req[p].proof
        BY <1>0, <3>1 DEF Decision
      <3>3. \A a, b : /\ Apart(a, b) => Apart(a, b)' /\ Apart(b, a)'
                      /\ Granted(a) => Granted(a)'
        BY <3>1 DEF Apart, Granted
      <3> QED
        BY <2>1, <3>1, <3>2, <3>3, SMTT(30) DEF GrantsInv, Apart, Granted
    <2>4. ASSUME UNCHANGED <<grants, forwarded>>, 
                 pc'[p] \in ProofSpent => pc[p] \in ProofSpent /\ req'[p] = req[p]
          PROVE  GrantsInv'
      BY <2>1, <2>4 DEF GrantsInv, Granted, Apart
    <2>5. CASE ConsumeNonce(p) \/ Challenge(p)
      BY <2>4, <2>5 DEF ConsumeNonce, Challenge, ProofSpent, TypeOK, HandlerType
    <2>6. CASE Answering(p)
      BY <2>4, <2>6, AnswerFrame DEF Answer, ProofSpent, TypeOK, HandlerType
    <2>7. CASE NonceQuiet(p) /\ ~ConsumeProof(p)
      BY <2>4, <2>7 
      DEF NonceQuiet, Arrive, Refuse, CheckDenylist, CheckProof, HasNonce, Record,
          ConsumeProofFails, Goto, TypeOK, HandlerType, ProofSpent
    <2> QED
      BY <1>3, <2>2, <2>3, <2>5, <2>6, <2>7, Steps
  <1> QED
    BY <1>1, <1>2, <1>3 DEF Next, Tick, Edit, vars, handler

\* A replay log that was lost stays lost.
LEMMA LostStays == [Next]_vars /\ lost => lost'
  BY DEF Next, vars, HandlerStep, Tick, Restart, Edit, Arrive, Refuse, CheckDenylist, 
         CheckProof, HasNonce, ConsumeProof, ConsumeProofFails, ConsumeNonce, Challenge, 
         Deny, Record, RecordFails, Forward, Finish, Goto

LEMMA ProofStep == TypeOK /\ RequestInv /\ ProofInv /\ [Next]_vars => ProofInv'
  <1> SUFFICES ASSUME TypeOK, RequestInv, ProofInv, [Next]_vars PROVE ProofInv'
    OBVIOUS
  <1>1. WindowsInv /\ (~lost => GrantsInv)
    BY ProofParts
  <1>2. WindowsInv'
    BY <1>1, WindowsStep
  <1>3. ~lost' => GrantsInv'
    BY <1>1, GrantsStep, LostStays
  <1> QED
    BY <1>2, <1>3 DEF ProofInv, WindowsInv, GrantsInv

-----------------------------------------------------------------------------
(* What the invariant says of what was forwarded *)

LEMMA RecordImplies == TypeOK /\ NonceBacksOneForward /\ RecordInv => ForwardedIsRecorded
  <1> SUFFICES ASSUME TypeOK, NonceBacksOneForward, RecordInv, 
                      NEW i \in DOMAIN forwarded
               PROVE  Cardinality({k \in 1..i : forwarded[k] = forwarded[i]})
                         <= Cardinality({k \in DOMAIN audit : audit[k] = forwarded[i]})
    BY DEF ForwardedIsRecorded
  <1>1. /\ DOMAIN forwarded = 1..Len(forwarded) /\ Len(forwarded) \in Nat
        /\ DOMAIN audit = 1..Len(audit) /\ Len(audit) \in Nat
    BY DEF TypeOK, SinkType
  <1> DEFINE Same == {k \in DOMAIN audit : audit[k] = forwarded[i]}
  <1>2. {k \in 1..i : forwarded[k] = forwarded[i]} = {i}
    BY <1>1 DEF NonceBacksOneForward
  <1>3. Cardinality({i}) = 1
    BY FS_Singleton
  <1>4. IsFiniteSet(Same) /\ Same # {}
    <2>1. IsFiniteSet(DOMAIN audit)
      BY <1>1, FS_Interval
    <2>2. Same \subseteq DOMAIN audit
      OBVIOUS
    <2>3. Same # {}
      BY DEF RecordInv
    <2> QED
      BY <2>1, <2>2, <2>3, FS_Subset
  <1>5. Cardinality(Same) \in Nat /\ Cardinality(Same) # 0
    BY <1>4, FS_CardinalityType, FS_EmptySet
  <1> QED
    BY <1>2, <1>3, <1>5

LEMMA DenylistImplies == TypeOK /\ DenylistInv => RevocationBindsNextRequest
  <1> SUFFICES ASSUME TypeOK, DenylistInv, NEW i \in DOMAIN forwarded
               PROVE  LET f == forwarded[i]
                          agents == {Hops(f.token)[k] : k \in 2..Len(Hops(f.token))}
                      IN  /\ f.arrived <= f.checked
                          /\ files[f.checked] # None
                          /\ ~DeniesPrincipal(files[f.checked], f.token.sub)
                          /\ files[f.checked].agents \cap agents = {}
    BY DEF RevocationBindsNextRequest
  <1> DEFINE f == forwarded[i]
             file == files[f.checked]
             hops == Hops(f.token)
  <1>1. f.token \in Token
    <2>1. forwarded \in Seq(Decisions)
      BY DEF TypeOK, SinkType
    <2>2. f \in Decisions
      BY <2>1
    <2> QED
      BY <2>2 DEF Decisions
  <1>2. ActorSubs(f.token) \in Seq(Agent)
    BY <1>1, GatewayAssumption DEF ActorSubs
  <1>3. hops[1] = f.token.sub /\ DOMAIN hops = 1..Len(hops) /\ Len(hops) \in Nat
    BY <1>2 DEF Hops
  <1>4. f.arrived <= f.checked /\ Clears(file, f.token)
    BY DEF DenylistInv
  <1>5. /\ file # None /\ ~DeniesPrincipal(file, hops[1])
        /\ \A k \in DOMAIN hops : k # 1 => hops[k] \notin file.agents
    BY <1>4 DEF Clears, DenyChain, DeniesAgent
  <1> QED
    BY <1>3, <1>4, <1>5

LEMMA ProofImplies == TypeOK /\ ProofInv => ProofBacksOneForward
  <1> SUFFICES ASSUME TypeOK, ProofInv, ~lost, NEW i \in DOMAIN forwarded, 
                      NEW j \in DOMAIN forwarded, i < j,
                      forwarded[i].proof.jti = forwarded[j].proof.jti
               PROVE  \E k \in DOMAIN grants : 
                         /\ grants[k].claim.jti = forwarded[j].proof.jti
                         /\ \/ grants[k].at > ReplayUntil(forwarded[i].proof.iat)
                            \/ grants[k].at > ReplayUntil(forwarded[j].proof.iat)
    BY DEF ProofBacksOneForward
  <1>1. WindowsInv /\ GrantsInv
    BY ProofParts
  <1>2. i \in Nat /\ j \in Nat
    BY DEF TypeOK, SinkType
  <1>3. PICK k, l \in DOMAIN grants : 
                /\ k # l
                /\ grants[k].claim = ProofClaim(forwarded[i].proof)
                /\ grants[l].claim = ProofClaim(forwarded[j].proof)
    BY <1>1, <1>2 DEF GrantsInv, Apart
  <1>4. /\ grants[k].claim.jti = forwarded[j].proof.jti
        /\ grants[l].claim.jti = forwarded[j].proof.jti
        /\ grants[k].claim.exp = forwarded[i].proof.iat
        /\ grants[l].claim.exp = forwarded[j].proof.iat
    BY <1>3 DEF ProofClaim
  <1>5. /\ k \in Nat /\ l \in Nat /\ grants[k].at \in Nat /\ grants[l].at \in Nat
        /\ ReplayUntil(forwarded[i].proof.iat) \in Nat
        /\ ReplayUntil(forwarded[j].proof.iat) \in Nat
    <2>1. grants \in Seq(Grants) /\ forwarded \in Seq(Decisions)
      BY DEF TypeOK, SinkType
    <2>2. forwarded[i] \in Decisions /\ forwarded[j] \in Decisions
      BY <2>1
    <2>3. grants[k] \in Grants /\ grants[l] \in Grants
      BY <2>1
    <2>4. /\ grants[k].at \in Nat /\ grants[l].at \in Nat
          /\ forwarded[i].proof \in Proof /\ forwarded[j].proof \in Proof
      BY <2>2, <2>3 DEF Decisions, Grants
    <2>5. forwarded[i].proof.iat \in Nat /\ forwarded[j].proof.iat \in Nat
      BY <2>4, GatewayAssumption
    <2>6. k \in Nat /\ l \in Nat
      BY <2>1
    <2> QED
      BY <2>4, <2>5, <2>6, ClockSkewAssumption DEF ReplayUntil
  <1>6. CASE k < l
    <2>1. grants[l].at > ReplayUntil(forwarded[i].proof.iat)
      BY <1>1, <1>4, <1>5, <1>6 DEF WindowsInv
    <2> QED
      BY <1>4, <2>1
  <1>7. CASE l < k
    <2>1. grants[k].at > ReplayUntil(forwarded[j].proof.iat)
      BY <1>1, <1>4, <1>5, <1>7 DEF WindowsInv
    <2> QED
      BY <1>4, <2>1
  <1> QED
    BY <1>3, <1>5, <1>6, <1>7

-----------------------------------------------------------------------------
(* Sessions *)

\* A mapping whose actor context has a field for each of its parts.
WellFormed(m) ==
    LET a == m.actor
    IN  /\ a = [principal |-> a.principal, agent |-> a.agent, txn |-> a.txn, 
                chain |-> a.chain, scopes |-> a.scopes, iss |-> a.iss, 
                aud |-> a.aud, id |-> a.id, exp |-> a.exp, jkt |-> a.jkt, 
                workload |-> a.workload, dpop |-> a.dpop, sealed |-> a.sealed]
        /\ a.dpop \in BOOLEAN /\ a.sealed \in BOOLEAN

\* The mapping of an answer that was accepted.
Trusted(m) ==
    /\ gateway # "proxy"
    /\ WellFormed(m) /\ Session!Complete(m) /\ Session!MappingAgrees(m, token)

\* The flags were checked before the mapping was asked for, and the mapping when
\* it came; what mcp-visor starts with is that mapping.
SessionInv ==
    /\ token \in Tokens
    /\ step \in {"start", "fetch", "refused", "mapped", "visor", "failed"}
    /\ step \in {"fetch", "mapped", "visor", "failed"} => 
          flags \cap Session!IdentityFlags = {}
    /\ step \in {"mapped", "visor", "failed"} => Trusted(mapping)
    /\ child # None => 
          /\ step = "visor"
          /\ child = [client |-> mapping.client, session |-> mapping.session,
                      flags |-> flags, fd |-> mapping.actor, 
                      env |-> Session!ChildEnv(env)]
    /\ Session!HonestAccepted

SessionPart == part = "session" => SessionInv

\* A mapping that agrees with a token has the adapter's context of the token.
LEMMA AgreedContext ==
    ASSUME NEW m, NEW c, WellFormed(m), Session!Complete(m), Session!MappingAgrees(m, c)
    PROVE  /\ m.actor = Session!Context(c) /\ m.session = c.txn
           /\ \E short \in BOOLEAN : m.client = Session!FromChain(c, short).client
  <1> DEFINE a == m.actor
  <1>1. /\ a.principal = c.sub /\ a.agent = Session!Actor(c) /\ a.txn = c.txn 
        /\ a.chain = Session!Hops(c) /\ a.scopes = c.scope /\ a.iss = c.iss
        /\ a.aud = c.aud /\ a.id = c.jti /\ a.exp = c.exp /\ a.jkt = c.jkt
        /\ a.workload = None /\ a.dpop /\ m.session = c.txn
        /\ m.client \in {Session!Actor(c), ShortName[Session!Actor(c)]}
    BY DEF Session!MappingAgrees
  <1>2. a.sealed
    BY DEF Session!Complete, Session!ValidStructure
  <1>3. a.dpop = TRUE /\ a.sealed = TRUE
    BY <1>1, <1>2 DEF WellFormed
  <1>4. m.actor = Session!Context(c)
    BY <1>1, <1>3 DEF WellFormed, Session!Context
  <1>5. /\ Session!FromChain(c, TRUE).client = ShortName[Session!Actor(c)]
        /\ Session!FromChain(c, FALSE).client = Session!Actor(c)
    BY DEF Session!FromChain
  <1> QED
    BY <1>1, <1>4, <1>5

\* Answers by what answers.
LEMMA AnswersOf ==
    ASSUME NEW r \in Session!Answers
    PROVE  \/ gateway = "other" /\ r \in Session!Anything
           \/ r = Session!Other /\ ~Session!Admitted(token)
           \/ r = Session!Challenge /\ nonce = None
           \/ /\ gateway = "identity"
              /\ \E short \in BOOLEAN : r = Session!Mapped(Session!FromChain(token, short))
           \/ /\ gateway \notin {"identity", "other"}
              /\ \E b \in Session!Anything : r = Session!StripBackendMapping(b, token)
  <1>1. CASE gateway = "other"
    BY <1>1 DEF Session!Answers
  <1>2. CASE gateway # "other" /\ ~Session!Admitted(token)
    BY <1>2 DEF Session!Answers
  <1>3. CASE gateway # "other" /\ Session!Admitted(token) /\ nonce = None
    BY <1>3 DEF Session!Answers
  <1>4. CASE gateway = "identity" /\ Session!Admitted(token) /\ nonce # None
    BY <1>4 DEF Session!Answers
  <1>5. CASE gateway \notin {"other", "identity"} /\ Session!Admitted(token) 
             /\ nonce # None
    BY <1>5 DEF Session!Answers
  <1> QED
    BY <1>1, <1>2, <1>3, <1>4, <1>5

\* No answer of a backend is a mapping, once the gateway has passed it on.
LEMMA StrippedRefused ==
    ASSUME NEW r \in Session!Anything
    PROVE  ~Session!Accepted(Session!StripBackendMapping(r, token))
  <1>1. CASE r \in {Session!Challenge, Session!Other}
    BY <1>1 DEF Session!Challenge, Session!Other, Session!StripBackendMapping, 
                Session!Accepted
  <1>2. CASE r \notin {Session!Challenge, Session!Other}
    <2>1. r \in [kind : {"ok"}, typed : BOOLEAN, headers : Session!Headers, 
                mapping : Forged]
      BY <1>2 DEF Session!Anything
    <2>2. ~[r EXCEPT !.typed = FALSE, 
                     !.headers = <<Session!Actor(token), token.txn>>].typed
      BY <2>1
    <2>3. r.kind = "ok"
      BY <2>1
    <2> QED
      BY <2>2, <2>3 DEF Session!StripBackendMapping, Session!Accepted
  <1> QED
    BY <1>1, <1>2

\* An answer that is accepted did not come through a proxy, and holds a mapping
\* for which the session can vouch.
LEMMA AcceptedTrusted ==
    ASSUME NEW r \in Session!Answers, Session!Accepted(r)
    PROVE  Trusted(r.mapping)
  <1>1. Session!Complete(r.mapping) /\ Session!MappingAgrees(r.mapping, token)
    BY DEF Session!Accepted
  <1>2. r \notin {Session!Challenge, Session!Other}
    BY DEF Session!Accepted, Session!Challenge, Session!Other
  <1>3. CASE gateway = "other" /\ r \in Session!Anything
    <2>1. r.mapping \in Forged
      BY <1>2, <1>3 DEF Session!Anything
    <2>2. WellFormed(r.mapping)
      BY <2>1, SessionsAssumption DEF WellFormed
    <2> QED
      BY <1>1, <1>3, <2>2 DEF Trusted
  <1>4. ASSUME gateway = "identity", NEW short \in BOOLEAN, 
               r = Session!Mapped(Session!FromChain(token, short))
        PROVE  Trusted(r.mapping)
    <2>1. r.mapping.actor = Session!Context(token)
      BY <1>4 DEF Session!Mapped, Session!FromChain
    <2>2. WellFormed(r.mapping)
      BY <2>1 DEF WellFormed, Session!Context
    <2> QED
      BY <1>1, <1>4, <2>2 DEF Trusted
  <1>5. ASSUME NEW b \in Session!Anything, r = Session!StripBackendMapping(b, token)
        PROVE  FALSE
    BY <1>5, StrippedRefused
  <1> QED
    BY <1>2, <1>3, <1>4, <1>5, AnswersOf

\* The mapping of a token that the gateway admits is accepted.
LEMMA OwnMappingAccepted ==
    ASSUME token \in Tokens, Session!Admitted(token), NEW short \in BOOLEAN
    PROVE  Session!Accepted(Session!Mapped(Session!FromChain(token, short)))
  <1> DEFINE m == Session!FromChain(token, short)
             r == Session!Mapped(m)
             actor == Session!Actor(token)
             hops == Session!Hops(token)
             ctx == Session!Context(token)
  <1>1. /\ token.sub # None /\ actor # None /\ token.txn # None /\ token.jkt # None
        /\ Session!Single(token)
    BY DEF Session!Admitted
  <1>2. hops # <<>> /\ hops[1] = token.sub /\ hops[Len(hops)] = actor
    <2>1. token.actors \in Seq({token.actors[i] : i \in DOMAIN token.actors})
      BY SessionsAssumption
    <2>2. token.actors # <<>> /\ actor = token.actors[Len(token.actors)]
      BY <1>1 DEF Session!Actor
    <2> HIDE DEF actor
    <2> QED
      BY <2>1, <2>2 DEF Session!Hops
  <1>3. ShortName[actor] # None
    BY <1>1, SessionsAssumption
  <1> HIDE DEF actor, hops
  <1>4. /\ m.client \in {actor, ShortName[actor]} /\ m.session = token.txn 
        /\ m.principal = token.sub /\ m.acting = actor /\ m.hops = hops
        /\ m.scope = token.scope /\ m.jti = token.jti /\ m.actor = ctx
    BY DEF Session!FromChain, actor, hops
  <1>5. /\ ctx.principal = token.sub /\ ctx.agent = actor /\ ctx.txn = token.txn 
        /\ ctx.chain = hops /\ ctx.scopes = token.scope /\ ctx.iss = token.iss
        /\ ctx.aud = token.aud /\ ctx.id = token.jti /\ ctx.exp = token.exp 
        /\ ctx.jkt = token.jkt /\ ctx.workload = None /\ ctx.dpop /\ ctx.sealed
    BY DEF Session!Context, actor, hops
  <1>6. /\ r.kind = "ok" /\ r.typed /\ r.mapping = m 
        /\ r.headers = <<m.client, m.session>>
    BY DEF Session!Mapped
  <1> HIDE DEF m, r, ctx
  <1>7. Session!Complete(m)
    BY <1>1, <1>2, <1>3, <1>4, <1>5 DEF Session!Complete, Session!ValidStructure
  <1>8. Session!MappingAgrees(m, token)
    BY <1>1, <1>4, <1>5 DEF Session!MappingAgrees, actor, hops
  <1>9. Session!Accepted(r)
    BY <1>6, <1>7, <1>8 DEF Session!Accepted
  <1> QED
    BY <1>9 DEF r, m

\* Behind an identity-only gateway that admits the token nothing is refused.
LEMMA HonestAnswers ==
    ASSUME token \in Tokens, Session!Admitted(token), gateway = "identity",
           NEW r \in Session!Answers
    PROVE  Session!Accepted(r) \/ Session!Challenged(r)
  <1>1. CASE r = Session!Challenge /\ nonce = None
    BY <1>1 DEF Session!Challenged, Session!Challenge
  <1>2. ASSUME NEW short \in BOOLEAN, r = Session!Mapped(Session!FromChain(token, short))
        PROVE  Session!Accepted(r)
    BY <1>2, OwnMappingAccepted
  <1> QED
    BY <1>1, <1>2, AnswersOf

LEMMA SessionInit == SessionsInit => SessionPart
  BY DEF SessionsInit, SessionPart, SessionInv, Session!Init, Session!HonestAccepted

LEMMA SessionFrame ==
    ASSUME [SessionsNext]_sessionsVars
    PROVE  /\ part' = part
           /\ \/ UNCHANGED session
              \/ part = "session" /\ (Session!Start \/ Session!Fetch \/ Session!Exec)
  <1>1. CASE UNCHANGED sessionsVars
    BY <1>1 DEF sessionsVars, session
  <1>2. CASE SessionsNext
    BY <1>2 DEF SessionsNext, Stay
  <1> QED
    BY <1>1, <1>2

LEMMA StartStep == SessionInv /\ Session!Start => SessionInv'
  <1> SUFFICES ASSUME SessionInv, Session!Start PROVE SessionInv'
    OBVIOUS
  <1>1. /\ UNCHANGED <<token, flags, env, gateway, mapping, child>> 
        /\ step = "start" 
        /\ \/ step' = "fetch" /\ flags \cap Session!IdentityFlags = {}
           \/ step' = "refused" /\ flags \cap Session!IdentityFlags # {}
    BY DEF Session!Start
  <1>2. child = None
    BY <1>1 DEF SessionInv
  <1>3. Session!HonestAccepted'
    BY <1>1 DEF Session!HonestAccepted, Session!IdentityFlags, Session!Admitted
  <1> QED
    BY <1>1, <1>2, <1>3 DEF SessionInv, Session!IdentityFlags

LEMMA FetchStep == SessionInv /\ Session!Fetch => SessionInv'
  <1> SUFFICES ASSUME SessionInv, Session!Fetch PROVE SessionInv'
    OBVIOUS
  <1>1. /\ UNCHANGED <<token, flags, env, gateway, child>> /\ step = "fetch"
        /\ flags \cap Session!IdentityFlags = {} /\ child = None
    BY DEF Session!Fetch, SessionInv
  <1>2. PICK r \in Session!Answers : 
           \/ Session!Accepted(r) /\ step' = "mapped" /\ mapping' = r.mapping
           \/ Session!Challenged(r) /\ step' = "fetch" /\ mapping' = mapping
           \/ /\ ~Session!Accepted(r) /\ ~Session!Challenged(r)
              /\ step' = "refused" /\ mapping' = mapping
    BY <1>1 DEF Session!Fetch
  <1>3. CASE Session!Accepted(r) /\ step' = "mapped" /\ mapping' = r.mapping
    <2>1. Trusted(r.mapping)
      BY <1>3, AcceptedTrusted
    <2>2. Trusted(mapping)'
      BY <1>1, <1>3, <2>1 DEF Trusted, WellFormed, Session!Complete, 
         Session!ValidStructure, Session!MappingAgrees
    <2> QED
      BY <1>1, <1>3, <2>2 DEF SessionInv, Session!HonestAccepted, Session!IdentityFlags
  <1>4. CASE Session!Challenged(r) /\ step' = "fetch" /\ mapping' = mapping
    BY <1>1, <1>4 DEF SessionInv, Session!HonestAccepted, Session!IdentityFlags
  <1>5. CASE /\ ~Session!Accepted(r) /\ ~Session!Challenged(r)
             /\ step' = "refused" /\ mapping' = mapping
    <2>1. ~(gateway = "identity" /\ Session!Admitted(token))
      BY <1>5, HonestAnswers DEF SessionInv
    <2>2. Session!HonestAccepted'
      BY <1>1, <2>1 DEF Session!HonestAccepted, Session!Admitted
    <2> QED
      BY <1>1, <1>5, <2>2 DEF SessionInv
  <1> QED
    BY <1>2, <1>3, <1>4, <1>5

LEMMA ExecStep == SessionInv /\ Session!Exec => SessionInv'
  <1> SUFFICES ASSUME SessionInv, Session!Exec PROVE SessionInv'
    OBVIOUS
  <1>1. /\ UNCHANGED <<token, flags, env, gateway, mapping>> /\ step = "mapped"
        /\ flags \cap Session!IdentityFlags = {} /\ child = None /\ Trusted(mapping)
    BY DEF Session!Exec, SessionInv
  <1>2. Trusted(mapping)'
    BY <1>1 DEF Trusted, WellFormed, Session!Complete, Session!ValidStructure, 
       Session!MappingAgrees
  <1>3. \/ step' = "failed" /\ child' = child
        \/ /\ step' = "visor" 
           /\ child' = [client |-> mapping.client, session |-> mapping.session,
                        flags |-> flags, fd |-> mapping.actor, 
                        env |-> Session!ChildEnv(env)]
    BY DEF Session!Exec
  <1>4. Session!HonestAccepted'
    BY <1>1, <1>3 DEF Session!HonestAccepted
  <1> QED
    BY <1>1, <1>2, <1>3, <1>4 DEF SessionInv, Session!IdentityFlags, Session!ChildEnv

LEMMA SessionStep == SessionPart /\ [SessionsNext]_sessionsVars => SessionPart'
  <1> SUFFICES ASSUME SessionPart, [SessionsNext]_sessionsVars, part = "session"
               PROVE  SessionInv'
    BY SessionFrame DEF SessionPart
  <1>1. SessionInv
    BY DEF SessionPart
  <1>2. CASE UNCHANGED session
    BY <1>1, <1>2 
    DEF session, SessionInv, Trusted, WellFormed, Session!HonestAccepted, 
        Session!Complete, Session!ValidStructure, Session!MappingAgrees
  <1> QED
    BY <1>1, <1>2, SessionFrame, StartStep, FetchStep, ExecStep

LEMMA SessionImplies == SessionInv => Session!ChildIsBearer
  <1> SUFFICES ASSUME SessionInv, child # None
               PROVE  /\ gateway # "proxy"
                      /\ \E short \in BOOLEAN : 
                            child.client = Session!FromChain(token, short).client
                      /\ child.session = token.txn
                      /\ child.fd = Session!Context(token)
                      /\ child.flags \cap Session!IdentityFlags = {}
                      /\ "AIP_ACCESS_TOKEN" \notin child.env
    BY DEF Session!ChildIsBearer
  <1>1. /\ Trusted(mapping) /\ flags \cap Session!IdentityFlags = {}
        /\ child.client = mapping.client /\ child.session = mapping.session
        /\ child.flags = flags /\ child.fd = mapping.actor
        /\ child.env = Session!ChildEnv(env)
    BY DEF SessionInv
  <1>2. /\ mapping.actor = Session!Context(token) /\ mapping.session = token.txn
        /\ \E short \in BOOLEAN : 
              mapping.client = Session!FromChain(token, short).client
    BY <1>1, AgreedContext DEF Trusted
  <1> QED
    BY <1>1, <1>2 DEF Trusted, Session!ChildEnv

-----------------------------------------------------------------------------
(* Theorems *)

\* The invariant holds in every state of the gateway, whatever its clients send, 
\* its operator writes and its log refuses, and however often it restarts.
THEOREM Inductive == Spec => []IInv
  <1>1. Init => IInv
    BY InitTyped
  <1>2. IInv /\ [Next]_vars => IInv'
    BY TypeStep, RequestStep, NonceStep, RecordStep, DenylistStep, ProofStep DEF IInv
  <1> QED
    BY <1>1, <1>2, PTL DEF Spec

\* Clients are known only by nonces the gateway issued, and every request it 
\* works on is one that they sent (handlePEP).
THEOREM TypeCorrect == Spec => []TypeOK
  <1>1. IInv => TypeOK
    BY DEF IInv
  <1> QED
    BY <1>1, Inductive, PTL

\* A nonce is good for one forwarded request, for any number of handlers that
\* race for it and of restarts (NonceCache.Has and Consume).
THEOREM NonceOnce == Spec => []NonceBacksOneForward
  <1>1. IInv => NonceBacksOneForward
    BY DEF IInv, NonceInv
  <1> QED
    BY <1>1, Inductive, PTL

\* What is forwarded has a record of its own, whatever the log refuses in 
\* between (record, failClosed).
THEOREM Recorded == Spec => []ForwardedIsRecorded
  <1>1. IInv => ForwardedIsRecorded
    BY RecordImplies DEF IInv, NonceInv
  <1> QED
    BY <1>1, Inductive, PTL

\* A revocation binds every request that comes after it was written, for any
\* history of the denylist file and any chain (denyIdentity, DenyChain).
THEOREM RevocationBinds == Spec => []RevocationBindsNextRequest
  <1>1. IInv => RevocationBindsNextRequest
    BY DenylistImplies DEF IInv
  <1> QED
    BY <1>1, Inductive, PTL

\* A jti of a proof is good for one forwarded request while the proof is fresh,
\* unless the replay log is lost (requireDPoP).
THEOREM ProofOnce == Spec => []ProofBacksOneForward
  <1>1. IInv => ProofBacksOneForward
    BY ProofImplies DEF IInv
  <1> QED
    BY <1>1, Inductive, PTL

\* What the session makes sure of before it goes on is never undone, whatever 
\* tokens, flags and environments sessions have and whatever mappings answer.
THEOREM SessionInductive == SessionsSpec => []SessionPart
  <1>1. SessionsInit => SessionPart
    BY SessionInit
  <1>2. SessionPart /\ [SessionsNext]_sessionsVars => SessionPart'
    BY SessionStep
  <1> QED
    BY <1>1, <1>2, PTL DEF SessionsSpec

\* mcp-visor runs as the bearer of the token or not at all, for any token and any
\* answers (mappingAgreesWithToken, stripBackendMapping).
THEOREM ChildBearsToken == SessionsSpec => []ChildIsBearer
  <1>1. SessionPart => ChildIsBearer
    BY SessionImplies DEF SessionPart, ChildIsBearer
  <1> QED
    BY <1>1, SessionInductive, PTL

\* A token that the identity-only gateway admits is never refused by the session,
\* for any claims and any short names (FromChain, mappingAgreesWithToken).
THEOREM AdmittedAccepted == SessionsSpec => []HonestAccepted
  <1>1. SessionPart => HonestAccepted
    BY DEF SessionPart, SessionInv, HonestAccepted
  <1> QED
    BY <1>1, SessionInductive, PTL

LEMMA SessionsStep == [SessionsNext]_sessionsVars => [Next]_vars
  <1> SUFFICES ASSUME [SessionsNext]_sessionsVars PROVE [Next]_vars
    OBVIOUS
  <1>1. CASE UNCHANGED vars
    BY <1>1
  <1>2. CASE UNCHANGED sessionsVars
    BY <1>2 DEF sessionsVars
  <1>3. ASSUME NEW p \in Proc, NEW t \in Token, NEW proof \in Proof \cup {None}, 
               NEW n \in known \cup {NoNonce}, Arrive(p, t, proof, n)
        PROVE  Next
    BY <1>3 DEF Next, HandlerStep
  <1>4. SessionsNext => UNCHANGED vars \/ Next
    BY <1>3 DEF SessionsNext, Next, HandlerStep
  <1> QED
    BY <1>1, <1>2, <1>4

\* Whatever part a behaviour of the composition is of, its gateway is the one all
\* the theorems above are about.
THEOREM SessionsImplementGateway == SessionsSpec => Spec
  <1>1. SessionsInit => Init
    BY DEF SessionsInit
  <1> QED
    BY <1>1, SessionsStep, PTL DEF SessionsSpec, Spec
=============================================================================
