------------------------------ MODULE Delegation ------------------------------
(***************************************************************************)
(* Two hops through internal/a2a: a caller exchanges its user's token and  *)
(* calls an agent, whose handler exchanges what it was given and calls a   *)
(* backend behind visor-gateway.  Answers get lost, the transport repeats  *)
(* a request, the gateway restarts and its nonces expire.                  *)
(*                                                                         *)
(* The token endpoint and the gateway appear as what modules STS and       *)
(* Gateway show of them: a minted token backs one exchange, a nonce one    *)
(* proof.  Tokens and proofs are fresh; their lifetimes are left out.      *)
(***************************************************************************)
EXTENDS Naturals, Sequences

CONSTANTS Job,         \* what callers want done
          Replayable,  \* jobs whose request has a GetBody, or no body
          Copies,      \* bound on the times a request arrives
          Faults       \* bound on the faults

\* Callers give up after one try more than there are faults.
Try == 1..(Faults + 1)

\* A token of the first hop, and a handler that serves a request with it.
Subject == Job \X Try
Handler == Job \X Try \X (1..Copies)
SubjectToken(h) == <<h[1], h[2]>>

VARIABLES tries,   \* tries of a job that have begun
          call,    \* what its caller is doing
          pc,      \* what a handler is doing
          spent,   \* subject tokens the token endpoint has consumed
          nonces,  \* handlers whose nonce the gateway still knows
          served,  \* history: the bodies the backend got, by subject token
          faults   \* faults that are still to come

vars == <<tries, call, pc, spent, nonces, served, faults>>

Init ==
    /\ tries = [j \in Job |-> 0]
    /\ call = [j \in Job |-> "idle"]
    /\ pc = [h \in Handler |-> "absent"]
    /\ spent = {}
    /\ nonces = {}
    /\ served = [s \in Subject |-> <<>>]
    /\ faults = Faults

Fault == faults > 0 /\ faults' = faults - 1

\* The answer to a handler's request arrives, or is lost: RoundTrip fails.
Answer(h, then) ==
    \/ pc' = [pc EXCEPT ![h] = then] /\ UNCHANGED faults
    \/ pc' = [pc EXCEPT ![h] = "failed"] /\ Fault

-----------------------------------------------------------------------------
(* The caller *)

\* RoundTrip: the user's token is exchanged, as often as it is needed, and the
\* agent's Middleware passes the minted one to a handler.
Call(j) ==
    /\ call[j] = "idle"
    /\ tries[j] < Faults + 1
    /\ tries' = [tries EXCEPT ![j] = @ + 1]
    /\ call' = [call EXCEPT ![j] = "waiting"]
    /\ pc' = [pc EXCEPT ![<<j, tries[j] + 1, 1>>] = "begun"]
    /\ UNCHANGED <<spent, nonces, served, faults>>

\* The answer of one of the handlers is the caller's, or it gets none. After a 
\* failure the hop is tried again from the user's token.
Return(j) ==
    /\ call[j] = "waiting"
    /\ \/ /\ \E c \in 1..Copies : 
                /\ pc[<<j, tries[j], c>>] \in {"done", "failed"}
                /\ call' = [call EXCEPT ![j] = 
                      IF pc[<<j, tries[j], c>>] = "done" THEN "done" ELSE "idle"]
          /\ UNCHANGED faults
       \/ call' = [call EXCEPT ![j] = "idle"] /\ Fault
    /\ UNCHANGED <<tries, pc, spent, nonces, served>>

\* The transport repeats a request, however late.
Repeat(h) ==
    /\ pc[h] = "absent"
    /\ pc[<<h[1], h[2], 1>>] # "absent"
    /\ pc' = [pc EXCEPT ![h] = "begun"]
    /\ Fault
    /\ UNCHANGED <<tries, call, spent, nonces, served>>

-----------------------------------------------------------------------------
(* RoundTrip of a handler *)

\* With a seeded bug: the token endpoint does not remember what it consumed.
ExchangeUnspent(h) ==
    /\ pc[h] = "begun"
    /\ Answer(h, "exchanged")
    /\ UNCHANGED <<tries, call, spent, nonces, served>>

\* Exchange: the subject token is consumed before the answer that may be lost,
\* and a second exchange of it is refused.
Exchange(h) ==
    /\ pc[h] = "begun"
    /\ \/ /\ SubjectToken(h) \in spent
          /\ pc' = [pc EXCEPT ![h] = "failed"]
          /\ UNCHANGED <<spent, faults>>
       \/ /\ SubjectToken(h) \notin spent
          /\ spent' = spent \cup {SubjectToken(h)}
          /\ Answer(h, "exchanged")
    /\ UNCHANGED <<tries, call, nonces, served>>

\* With a seeded bug: the nonce of a challenge is not kept.
SendForgotten(h) ==
    /\ pc[h] = "exchanged"
    /\ Answer(h, "challenged")
    /\ UNCHANGED <<tries, call, spent, nonces, served>>

\* The first request has a proof without a nonce: the gateway challenges it.
Send(h) ==
    /\ pc[h] = "exchanged"
    /\ nonces' = nonces \cup {h}
    /\ Answer(h, "challenged")
    /\ UNCHANGED <<tries, call, spent, served>>

\* replayBodyOK: only a body that can be made again is sent again.
ReplayBodyOK(h) == h[1] \in Replayable

\* A challenge that cannot be answered is the response of the request.
GiveUp(h) ==
    /\ pc[h] = "challenged"
    /\ ~ReplayBodyOK(h)
    /\ pc' = [pc EXCEPT ![h] = "failed"]
    /\ UNCHANGED <<tries, call, spent, nonces, served, faults>>

\* The one retry, with the nonce: the gateway consumes it and the backend gets
\* the body, or it does not know it any more and challenges again.
Retry(h) ==
    /\ pc[h] = "challenged"
    /\ ReplayBodyOK(h)
    /\ \/ /\ h \in nonces
          /\ nonces' = nonces \ {h}
          /\ served' = [served EXCEPT ![SubjectToken(h)] = 
                Append(@, IF h[1] \in Replayable THEN "whole" ELSE "empty")]
          /\ Answer(h, "done")
       \/ /\ h \notin nonces
          /\ pc' = [pc EXCEPT ![h] = "failed"]
          /\ UNCHANGED <<nonces, served, faults>>
    /\ UNCHANGED <<tries, call, spent>>

\* A nonce expires,
Expire(h) ==
    /\ h \in nonces
    /\ nonces' = nonces \ {h}
    /\ Fault
    /\ UNCHANGED <<tries, call, pc, spent, served>>

\* or the gateway restarts and has none any more.
Restart ==
    /\ nonces' = {}
    /\ Fault
    /\ UNCHANGED <<tries, call, pc, spent, served>>

Serve(h) == Exchange(h) \/ Send(h) \/ GiveUp(h) \/ Retry(h)

Next ==
    \/ \E j \in Job : Call(j) \/ Return(j)
    \/ \E h \in Handler : Serve(h) \/ Repeat(h) \/ Expire(h)
    \/ Restart

\* Callers and handlers go on; nothing makes a fault happen.
Fairness ==
    /\ \A j \in Job : WF_vars(Call(j)) /\ WF_vars(Return(j))
    /\ \A h \in Handler : WF_vars(Serve(h))

Spec == Init /\ [][Next]_vars /\ Fairness

-----------------------------------------------------------------------------
(* Properties *)

\* However often a request is repeated and whichever answers are lost, the token
\* that came with it moves the backend once: copies compete for one exchange,
\* and the retry is of a request that the gateway had refused.  The backend gets
\* the request as the caller made it, never the rest of a body that the first
\* attempt has read (AI12, RoundTrip, replayBodyOK).
ServedOnce == \A s \in Subject : served[s] \in {<<>>, <<"whole">>}

\* Retrying a hop from the user's token is enough: after lost answers, repeated
\* requests, expired nonces and restarts a job with a replayable body is served
\* in the end, though the retry inside RoundTrip happens once and what failed 
\* has spent its subject token (docs/operations.md, Replay).
EventuallyServed == 
    \A j \in Replayable : <>(\E n \in Try : served[<<j, n>>] # <<>>)
=============================================================================
