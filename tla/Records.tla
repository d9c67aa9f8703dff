-------------------------------- MODULE Records --------------------------------
(* What is on record, what is read of it, and what was done.  A behaviour is *)
(* one of three parts:                                                       *)
(*   "append": several processes, one after the other, write an audit log;   *)
(*   "trace":  a log of each service and one of mcp-visor are read together; *)
(*   "hops":   jobs of two hops, some with a body that is gone once it was   *)
(*             read, and faults wherever they hurt.                          *)
EXTENDS AuditLog

CONSTANTS UserTokens, VisorLines, Garbled, Prefix, Long, 
          MaxRecords, MaxLines, MaxTime, Job, Replayable, Copies, Faults

\* The IdP gives its tokens a jti, and no minted id, which module Trace has as a
\* number, is an empty one.
ASSUME RecordsAssumption ==
    /\ None \notin Nat
    /\ \A t \in UserTokens : t = [jti |-> t.jti, txn |-> t.txn] /\ t.jti # None
    /\ \A line \in VisorLines : line.time \in Nat

VARIABLES part,
          now, tokens, logs, visor,
          tries, call, pc, spent, nonces, served, faults

services == <<now, tokens, logs, visor>>
agents == <<tries, call, pc, spent, nonces, served, faults>>

recordsVars == <<vars, part, services, agents>>

Incident == INSTANCE Trace

Hops == INSTANCE Delegation

RecordsInit == 
    /\ Init
    /\ part \in {"append", "trace", "hops"}
    /\ IF part = "trace" THEN Incident!Init
                         ELSE now = 0 /\ tokens = {} /\ logs = <<>> /\ visor = <<>>
    /\ IF part = "hops" THEN Hops!Init
                        ELSE /\ tries = <<>> /\ call = [j \in Job |-> "done"] 
                             /\ pc = [h \in Hops!Handler |-> "absent"]
                             /\ spent = {} /\ nonces = {} 
                             /\ served = [s \in Hops!Subject |-> <<>>]
                             /\ faults = 0

Appending == part = "append" /\ UNCHANGED <<part, services, agents>>
Tracing == part = "trace" /\ UNCHANGED <<vars, part, agents>>
Hopping == part = "hops" /\ UNCHANGED <<vars, part, services>>

RecordsNext ==
    \/ Appending /\ \E e \in Event : Write(e)
    \/ Appending /\ \E e \in Event : WriteFails(e)
    \/ Appending /\ Sync
    \/ Appending /\ SyncFails
    \/ Appending /\ Crash
    \/ Appending /\ Restart
    \/ Tracing /\ Incident!Tick
    \/ Tracing /\ \E t \in tokens : Incident!Mint(t)
    \/ Tracing /\ \E t \in tokens \cup {None} : Incident!Deny(t)
    \/ Tracing /\ \E t \in (tokens \ UserTokens) \cup {None} : Incident!Decide(t)
    \/ Tracing /\ \E line \in VisorLines \cup {Garbled} : 
                      Incident!Write(line)
    \/ \E j \in Job : 
          \/ Hopping /\ Hops!Call(j)
          \/ Hopping /\ Hops!Return(j)
    \/ \E h \in Hops!Handler :
          \/ Hopping /\ Hops!Exchange(h)
          \/ Hopping /\ Hops!Send(h)
          \/ Hopping /\ Hops!GiveUp(h)
          \/ Hopping /\ Hops!Retry(h)
          \/ Hopping /\ Hops!Repeat(h)
          \/ Hopping /\ Hops!Expire(h)
    \/ Hopping /\ Hops!Restart

RecordsSpec == RecordsInit /\ [][RecordsNext]_recordsVars /\ Hops!Fairness

-----------------------------------------------------------------------------
(* Properties of the reconstruction *)

\* A lookup by what token inspect shows of a token finds every decision about
\* it, in both logs, by its jti as by its transaction; one that reads the log of
\* mcp-visor too finds as many or fails, by a line that does not load (Trace).
LookupFindsAll == part = "trace" => Incident!LookupFindsAll

\* In every reconstruction that is returned, the unverified lines of mcp-visor
\* choose no transaction, displace no record of the audit logs and reorder none;
\* none is returned when one of these lines does not load (Trace, recordLess).
VisorOnlyAdds == part = "trace" => Incident!VisorOnlyAdds

\* Records of one log come out in the order of its chain, as long as the wall
\* clock is not set back (recordLess).
ChainOrder == part = "trace" => Incident!ChainOrder

-----------------------------------------------------------------------------
(* Properties of the hops *)

\* A minted token moves the backend once and with the whole body of its request,
\* whatever is repeated, lost or retried on the way (RoundTrip, AI12).
ServedOnce == Hops!ServedOnce

\* A job that is tried again from the user's token is served in the end, though
\* every failed try has spent its own token (RoundTrip, replayBodyOK).
EventuallyServed == part = "hops" => Hops!EventuallyServed
=============================================================================
