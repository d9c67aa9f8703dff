--------------------------------- MODULE Trace ---------------------------------
(***************************************************************************)
(* Incident reconstruction, internal/audit/trace.go, over what the token   *)
(* endpoint, the gateway and mcp-visor have logged of the tokens in use.   *)
(*                                                                         *)
(* Both audit logs are intact: module AuditLog has the chain they are      *)
(* verified by.  Nothing verifies the log of mcp-visor, and one line of it *)
(* that does not load makes Trace return an error and no record.           *)
(*                                                                         *)
(* A record has what Trace reads of it; an id is a value, and what         *)
(* canonicalizeEvent keeps of a long one is its Prefix.                    *)
(***************************************************************************)
EXTENDS Naturals, Sequences, FiniteSets

CONSTANTS UserTokens,   \* what the IdP issued: [jti, txn]
          VisorLines,   \* lines of mcp-visor: [txn, session, jti, time]
          Garbled,      \* a line that is not JSON, or is too long to be read
          Long,         \* ids of more than maxEventString bytes
          Prefix,       \* what is left of any of them
          None,         \* an empty id
          MaxRecords,   \* bound on the decisions
          MaxLines,     \* bound on the lines of mcp-visor
          MaxTime       \* bound on the clock

VARIABLES now,     \* the wall clock
          tokens,  \* tokens anybody may present
          logs,    \* the audit logs, by source
          visor    \* the log of mcp-visor

vars == <<now, tokens, logs, visor>>

STS == 1
PEP == 2
Visor == 3

-----------------------------------------------------------------------------
(* Trace *)

\* parseRecordTime of what is no time
NoTime == 0

\* With a seeded bug: records of one moment come last first.
RecordLessLastFirst(a, b) ==
    \/ /\ a.time # b.time
       /\ a.time # NoTime /\ (b.time = NoTime \/ a.time < b.time)
    \/ /\ a.time = b.time /\ a.verified /\ b.verified
       /\ a.source < b.source \/ (a.source = b.source /\ a.index > b.index)
    \/ a.time = b.time /\ a.verified /\ ~b.verified

\* recordLess: by time, verified before unverified, by file and chain index.
RecordLess(a, b) ==
    \/ /\ a.time # b.time
       /\ a.time # NoTime /\ (b.time = NoTime \/ a.time < b.time)
    \/ /\ a.time = b.time /\ a.verified /\ b.verified
       /\ a.source < b.source \/ (a.source = b.source /\ a.index < b.index)
    \/ a.time = b.time /\ a.verified /\ ~b.verified

\* sort.SliceStable: element i comes before element j of what is sorted.
Before(s, i, j) == 
    RecordLess(s[i], s[j]) \/ (~RecordLess(s[j], s[i]) /\ i < j)

\* The picked elements of s, each at the place that those before it leave it.
Place(s, picked, i) == 1 + Cardinality({j \in picked : Before(s, j, i)})

Sorted(s, picked) ==
    [n \in 1..Cardinality(picked) |-> 
        s[CHOOSE i \in picked : Place(s, picked, i) = n]]

\* With a seeded bug: a line of mcp-visor may tell the transaction of a jti.
TransactionsOfAny(q, verified, unverified) ==
    IF q.jti = None THEN {q.txn}
    ELSE LET all == verified \o unverified
             named == {all[i].txn : i \in {i \in DOMAIN all : all[i].jti = q.jti}}
         IN  (named \ {None}) \cap (IF q.txn = None THEN named ELSE {q.txn})

\* The transactions a query is about: a jti names those it was audited with.
Transactions(q, verified, unverified) ==
    IF q.jti = None THEN {q.txn}
    ELSE LET named == {verified[i].txn : 
                          i \in {i \in DOMAIN verified : verified[i].jti = q.jti}}
         IN  (named \ {None}) \cap (IF q.txn = None THEN named ELSE {q.txn})

\* With a seeded bug: what has a jti and no transaction is left out.
SelectedWithTxn(q, r, txns) ==
    IF r.verified THEN r.txn \in txns \ {None}
    ELSE {r.txn, r.session} \cap (txns \ {None}) # {}

Selected(q, r, txns) ==
    IF r.verified 
    THEN \/ r.txn \in txns \ {None}
         \/ r.txn = None /\ q.jti # None /\ r.jti = q.jti
    ELSE {r.txn, r.session} \cap (txns \ {None}) # {}

\* Nothing at all for a jti and a transaction that do not go together.
Reconstruction(q, verified, unverified) ==
    LET all == verified \o unverified
        txns == Transactions(q, verified, unverified)
    IN  IF q.jti # None /\ q.txn # None /\ txns = {} THEN <<>>
        ELSE Sorted(all, {i \in DOMAIN all : Selected(q, all[i], txns)})

\* loadGenericRecords, of lines that load
GenericRecord(line) ==
    [source |-> Visor, verified |-> FALSE, time |-> line.time, index |-> 0, 
     session |-> line.session, about |-> None, txn |-> line.txn, jti |-> line.jti]

LoadGeneric(lines) == [i \in DOMAIN lines |-> GenericRecord(lines[i])]

\* Trace: a line of mcp-visor that does not load fails the whole lookup, and so 
\* does a file that cannot be opened.
TraceOf(q, verified, lines) ==
    IF \E i \in DOMAIN lines : lines[i] = Garbled 
    THEN [err |-> TRUE, recs |-> <<>>]
    ELSE [err |-> FALSE, recs |-> Reconstruction(q, verified, LoadGeneric(lines))]

-----------------------------------------------------------------------------
(* Logging *)

\* canonicalizeEvent: boundEventString of an id
BoundEventString(id) == IF id \in Long THEN Prefix ELSE id

\* Append, of a decision about a token; None when no token was verified.
Record(source, t) ==
    [source |-> source, verified |-> TRUE, time |-> now, 
     index |-> Len(logs[source]) + 1, session |-> None, about |-> t,
     txn |-> IF t = None THEN None ELSE BoundEventString(t.txn), 
     jti |-> IF t = None THEN None ELSE BoundEventString(t.jti)]

Log(source, t) == logs' = [logs EXCEPT ![source] = Append(@, Record(source, t))]

Room == Len(logs[STS]) + Len(logs[PEP]) < MaxRecords

Init ==
    /\ now = 1
    /\ tokens = UserTokens
    /\ logs = [s \in {STS, PEP} |-> <<>>]
    /\ visor = <<>>

Tick ==
    /\ now < MaxTime
    /\ now' = now + 1
    /\ UNCHANGED <<tokens, logs, visor>>

\* A token is exchanged: the minted one is audited, with the transaction of its
\* subject or a new one,
Mint(t) ==
    /\ Room
    /\ LET n == Len(logs[STS]) + 1
           minted == [jti |-> n, txn |-> IF t.txn = None THEN n ELSE t.txn]
       IN  tokens' = tokens \cup {minted} /\ Log(STS, minted)
    /\ UNCHANGED <<now, visor>>

\* or the exchange is denied, with the ids of a subject that was verified.
Deny(t) ==
    /\ Room
    /\ Log(STS, t)
    /\ UNCHANGED <<now, tokens, visor>>

\* The gateway allows or denies a minted token.
Decide(t) ==
    /\ Room
    /\ Log(PEP, t)
    /\ UNCHANGED <<now, tokens, visor>>

\* mcp-visor, or whoever can write to its log, adds a line.
Write(line) ==
    /\ Len(visor) < MaxLines
    /\ visor' = Append(visor, line)
    /\ UNCHANGED <<now, tokens, logs>>

Next ==
    \/ Tick
    \/ \E t \in tokens : Mint(t)
    \/ \E t \in tokens \cup {None} : Deny(t)
    \/ \E t \in (tokens \ UserTokens) \cup {None} : Decide(t)
    \/ \E line \in VisorLines \cup {Garbled} : Write(line)

Spec == Init /\ [][Next]_vars

-----------------------------------------------------------------------------
(* Properties *)

Verified == logs[STS] \o logs[PEP]

ByJti(t) == [jti |-> t.jti, txn |-> None]
ByTxn(t) == [jti |-> None, txn |-> t.txn]
By(t) == {ByJti(t)} \cup (IF t.txn = None THEN {} ELSE {ByTxn(t)})

Finds(out, r) == \E n \in DOMAIN out.recs : out.recs[n] = r

\* A lookup by what token inspect shows of a stolen token finds every decision
\* about it, failed hops too, by its jti as by its transaction 
\* (docs/runbooks.md).  With the log of mcp-visor it finds as many or fails; the
\* audit logs alone are enough for it, whatever is in that one.
LookupFindsAll ==
    \A i \in DOMAIN Verified : 
        LET r == Verified[i]
        IN  r.about # None =>
               \A q \in By(r.about) : 
                   LET out == TraceOf(q, Verified, visor)
                   IN  /\ Finds(TraceOf(q, Verified, <<>>), r)
                       /\ out.err \/ Finds(out, r)

\* In a reconstruction that is returned, the lines of mcp-visor are added to what
\* the audit logs alone give, and change nothing in it: they choose no
\* transaction, displace no verified record and reorder none.  (That one is 
\* returned is up to whoever writes that log: see TraceOf.)
VisorOnlyAdds ==
    \A t \in tokens : \A q \in By(t) :
        LET out == TraceOf(q, Verified, visor)
            bare == TraceOf(q, Verified, <<>>)
            at(n, k) == out.recs[n] = bare.recs[k]
        IN  ~out.err =>
               /\ \A k \in DOMAIN bare.recs : Finds(out, bare.recs[k])
               /\ \A n \in DOMAIN out.recs : 
                     out.recs[n].verified => Finds(bare, out.recs[n])
               /\ \A n, m \in DOMAIN out.recs : \A k, l \in DOMAIN bare.recs :
                     at(n, k) /\ at(m, l) => (n < m <=> k < l)

\* While the wall clock is not set back the records of one log come in the order 
\* of their chain, those of one moment included.
ChainOrder ==
    \A t \in tokens : \A q \in By(t) :
        LET out == TraceOf(q, Verified, visor).recs
        IN  \A i, j \in DOMAIN out : 
               out[i].verified /\ out[j].verified /\ i < j
               /\ out[i].source = out[j].source => out[i].index < out[j].index
=============================================================================
