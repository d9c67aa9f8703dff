---------------------------- MODULE RecordsProofs ----------------------------
(***************************************************************************)
(* For every set of tokens, jobs and lines and any number of decisions,    *)
(* faults and copies: what a reconstruction finds and in which order, and  *)
(* that a minted token moves the backend once.                             *)
(***************************************************************************)
EXTENDS Records, FiniteSetTheorems, SequenceTheorems, TLAPS

-----------------------------------------------------------------------------
(* Sorting: places by the number of elements before *)

\* The cardinality that the instance of module Trace counts with.
LEMMA SameCardinality ==
  \A S : Incident!Cardinality(S) = Cardinality(S)
  BY DEF Incident!Cardinality, Cardinality

\* In a finite set with a strict total order R, counting what comes before an
\* element numbers the elements from 1, in the order of R.
LEMMA Ranks ==
  ASSUME NEW P, IsFiniteSet(P), NEW R,
         \A i \in P : <<i, i>> \notin R,
         \A i, j, k \in P : <<i, j>> \in R /\ <<j, k>> \in R => <<i, k>> \in R,
         \A i, j \in P : i # j => <<i, j>> \in R \/ <<j, i>> \in R,
         NEW place, 
         place = [i \in P |-> 1 + Cardinality({j \in P : <<j, i>> \in R})]
  PROVE  /\ place \in Bijection(P, 1..Cardinality(P))
         /\ \A i, j \in P : <<i, j>> \in R <=> place[i] < place[j]
  <1>0. Cardinality(P) \in Nat
    BY FS_CardinalityType
  <1> DEFINE below(i) == {j \in P : <<j, i>> \in R}
  <1>1. ASSUME NEW i \in P
        PROVE  /\ IsFiniteSet(below(i)) /\ Cardinality(below(i)) \in Nat
               /\ place[i] = 1 + Cardinality(below(i))
               /\ place[i] \in 1..Cardinality(P)
    <2>1. below(i) \in SUBSET P /\ i \in P \ below(i)
      OBVIOUS
    <2>2. /\ IsFiniteSet(below(i)) /\ Cardinality(below(i)) <= Cardinality(P)
          /\ Cardinality(P) = Cardinality(below(i)) => P = below(i)
      BY <2>1, FS_Subset
    <2>3. Cardinality(P) \in Nat /\ Cardinality(below(i)) \in Nat
      BY <2>2, FS_CardinalityType
    <2>4. place[i] = 1 + Cardinality(below(i))
      OBVIOUS
    <2> HIDE DEF below
    <2> QED
      BY <2>1, <2>2, <2>3, <2>4
  <1>2. ASSUME NEW i \in P, NEW j \in P, <<i, j>> \in R
        PROVE  place[i] < place[j]
    <2>1. below(i) \in SUBSET below(j) /\ i \in below(j) \ below(i)
      BY <1>2
    <2>2. /\ Cardinality(below(i)) <= Cardinality(below(j))
          /\ Cardinality(below(j)) = Cardinality(below(i)) => below(j) = below(i)
      BY <2>1, <1>1, FS_Subset
    <2>3. Cardinality(below(i)) # Cardinality(below(j))
      BY <2>1, <2>2
    <2> HIDE DEF below
    <2> QED
      BY <2>2, <2>3, <1>1
  <1> HIDE DEF below
  <1>3. place \in [P -> 1..Cardinality(P)]
    BY <1>1
  <1>4. \A i, j \in P : <<i, j>> \in R <=> place[i] < place[j]
    <2> SUFFICES ASSUME NEW i \in P, NEW j \in P, place[i] < place[j]
                 PROVE  <<i, j>> \in R
      BY <1>2
    <2>0. place[i] \in Nat /\ place[j] \in Nat
      BY <1>0, <1>3
    <2>1. CASE i = j
      BY <2>0, <2>1
    <2>2. CASE <<j, i>> \in R
      <3>1. place[j] < place[i]
        BY <2>2, <1>2
      <3> QED
        BY <2>0, <3>1
    <2> QED
      BY <2>1, <2>2
  <1>5. place \in Injection(P, 1..Cardinality(P))
    <2>1. \A i, j \in P : place[i] = place[j] => i = j
      <3> SUFFICES ASSUME NEW i \in P, NEW j \in P, place[i] = place[j], i # j
                   PROVE  FALSE
        OBVIOUS
      <3>1. place[i] < place[j] \/ place[j] < place[i]
        BY <1>4
      <3> QED
        BY <3>1, <1>0, <1>3
    <2> QED
      BY <1>3, <2>1 DEF Injection, IsInjective
  <1>6. IsFiniteSet(1..Cardinality(P)) /\ Cardinality(1..Cardinality(P)) = Cardinality(P)
    BY <1>0, FS_Interval
  <1>7. place \in Surjection(P, 1..Cardinality(P))
    BY <1>5, <1>6, FS_Injection
  <1> QED
    BY <1>4, <1>5, <1>7 DEF Bijection

\* What recordLess reads of a record.
Comparable(s) == 
    \A i \in DOMAIN s : /\ s[i].time \in Nat /\ s[i].source \in Nat 
                        /\ s[i].index \in Nat /\ s[i].verified \in BOOLEAN

\* Records are totally ordered by recordLess and, where it ties, their place.
LEMMA BeforeOrders ==
  ASSUME NEW s, DOMAIN s \subseteq Nat, Comparable(s)
  PROVE  /\ \A i \in DOMAIN s : ~Incident!Before(s, i, i)
         /\ \A i, j, k \in DOMAIN s :
               Incident!Before(s, i, j) /\ Incident!Before(s, j, k)
               => Incident!Before(s, i, k)
         /\ \A i, j \in DOMAIN s : 
               i # j => Incident!Before(s, i, j) \/ Incident!Before(s, j, i)
  <1>1. ASSUME NEW i \in DOMAIN s
        PROVE  ~Incident!Before(s, i, i)
    BY DEF Comparable, Incident!Before, Incident!RecordLess, Incident!NoTime
  <1>2. ASSUME NEW i \in DOMAIN s, NEW j \in DOMAIN s, i # j
        PROVE  Incident!Before(s, i, j) \/ Incident!Before(s, j, i)
    BY <1>2 DEF Comparable, Incident!Before, Incident!RecordLess, Incident!NoTime
  <1>3. ASSUME NEW i \in DOMAIN s, NEW j \in DOMAIN s, NEW k \in DOMAIN s,
               Incident!Before(s, i, j), Incident!Before(s, j, k)
        PROVE  Incident!Before(s, i, k)
    BY <1>3, SMTT(60)
    DEF Comparable, Incident!Before, Incident!RecordLess, Incident!NoTime
  <1> QED
    BY <1>1, <1>2, <1>3

\* Sorted returns the picked elements, each in one place, in the order of Before.
LEMMA SortedPlaces ==
  ASSUME NEW s, DOMAIN s \subseteq Nat, Comparable(s), 
         NEW P \in SUBSET DOMAIN s, IsFiniteSet(P)
  PROVE  \E at \in [DOMAIN Incident!Sorted(s, P) -> P] :
            /\ \A n \in DOMAIN at : Incident!Sorted(s, P)[n] = s[at[n]]
            /\ DOMAIN at \subseteq Nat
            /\ \A i \in P : \E n \in DOMAIN at : at[n] = i
            /\ \A n, m \in DOMAIN at : n < m <=> Incident!Before(s, at[n], at[m])
  <1> DEFINE R == {p \in P \X P : Incident!Before(s, p[1], p[2])}
             place == [i \in P |-> 1 + Cardinality({j \in P : <<j, i>> \in R})]
             N == 1..Cardinality(P)
             at == [n \in N |-> CHOOSE i \in P : place[i] = n]
  <1>1. \A i, j \in P : <<i, j>> \in R <=> Incident!Before(s, i, j)
    OBVIOUS
  <1> HIDE DEF R
  <1>2. /\ place \in Bijection(P, N)
        /\ \A i, j \in P : <<i, j>> \in R <=> place[i] < place[j]
    <2>1. /\ \A i \in P : <<i, i>> \notin R
          /\ \A i, j, k \in P : <<i, j>> \in R /\ <<j, k>> \in R => <<i, k>> \in R
          /\ \A i, j \in P : i # j => <<i, j>> \in R \/ <<j, i>> \in R
      BY <1>1, BeforeOrders
    <2> QED
      BY <2>1, Ranks
  <1>3. Incident!Sorted(s, P) = [n \in N |-> s[at[n]]]
    <2>1. ASSUME NEW i \in P 
          PROVE  place[i] = Incident!Place(s, P, i)
      <3>1. {j \in P : <<j, i>> \in R} = {j \in P : Incident!Before(s, j, i)}
        BY <1>1
      <3> QED
        BY <3>1, SameCardinality DEF Incident!Place
    <2> HIDE DEF place
    <2>2. ASSUME NEW n \in N
          PROVE  at[n] = CHOOSE i \in P : Incident!Place(s, P, i) = n
      <3>1. \A i : (i \in P /\ place[i] = n) <=>
                     (i \in P /\ Incident!Place(s, P, i) = n)
        BY <2>1
      <3>2. (CHOOSE i : i \in P /\ place[i] = n) =
               CHOOSE i : i \in P /\ Incident!Place(s, P, i) = n
        BY <3>1
      <3> QED
        BY <3>2
    <2> HIDE DEF at
    <2> QED
      <3>1. Incident!Cardinality(P) = Cardinality(P)
        BY SameCardinality
      <3>2. Incident!Sorted(s, P) =
               [n \in 1..Incident!Cardinality(P) |-> 
                  s[CHOOSE i \in P : Incident!Place(s, P, i) = n]]
        BY DEF Incident!Sorted
      <3>3. Incident!Sorted(s, P) =
               [n \in N |-> s[CHOOSE i \in P : Incident!Place(s, P, i) = n]]
        BY <3>1, <3>2
      <3> QED
        BY <2>2, <3>3
  <1> HIDE DEF place
  <1>4. ASSUME NEW n \in N
        PROVE  at[n] \in P /\ place[at[n]] = n
    <2>1. \E i \in P : place[i] = n
      BY <1>2 DEF Bijection, Surjection
    <2> QED
      BY <2>1
  <1>5. \A i \in P : place[i] \in N /\ at[place[i]] = i
    <2> SUFFICES ASSUME NEW i \in P
                 PROVE  place[i] \in N /\ at[place[i]] = i
      OBVIOUS
    <2>1. place[i] \in N
      BY <1>2 DEF Bijection, Injection
    <2>2. at[place[i]] \in P /\ place[at[place[i]]] = place[i]
      BY <2>1, <1>4
    <2> HIDE DEF at
    <2> QED
      BY <2>1, <2>2, <1>2 DEF Bijection, Injection, IsInjective
  <1>6. at \in [N -> P]
    BY <1>4
  <1>7. N \subseteq Nat /\ DOMAIN Incident!Sorted(s, P) = N /\ DOMAIN at = N
    BY <1>3
  <1>8. \A n \in N : Incident!Sorted(s, P)[n] = s[at[n]]
    BY <1>3
  <1> HIDE DEF at, N
  <1>9. \A n, m \in N : n < m <=> Incident!Before(s, at[n], at[m])
    BY <1>1, <1>2, <1>4, <1>6
  <1>10. \A i \in P : \E n \in N : at[n] = i
    BY <1>5
  <1> QED
    BY <1>6, <1>7, <1>8, <1>9, <1>10

-----------------------------------------------------------------------------
(* The invariant of the services *)

Ids == {t.jti : t \in UserTokens} \cup {t.txn : t \in UserTokens} 
       \cup Nat \cup {None, Prefix}

Token == [jti : Ids \ {None}, txn : Ids]

LogRecord == [source : {1, 2}, verified : {TRUE}, time : Nat, index : Nat,
              session : {None}, about : Token \cup {None}, txn : Ids, jti : Ids]

VisorRecord == {[source |-> 3, verified |-> FALSE, time |-> line.time, 
                 index |-> 0, session |-> line.session, about |-> None, 
                 txn |-> line.txn, jti |-> line.jti] : line \in VisorLines}

\* A log has its records one after the other, in the order of their times, each
\* with the bounded ids of the token that it is about.
LogsInv ==
    \A s \in {1, 2} :
        /\ \A k \in 1..Len(logs[s]) : 
              LET r == logs[s][k]
              IN  /\ r.source = s /\ r.index = k
                  /\ r.time # 0 /\ r.time <= now
                  /\ r.about # None => 
                        /\ r.txn = Incident!BoundEventString(r.about.txn)
                        /\ r.jti = Incident!BoundEventString(r.about.jti)
        /\ \A k, l \in 1..Len(logs[s]) : 
              k < l => logs[s][k].time <= logs[s][l].time

TraceInv ==
    /\ now \in Nat \ {0}
    /\ tokens \subseteq Token
    /\ logs \in [{1, 2} -> Seq(LogRecord)]
    /\ visor \in Seq(VisorLines \cup {Garbled})
    /\ LogsInv

\* A decision about a token, or about none, prolongs a log.
LEMMA LogGrows ==
  ASSUME TraceInv, NEW s \in {1, 2}, NEW t \in Token \cup {None},
         Incident!Log(s, t), now' = now
  PROVE  logs' \in [{1, 2} -> Seq(LogRecord)] /\ LogsInv'
  <1> DEFINE r == Incident!Record(s, t)
  <1>1. Len(logs[s]) \in Nat
    BY DEF TraceInv
  <1>2. r.time = now /\ r.source = s /\ r.index = Len(logs[s]) + 1 /\ r.about = t
    BY DEF Incident!Record
  <1>3. t # None => /\ r.txn = Incident!BoundEventString(t.txn)
                    /\ r.jti = Incident!BoundEventString(t.jti)
    BY DEF Incident!Record
  <1>4. r \in LogRecord
    <2>1. None \in Ids /\ Prefix \in Ids
      BY DEF Ids
    <2>2. t # None => t.txn \in Ids /\ t.jti \in Ids
      BY DEF Token
    <2> QED
      BY <1>1, <2>1, <2>2 
      DEF TraceInv, Incident!Record, Incident!BoundEventString, LogRecord
  <1>5. logs' = [logs EXCEPT ![s] = Append(@, r)]
    BY DEF Incident!Log
  <1> HIDE DEF r
  <1>6. logs' \in [{1, 2} -> Seq(LogRecord)]
    BY <1>4, <1>5, AppendProperties DEF TraceInv
  <1>7. /\ Len(logs'[s]) = Len(logs[s]) + 1
        /\ \A k \in 1..Len(logs[s]) : logs'[s][k] = logs[s][k]
        /\ logs'[s][Len(logs[s]) + 1] = r
        /\ \A u \in {1, 2} \ {s} : logs'[u] = logs[u]
    BY <1>4, <1>5, AppendProperties DEF TraceInv
  <1>8. ASSUME NEW u \in {1, 2}, NEW k \in 1..Len(logs'[u])
        PROVE  LET o == logs'[u][k]
               IN  /\ o.source = u /\ o.index = k
                   /\ o.time # 0 /\ o.time <= now'
                   /\ o.about # None => 
                         /\ o.txn = Incident!BoundEventString(o.about.txn)
                         /\ o.jti = Incident!BoundEventString(o.about.jti)
    <2>1. CASE u = s /\ k = Len(logs[s]) + 1
      BY <1>2, <1>3, <1>7, <2>1 DEF TraceInv, Incident!BoundEventString
    <2>2. CASE ~(u = s /\ k = Len(logs[s]) + 1)
      <3>1. k \in 1..Len(logs[u]) /\ logs'[u][k] = logs[u][k]
        BY <1>1, <1>7, <2>2
      <3> QED
        BY <3>1 DEF TraceInv, LogsInv, Incident!BoundEventString
    <2> QED
      BY <2>1, <2>2
  <1>9. ASSUME NEW u \in {1, 2}, NEW k \in 1..Len(logs'[u]), 
               NEW l \in 1..Len(logs'[u]), k < l
        PROVE  logs'[u][k].time <= logs'[u][l].time
    <2>1. CASE u = s /\ l = Len(logs[s]) + 1
      <3>1. k \in 1..Len(logs[s])
        BY <1>1, <1>7, <1>9, <2>1
      <3>2. logs[s][k].time <= now
        BY <3>1 DEF TraceInv, LogsInv
      <3> QED
        BY <1>2, <1>7, <2>1, <3>1, <3>2
    <2>2. CASE ~(u = s /\ l = Len(logs[s]) + 1)
      <3>1. /\ k \in 1..Len(logs[u]) /\ logs'[u][k] = logs[u][k]
            /\ l \in 1..Len(logs[u]) /\ logs'[u][l] = logs[u][l]
        BY <1>1, <1>7, <1>9, <2>2
      <3> QED
        BY <3>1, <1>9 DEF TraceInv, LogsInv
    <2> QED
      BY <2>1, <2>2
  <1> QED
    BY <1>6, <1>8, <1>9 DEF LogsInv, Incident!BoundEventString

\* The services start with the user's tokens and nothing logged.
LEMMA TraceInit ==
  ASSUME Incident!Init
  PROVE  TraceInv
  <1>1. UserTokens \subseteq Token
    BY RecordsAssumption DEF Token, Ids
  <1> QED
    BY <1>1 DEF Incident!Init, TraceInv, LogsInv, Incident!STS, Incident!PEP

\* The logs stay as they are while none is written to and time goes on.
LEMMA LogsStay ==
  ASSUME LogsInv, logs' = logs, 
         \A s \in {1, 2} : \A k \in 1..Len(logs[s]) : logs[s][k].time <= now'
  PROVE  LogsInv'
  BY DEF LogsInv, Incident!BoundEventString

\* Every step of the services, and every step that leaves them alone, keeps it.
LEMMA TraceStep ==
  ASSUME TraceInv, 
         Incident!Next \/ UNCHANGED services
  PROVE  TraceInv'
  <1>1. CASE Incident!Tick
    <2>1. now' \in Nat \ {0} /\ now <= now' 
      BY <1>1 DEF Incident!Tick, TraceInv
    <2>2. LogsInv'
      <3>1. logs' = logs /\ LogsInv
        BY <1>1 DEF Incident!Tick, TraceInv
      <3>2. ASSUME NEW s \in {1, 2}, NEW k \in 1..Len(logs[s])
            PROVE  logs[s][k].time <= now'
        <4>1. logs[s][k].time <= now
          BY DEF TraceInv, LogsInv
        <4>2. logs[s] \in Seq(LogRecord)
          BY DEF TraceInv
        <4>3. logs[s][k] \in LogRecord
          BY <4>2
        <4>4. logs[s][k].time \in Nat
          BY <4>3 DEF LogRecord
        <4> QED
          BY <4>1, <4>4, <2>1 DEF TraceInv
      <3> QED
        BY <3>1, <3>2, LogsStay
    <2> QED
      BY <1>1, <2>1, <2>2 DEF Incident!Tick, TraceInv
  <1>2. ASSUME NEW t \in tokens, Incident!Mint(t)
        PROVE  TraceInv'
    <2> DEFINE n == Len(logs[1]) + 1
               minted == [jti |-> n, txn |-> IF t.txn = None THEN n ELSE t.txn]
    <2>1. t \in Token /\ n \in Nat
      BY DEF TraceInv
    <2>2. minted \in Token
      BY <2>1, RecordsAssumption DEF Token, Ids
    <2>3. tokens' = tokens \cup {minted} /\ Incident!Log(1, minted) 
          /\ now' = now /\ visor' = visor
      BY <1>2 DEF Incident!Mint, Incident!STS
    <2> HIDE DEF minted
    <2>4. logs' \in [{1, 2} -> Seq(LogRecord)] /\ LogsInv'
      BY <2>2, <2>3, LogGrows
    <2> QED
      BY <2>2, <2>3, <2>4 DEF TraceInv
  <1>3. ASSUME NEW t \in tokens \cup {None}, Incident!Deny(t)
        PROVE  TraceInv'
    <2>1. t \in Token \cup {None}
      BY DEF TraceInv
    <2>2. Incident!Log(1, t) /\ UNCHANGED <<now, tokens, visor>>
      BY <1>3 DEF Incident!Deny, Incident!STS
    <2> QED
      BY <2>1, <2>2, LogGrows DEF TraceInv
  <1>4. ASSUME NEW t \in (tokens \ UserTokens) \cup {None}, Incident!Decide(t)
        PROVE  TraceInv'
    <2>1. t \in Token \cup {None}
      BY DEF TraceInv
    <2>2. Incident!Log(2, t) /\ UNCHANGED <<now, tokens, visor>>
      BY <1>4 DEF Incident!Decide, Incident!PEP
    <2> QED
      BY <2>1, <2>2, LogGrows DEF TraceInv
  <1>5. ASSUME NEW line \in VisorLines \cup {Garbled}, Incident!Write(line)
        PROVE  TraceInv'
    <2>1. visor' = Append(visor, line) /\ UNCHANGED <<now, tokens, logs>>
      BY <1>5 DEF Incident!Write
    <2>2. visor' \in Seq(VisorLines \cup {Garbled})
      BY <2>1, AppendProperties DEF TraceInv
    <2>3. LogsInv'
      BY <2>1, LogsStay DEF TraceInv, LogsInv
    <2> QED
      BY <2>1, <2>2, <2>3 DEF TraceInv
  <1>6. CASE UNCHANGED services
    <2>1. now' = now /\ tokens' = tokens /\ logs' = logs /\ visor' = visor
      BY <1>6 DEF services
    <2>2. LogsInv'
      BY <2>1, LogsStay DEF TraceInv, LogsInv
    <2> QED
      BY <2>1, <2>2 DEF TraceInv
  <1> QED
    BY <1>1, <1>2, <1>3, <1>4, <1>5, <1>6 DEF Incident!Next

-----------------------------------------------------------------------------
(* Reconstruction *)

\* Every line of mcp-visor loads.
Loads == \A i \in DOMAIN visor : visor[i] # Garbled

\* What a lookup that does not fail puts together.
Merged == Incident!Verified \o (IF Loads THEN Incident!LoadGeneric(visor) ELSE <<>>)

\* What loads is a sequence of records.
LEMMA LoadedLines ==
  ASSUME TraceInv, Loads
  PROVE  Incident!LoadGeneric(visor) \in Seq(VisorRecord)
  <1>1. visor \in Seq(VisorLines \cup {Garbled})
    BY DEF TraceInv
  <1>2. Len(visor) \in Nat /\ DOMAIN visor = 1..Len(visor)
    BY <1>1
  <1>3. ASSUME NEW i \in 1..Len(visor)
        PROVE  Incident!GenericRecord(visor[i]) \in VisorRecord
    <2>1. visor[i] \in VisorLines
      BY <1>1, <1>2 DEF Loads
    <2> QED
      BY <2>1 DEF Incident!GenericRecord, Incident!Visor, VisorRecord
  <1>4. Incident!LoadGeneric(visor) \in [1..Len(visor) -> VisorRecord]
    BY <1>2, <1>3 DEF Incident!LoadGeneric
  <1> QED
    BY <1>2, <1>4, SeqDef

\* No line loads as no record.
LEMMA LoadedNone == Incident!LoadGeneric(<<>>) = <<>>
  <1>1. Incident!LoadGeneric(<<>>) \in [1..0 -> {}]
    BY DEF Incident!LoadGeneric
  <1>2. Incident!LoadGeneric(<<>>) \in Seq({})
    BY <1>1, SeqDef
  <1> QED
    BY <1>1, <1>2, EmptySeq

\* What the invariant says of the records that Trace loads.
LEMMA Loaded ==
  ASSUME TraceInv
  PROVE  LET V == Incident!Verified
         IN  /\ V \in Seq(LogRecord) /\ V \o <<>> = V
             /\ DOMAIN V \subseteq DOMAIN Merged
             /\ DOMAIN V \subseteq Nat /\ DOMAIN Merged \subseteq Nat 
             /\ IsFiniteSet(DOMAIN V) /\ IsFiniteSet(DOMAIN Merged)
             /\ \A i \in DOMAIN V : V[i] \in LogRecord /\ Merged[i] = V[i]
             /\ \A i \in DOMAIN Merged \ DOMAIN V : Merged[i] \in VisorRecord
             /\ Comparable(V) /\ Comparable(Merged)
  <1> DEFINE V == Incident!Verified
             U == IF Loads THEN Incident!LoadGeneric(visor) ELSE <<>>
  <1>1. V \in Seq(LogRecord) /\ U \in Seq(VisorRecord)
    <2>1. logs[1] \in Seq(LogRecord) /\ logs[2] \in Seq(LogRecord)
      BY DEF TraceInv
    <2>2. V \in Seq(LogRecord)
      BY <2>1, ConcatProperties 
      DEF Incident!Verified, Incident!STS, Incident!PEP
    <2>3. U \in Seq(VisorRecord)
      BY LoadedLines
    <2> QED
      BY <2>2, <2>3
  <1> HIDE DEF V, U
  <1>2. /\ Len(V) \in Nat /\ Len(U) \in Nat
        /\ DOMAIN V = 1..Len(V) /\ DOMAIN U = 1..Len(U)
        /\ \A i \in 1..Len(V) : V[i] \in LogRecord
        /\ \A i \in 1..Len(U) : U[i] \in VisorRecord
    BY <1>1
  <1>3. Merged = V \o U
    BY DEF Merged, V, U
  <1>4. /\ Merged \in Seq(LogRecord \cup VisorRecord)
        /\ Len(Merged) = Len(V) + Len(U)
        /\ \A i \in 1..Len(Merged) : 
              Merged[i] = IF i <= Len(V) THEN V[i] ELSE U[i - Len(V)]
    <2>1. V \in Seq(LogRecord \cup VisorRecord) 
          /\ U \in Seq(LogRecord \cup VisorRecord)
      BY <1>1
    <2> QED
      BY <2>1, <1>3, ConcatProperties
  <1>5. DOMAIN Merged = 1..(Len(V) + Len(U))
    BY <1>4
  <1>6. V \o <<>> = V
    BY <1>1, ConcatEmptySeq
  <1>7. IsFiniteSet(DOMAIN V) /\ IsFiniteSet(DOMAIN Merged)
    BY <1>2, <1>5, FS_Interval
  <1>8. \A i \in DOMAIN V : Merged[i] = V[i]
    BY <1>2, <1>4, <1>5
  <1>9. ASSUME NEW i \in DOMAIN Merged \ DOMAIN V
        PROVE  Merged[i] \in VisorRecord
    <2>1. i \in 1..Len(Merged) /\ ~(i <= Len(V)) /\ i - Len(V) \in 1..Len(U)
      BY <1>2, <1>4, <1>5
    <2> QED
      BY <2>1, <1>2, <1>4
  <1>10. ASSUME NEW r \in LogRecord \cup VisorRecord
         PROVE  /\ r.time \in Nat /\ r.source \in Nat 
                /\ r.index \in Nat /\ r.verified \in BOOLEAN
    <2>1. CASE r \in LogRecord
      <3>1. r.time \in Nat /\ r.source \in {1, 2} /\ r.index \in Nat
        BY <2>1 DEF LogRecord
      <3>2. r.verified \in {TRUE}
        BY <2>1 DEF LogRecord
      <3>3. r.verified \in BOOLEAN
        BY <3>2
      <3> QED
        BY <3>1, <3>3
    <2>2. CASE r \in VisorRecord
      <3>1. PICK line \in VisorLines : 
               /\ r.time = line.time /\ r.source = 3
               /\ r.index = 0 /\ r.verified = FALSE
        BY <2>2 DEF VisorRecord
      <3>2. line.time \in Nat
        BY RecordsAssumption
      <3>3. r.verified \in BOOLEAN
        BY <3>1
      <3> QED
        BY <3>1, <3>2, <3>3
    <2> QED
      BY <2>1, <2>2
  <1>11. Comparable(V) /\ Comparable(Merged)
    <2>1. \A i \in DOMAIN V : V[i] \in LogRecord \cup VisorRecord
      BY <1>2
    <2>2. \A i \in DOMAIN Merged : Merged[i] \in LogRecord \cup VisorRecord
      BY <1>4
    <2> QED
      BY <2>1, <2>2, <1>10 DEF Comparable
  <1>12. DOMAIN V \subseteq DOMAIN Merged /\ DOMAIN V \subseteq Nat 
         /\ DOMAIN Merged \subseteq Nat
    BY <1>2, <1>5
  <1> QED
    BY <1>1, <1>2, <1>6, <1>7, <1>8, <1>9, <1>11, <1>12 DEF V

\* A record has the bounded ids of the token that it is about.
LEMMA AboutIds ==
  ASSUME TraceInv, NEW i \in DOMAIN Incident!Verified,
         Incident!Verified[i].about # None
  PROVE  LET r == Incident!Verified[i]
         IN  /\ r.txn = Incident!BoundEventString(r.about.txn)
             /\ r.jti = Incident!BoundEventString(r.about.jti)
  <1> DEFINE V == Incident!Verified
             L1 == logs[1]
             L2 == logs[2]
             told(r) == r.about # None => 
                          /\ r.txn = Incident!BoundEventString(r.about.txn)
                          /\ r.jti = Incident!BoundEventString(r.about.jti)
  <1>1. L1 \in Seq(LogRecord) /\ L2 \in Seq(LogRecord)
    BY DEF TraceInv
  <1>2. V = L1 \o L2
    BY DEF Incident!Verified, Incident!STS, Incident!PEP
  <1>3. /\ \A k \in 1..Len(L1) : told(L1[k])
        /\ \A k \in 1..Len(L2) : told(L2[k])
    BY DEF TraceInv, LogsInv
  <1> HIDE DEF V, L1, L2, told
  <1>4. /\ Len(L1) \in Nat /\ Len(L2) \in Nat
        /\ DOMAIN V = 1..(Len(L1) + Len(L2))
        /\ \A k \in 1..(Len(L1) + Len(L2)) : 
              V[k] = IF k <= Len(L1) THEN L1[k] ELSE L2[k - Len(L1)]
    BY <1>1, <1>2, ConcatProperties
  <1>5. i \in 1..(Len(L1) + Len(L2))
    BY <1>4 DEF V
  <1>6. told(V[i])
    <2>1. CASE i <= Len(L1)
      BY <2>1, <1>3, <1>4, <1>5
    <2>2. CASE ~(i <= Len(L1))
      <3>1. i - Len(L1) \in 1..Len(L2)
        BY <2>2, <1>4, <1>5
      <3> QED
        BY <2>2, <3>1, <1>3, <1>4, <1>5
    <2> QED
      BY <2>1, <2>2
  <1> QED
    BY <1>6 DEF told, V

\* Two places of the audit logs have different records, and of one log the one
\* with the lower index is not the later.
LEMMA OneLog ==
  ASSUME TraceInv, NEW i \in DOMAIN Incident!Verified, 
         NEW j \in DOMAIN Incident!Verified,
         Incident!Verified[i].source = Incident!Verified[j].source
  PROVE  LET a == Incident!Verified[i]
             b == Incident!Verified[j]
         IN  /\ a.index = b.index => i = j
             /\ a.index < b.index => a.time <= b.time
             /\ a.time # 0 /\ b.time # 0
  <1> DEFINE V == Incident!Verified
             L1 == logs[1]
             L2 == logs[2]
  <1>1. L1 \in Seq(LogRecord) /\ L2 \in Seq(LogRecord)
    BY DEF TraceInv
  <1>2. V = L1 \o L2
    BY DEF Incident!Verified, Incident!STS, Incident!PEP
  <1>3. /\ \A k \in 1..Len(L1) : L1[k].source = 1 /\ L1[k].index = k /\ L1[k].time # 0
        /\ \A k \in 1..Len(L2) : L2[k].source = 2 /\ L2[k].index = k /\ L2[k].time # 0
        /\ \A k, l \in 1..Len(L1) : k < l => L1[k].time <= L1[l].time
        /\ \A k, l \in 1..Len(L2) : k < l => L2[k].time <= L2[l].time
    BY DEF TraceInv, LogsInv
  <1> HIDE DEF V, L1, L2
  <1>4. /\ Len(L1) \in Nat /\ Len(L2) \in Nat
        /\ DOMAIN V = 1..(Len(L1) + Len(L2))
        /\ \A k \in 1..(Len(L1) + Len(L2)) : 
              V[k] = IF k <= Len(L1) THEN L1[k] ELSE L2[k - Len(L1)]
    BY <1>1, <1>2, ConcatProperties
  <1>5. i \in 1..(Len(L1) + Len(L2)) /\ j \in 1..(Len(L1) + Len(L2))
    BY <1>4 DEF V
  <1>6. CASE i <= Len(L1)
    <2>1. i \in 1..Len(L1) /\ V[i] = L1[i]
      BY <1>4, <1>5, <1>6
    <2>2. j <= Len(L1)
      <3>1. ASSUME ~(j <= Len(L1)) PROVE FALSE
        <4>1. V[j] = L2[j - Len(L1)] /\ j - Len(L1) \in 1..Len(L2)
          BY <1>4, <1>5, <3>1
        <4> QED
          BY <4>1, <2>1, <1>3 DEF V
      <3> QED
        BY <3>1
    <2>3. j \in 1..Len(L1) /\ V[j] = L1[j]
      BY <1>4, <1>5, <2>2
    <2> QED
      BY <1>3, <2>1, <2>3 DEF V
  <1>7. CASE ~(i <= Len(L1))
    <2>1. i - Len(L1) \in 1..Len(L2) /\ V[i] = L2[i - Len(L1)]
      BY <1>4, <1>5, <1>7
    <2>2. ~(j <= Len(L1))
      <3>1. ASSUME j <= Len(L1) PROVE FALSE
        <4>1. V[j] = L1[j] /\ j \in 1..Len(L1)
          BY <1>4, <1>5, <3>1
        <4> QED
          BY <4>1, <2>1, <1>3 DEF V
      <3> QED
        BY <3>1
    <2>3. j - Len(L1) \in 1..Len(L2) /\ V[j] = L2[j - Len(L1)]
      BY <1>4, <1>5, <2>2
    <2>4. i - Len(L1) = j - Len(L1) => i = j
      BY <1>4, <1>5
    <2> QED
      BY <1>3, <2>1, <2>3, <2>4 DEF V
  <1> QED
    BY <1>6, <1>7

\* The places that a query picks of all records.
Picked(q, all, txns) == {i \in DOMAIN all : Incident!Selected(q, all[i], txns)}

\* A query by one id of a token never stops early, and what it is about is told
\* by the audit logs alone.
LEMMA TraceIs ==
  ASSUME NEW t, NEW q \in Incident!By(t), NEW u,
         NEW V
  PROVE  LET txns == Incident!Transactions(q, V, <<>>)
         IN  Incident!Reconstruction(q, V, u) = 
                Incident!Sorted(V \o u, Picked(q, V \o u, txns))
  <1>1. q.jti = None \/ q.txn = None
    BY DEF Incident!By, Incident!ByJti, Incident!ByTxn
  <1>2. Incident!Transactions(q, V, u) = Incident!Transactions(q, V, <<>>)
    BY DEF Incident!Transactions
  <1> QED
    BY <1>1, <1>2 DEF Incident!Reconstruction, Picked

\* A lookup in the audit logs alone never fails; one that reads the log of 
\* mcp-visor fails if a line of it does not load, and only then.
LEMMA Fails ==
  ASSUME NEW q, NEW V
  PROVE  /\ ~Incident!TraceOf(q, V, <<>>).err
         /\ Incident!TraceOf(q, V, <<>>).recs = Incident!Reconstruction(q, V, <<>>)
         /\ Incident!TraceOf(q, V, visor).err <=> ~Loads
         /\ Loads => Incident!TraceOf(q, V, visor).recs = 
                       Incident!Reconstruction(q, V, Incident!LoadGeneric(visor))
         /\ ~Loads => Incident!TraceOf(q, V, visor).recs = <<>>
  <1>1. \A i \in DOMAIN <<>> : FALSE
    OBVIOUS
  <1> QED
    BY <1>1, LoadedNone DEF Incident!TraceOf, Loads

\* A reconstruction has a place for every record that its query picks, in the
\* order of Before: of all that is on record,
LEMMA MergedPlaces ==
  ASSUME TraceInv, Loads, NEW t, NEW q \in Incident!By(t)
  PROVE  LET V == Incident!Verified
             P == Picked(q, Merged, Incident!Transactions(q, V, <<>>))
             out == Incident!TraceOf(q, V, visor).recs
         IN  \E at \in [DOMAIN out -> P] :
                /\ DOMAIN at \subseteq Nat /\ P \subseteq DOMAIN Merged
                /\ \A n \in DOMAIN at : out[n] = Merged[at[n]]
                /\ \A i \in P : \E n \in DOMAIN at : at[n] = i
                /\ \A n, m \in DOMAIN at : 
                      n < m <=> Incident!Before(Merged, at[n], at[m])
  <1> DEFINE V == Incident!Verified
             P == Picked(q, Merged, Incident!Transactions(q, V, <<>>))
             out == Incident!TraceOf(q, V, visor).recs
  <1>1. out = Incident!Sorted(Merged, P)
    BY TraceIs, Fails DEF Merged
  <1>2. P \in SUBSET DOMAIN Merged
    BY DEF Picked
  <1>3. DOMAIN Merged \subseteq Nat /\ Comparable(Merged) /\ IsFiniteSet(P)
    BY <1>2, Loaded, FS_Subset
  <1> HIDE DEF P, out, V
  <1>4. \E at \in [DOMAIN out -> P] :
            /\ DOMAIN at \subseteq Nat /\ P \subseteq DOMAIN Merged
            /\ \A n \in DOMAIN at : out[n] = Merged[at[n]]
            /\ \A i \in P : \E n \in DOMAIN at : at[n] = i
            /\ \A n, m \in DOMAIN at : 
                  n < m <=> Incident!Before(Merged, at[n], at[m])
    BY <1>1, <1>2, <1>3, SortedPlaces
  <1> QED
    BY <1>4 DEF P, out, V

\* and of the audit logs alone.
LEMMA BarePlaces ==
  ASSUME TraceInv, NEW t, NEW q \in Incident!By(t)
  PROVE  LET V == Incident!Verified
             P == Picked(q, V, Incident!Transactions(q, V, <<>>))
             out == Incident!TraceOf(q, V, <<>>).recs
         IN  \E at \in [DOMAIN out -> P] :
                /\ DOMAIN at \subseteq Nat /\ P \subseteq DOMAIN V
                /\ \A n \in DOMAIN at : out[n] = V[at[n]]
                /\ \A i \in P : \E n \in DOMAIN at : at[n] = i
                /\ \A n, m \in DOMAIN at : 
                      n < m <=> Incident!Before(V, at[n], at[m])
  <1> DEFINE V == Incident!Verified
             P == Picked(q, V, Incident!Transactions(q, V, <<>>))
             out == Incident!TraceOf(q, V, <<>>).recs
  <1>1. out = Incident!Sorted(V, P)
    <2>1. out = Incident!Reconstruction(q, V, <<>>)
      BY Fails
    <2>2. V \o <<>> = V
      BY Loaded
    <2>3. Incident!Reconstruction(q, V, <<>>) =
             Incident!Sorted(V \o <<>>, Picked(q, V \o <<>>, 
                Incident!Transactions(q, V, <<>>)))
      BY TraceIs
    <2> HIDE DEF out, V
    <2> QED
      BY <2>1, <2>2, <2>3
  <1>2. P \in SUBSET DOMAIN V
    BY DEF Picked
  <1>3. DOMAIN V \subseteq Nat /\ Comparable(V) /\ IsFiniteSet(P)
    BY <1>2, Loaded, FS_Subset
  <1> HIDE DEF P, out, V
  <1>4. \E at \in [DOMAIN out -> P] :
            /\ DOMAIN at \subseteq Nat /\ P \subseteq DOMAIN V
            /\ \A n \in DOMAIN at : out[n] = V[at[n]]
            /\ \A i \in P : \E n \in DOMAIN at : at[n] = i
            /\ \A n, m \in DOMAIN at : 
                  n < m <=> Incident!Before(V, at[n], at[m])
    BY <1>1, <1>2, <1>3, SortedPlaces
  <1> QED
    BY <1>4 DEF P, out, V

-----------------------------------------------------------------------------
(* The properties of the reconstruction *)

\* What a lookup by an id of a token picks: every decision about it.
LEMMA AboutIsPicked ==
  ASSUME TraceInv, Ids \cap Long = {}, NEW i \in DOMAIN Incident!Verified,
         Incident!Verified[i].about # None,
         NEW q \in Incident!By(Incident!Verified[i].about)
  PROVE  Incident!Selected(q, Incident!Verified[i], 
            Incident!Transactions(q, Incident!Verified, <<>>))
  <1> DEFINE V == Incident!Verified
             r == V[i]
             t == r.about
  <1>1. r \in LogRecord
    BY Loaded
  <1>2. t \in Token
    BY <1>1 DEF LogRecord
  <1>3. r.txn = t.txn /\ r.jti = t.jti
    <2>1. r.txn = Incident!BoundEventString(t.txn) 
          /\ r.jti = Incident!BoundEventString(t.jti)
      BY AboutIds
    <2>2. t.txn \notin Long /\ t.jti \notin Long
      BY <1>2 DEF Token
    <2> QED
      BY <2>1, <2>2 DEF Incident!BoundEventString
  <1>4. r.verified
    BY <1>1 DEF LogRecord
  <1>5. t.jti # None
    BY <1>2 DEF Token
  <1>6. CASE q = Incident!ByJti(t)
    <2>1. q.jti = t.jti /\ q.txn = None
      BY <1>6 DEF Incident!ByJti
    <2>2. CASE r.txn = None
      BY <2>1, <2>2, <1>3, <1>4, <1>5 DEF Incident!Selected
    <2>3. CASE r.txn # None
      <3>1. r.txn \in Incident!Transactions(q, V, <<>>)
        BY <2>1, <2>3, <1>3, <1>5 DEF Incident!Transactions
      <3> QED
        BY <3>1, <2>3, <1>4 DEF Incident!Selected
    <2> QED
      BY <2>2, <2>3
  <1>7. CASE t.txn # None /\ q = Incident!ByTxn(t)
    <2>1. q.jti = None /\ q.txn = t.txn
      BY <1>7 DEF Incident!ByTxn
    <2>2. r.txn \in Incident!Transactions(q, V, <<>>)
      BY <2>1, <1>3 DEF Incident!Transactions
    <2> QED
      BY <2>2, <1>3, <1>4, <1>7 DEF Incident!Selected
  <1> QED
    BY <1>6, <1>7 DEF Incident!By

\* A lookup finds every decision about its token, in the audit logs alone 
LEMMA FindsBare ==
  ASSUME TraceInv, Ids \cap Long = {}, NEW i \in DOMAIN Incident!Verified,
         Incident!Verified[i].about # None,
         NEW q \in Incident!By(Incident!Verified[i].about)
  PROVE  Incident!Finds(Incident!TraceOf(q, Incident!Verified, <<>>), 
                        Incident!Verified[i])
  <1> DEFINE V == Incident!Verified
             txns == Incident!Transactions(q, V, <<>>)
             B == Picked(q, V, txns)
             out == Incident!TraceOf(q, V, <<>>).recs
  <1>1. i \in B
    BY AboutIsPicked DEF Picked
  <1> HIDE DEF V, B, out, txns
  <1>2. PICK at \in [DOMAIN out -> B] :
            /\ DOMAIN at \subseteq Nat /\ B \subseteq DOMAIN V
            /\ \A n \in DOMAIN at : out[n] = V[at[n]]
            /\ \A k \in B : \E n \in DOMAIN at : at[n] = k
            /\ \A n, m \in DOMAIN at : 
                  n < m <=> Incident!Before(V, at[n], at[m])
    BY BarePlaces DEF B, out, V, txns
  <1>3. PICK n \in DOMAIN at : at[n] = i
    BY <1>1, <1>2
  <1>4. out[n] = V[i] /\ n \in DOMAIN out
    BY <1>2, <1>3
  <1> QED
    BY <1>4 DEF out, V, Incident!Finds

\* and with the log of mcp-visor, if that loads.
LEMMA FindsMerged ==
  ASSUME TraceInv, Loads, Ids \cap Long = {}, NEW i \in DOMAIN Incident!Verified,
         Incident!Verified[i].about # None,
         NEW q \in Incident!By(Incident!Verified[i].about)
  PROVE  Incident!Finds(Incident!TraceOf(q, Incident!Verified, visor), 
                        Incident!Verified[i])
  <1> DEFINE V == Incident!Verified
             txns == Incident!Transactions(q, V, <<>>)
             P == Picked(q, Merged, txns)
             out == Incident!TraceOf(q, V, visor).recs
  <1>1. Incident!Selected(q, V[i], txns)
    BY AboutIsPicked
  <1>2. i \in DOMAIN Merged /\ Merged[i] = V[i]
    BY Loaded
  <1>3. i \in P
    BY <1>1, <1>2 DEF Picked
  <1> HIDE DEF V, P, out, txns
  <1>4. PICK at \in [DOMAIN out -> P] :
            /\ DOMAIN at \subseteq Nat /\ P \subseteq DOMAIN Merged
            /\ \A n \in DOMAIN at : out[n] = Merged[at[n]]
            /\ \A k \in P : \E n \in DOMAIN at : at[n] = k
            /\ \A n, m \in DOMAIN at : 
                  n < m <=> Incident!Before(Merged, at[n], at[m])
    BY MergedPlaces DEF P, out, V, txns
  <1>5. PICK n \in DOMAIN at : at[n] = i
    BY <1>3, <1>4
  <1>6. out[n] = V[i] /\ n \in DOMAIN out
    BY <1>2, <1>4, <1>5
  <1> QED
    BY <1>6 DEF out, V, Incident!Finds

LEMMA FindsAll ==
  ASSUME TraceInv, Ids \cap Long = {}
  PROVE  Incident!LookupFindsAll
  BY FindsBare, FindsMerged, Fails DEF Incident!LookupFindsAll

\* A verified record of all that is loaded is one of the audit logs.
LEMMA VerifiedOnes ==
  ASSUME TraceInv, NEW i \in DOMAIN Merged
  PROVE  /\ Merged[i].verified <=> i \in DOMAIN Incident!Verified
         /\ i \in DOMAIN Incident!Verified => Merged[i] = Incident!Verified[i]
  <1>1. CASE i \in DOMAIN Incident!Verified
    <2>1. Merged[i] \in LogRecord /\ Merged[i] = Incident!Verified[i]
      BY <1>1, Loaded
    <2>2. Merged[i].verified \in {TRUE}
      BY <2>1 DEF LogRecord
    <2> QED
      BY <1>1, <2>1, <2>2
  <1>2. CASE i \notin DOMAIN Incident!Verified
    <2>1. Merged[i] \in VisorRecord
      BY <1>2, Loaded
    <2>2. Merged[i].verified = FALSE
      BY <2>1 DEF VisorRecord
    <2> QED
      BY <1>2, <2>2
  <1> QED
    BY <1>1, <1>2

\* Of two records of one log the one with the lower index comes first.
LEMMA LowerFirst ==
  ASSUME TraceInv, NEW i \in DOMAIN Merged, NEW j \in DOMAIN Merged, 
         Merged[i].verified, Merged[j].verified,
         Merged[i].source = Merged[j].source, 
         Incident!Before(Merged, i, j)
  PROVE  Merged[i].index < Merged[j].index
  <1> DEFINE a == Merged[i]
             b == Merged[j]
  <1>1. /\ i \in DOMAIN Incident!Verified /\ a = Incident!Verified[i]
        /\ j \in DOMAIN Incident!Verified /\ b = Incident!Verified[j]
    BY VerifiedOnes
  <1>2. /\ a.index = b.index => i = j
        /\ b.index < a.index => b.time <= a.time
        /\ a.time # 0 /\ b.time # 0
    BY <1>1, OneLog
  <1>3. /\ a.index \in Nat /\ b.index \in Nat 
        /\ a.time \in Nat /\ b.time \in Nat
        /\ a.source \in Nat /\ b.source \in Nat
        /\ DOMAIN Merged \subseteq Nat
    BY Loaded DEF Comparable
  <1>4. i # j
    BY BeforeOrders, Loaded
  <1>5. ASSUME b.index < a.index
        PROVE  Incident!RecordLess(b, a) /\ ~Incident!RecordLess(a, b)
    BY <1>2, <1>3, <1>5 DEF Incident!RecordLess, Incident!NoTime
  <1>6. Incident!RecordLess(a, b) \/ ~Incident!RecordLess(b, a)
    BY DEF Incident!Before
  <1>7. a.index # b.index /\ ~(b.index < a.index)
    BY <1>2, <1>4, <1>5, <1>6
  <1> HIDE DEF a, b
  <1>8. a.index < b.index
    BY <1>3, <1>7
  <1> QED
    BY <1>8 DEF a, b

\* Records of one log come out in the order of its chain.
LEMMA Chains ==
  ASSUME TraceInv
  PROVE  Incident!ChainOrder
  <1> DEFINE V == Incident!Verified
  <1> SUFFICES ASSUME NEW t \in tokens, NEW q \in Incident!By(t)
               PROVE  LET out == Incident!TraceOf(q, V, visor).recs
                      IN  \A n, m \in DOMAIN out : 
                             out[n].verified /\ out[m].verified /\ n < m
                             /\ out[n].source = out[m].source 
                             => out[n].index < out[m].index
    BY DEF Incident!ChainOrder
  <1> DEFINE P == Picked(q, Merged, Incident!Transactions(q, V, <<>>))
             out == Incident!TraceOf(q, V, visor).recs
  <1> HIDE DEF V, P, out
  <1>1. ASSUME ~Loads, NEW n \in DOMAIN out
        PROVE  FALSE
    <2>1. out = <<>>
      BY <1>1, Fails DEF out
    <2> QED
      BY <1>1, <2>1
  <1>2. ASSUME Loads, NEW n \in DOMAIN out, NEW m \in DOMAIN out,
               out[n].verified, out[m].verified, n < m,
               out[n].source = out[m].source
        PROVE  out[n].index < out[m].index
    <2>1. PICK at \in [DOMAIN out -> P] :
              /\ DOMAIN at \subseteq Nat /\ P \subseteq DOMAIN Merged
              /\ \A k \in DOMAIN at : out[k] = Merged[at[k]]
              /\ \A k \in P : \E l \in DOMAIN at : at[l] = k
              /\ \A k, l \in DOMAIN at : 
                    k < l <=> Incident!Before(Merged, at[k], at[l])
      BY <1>2, MergedPlaces DEF P, out, V
    <2>2. n \in DOMAIN at /\ m \in DOMAIN at
      OBVIOUS
    <2>3. /\ at[n] \in DOMAIN Merged /\ at[m] \in DOMAIN Merged
          /\ out[n] = Merged[at[n]] /\ out[m] = Merged[at[m]]
          /\ Incident!Before(Merged, at[n], at[m])
      BY <1>2, <2>1, <2>2
    <2> QED
      BY <1>2, <2>3, LowerFirst
  <1> QED
    BY <1>1, <1>2 DEF out, V

\* Equal records of the audit logs are one.
LEMMA Distinct ==
  ASSUME TraceInv, NEW i \in DOMAIN Incident!Verified, 
         NEW j \in DOMAIN Incident!Verified,
         Incident!Verified[i] = Incident!Verified[j]
  PROVE  i = j
  BY OneLog

\* The lines of mcp-visor, when they load, are added and change nothing.
LEMMA OnlyAdds ==
  ASSUME TraceInv
  PROVE  Incident!VisorOnlyAdds
  <1> DEFINE V == Incident!Verified
  <1> SUFFICES ASSUME Loads, NEW t \in tokens, NEW q \in Incident!By(t)
               PROVE  LET out == Incident!TraceOf(q, V, visor).recs
                          bare == Incident!TraceOf(q, V, <<>>).recs
                          same(n, k) == out[n] = bare[k]
                      IN  /\ \A k \in DOMAIN bare : 
                                \E n \in DOMAIN out : same(n, k)
                          /\ \A n \in DOMAIN out : out[n].verified => 
                                \E k \in DOMAIN bare : bare[k] = out[n]
                          /\ \A n, m \in DOMAIN out : \A k, l \in DOMAIN bare :
                                same(n, k) /\ same(m, l) => (n < m <=> k < l)
    BY Fails DEF Incident!VisorOnlyAdds, Incident!Finds
  <1> DEFINE txns == Incident!Transactions(q, V, <<>>)
             P == Picked(q, Merged, txns)
             B == Picked(q, V, txns)
             out == Incident!TraceOf(q, V, visor).recs
             bare == Incident!TraceOf(q, V, <<>>).recs
  <1>1. B \subseteq DOMAIN V /\ DOMAIN V \subseteq DOMAIN Merged
    BY Loaded DEF Picked
  <1>2. \A i \in DOMAIN Merged : /\ Merged[i].verified <=> i \in DOMAIN V
                                 /\ i \in DOMAIN V => Merged[i] = V[i]
    BY VerifiedOnes
  <1>3. \A i \in DOMAIN V : i \in P <=> i \in B
    BY <1>1, <1>2 DEF Picked
  <1>4. \A i, j \in DOMAIN V : V[i] = V[j] => i = j
    BY Distinct
  <1>5. \A i, j \in DOMAIN V : 
           Incident!Before(Merged, i, j) <=> Incident!Before(V, i, j)
    BY <1>1, <1>2 DEF Incident!Before
  <1> HIDE DEF V, txns, P, B, out, bare
  <1>6. PICK at \in [DOMAIN out -> P] :
            /\ DOMAIN at \subseteq Nat /\ P \subseteq DOMAIN Merged
            /\ \A n \in DOMAIN at : out[n] = Merged[at[n]]
            /\ \A k \in P : \E n \in DOMAIN at : at[n] = k
            /\ \A n, m \in DOMAIN at : 
                  n < m <=> Incident!Before(Merged, at[n], at[m])
    BY MergedPlaces DEF P, out, V, txns
  <1>7. PICK bt \in [DOMAIN bare -> B] :
            /\ DOMAIN bt \subseteq Nat /\ B \subseteq DOMAIN V
            /\ \A n \in DOMAIN bt : bare[n] = V[bt[n]]
            /\ \A k \in B : \E n \in DOMAIN bt : bt[n] = k
            /\ \A n, m \in DOMAIN bt : 
                  n < m <=> Incident!Before(V, bt[n], bt[m])
    BY BarePlaces DEF B, bare, V, txns
  <1>8. DOMAIN at = DOMAIN out /\ DOMAIN bt = DOMAIN bare
    OBVIOUS
  <1>9. ASSUME NEW k \in DOMAIN bare
        PROVE  \E n \in DOMAIN out : out[n] = bare[k]
    <2>1. bt[k] \in B /\ bt[k] \in DOMAIN V /\ bare[k] = V[bt[k]]
      BY <1>1, <1>7, <1>8
    <2>2. bt[k] \in P /\ Merged[bt[k]] = V[bt[k]]
      BY <1>1, <1>2, <1>3, <2>1
    <2>3. PICK n \in DOMAIN at : at[n] = bt[k]
      BY <1>6, <2>2
    <2> QED
      BY <1>6, <1>8, <2>1, <2>2, <2>3
  <1>10. ASSUME NEW n \in DOMAIN out, out[n].verified
         PROVE  \E k \in DOMAIN bare : bare[k] = out[n]
    <2>1. at[n] \in P /\ at[n] \in DOMAIN Merged /\ out[n] = Merged[at[n]]
      BY <1>6, <1>8
    <2>2. at[n] \in DOMAIN V /\ Merged[at[n]] = V[at[n]]
      BY <1>2, <1>10, <2>1
    <2>3. PICK k \in DOMAIN bt : bt[k] = at[n]
      BY <1>3, <1>7, <2>1, <2>2
    <2> QED
      BY <1>7, <1>8, <2>1, <2>2, <2>3
  <1>11. ASSUME NEW n \in DOMAIN out, NEW k \in DOMAIN bare, out[n] = bare[k]
         PROVE  at[n] = bt[k] /\ bt[k] \in DOMAIN V
    <2>1. at[n] \in DOMAIN Merged /\ out[n] = Merged[at[n]]
      BY <1>6, <1>8
    <2>2. bt[k] \in DOMAIN V /\ bare[k] = V[bt[k]] /\ Merged[bt[k]] = V[bt[k]] 
          /\ Merged[bt[k]].verified
      BY <1>1, <1>2, <1>7, <1>8
    <2>3. at[n] \in DOMAIN V /\ Merged[at[n]] = V[at[n]]
      BY <1>2, <1>11, <2>1, <2>2
    <2> QED
      BY <1>4, <1>11, <2>1, <2>2, <2>3
  <1>12. ASSUME NEW n \in DOMAIN out, NEW m \in DOMAIN out,
                NEW k \in DOMAIN bare, NEW l \in DOMAIN bare,
                out[n] = bare[k], out[m] = bare[l]
         PROVE  n < m <=> k < l
    <2>1. at[n] = bt[k] /\ at[m] = bt[l] /\ bt[k] \in DOMAIN V /\ bt[l] \in DOMAIN V
      BY <1>11, <1>12
    <2>2. n < m <=> Incident!Before(Merged, bt[k], bt[l])
      BY <1>6, <1>8, <2>1
    <2>3. k < l <=> Incident!Before(V, bt[k], bt[l])
      BY <1>7, <1>8
    <2> QED
      BY <1>5, <2>1, <2>2, <2>3
  <1> QED
    BY <1>9, <1>10, <1>12 DEF V, out, bare

-----------------------------------------------------------------------------
(* The invariant of the hops *)

\* A handler between its exchange and the answer of the backend.
Holding(h) == pc[h] \in {"exchanged", "challenged"}

\* A subject token is spent once it backs a hop, by one handler at a time, and
\* whoever still holds what was minted has not moved the backend.
HopsInv ==
    /\ pc \in [Hops!Handler -> {"absent", "begun", "exchanged", "challenged", 
                                "done", "failed"}]
    /\ served \in [Hops!Subject -> {<<>>, <<"whole">>}]
    /\ \A h \in Hops!Handler : Holding(h) =>
          /\ Hops!SubjectToken(h) \in spent
          /\ served[Hops!SubjectToken(h)] = <<>>
          /\ \A g \in Hops!Handler : 
                Holding(g) /\ Hops!SubjectToken(g) = Hops!SubjectToken(h) => g = h
    /\ \A s \in Hops!Subject : served[s] # <<>> => s \in spent

\* A handler serves with a subject token.
LEMMA SubjectType ==
  ASSUME NEW h \in Hops!Handler
  PROVE  Hops!SubjectToken(h) \in Hops!Subject
  BY DEF Hops!Handler, Hops!Subject, Hops!SubjectToken

\* A step by which no handler begins to hold and nothing is served keeps it.
LEMMA HopsLess ==
  ASSUME HopsInv, 
         pc' \in [Hops!Handler -> {"absent", "begun", "exchanged", "challenged", 
                                  "done", "failed"}],
         \A h \in Hops!Handler : Holding(h)' => Holding(h),
         served' = served, spent \subseteq spent'
  PROVE  HopsInv'
  BY DEF HopsInv, Holding, Hops!SubjectToken

\* Answer leaves a handler where its answer leaves it.
LEMMA Answered ==
  ASSUME HopsInv, NEW h \in Hops!Handler,
         NEW then \in {"exchanged", "challenged", "done"}, Hops!Answer(h, then)
  PROVE  /\ pc' \in [Hops!Handler -> {"absent", "begun", "exchanged", "challenged", 
                                      "done", "failed"}]
         /\ \A g \in Hops!Handler \ {h} : pc'[g] = pc[g]
         /\ pc'[h] \in {then, "failed"}
  BY DEF HopsInv, Hops!Answer

LEMMA HopsStep ==
  ASSUME HopsInv, Hops!Next \/ UNCHANGED agents
  PROVE  HopsInv'
  <1> DEFINE PCs == {"absent", "begun", "exchanged", "challenged", "done", "failed"}
  <1>0. pc \in [Hops!Handler -> PCs]
    BY DEF HopsInv
  <1>1. ASSUME NEW j \in Job, Hops!Call(j)
        PROVE  HopsInv'
    <2>1. pc' = [pc EXCEPT ![<<j, tries[j] + 1, 1>>] = "begun"] 
          /\ UNCHANGED <<spent, served>>
      BY <1>1 DEF Hops!Call
    <2>2. pc' \in [Hops!Handler -> PCs]
      BY <1>0, <2>1
    <2>3. \A h \in Hops!Handler : Holding(h)' => Holding(h)
      BY <1>0, <2>1 DEF Holding
    <2> QED
      BY <2>1, <2>2, <2>3, HopsLess
  <1>2. ASSUME NEW j \in Job, Hops!Return(j)
        PROVE  HopsInv'
    BY <1>0, <1>2, HopsLess DEF Hops!Return, Holding
  <1>3. ASSUME NEW h \in Hops!Handler, Hops!Exchange(h)
        PROVE  HopsInv'
    <2> DEFINE s == Hops!SubjectToken(h)
    <2>1. CASE s \in spent
      <3>1. pc' = [pc EXCEPT ![h] = "failed"] /\ UNCHANGED <<spent, served>>
        BY <1>3, <2>1 DEF Hops!Exchange
      <3>2. pc' \in [Hops!Handler -> PCs]
        BY <1>0, <3>1
      <3>3. \A g \in Hops!Handler : Holding(g)' => Holding(g)
        BY <1>0, <3>1 DEF Holding
      <3> QED
        BY <3>1, <3>2, <3>3, HopsLess
    <2>2. CASE s \notin spent
      <3>1. spent' = spent \cup {s} /\ served' = served 
            /\ Hops!Answer(h, "exchanged")
        BY <1>3, <2>2 DEF Hops!Exchange
      <3>2. /\ pc' \in [Hops!Handler -> PCs]
            /\ \A g \in Hops!Handler \ {h} : pc'[g] = pc[g]
            /\ pc'[h] \in {"exchanged", "failed"}
        BY <3>1, Answered
      <3>3. s \in Hops!Subject /\ served[s] = <<>>
        BY <2>2, SubjectType DEF HopsInv
      <3>4. \A g \in Hops!Handler : 
               Holding(g) => Hops!SubjectToken(g) \in spent /\ Hops!SubjectToken(g) # s
        BY <2>2 DEF HopsInv
      <3>5. \A g \in Hops!Handler \ {h} : Holding(g)' <=> Holding(g)
        BY <3>2 DEF Holding
      <3>6. \A g \in Hops!Handler : Holding(g)' =>
              /\ Hops!SubjectToken(g) \in spent'
              /\ served'[Hops!SubjectToken(g)] = <<>>
              /\ \A f \in Hops!Handler : 
                    Holding(f)' /\ Hops!SubjectToken(f) = Hops!SubjectToken(g) 
                    => f = g
        <4> SUFFICES ASSUME NEW g \in Hops!Handler, Holding(g)'
                     PROVE  /\ Hops!SubjectToken(g) \in spent'
                            /\ served'[Hops!SubjectToken(g)] = <<>>
                            /\ \A f \in Hops!Handler : 
                                 Holding(f)' 
                                 /\ Hops!SubjectToken(f) = Hops!SubjectToken(g) 
                                 => f = g
          OBVIOUS
        <4>1. CASE g = h
          BY <3>1, <3>3, <3>4, <3>5, <4>1
        <4>2. CASE g # h
          <5>1. Holding(g)
            BY <3>5, <4>2
          <5>2. /\ served[Hops!SubjectToken(g)] = <<>>
                /\ \A f \in Hops!Handler : 
                      Holding(f) /\ Hops!SubjectToken(f) = Hops!SubjectToken(g) 
                      => f = g
            BY <5>1 DEF HopsInv
          <5> QED
            BY <5>1, <5>2, <3>1, <3>4, <3>5
        <4> QED
          BY <4>1, <4>2
      <3> QED
        BY <3>1, <3>2, <3>6 DEF HopsInv, Hops!SubjectToken
    <2> QED
      BY <2>1, <2>2
  <1>4. ASSUME NEW h \in Hops!Handler, Hops!Send(h)
        PROVE  HopsInv'
    <2>1. pc[h] = "exchanged" /\ Hops!Answer(h, "challenged") 
          /\ UNCHANGED <<spent, served>>
      BY <1>4 DEF Hops!Send
    <2>2. /\ pc' \in [Hops!Handler -> PCs]
          /\ \A g \in Hops!Handler \ {h} : pc'[g] = pc[g]
      BY <2>1, Answered
    <2>3. \A g \in Hops!Handler : Holding(g)' => Holding(g)
      BY <2>1, <2>2 DEF Holding
    <2> QED
      BY <2>1, <2>2, <2>3, HopsLess
  <1>5. ASSUME NEW h \in Hops!Handler, Hops!GiveUp(h)
        PROVE  HopsInv'
    <2>1. pc' = [pc EXCEPT ![h] = "failed"] /\ UNCHANGED <<spent, served>>
      BY <1>5 DEF Hops!GiveUp
    <2>2. pc' \in [Hops!Handler -> PCs]
      BY <1>0, <2>1
    <2>3. \A g \in Hops!Handler : Holding(g)' => Holding(g)
      BY <1>0, <2>1 DEF Holding
    <2> QED
      BY <2>1, <2>2, <2>3, HopsLess
  <1>6. ASSUME NEW h \in Hops!Handler, Hops!Retry(h)
        PROVE  HopsInv'
    <2> DEFINE s == Hops!SubjectToken(h)
    <2>1. Holding(h) /\ h[1] \in Replayable /\ spent' = spent
      BY <1>6 DEF Hops!Retry, Hops!ReplayBodyOK, Holding
    <2>2. CASE h \in nonces
      <3>1. /\ served' = [served EXCEPT ![s] = Append(@, "whole")]
            /\ Hops!Answer(h, "done")
        BY <1>6, <2>1, <2>2 DEF Hops!Retry
      <3>2. /\ pc' \in [Hops!Handler -> PCs]
            /\ \A g \in Hops!Handler \ {h} : pc'[g] = pc[g]
            /\ pc'[h] \in {"done", "failed"}
        BY <3>1, Answered
      <3>3. /\ s \in Hops!Subject /\ s \in spent /\ served[s] = <<>>
            /\ \A g \in Hops!Handler : 
                  Holding(g) /\ Hops!SubjectToken(g) = s => g = h
        BY <2>1, SubjectType DEF HopsInv
      <3>4. Append(<<>>, "whole") = <<"whole">>
        OBVIOUS
      <3>5. served' = [served EXCEPT ![s] = <<"whole">>]
        BY <3>1, <3>3, <3>4
      <3>6. /\ served' \in [Hops!Subject -> {<<>>, <<"whole">>}]
            /\ \A u \in Hops!Subject \ {s} : served'[u] = served[u]
        BY <3>5 DEF HopsInv
      <3>7. \A g \in Hops!Handler : 
               Holding(g)' => Holding(g) /\ Hops!SubjectToken(g) # s
        BY <3>2, <3>3 DEF Holding
      <3>8. \A u \in Hops!Subject : served'[u] # <<>> => u \in spent'
        BY <2>1, <3>3, <3>6 DEF HopsInv
      <3>9. ASSUME NEW g \in Hops!Handler, Holding(g)'
            PROVE  /\ Hops!SubjectToken(g) \in spent'
                   /\ served'[Hops!SubjectToken(g)] = <<>>
                   /\ \A f \in Hops!Handler : 
                         Holding(f)' 
                         /\ Hops!SubjectToken(f) = Hops!SubjectToken(g) => f = g
        <4>1. Holding(g) /\ Hops!SubjectToken(g) # s 
              /\ Hops!SubjectToken(g) \in Hops!Subject
          BY <3>7, <3>9, SubjectType
        <4>2. /\ Hops!SubjectToken(g) \in spent
              /\ served[Hops!SubjectToken(g)] = <<>>
              /\ \A f \in Hops!Handler : 
                    Holding(f) /\ Hops!SubjectToken(f) = Hops!SubjectToken(g) 
                    => f = g
          BY <4>1 DEF HopsInv
        <4> QED
          BY <4>1, <4>2, <2>1, <3>6, <3>7
      <3> QED
        BY <3>2, <3>6, <3>8, <3>9 DEF HopsInv, Hops!SubjectToken
    <2>3. CASE h \notin nonces
      <3>1. pc' = [pc EXCEPT ![h] = "failed"] /\ UNCHANGED <<spent, served>>
        BY <1>6, <2>3 DEF Hops!Retry
      <3>2. pc' \in [Hops!Handler -> PCs]
        BY <1>0, <3>1
      <3>3. \A g \in Hops!Handler : Holding(g)' => Holding(g)
        BY <1>0, <3>1 DEF Holding
      <3> QED
        BY <3>1, <3>2, <3>3, HopsLess
    <2> QED
      BY <2>2, <2>3
  <1>7. ASSUME NEW h \in Hops!Handler, Hops!Repeat(h)
        PROVE  HopsInv'
    <2>1. pc' = [pc EXCEPT ![h] = "begun"] /\ UNCHANGED <<spent, served>>
      BY <1>7 DEF Hops!Repeat
    <2>2. pc' \in [Hops!Handler -> PCs]
      BY <1>0, <2>1
    <2>3. \A g \in Hops!Handler : Holding(g)' => Holding(g)
      BY <1>0, <2>1 DEF Holding
    <2> QED
      BY <2>1, <2>2, <2>3, HopsLess
  <1>8. ASSUME UNCHANGED <<pc, spent, served>>
        PROVE  HopsInv'
    BY <1>8 DEF HopsInv, Holding, Hops!SubjectToken
  <1>9. ASSUME NEW h \in Hops!Handler, Hops!Expire(h)
        PROVE  HopsInv'
    BY <1>8, <1>9 DEF Hops!Expire
  <1>10. CASE Hops!Restart
    BY <1>8, <1>10 DEF Hops!Restart
  <1>11. CASE UNCHANGED agents
    BY <1>8, <1>11 DEF agents
  <1> QED
    BY <1>1, <1>2, <1>3, <1>4, <1>5, <1>6, <1>7, <1>9, <1>10, <1>11
    DEF Hops!Next, Hops!Serve

-----------------------------------------------------------------------------
(* The theorems *)

RecordsInv == (part = "trace" => TraceInv) /\ HopsInv

\* What the services log and what handlers hold stays so in every part.
THEOREM RecordsInductive == RecordsSpec => []RecordsInv
  <1>1. RecordsInit => RecordsInv
    <2> SUFFICES ASSUME RecordsInit PROVE RecordsInv
      OBVIOUS
    <2>1. part = "trace" => TraceInv
      BY TraceInit DEF RecordsInit
    <2>2. HopsInv
      BY DEF RecordsInit, Hops!Init, HopsInv, Holding
    <2> QED
      BY <2>1, <2>2 DEF RecordsInv
  <1>2. RecordsInv /\ [RecordsNext]_recordsVars => RecordsInv'
    <2> SUFFICES ASSUME RecordsInv, [RecordsNext]_recordsVars
                 PROVE  RecordsInv'
      OBVIOUS
    <2>1. CASE Appending
      <3>1. part = "append" /\ UNCHANGED <<part, agents>>
        BY <2>1 DEF Appending
      <3> QED
        BY <3>1, HopsStep DEF RecordsInv
    <2>2. CASE Tracing /\ Incident!Next
      <3>1. part = "trace" /\ UNCHANGED <<part, agents>>
        BY <2>2 DEF Tracing
      <3> QED
        BY <2>2, <3>1, HopsStep, TraceStep DEF RecordsInv
    <2>3. CASE Hopping /\ Hops!Next
      <3>1. part = "hops" /\ UNCHANGED part
        BY <2>3 DEF Hopping
      <3> QED
        BY <2>3, <3>1, HopsStep DEF RecordsInv
    <2>4. CASE UNCHANGED recordsVars
      <3>1. UNCHANGED <<part, services, agents>>
        BY <2>4 DEF recordsVars
      <3> QED
        BY <3>1, HopsStep, TraceStep DEF RecordsInv
    <2> QED
      BY <2>1, <2>2, <2>3, <2>4 
      DEF RecordsNext, Incident!Next, Hops!Next, Hops!Serve
  <1> QED
    BY <1>1, <1>2, PTL DEF RecordsSpec

\* A lookup by an id of a token finds every decision about it in the audit logs,
\* and with the log of mcp-visor as many or fails, as long as no id is longer than
\* what a record keeps of it (Trace, boundEventString).
THEOREM LookupsComplete ==
  ASSUME Ids \cap Long = {}
  PROVE  RecordsSpec => []LookupFindsAll
  <1>1. RecordsInv => LookupFindsAll
    BY FindsAll DEF RecordsInv, LookupFindsAll
  <1> QED
    BY <1>1, RecordsInductive, PTL

\* Where a reconstruction is returned, that is where every line of mcp-visor 
\* loads, those lines only add to it (Trace).
THEOREM VisorLinesOnlyAdd == RecordsSpec => []VisorOnlyAdds
  <1>1. RecordsInv => VisorOnlyAdds
    BY OnlyAdds DEF RecordsInv, VisorOnlyAdds
  <1> QED
    BY <1>1, RecordsInductive, PTL

\* A reconstruction has the records of a log in the order of its chain 
\* (recordLess).
THEOREM ChainsInOrder == RecordsSpec => []ChainOrder
  <1>1. RecordsInv => ChainOrder
    BY Chains DEF RecordsInv, ChainOrder
  <1> QED
    BY <1>1, RecordsInductive, PTL

\* A minted token moves the backend once, with the whole body (RoundTrip).
THEOREM MovesOnce == RecordsSpec => []ServedOnce
  <1>1. RecordsInv => ServedOnce
    BY DEF RecordsInv, HopsInv, ServedOnce, Hops!ServedOnce
  <1> QED
    BY <1>1, RecordsInductive, PTL

\* The log of the composition is the one that AuditLogProofs is about.
THEOREM RecordsImplementLog == RecordsSpec => Spec
  <1>1. RecordsInit => Init
    BY DEF RecordsInit
  <1>2. [RecordsNext]_recordsVars => [Next]_vars
    <2>1. CASE UNCHANGED vars
      BY <2>1
    <2>2. RecordsNext => Next \/ UNCHANGED vars
      BY DEF RecordsNext, Next, Tracing, Hopping
    <2>3. UNCHANGED recordsVars => UNCHANGED vars
      BY DEF recordsVars
    <2> QED
      BY <2>1, <2>2, <2>3
  <1> QED
    BY <1>1, <1>2, PTL DEF RecordsSpec, Spec
=============================================================================
