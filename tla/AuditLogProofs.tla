--------------------------- MODULE AuditLogProofs ---------------------------
(***************************************************************************)
(* For every set of events: the log keeps its types, its chain verifies,   *)
(* acknowledged records survive, there are no more unacknowledged ones     *)
(* than processes that opened the log, it implements a journal, and the    *)
(* hash of a record stands for everything up to it.                        *)
(***************************************************************************)
EXTENDS AuditLog, SequenceTheorems, FiniteSetTheorems, WellFoundedInduction, 
        TLAPS

\* The record that an append writes is a record, and hashes to an event list.
LEMMA NextRecordType ==
  ASSUME TypeOK, NEW e \in Event, NEW s \in Shapes
  PROVE  NextRecord(e, s) \in Record
  BY DEF TypeOK, NextRecord, Record

\* payloadHash of a record is a hash.
LEMMA HashType ==
  ASSUME NEW r \in Record
  PROVE  Hash(r) \in Seq(Event)
  BY AppendProperties DEF Record, Hash

\* A file that grew by one record has the old ones, and that one.
LEMMA Grown ==
  ASSUME NEW f \in Seq(Record), NEW r \in Record
  PROVE  LET g == Append(f, r)
         IN  /\ g \in Seq(Record)
             /\ Len(g) = Len(f) + 1
             /\ DOMAIN f = 1..Len(f) /\ DOMAIN g = 1..(Len(f) + 1)
             /\ \A i \in 1..Len(f) : g[i] = f[i]
             /\ g[Len(f) + 1] = r
  BY AppendProperties, LenProperties

\* Appending a record that links to the end of a chain prolongs the chain.
LEMMA LinkedGrown ==
  ASSUME NEW f \in Seq(Record), NEW r \in Record, Linked(f),
         r.index = Len(f) + 1, r.prev = Tip(f, Len(f))
  PROVE  Linked(Append(f, r))
  <1> DEFINE g == Append(f, r)
  <1>1. /\ Len(f) \in Nat
        /\ DOMAIN f = 1..Len(f) /\ DOMAIN g = 1..(Len(f) + 1)
        /\ \A i \in 1..Len(f) : g[i] = f[i]
        /\ g[Len(f) + 1] = r
    BY Grown, LenProperties
  <1> HIDE DEF g
  <1>2. ASSUME NEW i \in 1..Len(f) 
        PROVE  g[i].index = i /\ g[i].prev = Tip(g, i - 1)
    <2>1. f[i].index = i /\ f[i].prev = Tip(f, i - 1)
      BY <1>1 DEF Linked
    <2>2. i - 1 = 0 \/ g[i - 1] = f[i - 1]
      BY <1>1
    <2>3. Tip(g, i - 1) = Tip(f, i - 1)
      BY <2>2 DEF Tip
    <2>4. QED
      BY <2>1, <2>3, <1>1
  <1>3. r.prev = Tip(g, Len(f))
    BY <1>1 DEF Tip
  <1>4. \A i \in DOMAIN g : g[i].index = i /\ g[i].prev = Tip(g, i - 1)
    <2> SUFFICES ASSUME NEW i \in DOMAIN g
                 PROVE  g[i].index = i /\ g[i].prev = Tip(g, i - 1)
      OBVIOUS
    <2>1. CASE i \in 1..Len(f)
      BY <2>1, <1>2
    <2>2. CASE i = Len(f) + 1
      <3>1. i - 1 = Len(f)
        BY <2>2, <1>1
      <3>2. QED
        BY <3>1, <2>2, <1>1, <1>3
    <2>3. QED
      BY <2>1, <2>2, <1>1
  <1>5. QED
    BY <1>4 DEF Linked, g

\* What a crash may leave of a file f from which at least n writes are whole.
CutAt(f, n, g) ==
    \/ g = SubSeq(f, 1, n)
    \/ /\ n < Len(f)
       /\ \E s \in CutShort(f[n + 1].shape) :
             g = Append(SubSeq(f, 1, n), [f[n + 1] EXCEPT !.shape = s])

\* The first n records of the remaining file are untouched, and what is left of
\* the next differs only in its shape, so a chain is still one.
LEMMA Cut ==
  ASSUME NEW f \in Seq(Record), NEW n \in 0..Len(f), NEW g, CutAt(f, n, g)
  PROVE  /\ g \in Seq(Record)
         /\ Len(g) \in n..Len(f)
         /\ \A i \in 1..n : g[i] = f[i]
         /\ Linked(f) => Linked(g)
  <1> DEFINE h == SubSeq(f, 1, n)
  <1>1. /\ Len(f) \in Nat /\ DOMAIN f = 1..Len(f)
        /\ \A i \in 1..Len(f) : f[i] \in Record
    BY LenProperties, ElementOfSeq
  <1>2. /\ h \in Seq(Record) /\ Len(h) = n
        /\ \A i \in 1..n : h[i] = f[i]
    BY <1>1, SubSeqProperties
  <1>3. Linked(f) => Linked(h)
    <2> SUFFICES ASSUME Linked(f), NEW i \in 1..n 
                 PROVE  h[i].index = i /\ h[i].prev = Tip(h, i - 1)
      BY <1>2, LenProperties DEF Linked
    <2> HIDE DEF h
    <2>1. i \in DOMAIN f
      BY <1>1
    <2>2. Tip(h, i - 1) = Tip(f, i - 1)
      BY <1>2 DEF Tip
    <2>3. QED
      BY <2>1, <2>2, <1>2 DEF Linked
  <1>4. CASE g = h
    BY <1>4, <1>1, <1>2, <1>3
  <1>5. ASSUME n < Len(f), NEW s \in CutShort(f[n + 1].shape),
               g = Append(h, [f[n + 1] EXCEPT !.shape = s])
        PROVE  /\ g \in Seq(Record)
               /\ Len(g) \in n..Len(f)
               /\ \A i \in 1..n : g[i] = f[i]
               /\ Linked(f) => Linked(g)
    <2> DEFINE r == [f[n + 1] EXCEPT !.shape = s]
    <2> HIDE DEF h
    <2>1. n + 1 \in 1..Len(f) /\ f[n + 1] \in Record
      BY <1>5, <1>1
    <2>2. s \in Shapes
      BY <1>5 DEF CutShort, Shapes
    <2>3. /\ r \in Record
          /\ r.index = f[n + 1].index /\ r.prev = f[n + 1].prev
      BY <2>1, <2>2 DEF Record
    <2> HIDE DEF r
    <2>4. g = Append(h, r)
      BY <1>5 DEF r
    <2>5. /\ g \in Seq(Record) /\ Len(g) = n + 1
          /\ \A i \in 1..n : g[i] = f[i]
      BY <2>3, <2>4, <1>2, Grown
    <2>6. ASSUME Linked(f) PROVE Linked(g)
      <3>1. f[n + 1].index = n + 1 /\ f[n + 1].prev = Tip(f, n)
        BY <2>6, <2>1, <1>1, SMTT(30) DEF Linked
      <3>2. Tip(f, n) = Tip(h, n)
        BY <1>2 DEF Tip
      <3>3. QED
        BY <3>1, <3>2, <2>3, <2>4, <2>6, <1>2, <1>3, LinkedGrown
    <2>7. QED
      BY <2>5, <2>6, <1>5, <1>1
  <1>6. QED
    BY <1>4, <1>5 DEF CutAt

\* In a chain the index tells the records apart.
LEMMA OneOfItsIndex ==
  ASSUME NEW f \in Seq(Record), Linked(f), NEW i \in 1..Len(f)
  PROVE  \A j \in DOMAIN f : f[j].index = f[i].index => j = i
  BY LenProperties DEF Linked

\* What is left of an interval of numbers can be counted.
LEMMA Countable ==
  ASSUME NEW n \in Nat, NEW S
  PROVE  IsFiniteSet((1..n) \ S) /\ Cardinality((1..n) \ S) \in Nat
  <1>1. IsFiniteSet(1..n)
    BY FS_Interval
  <1>2. IsFiniteSet((1..n) \ S)
    BY <1>1, FS_Subset
  <1>3. QED
    BY <1>2, FS_CardinalityType

\* There are finitely many phantoms.
LEMMA PhantomsFinite ==
  ASSUME TypeOK
  PROVE  IsFiniteSet(Phantoms) /\ Cardinality(Phantoms) \in Nat
  <1>1. Len(file) \in Nat
    BY LenProperties DEF TypeOK
  <1>2. QED
    BY <1>1, Countable DEF Phantoms

\* A write of the record under way adds a phantom, unless nothing was written.
LEMMA PhantomAdded ==
  ASSUME TypeOK, NEW r \in Record, acked' = acked,
         file' = file \/ file' = Append(file, r)
  PROVE  Cardinality(Phantoms') <= Cardinality(Phantoms) + 1
  <1>1. IsFiniteSet(Phantoms) /\ Cardinality(Phantoms) \in Nat
    BY PhantomsFinite
  <1>2. CASE file' = file
    <2>1. Phantoms' = Phantoms
      BY <1>2 DEF Phantoms
    <2>2. QED
      BY <2>1, <1>1
  <1>3. CASE file' = Append(file, r)
    <2>1. Len(file) \in Nat /\ Len(file') = Len(file) + 1
      BY <1>3, Grown, LenProperties DEF TypeOK
    <2>2. Phantoms' = Phantoms \cup {Len(file) + 1}
      BY <2>1 DEF Phantoms, TypeOK
    <2>3. \/ Cardinality(Phantoms') = Cardinality(Phantoms)
          \/ Cardinality(Phantoms') = Cardinality(Phantoms) + 1
      BY <2>2, <1>1, FS_AddElement
    <2>4. QED
      BY <2>3, <1>1
  <1>4. QED
    BY <1>2, <1>3

\* An append that wrote a record, or part of it, keeps what it must of a file.
LEMMA AppendKeeps ==
  ASSUME IInv, Healthy, NEW e \in Event, NEW s \in Shapes,
         file' = Append(file, NextRecord(e, s)), acked' = acked, synced' = synced
  PROVE  /\ file' \in Seq(Record) /\ Len(file') = Len(file) + 1
         /\ synced \in 0..Len(file') /\ acked \subseteq 1..Len(file')
         /\ file'[Len(file')] = NextRecord(e, s)
         /\ \A i \in 1..Len(file) : file'[i] = file[i]
         /\ OwnChainVerifies'
         /\ AckedRecordsSurvive'
  <1> DEFINE r == NextRecord(e, s)
  <1>1. r \in Record
    BY NextRecordType DEF IInv
  <1>2. /\ file' \in Seq(Record) /\ Len(file') = Len(file) + 1
        /\ file'[Len(file')] = r
        /\ \A i \in 1..Len(file) : file'[i] = file[i]
        /\ Len(file) \in Nat
        /\ DOMAIN file = 1..Len(file) /\ DOMAIN file' = 1..(Len(file) + 1)
    BY <1>1, Grown, LenProperties DEF IInv, TypeOK
  <1>3. synced \in 0..Len(file') /\ acked \subseteq 1..Len(file')
    BY <1>2 DEF IInv, TypeOK
  <1>4. r.index = Len(file) + 1 /\ r.prev = Tip(file, Len(file))
    BY DEF IInv, AtTheEnd, Healthy, NextRecord
  <1> HIDE DEF r
  <1>5. Linked(file')
    BY <1>1, <1>4, LinkedGrown DEF IInv, TypeOK, OwnChainVerifies, r
  <1>6. AckedRecordsSurvive'
    <2> SUFFICES ASSUME NEW i \in acked
                 PROVE  /\ i <= synced
                        /\ file'[i].shape = "line"
                        /\ \A j \in DOMAIN file' : 
                              file'[j].index = file'[i].index => j = i
      BY DEF AckedRecordsSurvive
    <2>1. i \in 1..Len(file) /\ i <= synced /\ file[i].shape = "line"
      BY DEF IInv, TypeOK, AckedRecordsSurvive
    <2>2. i \in 1..Len(file') /\ file'[i] = file[i]
      BY <2>1, <1>2
    <2>3. QED
      BY <2>1, <2>2, <1>2, <1>5, OneOfItsIndex
  <1>7. QED
    BY <1>2, <1>3, <1>5, <1>6 DEF OwnChainVerifies, r

-----------------------------------------------------------------------------
(* Every step preserves the inductive invariant *)

LEMMA InitIInv == Init => IInv
  <1> SUFFICES ASSUME Init PROVE IInv
    OBVIOUS
  <1>1. file = <<>> /\ Len(file) = 0 /\ DOMAIN file = {}
    BY DEF Init
  <1>2. TypeOK
    <2>1. file \in Seq(Record) /\ prevHash \in Seq(Event)
      BY EmptySeq DEF Init, GenesisPrevHash
    <2>2. synced \in 0..Len(file) /\ acked \subseteq 1..Len(file)
      BY <1>1 DEF Init
    <2>3. chainIndex \in Nat /\ lives \in 1..MaxLives
      BY AuditLogAssumption DEF Init
    <2>4. up \in BOOLEAN /\ poisoned \in BOOLEAN /\ writing \in Event \cup {None}
      BY DEF Init
    <2>5. QED
      BY <2>1, <2>2, <2>3, <2>4 DEF TypeOK
  <1>3. OwnChainVerifies /\ AckedRecordsSurvive
    BY <1>1 DEF Init, OwnChainVerifies, Linked, AckedRecordsSurvive
  <1>4. AtTheEnd /\ InFlight
    BY <1>1 DEF Init, AtTheEnd, InFlight, Tip
  <1>5. Phantoms = {}
    BY <1>1 DEF Init, Phantoms
  <1>6. OneEach /\ PhantomsBounded
    BY <1>5, FS_EmptySet DEF Init, OneEach, PhantomsBounded
  <1>7. QED
    BY <1>2, <1>3, <1>4, <1>6 DEF IInv

LEMMA WriteKeeps ==
  ASSUME IInv, NEW e \in Event, Write(e)
  PROVE  IInv'
  <1>1. /\ Healthy /\ file' = Append(file, NextRecord(e, "line"))
        /\ acked' = acked /\ synced' = synced
        /\ "line" \in Shapes
    BY DEF Write, Shapes
  <1>2. /\ file' \in Seq(Record) /\ Len(file') = Len(file) + 1
        /\ synced \in 0..Len(file') /\ acked \subseteq 1..Len(file')
        /\ file'[Len(file')] = NextRecord(e, "line")
        /\ \A i \in 1..Len(file) : file'[i] = file[i]
        /\ OwnChainVerifies' /\ AckedRecordsSurvive'
    BY <1>1, AppendKeeps
  <1>3. TypeOK'
    BY <1>2 DEF IInv, TypeOK, Write
  <1>4. chainIndex = Len(file) /\ chainIndex \in Nat
    BY <1>1 DEF IInv, AtTheEnd, Healthy, TypeOK
  <1>5. AtTheEnd'
    <2>1. prevHash = Tip(file, chainIndex)
      BY <1>1 DEF IInv, AtTheEnd, Healthy
    <2>2. Tip(file', chainIndex) = Tip(file, chainIndex)
      BY <1>2, <1>4 DEF Tip
    <2>3. QED
      BY <2>1, <2>2, <1>2, <1>4, AuditLogAssumption DEF AtTheEnd, Write
  <1>6. InFlight'
    <2>1. Len(file') \notin acked
      BY <1>2, <1>4 DEF IInv, TypeOK
    <2>2. NextRecord(e, "line")' = NextRecord(e, "line")
      BY DEF NextRecord, Write
    <2>3. QED
      BY <2>1, <2>2, <1>1, <1>2 DEF InFlight, Write, Healthy, NextRecord
  <1>7. OneEach'
    BY AuditLogAssumption DEF Write, OneEach, Healthy
  <1>8. PhantomsBounded'
    <2>1. NextRecord(e, "line") \in Record
      BY <1>1, NextRecordType DEF IInv
    <2>2. Cardinality(Phantoms') <= Cardinality(Phantoms) + 1
      BY <2>1, <1>1, PhantomAdded DEF IInv
    <2>3. /\ Cardinality(Phantoms) \in Nat 
          /\ Cardinality(Phantoms) <= lives - 1 /\ lives \in Nat
      BY <1>1, PhantomsFinite, AuditLogAssumption DEF IInv, OneEach, TypeOK
    <2>4. Cardinality(Phantoms') \in Nat
      <3>1. Len(file') \in Nat
        BY <1>2, LenProperties
      <3>2. QED
        BY <3>1, Countable DEF Phantoms
    <2>5. QED
      BY <2>2, <2>3, <2>4 DEF PhantomsBounded, Write
  <1>9. QED
    BY <1>2, <1>3, <1>5, <1>6, <1>7, <1>8 DEF IInv

LEMMA WriteFailsKeeps ==
  ASSUME IInv, NEW e \in Event, WriteFails(e)
  PROVE  IInv'
  <1>1. /\ Healthy /\ acked' = acked /\ synced' = synced
        /\ poisoned' = TRUE /\ writing' = None
        /\ up' = up /\ lives' = lives
        /\ prevHash' = prevHash /\ chainIndex' = chainIndex
        /\ None \notin Event
    BY AuditLogAssumption DEF WriteFails, Healthy
  <1>2. \/ file' = file
        \/ \E s \in Shapes : file' = Append(file, NextRecord(e, s))
    BY DEF WriteFails, Shapes
  <1>3. /\ file' \in Seq(Record) 
        /\ synced \in 0..Len(file') /\ acked \subseteq 1..Len(file')
        /\ OwnChainVerifies' /\ AckedRecordsSurvive'
    <2>1. CASE file' = file
      BY <2>1, <1>1 
      DEF IInv, TypeOK, OwnChainVerifies, AckedRecordsSurvive
    <2>2. ASSUME NEW s \in Shapes, file' = Append(file, NextRecord(e, s))
          PROVE  /\ file' \in Seq(Record) 
                 /\ synced \in 0..Len(file') /\ acked \subseteq 1..Len(file')
                 /\ OwnChainVerifies' /\ AckedRecordsSurvive'
      BY <2>2, <1>1, AppendKeeps
    <2>3. QED
      BY <1>2, <2>1, <2>2
  <1>4. TypeOK'
    BY <1>1, <1>3 DEF IInv, TypeOK
  <1>5. AtTheEnd' /\ InFlight' /\ OneEach'
    BY <1>1 DEF AtTheEnd, InFlight, OneEach, Healthy
  <1>6. PhantomsBounded'
    <2>1. Cardinality(Phantoms') <= Cardinality(Phantoms) + 1
      <3>1. \A s \in Shapes : NextRecord(e, s) \in Record
        BY NextRecordType DEF IInv
      <3>2. PICK r \in Record : file' = file \/ file' = Append(file, r)
        <4>1. "line" \in Shapes
          BY DEF Shapes
        <4>2. QED
          BY <3>1, <1>2, <4>1
      <3>3. QED
        BY <3>2, <1>1, PhantomAdded DEF IInv
    <2>2. /\ Cardinality(Phantoms) \in Nat 
          /\ Cardinality(Phantoms) <= lives - 1 /\ lives \in Nat
      BY <1>1, PhantomsFinite, AuditLogAssumption DEF IInv, OneEach, TypeOK
    <2>3. Cardinality(Phantoms') \in Nat
      <3>1. Len(file') \in Nat
        BY <1>3, LenProperties
      <3>2. QED
        BY <3>1, Countable DEF Phantoms
    <2>4. QED
      BY <2>1, <2>2, <2>3, <1>1 DEF PhantomsBounded
  <1>7. QED
    BY <1>3, <1>4, <1>5, <1>6 DEF IInv

LEMMA SyncKeeps ==
  ASSUME IInv, Sync
  PROVE  IInv'
  <1> DEFINE n == Len(file)
  <1>1. /\ writing # None /\ up /\ ~poisoned
        /\ n = chainIndex + 1 /\ chainIndex \in Nat
        /\ n \notin acked /\ file[n] = NextRecord(writing, "line")
        /\ n \in Nat \ {0} /\ DOMAIN file = 1..n
        /\ file[n] \in Record
    BY ElementOfSeq, LenProperties 
    DEF IInv, TypeOK, AtTheEnd, InFlight, Sync
  <1>2. /\ file' = file /\ synced' = n /\ acked' = acked \cup {n}
        /\ prevHash' = Hash(file[n]) /\ chainIndex' = n
        /\ writing' = None /\ up' = up /\ poisoned' = poisoned /\ lives' = lives
    BY <1>1 DEF Sync
  <1> HIDE DEF n
  <1>3. TypeOK'
    <2>1. prevHash' \in Seq(Event)
      BY <1>1, <1>2, HashType
    <2>2. Len(file') = n
      BY <1>2 DEF n
    <2>3. synced' \in 0..Len(file') /\ acked' \subseteq 1..Len(file')
      BY <1>1, <1>2, <2>2 DEF IInv, TypeOK, n
    <2>4. QED
      BY <2>1, <2>3, <1>1, <1>2 DEF IInv, TypeOK
  <1>4. OwnChainVerifies'
    BY <1>2 DEF IInv, OwnChainVerifies
  <1>5. AckedRecordsSurvive'
    <2> SUFFICES ASSUME NEW i \in acked'
                 PROVE  /\ i <= synced'
                        /\ file[i].shape = "line"
                        /\ \A j \in DOMAIN file : 
                              file[j].index = file[i].index => j = i
      BY <1>2 DEF AckedRecordsSurvive
    <2>1. i \in 1..n
      BY <1>1, <1>2 DEF IInv, TypeOK, n
    <2>2. file[i].shape = "line"
      BY <1>1, <1>2 DEF IInv, AckedRecordsSurvive, NextRecord
    <2>3. QED
      BY <2>1, <2>2, <1>2, <1>1, OneOfItsIndex 
      DEF IInv, TypeOK, OwnChainVerifies, n
  <1>6. AtTheEnd'
    BY <1>1, <1>2 DEF AtTheEnd, Tip, n
  <1>7. InFlight'
    BY <1>2 DEF InFlight
  <1>8. Cardinality(Phantoms') <= lives' - 1
    <2>1. n \in Phantoms /\ Phantoms' = Phantoms \ {n}
      BY <1>1, <1>2 DEF Phantoms, n
    <2>2. IsFiniteSet(Phantoms) /\ Cardinality(Phantoms) \in Nat
      BY PhantomsFinite DEF IInv
    <2>3. Cardinality(Phantoms') = Cardinality(Phantoms) - 1
      BY <2>1, <2>2, FS_RemoveElement
    <2>4. Cardinality(Phantoms) <= lives /\ lives \in Nat
      BY AuditLogAssumption DEF IInv, PhantomsBounded, TypeOK
    <2>5. QED
      BY <2>2, <2>3, <2>4, <1>2
  <1>9. OneEach' /\ PhantomsBounded'
    <2>1. lives' \in Nat
      BY <1>2, AuditLogAssumption DEF IInv, TypeOK
    <2>2. Cardinality(Phantoms') \in Nat
      <3>1. Len(file') \in Nat
        BY <1>1, <1>2 DEF n
      <3>2. QED
        BY <3>1, Countable DEF Phantoms
    <2>3. QED
      BY <2>1, <2>2, <1>8 DEF OneEach, PhantomsBounded
  <1>10. QED
    BY <1>3, <1>4, <1>5, <1>6, <1>7, <1>9 DEF IInv

LEMMA SyncFailsKeeps ==
  ASSUME IInv, SyncFails
  PROVE  IInv'
  <1>1. TypeOK' /\ OwnChainVerifies' /\ AckedRecordsSurvive'
    BY DEF IInv, SyncFails, TypeOK, OwnChainVerifies, AckedRecordsSurvive
  <1>2. AtTheEnd' /\ InFlight' /\ OneEach'
    BY DEF SyncFails, AtTheEnd, InFlight, OneEach, Healthy
  <1>3. Phantoms' = Phantoms
    BY DEF SyncFails, Phantoms
  <1>4. PhantomsBounded'
    BY <1>3 DEF IInv, SyncFails, PhantomsBounded
  <1>5. QED
    BY <1>1, <1>2, <1>4 DEF IInv

LEMMA CrashKeeps ==
  ASSUME IInv, Crash
  PROVE  IInv'
  <1>1. PICK n \in synced..Len(file) : CutAt(file, n, file')
    BY DEF Crash, CutAt
  <1>2. /\ Len(file) \in Nat /\ synced \in Nat /\ n \in 0..Len(file)
        /\ file \in Seq(Record) /\ Linked(file) /\ DOMAIN file = 1..Len(file)
        /\ synced' = synced /\ acked' = acked /\ lives' = lives
    BY LenProperties DEF IInv, TypeOK, OwnChainVerifies, Crash
  <1>3. /\ file' \in Seq(Record)
        /\ Len(file') \in n..Len(file)
        /\ \A i \in 1..n : file'[i] = file[i]
        /\ OwnChainVerifies'
    BY <1>1, <1>2, Cut DEF OwnChainVerifies
  <1>4. /\ Len(file') \in Nat /\ n <= Len(file') /\ Len(file') <= Len(file)
        /\ synced <= n
    BY <1>1, <1>2, <1>3
  <1>5. \A i \in acked : i \in 1..n /\ i <= synced /\ file[i].shape = "line"
    BY <1>2, <1>4 DEF IInv, AckedRecordsSurvive, TypeOK
  <1>6. TypeOK'
    <2>1. synced' \in 0..Len(file') /\ acked' \subseteq 1..Len(file')
      BY <1>2, <1>4, <1>5
    <2>2. QED
      BY <2>1, <1>3 DEF Crash, IInv, TypeOK
  <1>7. AckedRecordsSurvive'
    <2> SUFFICES ASSUME NEW i \in acked
                 PROVE  /\ i <= synced
                        /\ file'[i].shape = "line"
                        /\ \A j \in DOMAIN file' : 
                              file'[j].index = file'[i].index => j = i
      BY <1>2 DEF AckedRecordsSurvive
    <2>1. i \in 1..Len(file')
      BY <1>4, <1>5
    <2>2. QED
      BY <2>1, <1>3, <1>5, OneOfItsIndex DEF OwnChainVerifies
  <1>8. AtTheEnd' /\ InFlight' /\ OneEach'
    BY DEF Crash, AtTheEnd, InFlight, OneEach, Healthy
  <1>9. PhantomsBounded'
    <2>1. Phantoms' \in SUBSET Phantoms
      BY <1>2, <1>4 DEF Phantoms
    <2>2. IsFiniteSet(Phantoms) /\ Cardinality(Phantoms) \in Nat
      BY PhantomsFinite DEF IInv
    <2>3. Cardinality(Phantoms') <= Cardinality(Phantoms)
      BY <2>1, <2>2, FS_Subset
    <2>4. Cardinality(Phantoms') \in Nat
      BY <1>4, Countable DEF Phantoms
    <2>5. QED
      BY <2>2, <2>3, <2>4, <1>2, AuditLogAssumption 
      DEF IInv, PhantomsBounded, TypeOK
  <1>10. QED
    BY <1>3, <1>6, <1>7, <1>8, <1>9 DEF IInv

LEMMA RestartKeeps ==
  ASSUME IInv, Restart
  PROVE  IInv'
  <1>1. /\ ~up /\ writing = None /\ writing' = None
        /\ file' = file /\ synced' = synced /\ acked' = acked
        /\ lives' = lives + 1 /\ lives < MaxLives /\ lives \in Nat
        /\ Len(file) \in Nat /\ DOMAIN file = 1..Len(file)
    BY LenProperties, AuditLogAssumption 
    DEF IInv, TypeOK, InFlight, Restart
  <1>2. prevHash' \in Seq(Event)
    <2>1. CASE Len(file) = 0
      BY <2>1, EmptySeq DEF Restart, Tip, GenesisPrevHash
    <2>2. CASE Len(file) # 0
      <3>1. file[Len(file)] \in Record
        BY <2>2, <1>1, ElementOfSeq DEF IInv, TypeOK
      <3>2. QED
        BY <2>2, <3>1, HashType DEF Restart, Tip
    <2>3. QED
      BY <2>1, <2>2
  <1>3. TypeOK'
    <2>1. lives' \in 1..MaxLives
      BY <1>1, AuditLogAssumption
    <2>2. QED
      BY <2>1, <1>1, <1>2 DEF IInv, TypeOK, Restart
  <1>4. OwnChainVerifies' /\ AckedRecordsSurvive'
    BY <1>1 DEF IInv, OwnChainVerifies, AckedRecordsSurvive
  <1>5. AtTheEnd' /\ InFlight'
    BY <1>1 DEF AtTheEnd, InFlight, Restart
  <1>6. OneEach' /\ PhantomsBounded'
    <2>1. Phantoms' = Phantoms
      BY <1>1 DEF Phantoms
    <2>2. Cardinality(Phantoms) \in Nat /\ Cardinality(Phantoms) <= lives
      BY PhantomsFinite DEF IInv, PhantomsBounded
    <2>3. QED
      BY <2>1, <2>2, <1>1 DEF OneEach, PhantomsBounded
  <1>7. QED
    BY <1>3, <1>4, <1>5, <1>6 DEF IInv

-----------------------------------------------------------------------------
(* The theorems *)

\* The inductive invariant holds as the first process opens an empty log, and
\* whatever an append, a failure, a death or a recovery does (logger.go).
THEOREM Inductive == Spec => []IInv
  <1>1. Init => IInv
    BY InitIInv
  <1>2. IInv /\ [Next]_vars => IInv'
    <2> SUFFICES ASSUME IInv, [Next]_vars PROVE IInv'
      OBVIOUS
    <2>1. ASSUME NEW e \in Event, Write(e) PROVE IInv'
      BY <2>1, WriteKeeps
    <2>2. ASSUME NEW e \in Event, WriteFails(e) PROVE IInv'
      BY <2>2, WriteFailsKeeps
    <2>3. CASE Sync
      BY <2>3, SyncKeeps
    <2>4. CASE SyncFails
      BY <2>4, SyncFailsKeeps
    <2>5. CASE Crash
      BY <2>5, CrashKeeps
    <2>6. CASE Restart
      BY <2>6, RestartKeeps
    <2>7. CASE UNCHANGED vars
      BY <2>7 DEF vars, IInv, TypeOK, OwnChainVerifies, AckedRecordsSurvive, 
         AtTheEnd, InFlight, NextRecord, OneEach, Healthy, PhantomsBounded, 
         Phantoms
    <2>8. QED
      BY <2>1, <2>2, <2>3, <2>4, <2>5, <2>6, <2>7 DEF Next
  <1>3. QED
    BY <1>1, <1>2, PTL DEF Spec

\* The state of the logger and of its file has its type.
THEOREM TypeCorrect == Spec => []TypeOK
  <1>1. IInv => TypeOK
    BY DEF IInv
  <1>2. QED
    BY <1>1, Inductive, PTL

\* However many writes, failures and restarts there were, what is in the file
\* is one hash chain from genesis (NewLogger never meets a broken link that
\* Append made).
THEOREM ChainVerifies == Spec => []OwnChainVerifies
  <1>1. IInv => OwnChainVerifies
    BY DEF IInv
  <1>2. QED
    BY <1>1, Inductive, PTL

\* What Append acknowledged stays whole in the file, under an index that no
\* other record ever has.
THEOREM AckedSurvive == Spec => []AckedRecordsSurvive
  <1>1. IInv => AckedRecordsSurvive
    BY DEF IInv
  <1>2. QED
    BY <1>1, Inductive, PTL

\* Every process leaves at most one record that it did not acknowledge.
THEOREM PhantomsBound == Spec => []PhantomsBounded
  <1>1. IInv => PhantomsBounded
    BY DEF IInv
  <1>2. QED
    BY <1>1, Inductive, PTL

-----------------------------------------------------------------------------
(* The logger implements a journal *)

\* The events of a file, one per record.
LEMMA EventsType ==
  ASSUME NEW f \in Seq(Record)
  PROVE  /\ EventsOf(f) \in Seq(Event) /\ Len(EventsOf(f)) = Len(f)
         /\ Len(f) \in Nat
         /\ \A i \in 1..Len(f) : EventsOf(f)[i] = f[i].event
  <1>1. /\ Len(f) \in Nat /\ DOMAIN f = 1..Len(f)
        /\ \A i \in 1..Len(f) : f[i] \in Record
    BY LenProperties, ElementOfSeq
  <1>2. \A i \in 1..Len(f) : f[i].event \in Event
    BY <1>1 DEF Record
  <1>3. EventsOf(f) \in [1..Len(f) -> Event]
    BY <1>1, <1>2 DEF EventsOf
  <1>4. EventsOf(f) \in Seq(Event)
    BY <1>1, <1>3, SeqDef
  <1>5. Len(EventsOf(f)) = Len(f)
    BY <1>1, <1>3, <1>4, LenProperties
  <1>6. QED
    BY <1>1, <1>4, <1>5 DEF EventsOf

\* A record that is added adds its event.
LEMMA EventAdded ==
  ASSUME NEW f \in Seq(Record), NEW r \in Record
  PROVE  EventsOf(Append(f, r)) = Append(EventsOf(f), r.event)
  <1> DEFINE g == Append(f, r)
             old == EventsOf(f)
  <1>1. /\ g \in Seq(Record) /\ Len(g) = Len(f) + 1
        /\ \A i \in 1..Len(f) : g[i] = f[i]
        /\ g[Len(f) + 1] = r
    BY Grown
  <1>2. /\ old \in Seq(Event) /\ Len(old) = Len(f) /\ Len(f) \in Nat
        /\ \A i \in 1..Len(f) : old[i] = f[i].event
    BY EventsType
  <1> HIDE DEF g
  <1>3. /\ EventsOf(g) \in Seq(Event) /\ Len(EventsOf(g)) = Len(f) + 1
        /\ \A i \in 1..Len(g) : EventsOf(g)[i] = g[i].event
    BY <1>1, EventsType
  <1>4. r.event \in Event
    BY DEF Record
  <1> HIDE DEF old
  <1>5. /\ Append(old, r.event) \in Seq(Event) 
        /\ Len(Append(old, r.event)) = Len(f) + 1
        /\ \A i \in 1..Len(f) : Append(old, r.event)[i] = old[i]
        /\ Append(old, r.event)[Len(f) + 1] = r.event
    BY <1>2, <1>4, AppendProperties
  <1>6. \A i \in 1..Len(EventsOf(g)) : EventsOf(g)[i] = Append(old, r.event)[i]
    BY <1>1, <1>2, <1>3, <1>5
  <1>7. EventsOf(g) = Append(old, r.event)
    BY <1>3, <1>5, <1>6, SeqEqual
  <1>8. QED
    BY <1>7 DEF g, old

\* A file that lost its tail, or has a record cut short at its end, is of the
\* events it was of up to there.
LEMMA EventsCut ==
  ASSUME NEW f \in Seq(Record), NEW n \in 0..Len(f), NEW g, CutAt(f, n, g)
  PROVE  /\ Len(g) \in n..Len(f) 
         /\ EventsOf(g) = SubSeq(EventsOf(f), 1, Len(g))
  <1>1. g \in Seq(Record) /\ Len(g) \in n..Len(f) /\ Len(f) \in Nat
        /\ \A i \in 1..n : g[i] = f[i]
    BY Cut, LenProperties
  <1>2. ASSUME NEW i \in 1..Len(g)
        PROVE  g[i].event = f[i].event
    <2>1. CASE i \in 1..n
      BY <2>1, <1>1
    <2>2. CASE i \notin 1..n
      <3> DEFINE h == SubSeq(f, 1, n)
      <3>1. /\ h \in Seq(Record) /\ Len(h) = n
        BY <1>1, ElementOfSeq, SubSeqProperties
      <3>2. PICK s \in CutShort(f[n + 1].shape) : 
                    n < Len(f) /\ g = Append(h, [f[n + 1] EXCEPT !.shape = s])
        BY <2>2, <1>1, <3>1 DEF CutAt
      <3>3. n + 1 \in 1..Len(f) /\ f[n + 1] \in Record
        BY <3>2, <1>1, ElementOfSeq
      <3>4. s \in Shapes
        BY <3>2 DEF CutShort, Shapes
      <3> DEFINE r == [f[n + 1] EXCEPT !.shape = s]
      <3>5. r \in Record /\ r.event = f[n + 1].event
        BY <3>3, <3>4 DEF Record
      <3> HIDE DEF r, h
      <3>6. g = Append(h, r)
        BY <3>2 DEF r, h
      <3>7. Len(g) = n + 1 /\ g[n + 1] = r
        BY <3>1, <3>5, <3>6, Grown
      <3>8. i = n + 1
        BY <3>7, <2>2, <1>1
      <3>9. QED
        BY <3>5, <3>7, <3>8
    <2>3. QED
      BY <2>1, <2>2
  <1> DEFINE old == EventsOf(f)
             new == EventsOf(g)
  <1>3. /\ old \in Seq(Event) /\ Len(old) = Len(f)
        /\ \A i \in 1..Len(f) : old[i] = f[i].event
        /\ new \in Seq(Event) /\ Len(new) = Len(g) /\ Len(g) \in Nat
        /\ \A i \in 1..Len(g) : new[i] = g[i].event
    BY <1>1, EventsType
  <1> HIDE DEF old, new
  <1>4. \A i \in 1..Len(g) : old[i] \in Event
    BY <1>1, <1>3, ElementOfSeq
  <1>5. /\ SubSeq(old, 1, Len(g)) \in Seq(Event) 
        /\ Len(SubSeq(old, 1, Len(g))) = Len(g)
        /\ \A i \in 1..Len(g) : SubSeq(old, 1, Len(g))[i] = old[i]
    BY <1>3, <1>4, SubSeqProperties
  <1>6. \A i \in 1..Len(new) : new[i] = SubSeq(old, 1, Len(g))[i]
    BY <1>1, <1>2, <1>3, <1>5
  <1>7. new = SubSeq(old, 1, Len(g))
    BY <1>3, <1>5, <1>6, SeqEqual
  <1>8. QED
    BY <1>1, <1>7 DEF old, new

\* Every step of the logger is one of the journal, or none.
LEMMA JournalStep ==
  ASSUME IInv, [Next]_vars
  PROVE  Durable!Next \/ UNCHANGED <<EventsOf(file), acked>>
  <1>1. /\ file \in Seq(Record) /\ Len(file) \in Nat
        /\ Len(EventsOf(file)) = Len(file) /\ EventsOf(file) \in Seq(Event)
    BY EventsType DEF IInv, TypeOK
  <1>2. ASSUME NEW e \in Event, NEW s \in Shapes, acked' = acked,
               file' = Append(file, NextRecord(e, s))
        PROVE  Durable!Next
    <2>1. NextRecord(e, s) \in Record /\ NextRecord(e, s).event = e
      BY NextRecordType DEF IInv, NextRecord
    <2>2. EventsOf(file') = Append(EventsOf(file), e)
      BY <1>1, <1>2, <2>1, EventAdded
    <2>3. Durable!Write(e)
      BY <1>2, <2>2 DEF Durable!Write
    <2>4. QED
      BY <2>3 DEF Durable!Next
  <1>3. ASSUME NEW e \in Event, Write(e) PROVE Durable!Next
    BY <1>2, <1>3 DEF Write, Shapes
  <1>4. ASSUME NEW e \in Event, WriteFails(e)
        PROVE  Durable!Next \/ UNCHANGED <<EventsOf(file), acked>>
    BY <1>2, <1>4 DEF WriteFails, Shapes
  <1>5. CASE Sync
    <2>1. Len(file) \notin acked /\ writing # None /\ up /\ ~poisoned
      BY <1>5 DEF Sync, IInv, InFlight
    <2>2. Len(file) > 0
      BY <1>1, <2>1 DEF IInv, AtTheEnd, TypeOK
    <2>3. EventsOf(file) # <<>>
      BY <1>1, <2>2
    <2>4. Durable!Acknowledge
      BY <1>1, <1>5, <2>1, <2>3 DEF Sync, Durable!Acknowledge
    <2>5. QED
      BY <2>4 DEF Durable!Next
  <1>6. CASE Crash
    <2>1. PICK n \in synced..Len(file) : CutAt(file, n, file')
      BY <1>6 DEF Crash, CutAt
    <2>2. n \in 0..Len(file) /\ synced \in Nat /\ acked' = acked
      BY <1>1, <1>6 DEF IInv, TypeOK, Crash
    <2>3. /\ Len(file') \in n..Len(file)
          /\ EventsOf(file') = SubSeq(EventsOf(file), 1, Len(file'))
      BY <1>1, <2>1, <2>2, EventsCut
    <2>4. \A i \in acked : i \in 1..Len(file) /\ i <= synced
      BY DEF IInv, TypeOK, AckedRecordsSurvive
    <2>5. acked \subseteq 1..Len(file') /\ Len(file') \in 0..Len(EventsOf(file))
      BY <1>1, <2>1, <2>2, <2>3, <2>4
    <2>6. Durable!Lose
      BY <2>2, <2>3, <2>5 DEF Durable!Lose
    <2>7. QED
      BY <2>6 DEF Durable!Next
  <1>7. CASE SyncFails \/ Restart \/ UNCHANGED vars
    BY <1>7 DEF SyncFails, Restart, vars
  <1>8. QED
    BY <1>3, <1>4, <1>5, <1>6, <1>7 DEF Next

\* For any events, failures, power losses and lives: what Append acknowledged
\* is never lost, moved or rewritten, and every acknowledgement is of the
\* latest event (Append, NewLogger).
THEOREM ImplementsJournal == Spec => KeepsJournal
  <1>1. Init => Durable!Init
    BY DEF Init, Durable!Init, EventsOf
  <1>2. IInv /\ [Next]_vars => [Durable!Next]_(Durable!journal)
    BY JournalStep DEF Durable!journal
  <1>3. QED
    BY <1>1, <1>2, Inductive, PTL DEF Spec, KeepsJournal, Durable!Spec

-----------------------------------------------------------------------------
(* What the hashes are for *)

\* There is a first of some positions.
LEMMA FirstPosition ==
  ASSUME NEW S, S \subseteq Nat, S # {}
  PROVE  \E i \in S : \A j \in S : i <= j
  <1>1. PICK i \in S : \A j \in S : <<j, i>> \notin OpToRel(<, Nat)
    BY NatLessThanWellFounded, WFMin
  <1>2. \A j \in S : ~(j < i)
    BY <1>1 DEF OpToRel
  <1>3. \A j \in S : i <= j
    BY <1>2
  <1> QED
    BY <1>3

\* In a chain that verifies, a hash covers as many events as its place says: 
\* there is no first record for which it does not.
LEMMA HashLength ==
  ASSUME NEW f \in Seq(Record), Linked(f), NEW n \in DOMAIN f
  PROVE  Len(Hash(f[n])) = n
  <1> DEFINE S == {i \in DOMAIN f : Len(Hash(f[i])) # i}
  <1>1. DOMAIN f = 1..Len(f) /\ Len(f) \in Nat
    BY LenProperties
  <1>2. SUFFICES ASSUME S # {} PROVE FALSE
    OBVIOUS
  <1>3. S \subseteq Nat
    BY <1>1
  <1>4. PICK i \in S : \A j \in S : i <= j
    <2> HIDE DEF S
    <2> QED
      BY <1>2, <1>3, FirstPosition
  <1>5. i \in DOMAIN f /\ i \in Nat \ {0} /\ Len(Hash(f[i])) # i
    BY <1>1
  <1>6. f[i] \in Record
    BY <1>5
  <1>7. Len(Hash(f[i])) = Len(f[i].prev) + 1
    BY <1>6, AppendProperties DEF Record, Hash
  <1>8. f[i].prev = Tip(f, i - 1)
    BY <1>5 DEF Linked
  <1>9. CASE i = 1
    BY <1>5, <1>7, <1>8, <1>9 DEF Tip, GenesisPrevHash
  <1>10. CASE i # 1
    <2>1. i - 1 \in DOMAIN f /\ i - 1 \notin S
      BY <1>1, <1>4, <1>5, <1>10
    <2>2. Len(Hash(f[i - 1])) = i - 1
      BY <2>1
    <2>3. f[i].prev = Hash(f[i - 1])
      BY <1>5, <1>8, <1>10 DEF Tip
    <2> QED
      BY <1>5, <1>7, <2>2, <2>3
  <1> QED
    BY <1>9, <1>10

\* Records of one hash have one event, and hashes of one before them.
LEMMA HashInjective ==
  ASSUME NEW r \in Record, NEW s \in Record, Hash(r) = Hash(s)
  PROVE  r.event = s.event /\ r.prev = s.prev
  <1>1. /\ r.event \in Event /\ r.prev \in Seq(Event)
        /\ s.event \in Event /\ s.prev \in Seq(Event)
    BY DEF Record
  <1>2. Append(r.prev, r.event) = Append(s.prev, s.event)
    BY DEF Hash
  <1>3. \A p, q \in Seq(Event), a, b \in Event : 
           Append(p, a) = Append(q, b) => p = q /\ a = b
    BY AppendInjective
  <1> QED
    BY <1>1, <1>2, <1>3

\* Two chains that verify and have a record of one hash are one up to it: going 
\* back from there, there is no first place where their hashes differ.
LEMMA HashPinsHistory ==
  ASSUME NEW f \in Seq(Record), NEW g \in Seq(Record), Linked(f), Linked(g),
         NEW n \in DOMAIN f, NEW m \in DOMAIN g, Hash(f[n]) = Hash(g[m])
  PROVE  m = n /\ \A i \in 1..n : g[i].event = f[i].event
  <1>1. m = n
    BY HashLength
  <1>2. /\ DOMAIN f = 1..Len(f) /\ DOMAIN g = 1..Len(g)
        /\ Len(f) \in Nat /\ Len(g) \in Nat
    BY LenProperties
  <1>3. n \in Nat \ {0} /\ \A i \in 1..n : i \in DOMAIN f /\ i \in DOMAIN g
    BY <1>1, <1>2
  <1>4. \A i \in 1..n : f[i] \in Record /\ g[i] \in Record
    BY <1>3
  <1> DEFINE S == {k \in 0..(n - 1) : Hash(f[n - k]) # Hash(g[n - k])}
  <1>5. S = {}
    <2>1. SUFFICES ASSUME S # {} PROVE FALSE
      OBVIOUS
    <2>2. S \subseteq Nat
      BY <1>3
    <2>3. PICK k \in S : \A l \in S : k <= l
      <3> HIDE DEF S
      <3> QED
        BY <2>1, <2>2, FirstPosition
    <2>4. k \in 0..(n - 1) /\ Hash(f[n - k]) # Hash(g[n - k])
      OBVIOUS
    <2>5. k # 0
      BY <1>1, <1>3, <2>4
    <2> DEFINE i == n - (k - 1)
    <2>6. /\ k - 1 \in 0..(n - 1) /\ k - 1 \notin S 
          /\ i \in 2..n /\ i - 1 = n - k /\ i \in 1..n
      BY <1>3, <2>3, <2>4, <2>5
    <2>7. Hash(f[i]) = Hash(g[i])
      BY <2>6
    <2> HIDE DEF i, S
    <2>8. f[i].prev = g[i].prev
      BY <1>4, <2>6, <2>7, HashInjective
    <2>9. f[i].prev = Tip(f, i - 1) /\ g[i].prev = Tip(g, i - 1)
      BY <1>3, <2>6 DEF Linked
    <2>10. i - 1 # 0
      BY <2>6
    <2> QED
      BY <2>4, <2>6, <2>8, <2>9, <2>10 DEF Tip
  <1>6. ASSUME NEW i \in 1..n PROVE g[i].event = f[i].event
    <2>1. n - i \in 0..(n - 1) /\ n - (n - i) = i
      BY <1>3
    <2>2. Hash(f[i]) = Hash(g[i])
      BY <1>5, <2>1
    <2> QED
      BY <1>4, <2>2, HashInjective
  <1> QED
    BY <1>1, <1>6

\* Any chain that verifies and has a record of the same hash as a record of
\* this log has it at the same place, and says the same up to there.
HistoryPinned ==
    \A n \in DOMAIN file, g \in Seq(Record) : Linked(g) => 
        \A m \in DOMAIN g : Hash(g[m]) = Hash(file[n]) =>
            m = n /\ \A i \in 1..n : g[i].event = file[i].event

\* Whatever failed, died or was lost before, the hash of a record stands for 
\* all that the log says up to it (verifyEvent, payloadHash).
THEOREM HashesPinHistory == Spec => []HistoryPinned
  <1>1. TypeOK /\ OwnChainVerifies => HistoryPinned
    BY HashPinsHistory DEF TypeOK, OwnChainVerifies, HistoryPinned
  <1>2. IInv => HistoryPinned
    BY <1>1 DEF IInv
  <1>3. QED
    BY <1>2, Inductive, PTL

=============================================================================
