-------------------------- MODULE ReplayCacheProofs --------------------------
(***************************************************************************)
(* For every set of keys, claims and callers: the replay cache keeps its   *)
(* types, keeps open grants in memory and on disk, and implements          *)
(* SingleUse.                                                              *)
(***************************************************************************)
EXTENDS ReplayCache, SequenceTheorems, TLAPS

\* The deadline of a claim is a number of seconds.
LEMMA UntilType == \A c \in Claim : Until(c) \in Nat /\ c.jti \in Key
  BY ReplayCacheAssumption, ClockSkewAssumption DEF Until, ReplayUntil

\* A line of a claim is an entry of the log, whatever is left of it.
LEMMA LineType ==
  ASSUME NEW c \in Claim, NEW s \in Shapes
  PROVE  Line(c, s) \in Entry
  BY UntilType DEF Line, Entry

\* What a crash leaves of a write is one of the shapes of a write.
LEMMA CutShortType == \A s \in Shapes : CutShort(s) \subseteq Shapes
  BY DEF CutShort, Shapes

\* Init establishes the types.
LEMMA InitTypeOK == Init => TypeOK
  BY ReplayCacheAssumption DEF Init, TypeOK

\* Every step keeps the types (the fields of ReplayCache, and the file).
LEMMA NextTypeOK == TypeOK /\ WriterReady /\ [Next]_vars => TypeOK'
  <1> SUFFICES ASSUME TypeOK, WriterReady, [Next]_vars PROVE TypeOK'
    OBVIOUS
  <1> USE ReplayCacheAssumption
  <1>1. CASE Tick
    BY <1>1 DEF Tick, TypeOK
  <1>2. CASE Crash
    <2>1. PICK n \in synced..Len(log) :
              \/ log' = SubSeq(log, 1, n)
              \/ /\ n < Len(log)
                 /\ \E s \in CutShort(log[n + 1].shape) :
                       log' = Append(SubSeq(log, 1, n),
                                     [log[n + 1] EXCEPT !.shape = s])
      BY <1>2 DEF Crash
    <2>2. n \in Nat /\ n <= Len(log) /\ synced <= n /\ synced \in Nat
      BY DEF TypeOK
    <2>3. /\ SubSeq(log, 1, n) \in Seq(Entry)
          /\ Len(SubSeq(log, 1, n)) = n
      BY <2>2, SubSeqProperties DEF TypeOK
    <2>4. /\ log' \in Seq(Entry)
          /\ Len(log') >= n
      <3>1. CASE log' = SubSeq(log, 1, n)
        BY <3>1, <2>3, <2>2
      <3>2. ASSUME n < Len(log), NEW s \in CutShort(log[n + 1].shape),
                   log' = Append(SubSeq(log, 1, n),
                                 [log[n + 1] EXCEPT !.shape = s])
            PROVE  /\ log' \in Seq(Entry)
                   /\ Len(log') >= n
        <4>1. log[n + 1] \in Entry
          BY <3>2, <2>2, ElementOfSeq DEF TypeOK
        <4>2. s \in Shapes
          BY <4>1, <3>2, CutShortType DEF Entry
        <4>3. [log[n + 1] EXCEPT !.shape = s]
                  \in Entry
          BY <4>1, <4>2 DEF Entry
        <4>4. QED
          BY <4>3, <3>2, <2>3, <2>2
      <3>3. QED
        BY <3>1, <3>2, <2>1
    <2>5. synced' \in 0..Len(log')
      BY <2>4, <2>2, <1>2 DEF Crash, TypeOK
    <2>6. QED
      BY <2>4, <2>5, <1>2 DEF Crash, TypeOK
  <1>3. CASE Restart
    <2>0. \A i \in DOMAIN log : log[i] \in Entry
      BY ElementOfSeq, LenProperties DEF TypeOK
    <2>1. {0} \cup {log[i].until : i \in DOMAIN log} \subseteq Nat
      BY <2>0 DEF Entry
    <2>2. seen' \in [Key -> Nat]
      BY <2>1, <1>3 DEF Restart
    <2>3. QED
      BY <2>2, <1>3 DEF Restart, TypeOK
  <1>4. ASSUME NEW p \in Caller, CallerStep(p) PROVE TypeOK'
    <2> DEFINE LogSeq == Seq(Entry)
    <2>0. \A t \in Nat : Purged(t) \in [Key -> Nat]
      BY DEF Purged, TypeOK
    <2>c. clock[p] \in Nat
      BY DEF TypeOK
    <2>l. Leave(p) => /\ call' \in [Caller -> Claim \cup {None}]
                      /\ clock' \in [Caller -> Nat]
      BY DEF Leave, TypeOK
    <2>1. ASSUME NEW c \in Claim, Enter(p, c) PROVE TypeOK'
      BY <2>1 DEF Enter, TypeOK
    <2>2. CASE Reject(p)
      <3>1. seen' \in [Key -> Nat]
        BY <2>2, <2>0, <2>c DEF Reject
      <3>2. QED
        BY <3>1, <2>2, <2>l DEF Reject, TypeOK
    <2>3. CASE Write(p)
      <3>1. seen' \in [Key -> Nat]
        BY <2>3, <2>0, <2>c DEF Write
      <3>2. call[p] \in Claim
        BY <2>3 DEF Write, TypeOK
      <3>3. Line(call[p], "line") \in Entry
        BY <3>2, LineType DEF Shapes
      <3>4. log' \in LogSeq /\ Len(log') = Len(log) + 1
        BY <3>3, <2>3 DEF Write, TypeOK
      <3>5. QED
        BY <3>1, <3>4, <2>3 DEF Write, TypeOK
    <2>4. CASE WriteFails(p)
      <3>1. seen' \in [Key -> Nat]
        BY <2>4, <2>0, <2>c DEF WriteFails
      <3>2. call[p] \in Claim
        BY <2>4 DEF WriteFails, TypeOK
      <3>3. \A s \in {"bare", "torn"} :
                Line(call[p], s) \in Entry
        BY <3>2, LineType DEF Shapes
      <3>4. log' \in LogSeq /\ Len(log') >= Len(log)
        <4>1. CASE log' = log
          BY <4>1 DEF TypeOK
        <4>2. ASSUME NEW s \in {"bare", "torn"},
                     log' = Append(log, Line(call[p], s))
              PROVE  log' \in LogSeq /\ Len(log') >= Len(log)
          BY <4>2, <3>3, AppendProperties DEF TypeOK
        <4>3. QED
          BY <4>1, <4>2, <2>4 DEF WriteFails
      <3>5. synced' \in 0..Len(log')
        BY <3>4, <2>4 DEF WriteFails, TypeOK
      <3>6. QED
        BY <3>1, <3>4, <3>5, <2>4, <2>l DEF WriteFails, TypeOK
    <2>5. CASE Sync(p)
      <3>1. call[p] \in Claim
        BY <2>5 DEF Sync, WriterReady
      <3>2. seen' \in [Key -> Nat]
        BY <3>1, <2>5, UntilType DEF Sync, TypeOK
      <3>3. grants' \in Seq(GrantRecord)
        BY <3>1, <2>5 DEF Sync, TypeOK, GrantRecord
      <3>4. QED
        BY <3>2, <3>3, <2>5, <2>l DEF Sync, TypeOK
    <2>6. CASE SyncFails(p)
      BY <2>6, <2>l DEF SyncFails, TypeOK
    <2>7. QED
      BY <1>4, <2>1, <2>2, <2>3, <2>4, <2>5, <2>6 DEF CallerStep
  <1>5. CASE UNCHANGED vars
    BY <1>5 DEF vars, TypeOK
  <1>6. QED
    BY <1>1, <1>2, <1>3, <1>4, <1>5 DEF Next

-----------------------------------------------------------------------------

\* A claim that is not refused conflicts with no open grant: the open ones are
\* in the map, and the caller read its clock before now.
LEMMA FreshClaim ==
  ASSUME IInv, up, NEW p \in Caller, call[p] \in Claim,
         ~IsReplay(call[p], clock[p]),
         NEW i \in DOMAIN grants,
         Abstract!Conflicts(call[p], grants[i].claim)
  PROVE  Until(grants[i].claim) < now
  <1> DEFINE g == grants[i].claim
  <1>1. g \in Claim
    <2>1. grants \in Seq(GrantRecord)
      BY DEF IInv, TypeOK
    <2>2. grants[i] \in GrantRecord
      BY <2>1, ElementOfSeq, LenProperties
    <2>3. QED
      BY <2>2 DEF GrantRecord
  <1>2. /\ Until(g) \in Nat /\ g.jti \in Key 
        /\ now \in Nat /\ clock[p] \in Nat /\ clock[p] <= now
    BY <1>1, UntilType, ReplayCacheAssumption DEF IInv, TypeOK, ClocksBehind
  <1>3. g.jti \in {call[p].jti} \cup call[p].aliases
    BY DEF Abstract!Conflicts
  <1>4. ~(Purged(clock[p])[g.jti] >= clock[p])
    BY <1>3 DEF IsReplay
  <1>5. CASE Until(g) >= now
    <2>1. seen[g.jti] = Until(g)
      BY <1>5 DEF IInv, OpenGrantsKept, Kept
    <2>2. Purged(clock[p])[g.jti] = Until(g)
      BY <2>1, <1>2, <1>5 DEF Purged
    <2>3. QED
      BY <2>2, <1>4, <1>2, <1>5
  <1>6. QED
    BY <1>5, <1>2

\* A caller can be in Consume only while the process runs.
LEMMA NextCallersUp ==
  ASSUME TypeOK, WriterReady, CallersUp, [Next]_vars PROVE CallersUp'
  <1> USE DEF CallersUp, TypeOK
  <1>1. CASE Tick \/ Crash \/ Restart \/ UNCHANGED vars
    BY <1>1, ReplayCacheAssumption DEF Tick, Crash, Restart, vars
  <1>2. ASSUME NEW p \in Caller, CallerStep(p) PROVE CallersUp'
    BY <1>2 DEF CallerStep, Enter, Reject, Write, WriteFails, Sync, SyncFails,
                Leave, WriterReady
  <1>3. QED
    BY <1>1, <1>2 DEF Next

\* Clocks are read, and time passes; nobody gets ahead of it.
LEMMA NextClocksBehind ==
  ASSUME TypeOK, ClocksBehind, [Next]_vars PROVE ClocksBehind'
  <1> USE ReplayCacheAssumption DEF ClocksBehind, TypeOK
  <1>1. CASE Tick \/ Crash \/ Restart \/ UNCHANGED vars
    BY <1>1 DEF Tick, Crash, Restart, vars
  <1>2. ASSUME NEW p \in Caller, CallerStep(p) PROVE ClocksBehind'
    <2>1. ASSUME NEW c \in Claim, Enter(p, c) PROVE ClocksBehind'
      BY <2>1 DEF Enter
    <2>2. CASE Reject(p) \/ WriteFails(p) \/ Sync(p) \/ SyncFails(p)
      <3>1. now' = now /\ Leave(p)
        BY <2>2 DEF Reject, WriteFails, Sync, SyncFails
      <3>2. QED
        BY <3>1 DEF Leave
    <2>3. CASE Write(p)
      BY <2>3 DEF Write
    <2>4. QED
      BY <1>2, <2>1, <2>2, <2>3 DEF CallerStep
  <1>3. QED
    BY <1>1, <1>2 DEF Next

\* A crash keeps every synced write as it is, adds none, and changes the key
\* of none.
LEMMA CrashKeeps ==
  ASSUME TypeOK, Crash
  PROVE  /\ Len(log') >= synced
         /\ Len(log') <= Len(log)
         /\ Len(log') \in Nat
         /\ \A i \in 1..synced : log'[i] = log[i]
         /\ \A i \in 1..Len(log') : log'[i].jti = log[i].jti
  <1>1. PICK n \in synced..Len(log) :
            \/ log' = SubSeq(log, 1, n)
            \/ /\ n < Len(log)
               /\ \E s \in CutShort(log[n + 1].shape) :
                     log' = Append(SubSeq(log, 1, n),
                                   [log[n + 1] EXCEPT !.shape = s])
    BY DEF Crash
  <1>2. n \in Nat /\ n <= Len(log) /\ synced <= n /\ synced \in Nat
    BY DEF TypeOK
  <1>3. \A i \in 1..n : log[i] \in Entry
    BY <1>2, ElementOfSeq DEF TypeOK
  <1>4. /\ SubSeq(log, 1, n) \in Seq(Entry)
        /\ Len(SubSeq(log, 1, n)) = n
        /\ \A i \in 1..n : SubSeq(log, 1, n)[i] = log[i]
    BY <1>2, <1>3, SubSeqProperties
  <1>5. CASE log' = SubSeq(log, 1, n)
    BY <1>2, <1>4, <1>5
  <1>6. ASSUME n < Len(log), NEW s \in CutShort(log[n + 1].shape),
               log' = Append(SubSeq(log, 1, n),
                             [log[n + 1] EXCEPT !.shape = s])
        PROVE  /\ Len(log') = n + 1
               /\ \A i \in 1..n : log'[i] = log[i]
               /\ log'[n + 1].jti = log[n + 1].jti
    <2>1. log[n + 1] \in Entry
      BY <1>6, <1>2, ElementOfSeq DEF TypeOK
    <2>2. [log[n + 1] EXCEPT !.shape = s].jti = log[n + 1].jti
      BY <2>1 DEF Entry
    <2>3. \A e : /\ Len(Append(SubSeq(log, 1, n), e)) = n + 1
                 /\ Append(SubSeq(log, 1, n), e)[n + 1] = e
                 /\ \A i \in 1..n : Append(SubSeq(log, 1, n), e)[i] = log[i]
      BY <1>4, <1>2
    <2>4. QED
      BY <2>2, <2>3, <1>6
  <1>7. CASE \/ log' = SubSeq(log, 1, n)
             \/ /\ Len(log') = n + 1 /\ n < Len(log)
                /\ \A i \in 1..n : log'[i] = log[i]
                /\ log'[n + 1].jti = log[n + 1].jti
    <2>1. \A i \in 1..(n + 1) : i \in 1..n \/ i = n + 1
      BY <1>2
    <2>2. \A i \in 1..synced : i \in 1..n
      BY <1>2
    <2>3. CASE log' # SubSeq(log, 1, n)
      BY <1>2, <1>7, <2>1, <2>2, <2>3
    <2>4. QED
      BY <1>5, <2>3
  <1>8. QED
    BY <1>1, <1>6, <1>7

\* Time moves by one second or not at all.
LEMMA NextNow == 
  ASSUME TypeOK, [Next]_vars
  PROVE  now \in Nat /\ now' \in Nat /\ (now' = now \/ now' = now + 1)
  <1>1. now' = now \/ now' = now + 1
    <2>1. CASE Tick \/ Crash \/ Restart \/ UNCHANGED vars
      BY <2>1 DEF Tick, Crash, Restart, vars
    <2>2. ASSUME NEW p \in Caller, CallerStep(p) PROVE now' = now
      BY <2>2 DEF CallerStep, Enter, Reject, Write, WriteFails, Sync, SyncFails
    <2>3. QED
      BY <2>1, <2>2 DEF Next
  <1>2. now \in Nat
    BY ReplayCacheAssumption DEF TypeOK
  <1>3. QED
    BY <1>1, <1>2

\* A grant at an index that a step did not add is the grant it was.
LEMMA OldGrants ==
  ASSUME TypeOK, NEW g \in GrantRecord, grants' = Append(grants, g)
  PROVE  /\ grants' \in Seq(GrantRecord)
         /\ Len(grants') = Len(grants) + 1
         /\ DOMAIN grants' = 1..(Len(grants) + 1)
         /\ DOMAIN grants = 1..Len(grants)
         /\ Len(grants) \in Nat
         /\ grants'[Len(grants) + 1] = g
         /\ \A i \in DOMAIN grants : grants'[i] = grants[i]
  BY AppendProperties, LenProperties DEF TypeOK

\* What a Write appends to the log.
LEMMA Appended ==
  ASSUME TypeOK, NEW e \in Entry, log' = Append(log, e)
  PROVE  /\ Len(log') = Len(log) + 1
         /\ Len(log) \in Nat
         /\ DOMAIN log = 1..Len(log)
         /\ DOMAIN log' = 1..(Len(log) + 1)
         /\ log'[Len(log) + 1] = e
         /\ \A i \in DOMAIN log : log'[i] = log[i]
  BY AppendProperties, LenProperties DEF TypeOK

\* The writer's record ends the file, and its claim is still fresh.
LEMMA NextWriterReady ==
  ASSUME IInv, [Next]_vars PROVE WriterReady'
  <1>t. TypeOK /\ WriterReady /\ now \in Nat /\ now' \in Nat /\ now <= now'
    BY NextNow DEF IInv
  <1>g. \A i \in DOMAIN grants : grants[i].claim \in Claim
    <2>1. \A i \in DOMAIN grants : grants[i] \in GrantRecord
      BY <1>t, ElementOfSeq, LenProperties DEF TypeOK
    <2>2. QED
      BY <2>1 DEF GrantRecord
  <1>u. \A i \in DOMAIN grants : Until(grants[i].claim) \in Nat
    BY <1>g, UntilType
  <1>1. CASE Tick
    BY <1>1, <1>t, <1>u DEF Tick, WriterReady, Line, Until
  <1>2. CASE Crash \/ Restart \/ UNCHANGED vars
    BY <1>2, <1>t DEF Crash, Restart, vars, WriterReady
  <1>3. ASSUME NEW p \in Caller, CallerStep(p) PROVE WriterReady'
    <2>1. ASSUME NEW c \in Claim, Enter(p, c) PROVE WriterReady'
      <3>1. mutex # None => call[mutex] # None
        BY <1>t, ReplayCacheAssumption DEF WriterReady
      <3>2. mutex # None => call'[mutex] = call[mutex]
        BY <3>1, <2>1, <1>t DEF Enter, TypeOK
      <3>3. QED
        BY <3>2, <2>1, <1>t DEF Enter, WriterReady
    <2>2. CASE Reject(p) \/ WriteFails(p) \/ Sync(p) \/ SyncFails(p)
      BY <2>2, <1>t DEF Reject, WriteFails, Sync, SyncFails, WriterReady
    <2>3. CASE Write(p)
      <3>1. call[p] \in Claim /\ up
        BY <2>3 DEF Write, IInv, TypeOK, CallersUp
      <3>2. Line(call[p], "line") \in Entry
        BY <3>1, LineType DEF Shapes
      <3>3. /\ Len(log') = Len(log) + 1
            /\ Len(log) \in Nat
            /\ log'[Len(log) + 1] = Line(call[p], "line")
        BY <3>2, <2>3, <1>t, Appended DEF Write
      <3>4. \A i \in DOMAIN grants :
               Abstract!Conflicts(call[p], grants[i].claim)
               => Until(grants[i].claim) < now
        BY <3>1, <2>3, FreshClaim DEF Write
      <3>5. log' # <<>>
        BY <3>3
      <3>6. QED
        BY <3>1, <3>3, <3>4, <3>5, <2>3 DEF Write, WriterReady
    <2>4. QED
      BY <1>3, <2>1, <2>2, <2>3 DEF CallerStep
  <1>4. QED
    BY <1>1, <1>2, <1>3 DEF Next

\* A granted claim whose window is still open after a step stays in the map
\* and in the file.
LEMMA KeptStays ==
  ASSUME IInv, [Next]_vars, NEW i \in DOMAIN grants,
         Until(grants[i].claim) >= now', Kept(grants[i].claim)
  PROVE  Kept(grants[i].claim)'
  <1> DEFINE c == grants[i].claim
  <1>t. TypeOK /\ TypeOK' /\ WriterReady /\ CallersUp /\ ClocksBehind
    BY NextTypeOK DEF IInv
  <1>c. c \in Claim /\ Until(c) \in Nat /\ c.jti \in Key
    <2>1. grants[i] \in GrantRecord
      BY <1>t, ElementOfSeq, LenProperties DEF TypeOK
    <2>2. QED
      BY <2>1, UntilType DEF GrantRecord
  <1>w. now \in Nat /\ now' \in Nat /\ now <= now' /\ Until(c) >= now
    BY <1>t, <1>c, NextNow
  <1>n. PICK n \in 1..synced :
            /\ log[n] = Line(c, "line")
            /\ \A m \in DOMAIN log : m > n => log[m].jti # c.jti
    BY DEF Kept
  <1>d. DOMAIN log = 1..Len(log) /\ Len(log) \in Nat /\ synced \in 0..Len(log)
        /\ n \in 1..Len(log)
    BY <1>t, LenProperties DEF TypeOK
  <1>p. \A t \in Nat : t <= now => (up => Purged(t)[c.jti] = Until(c))
    BY <1>c, <1>w DEF Purged, Kept
  <1>1. CASE Tick \/ UNCHANGED vars
    BY <1>1 DEF Tick, vars, Kept, Line, Until
  <1>2. CASE Crash
    <2>1. /\ Len(log') >= synced /\ Len(log') \in Nat /\ Len(log') <= Len(log)
          /\ log'[n] = log[n]
          /\ \A m \in 1..Len(log') : log'[m].jti = log[m].jti
      BY <1>2, <1>t, CrashKeeps
    <2>2. \A m \in DOMAIN log' : m > n => log'[m].jti # c.jti
      <3>1. DOMAIN log' = 1..Len(log')
        BY <1>t, LenProperties DEF TypeOK
      <3>2. \A m \in 1..Len(log') : m \in DOMAIN log
        BY <2>1, <1>d
      <3>3. QED
        BY <2>1, <3>1, <3>2, <1>n
    <2>3. QED
      BY <2>1, <2>2, <1>2, <1>n DEF Crash, Kept, Line, Until
  <1>3. CASE Restart
    <2>1. n \in Live(c.jti)
      BY <1>n, <1>d, <1>w DEF Live, Line
    <2>2. \A m \in Live(c.jti) : m <= n
      BY <1>n, <1>d DEF Live
    <2>3. \A u : Recovers(c.jti, u) => u = Until(c)
      <3>1. SUFFICES ASSUME NEW u, NEW m \in Live(c.jti), u = log[m].until,
                            \A j \in Live(c.jti) : j <= m
                     PROVE  u = Until(c)
        BY <2>1 DEF Recovers
      <3>2. m = n
        BY <3>1, <2>1, <2>2, <1>d DEF Live
      <3>3. QED
        BY <3>1, <3>2, <1>n DEF Line
    <2>4. seen'[c.jti] = Until(c)
      BY <2>3, <1>3, <1>c DEF Restart
    <2>5. QED
      BY <2>4, <1>3, <1>n DEF Restart, Kept, Line, Until
  <1>4. ASSUME NEW p \in Caller, CallerStep(p) PROVE Kept(c)'
    <2>k. clock[p] \in Nat /\ clock[p] <= now
      BY <1>t DEF TypeOK, ClocksBehind
    <2>1. CASE (\E d \in Claim : Enter(p, d)) \/ SyncFails(p)
      BY <2>1 DEF Enter, SyncFails, Kept, Line, Until
    <2>2. CASE Reject(p)
      BY <2>2, <1>p, <2>k DEF Reject, Kept, Line, Until
    <2>3. CASE Write(p) \/ WriteFails(p)
      <3>1. call[p] \in Claim /\ up /\ ~IsReplay(call[p], clock[p])
            /\ up' = up /\ seen' = Purged(clock[p]) /\ synced' = synced
            /\ grants' = grants
        BY <2>3, <1>t DEF Write, WriteFails, TypeOK, CallersUp
      <3>2. call[p].jti # c.jti
        <4>1. \/ ~Abstract!Conflicts(call[p], c)
              \/ Until(c) < now
          BY <3>1, FreshClaim
        <4>2. QED
          BY <4>1, <1>w, <1>c DEF Abstract!Conflicts
      <3>3. log' = log \/ \E s \in Shapes : log' = Append(log, Line(call[p], s))
        BY <2>3 DEF Write, WriteFails, Shapes
      <3>4. CASE log' = log
        BY <3>1, <3>4, <1>n, <1>p, <2>k DEF Kept, Line, Until
      <3>5. ASSUME NEW s \in Shapes, log' = Append(log, Line(call[p], s))
            PROVE  Kept(c)'
        <4>1. Line(call[p], s) \in Entry /\ Line(call[p], s).jti = call[p].jti
          BY <3>1, LineType DEF Line
        <4>2. /\ DOMAIN log' = 1..(Len(log) + 1)
              /\ log'[Len(log) + 1] = Line(call[p], s)
              /\ \A m \in DOMAIN log : log'[m] = log[m]
          BY <4>1, <3>5, <1>t, Appended
        <4>3. \A m \in DOMAIN log' : m \in DOMAIN log \/ m = Len(log) + 1
          BY <4>2, <1>d
        <4>4. \A m \in DOMAIN log' : m > n => log'[m].jti # c.jti
          BY <4>1, <4>2, <4>3, <3>2, <1>n
        <4>5. log'[n] = Line(c, "line")
          BY <4>2, <1>n, <1>d
        <4>6. QED
          BY <4>4, <4>5, <3>1, <1>p, <2>k DEF Kept, Line, Until
      <3>6. QED
        BY <3>3, <3>4, <3>5
    <2>4. CASE Sync(p)
      <3>1. call[p] \in Claim /\ mutex = p /\ mutex # None
        BY <2>4, <1>t, ReplayCacheAssumption DEF Sync, WriterReady
      <3>2. call[p].jti # c.jti
        <4>1. Abstract!Conflicts(call[p], c) => Until(c) < now
          BY <3>1, <1>t DEF WriterReady
        <4>2. QED
          BY <4>1, <1>w, <1>c DEF Abstract!Conflicts
      <3>3. seen'[c.jti] = seen[c.jti]
        BY <3>2, <2>4, <1>t, <1>c DEF Sync, TypeOK
      <3>4. n \in 1..synced'
        BY <2>4, <1>d DEF Sync
      <3>5. QED
        BY <3>3, <3>4, <2>4, <1>n, SMTT(30) DEF Sync, Kept, Line, Until
    <2>5. QED
      BY <1>4, <2>1, <2>2, <2>3, <2>4 DEF CallerStep
  <1>5. QED
    BY <1>1, <1>2, <1>3, <1>4 DEF Next

\* Grants whose window is open are in the map and in the file, the one that a
\* step adds included.
LEMMA NextOpenGrantsKept ==
  ASSUME IInv, [Next]_vars PROVE OpenGrantsKept'
  <1>t. TypeOK /\ TypeOK' /\ WriterReady /\ OpenGrantsKept
    BY NextTypeOK DEF IInv
  <1>g. \A i \in DOMAIN grants : Until(grants[i].claim) \in Nat
    <2>1. \A i \in DOMAIN grants : grants[i] \in GrantRecord
      BY <1>t, ElementOfSeq, LenProperties DEF TypeOK
    <2>2. QED
      BY <2>1, UntilType DEF GrantRecord
  <1>1. ASSUME grants' = grants PROVE OpenGrantsKept'
    <2> SUFFICES ASSUME NEW i \in DOMAIN grants, 
                        Until(grants[i].claim) >= now'
                 PROVE  Kept(grants[i].claim)'
      BY <1>1 DEF OpenGrantsKept, Until
    <2>1. Until(grants[i].claim) >= now
      BY <1>g, <1>t, NextNow
    <2>2. Kept(grants[i].claim)
      BY <2>1, <1>t DEF OpenGrantsKept
    <2>3. QED
      BY <2>2, KeptStays
  <1>2. ASSUME NEW p \in Caller, Sync(p) PROVE OpenGrantsKept'
    <2> DEFINE g == [claim |-> call[p], at |-> now]
    <2>1. call[p] \in Claim /\ mutex = p /\ mutex # None /\ up
      BY <1>2, <1>t, ReplayCacheAssumption DEF Sync, WriterReady
    <2>2. g \in GrantRecord
      BY <2>1, <1>t, ReplayCacheAssumption DEF GrantRecord, TypeOK
    <2>3. grants' = Append(grants, g)
      BY <1>2 DEF Sync
    <2>4. /\ DOMAIN grants' = 1..(Len(grants) + 1)
          /\ DOMAIN grants = 1..Len(grants) /\ Len(grants) \in Nat
          /\ grants'[Len(grants) + 1] = g
          /\ \A i \in DOMAIN grants : grants'[i] = grants[i]
      BY <2>2, <2>3, <1>t, OldGrants
    <2> SUFFICES ASSUME NEW i \in DOMAIN grants', 
                        Until(grants'[i].claim) >= now'
                 PROVE  Kept(grants[i].claim)'
      BY DEF OpenGrantsKept, Until
    <2>5. CASE i \in DOMAIN grants
      <3>1. grants'[i] = grants[i] /\ now' = now
        BY <2>4, <2>5, <1>2 DEF Sync
      <3>2. Until(grants[i].claim) >= now' /\ Until(grants[i].claim) >= now
        BY <3>1
      <3>3. Kept(grants[i].claim)
        BY <3>2, <2>5, <1>t DEF OpenGrantsKept
      <3>4. QED
        BY <3>2, <3>3, <2>5, KeptStays
    <2>6. CASE i = Len(grants) + 1
      <3>1. grants'[i].claim = call[p]
        BY <2>4, <2>6
      <3>2. seen'[call[p].jti] = Until(call[p])
        BY <2>1, <1>2, <1>t, UntilType DEF Sync, TypeOK
      <3>3. /\ log' = log /\ synced' = Len(log) /\ log # <<>>
            /\ log[Len(log)] = Line(call[p], "line")
        BY <1>2, <1>t, <2>1 DEF Sync, WriterReady
      <3>4. Len(log) \in 1..synced' /\ DOMAIN log = 1..Len(log)
        BY <3>3, <1>t, LenProperties, EmptySeq DEF TypeOK
      <3>5. \A m \in DOMAIN log : ~(m > Len(log))
        BY <3>4
      <3>6. QED
        BY <3>1, <3>2, <3>3, <3>4, <3>5 DEF Kept, Line, Until
    <2>7. QED
      BY <2>4, <2>5, <2>6
  <1>3. QED
    <2>1. grants' = grants \/ \E p \in Caller : Sync(p)
      BY DEF Next, Tick, Crash, Restart, CallerStep, Enter, Reject, Write,
             WriteFails, SyncFails, vars
    <2>2. QED
      BY <2>1, <1>1, <1>2

\* A grant is given while no conflicting window is open.
LEMMA NextNoReplayInWindow ==
  ASSUME IInv, [Next]_vars PROVE NoReplayInWindow'
  <1>t. TypeOK /\ WriterReady /\ NoReplayInWindow
    BY DEF IInv
  <1>1. CASE grants' = grants
    BY <1>1, <1>t DEF NoReplayInWindow, Abstract!Conflicts, Until
  <1>2. ASSUME NEW p \in Caller, Sync(p) PROVE NoReplayInWindow'
    <2> DEFINE g == [claim |-> call[p], at |-> now]
    <2>1. call[p] \in Claim /\ mutex = p /\ mutex # None
      BY <1>2, <1>t, ReplayCacheAssumption DEF Sync, WriterReady
    <2>2. g \in GrantRecord
      BY <2>1, <1>t, ReplayCacheAssumption DEF GrantRecord, TypeOK
    <2>3. grants' = Append(grants, g)
      BY <1>2 DEF Sync
    <2>4. /\ DOMAIN grants' = 1..(Len(grants) + 1)
          /\ DOMAIN grants = 1..Len(grants) /\ Len(grants) \in Nat
          /\ grants'[Len(grants) + 1] = g
          /\ \A i \in DOMAIN grants : grants'[i] = grants[i]
      BY <2>2, <2>3, <1>t, OldGrants
    <2> SUFFICES ASSUME NEW i \in DOMAIN grants', NEW j \in DOMAIN grants',
                        i < j,
                        Abstract!Conflicts(grants'[j].claim, grants'[i].claim)
                 PROVE  Until(grants'[i].claim) < grants'[j].at
      BY DEF NoReplayInWindow, Abstract!Conflicts, Until
    <2>5. i \in DOMAIN grants
      BY <2>4
    <2>6. CASE j \in DOMAIN grants
      BY <2>4, <2>5, <2>6, <1>t DEF NoReplayInWindow
    <2>7. CASE j = Len(grants) + 1
      BY <2>1, <2>4, <2>5, <2>7, <1>t DEF WriterReady
    <2>8. QED
      BY <2>4, <2>6, <2>7
  <1>3. QED
    <2>1. grants' = grants \/ \E p \in Caller : Sync(p)
      BY DEF Next, Tick, Crash, Restart, CallerStep, Enter, Reject, Write,
             WriteFails, SyncFails, vars
    <2>2. QED
      BY <2>1, <1>1, <1>2

-----------------------------------------------------------------------------

\* The empty cache satisfies the inductive invariant.
LEMMA InitIInv == Init => IInv
  BY InitTypeOK, ReplayCacheAssumption
  DEF Init, IInv, ClocksBehind, CallersUp, WriterReady, OpenGrantsKept,
      NoReplayInWindow

\* IInv is an invariant: every part of it is kept by every step.
THEOREM Inductive == Spec => []IInv
  <1>1. IInv /\ [Next]_vars => IInv'
    <2> SUFFICES ASSUME IInv, [Next]_vars PROVE IInv'
      OBVIOUS
    <2>1. TypeOK' /\ ClocksBehind' /\ CallersUp'
      BY NextTypeOK, NextClocksBehind, NextCallersUp DEF IInv
    <2>2. WriterReady' /\ OpenGrantsKept' /\ NoReplayInWindow'
      BY NextWriterReady, NextOpenGrantsKept, NextNoReplayInWindow
    <2>3. QED
      BY <2>1, <2>2 DEF IInv
  <1>2. QED
    BY InitIInv, <1>1, PTL DEF Spec

\* The fields of the cache and the file hold what their types say.
THEOREM TypeCorrect == Spec => []TypeOK
  <1>1. IInv => TypeOK
    BY DEF IInv
  <1>2. QED
    BY <1>1, Inductive, PTL

\* No key is granted again while a window it was granted in is open, across
\* races of callers, failed writes and syncs, crashes and recoveries.
THEOREM NoReplay == Spec => []NoReplayInWindow
  <1>1. IInv => NoReplayInWindow
    BY DEF IInv
  <1>2. QED
    BY <1>1, Inductive, PTL

\* An open grant is in memory, and recovery of the file would bring it back.
THEOREM GrantsSurvive == Spec => []OpenGrantsSurvive
  <1>1. IInv => OpenGrantsSurvive
    <2> SUFFICES ASSUME IInv, NEW i \in DOMAIN grants,
                        Until(grants[i].claim) >= now
                 PROVE  /\ up => seen[grants[i].claim.jti] 
                                   = Until(grants[i].claim)
                        /\ Recovers(grants[i].claim.jti, 
                                    Until(grants[i].claim))
      BY DEF OpenGrantsSurvive
    <2>1. Kept(grants[i].claim) /\ TypeOK
      BY DEF IInv, OpenGrantsKept
    <2>2. PICK n \in 1..synced :
              /\ log[n] = Line(grants[i].claim, "line")
              /\ \A m \in DOMAIN log : 
                    m > n => log[m].jti # grants[i].claim.jti
      BY <2>1 DEF Kept
    <2>3. n \in DOMAIN log /\ DOMAIN log \subseteq Nat /\ n \in Nat
      BY <2>1, LenProperties DEF TypeOK
    <2>4. n \in Live(grants[i].claim.jti)
      BY <2>2, <2>3 DEF Live, Line
    <2>5. \A m \in Live(grants[i].claim.jti) : m <= n
      BY <2>2, <2>3 DEF Live
    <2>6. Recovers(grants[i].claim.jti, Until(grants[i].claim))
      BY <2>2, <2>4, <2>5 DEF Recovers, Line
    <2>7. QED
      BY <2>1, <2>6 DEF Kept
  <1>2. QED
    BY <1>1, Inductive, PTL

\* The cache implements single use within the window: a step is a tick, a
\* grant that the abstract cache may give, or invisible.
THEOREM ImplementsSingleUse == Spec => SingleUseInWindow
  <1>1. Init => Abstract!Init
    BY DEF Init, Abstract!Init
  <1>2. ASSUME IInv, [Next]_vars
        PROVE  Abstract!Next \/ UNCHANGED Abstract!vars
    <2>1. CASE Tick
      BY <2>1 DEF Tick, Abstract!Next, Abstract!Tick
    <2>2. ASSUME NEW p \in Caller, Sync(p) PROVE Abstract!Next
      <3>1. call[p] \in Claim /\ mutex = p /\ mutex # None
        BY <1>2, <2>2, ReplayCacheAssumption 
        DEF Sync, WriterReady, IInv, TypeOK
      <3>2. Abstract!Grant(call[p])
        BY <1>2, <3>1, <2>2 
        DEF Sync, Abstract!Grant, Abstract!Until, Abstract!ReplayUntil,
            Until, ReplayUntil, WriterReady, IInv
      <3>3. QED
        BY <3>1, <3>2 DEF Abstract!Next
    <2>3. CASE UNCHANGED <<now, grants>>
      BY <2>3 DEF Abstract!vars
    <2>4. QED
      BY <1>2, <2>1, <2>2, <2>3
      DEF Next, Crash, Restart, CallerStep, Enter, Reject, Write, WriteFails,
          SyncFails, vars
  <1>3. QED
    BY <1>1, <1>2, Inductive, PTL DEF Spec, SingleUseInWindow, Abstract!Spec

\* Whatever the map holds is in the file, so a key is never refused for a
\* Consume that left no record behind.
THEOREM RefusalsAreRecorded == Spec => []MapMatchesFile
  <1>1. Init => MapMatchesFile
    BY DEF Init, MapMatchesFile
  <1>2. ASSUME IInv, MapMatchesFile, [Next]_vars PROVE MapMatchesFile'
    <2>t. TypeOK /\ TypeOK' /\ WriterReady /\ CallersUp
      BY <1>2, NextTypeOK DEF IInv
    <2>1. CASE Tick \/ UNCHANGED vars
      BY <1>2, <2>1, ZenonT(30) DEF Tick, vars, MapMatchesFile
    <2>2. CASE Crash
      BY <2>2 DEF Crash, MapMatchesFile
    <2>3. CASE Restart
      <3>1. SUFFICES ASSUME NEW k \in Key, seen'[k] # 0
                     PROVE  \E i \in DOMAIN log : 
                               /\ log[i].jti = k
                               /\ log[i].until = seen'[k]
                               /\ log[i].shape # "torn"
        BY <2>3 DEF Restart, MapMatchesFile
      <3>2. PICK i \in Live(k) : seen'[k] = log[i].until
        BY <2>3, <3>1 DEF Restart, Recovers
      <3>3. log[i].shape # "torn"
        BY <2>3, <3>2 DEF Restart, Readable, Live
      <3>4. QED
        BY <3>2, <3>3 DEF Live
    <2>4. ASSUME NEW p \in Caller, CallerStep(p) PROVE MapMatchesFile'
      <3>1. CASE (\E c \in Claim : Enter(p, c)) \/ SyncFails(p)
        BY <1>2, <3>1, ZenonT(30) DEF Enter, SyncFails, MapMatchesFile
      <3>2. CASE Reject(p) \/ Write(p) \/ WriteFails(p)
        <4>1. /\ \A k \in Key : seen'[k] # 0 => seen'[k] = seen[k]
              /\ up' = up /\ up
          BY <3>2, <2>t
          DEF Reject, Write, WriteFails, Purged, TypeOK, CallersUp
        <4>2. \A i \in DOMAIN log : i \in DOMAIN log' /\ log'[i] = log[i]
          <5>1. \/ log' = log
                \/ \E s \in Shapes : log' = Append(log, Line(call[p], s))
            BY <3>2 DEF Reject, Write, WriteFails, Shapes
          <5>2. ASSUME NEW s \in Shapes, log' = Append(log, Line(call[p], s))
                PROVE  \A i \in DOMAIN log : 
                          i \in DOMAIN log' /\ log'[i] = log[i]
            <6>1. call[p] \in Claim
              BY <3>2, <2>t DEF Reject, Write, WriteFails, TypeOK
            <6>2. Line(call[p], s) \in Entry
              BY <6>1, LineType
            <6>3. QED
              BY <5>2, <6>2, <2>t, Appended
          <5>3. QED
            BY <5>1, <5>2
        <4>3. QED
          BY <1>2, <4>1, <4>2 DEF MapMatchesFile
      <3>3. CASE Sync(p)
        <4>1. /\ mutex = p /\ mutex # None /\ call[p] \in Claim /\ log # <<>>
              /\ log[Len(log)] = Line(call[p], "line")
          BY <3>3, <2>t, ReplayCacheAssumption DEF Sync, WriterReady
        <4>2. Len(log) \in DOMAIN log
          BY <4>1, <2>t, EmptySeq, LenProperties DEF TypeOK
        <4>3. SUFFICES ASSUME NEW k \in Key, seen'[k] # 0, up
                       PROVE  \E i \in DOMAIN log : 
                                 /\ log[i].jti = k
                                 /\ log[i].until = seen'[k]
                                 /\ log[i].shape # "torn"
          BY <3>3 DEF Sync, MapMatchesFile
        <4>4. CASE k = call[p].jti
          <5>1. seen'[k] = Until(call[p])
            BY <4>4, <3>3, <2>t DEF Sync, TypeOK
          <5>2. QED
            BY <5>1, <4>1, <4>2, <4>4 DEF Line
        <4>5. CASE k # call[p].jti
          BY <4>5, <4>3, <3>3, <1>2, <2>t DEF Sync, TypeOK, MapMatchesFile
        <4>6. QED
          BY <4>4, <4>5
      <3>4. QED
        BY <2>4, <3>1, <3>2, <3>3 DEF CallerStep
    <2>5. QED
      BY <1>2, <2>1, <2>2, <2>3, <2>4 DEF Next
  <1>3. QED
    BY <1>1, <1>2, Inductive, PTL DEF Spec

=============================================================================
