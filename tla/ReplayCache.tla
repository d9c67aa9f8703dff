----------------------------- MODULE ReplayCache -----------------------------
(***************************************************************************)
(* ReplayCache of internal/sts/replay.go: concurrent Consume calls over an *)
(* in-memory map and an append-only log, with failing writes and syncs,    *)
(* process death, power loss and the strict recovery of OpenReplayCache.   *)
(*                                                                         *)
(* Consume reads the clock before it takes the mutex, so two calls may get *)
(* the mutex in the other order than they read the clock in.  The write    *)
(* and the sync happen under the mutex but the process may die between     *)
(* them.  The clock never goes back.                                       *)
(***************************************************************************)
EXTENDS Claims

CONSTANTS Key,       \* jti strings, those of DPoP proofs included
          Claim,     \* the claims [jti, exp, aliases] that callers present
          Caller,    \* goroutines inside Consume
          None,      \* no caller, no claim
          MaxTime,   \* bound on the clock
          MaxWrites  \* bound on the writes to the log

ASSUME ReplayCacheAssumption ==
    /\ Claim \subseteq [jti : Key, exp : Nat, aliases : SUBSET Key]
    /\ None \notin Caller
    /\ None \notin Claim
    /\ MaxTime \in Nat \ {0}
    /\ MaxWrites \in Nat

VARIABLES now,       \* the wall clock
          up,        \* the process runs with the cache open
          seen,      \* the map: the deadline of a consumed key, 0 if absent
          log,       \* the writes in the file, in order
          synced,    \* how many of them a power loss cannot take back
          mutex,     \* the caller that holds mu, or None
          call,      \* the claim a caller is consuming, or None
          clock,     \* the time a caller read before it asked for mu
          grants     \* history: the Consume calls that returned nil

vars == <<now, up, seen, log, synced, mutex, call, clock, grants>>

Until(c) == ReplayUntil(c.exp)

\* What one write left in the file: a line, a line without its newline, or a
\* proper prefix of a record.
Shapes == {"line", "bare", "torn"}

Entry == [jti : Key, until : Nat, shape : Shapes]

GrantRecord == [claim : Claim, at : Nat]

Line(c, shape) == [jti |-> c.jti, until |-> Until(c), shape |-> shape]

-----------------------------------------------------------------------------

Init ==
    /\ now = 1
    /\ up = TRUE
    /\ seen = [k \in Key |-> 0]
    /\ log = <<>>
    /\ synced = 0
    /\ mutex = None
    /\ call = [p \in Caller |-> None]
    /\ clock = [p \in Caller |-> 0]
    /\ grants = <<>>

\* now := c.now(), before the mutex.
Enter(p, c) ==
    /\ up
    /\ call[p] = None
    /\ call' = [call EXCEPT ![p] = c]
    /\ clock' = [clock EXCEPT ![p] = now]
    /\ UNCHANGED <<now, up, seen, log, synced, mutex, grants>>

\* With a seeded bug: a key is forgotten at its deadline, not after it.
PurgedAtDeadline(t) == [k \in Key |-> IF seen[k] <= t THEN 0 ELSE seen[k]]

\* purgeLocked, by the clock of the caller and not the time it is by now.
Purged(t) == [k \in Key |-> IF seen[k] < t THEN 0 ELSE seen[k]]

\* With a seeded bug: the aliases of a claim are not looked up.
IsReplayIgnoringAliases(c, t) == 
    Purged(t)[c.jti] >= t \/ Until(c) < t

IsReplay(c, t) == 
    \/ \E k \in {c.jti} \cup c.aliases : Purged(t)[k] >= t
    \/ Until(c) < t

Leave(p) ==
    /\ call' = [call EXCEPT ![p] = None]
    /\ clock' = [clock EXCEPT ![p] = 0]

Reject(p) ==
    /\ call[p] # None /\ mutex = None
    /\ IsReplay(call[p], clock[p])
    /\ seen' = Purged(clock[p])
    /\ Leave(p)
    /\ UNCHANGED <<now, up, log, synced, mutex, grants>>

Write(p) ==
    /\ call[p] # None /\ mutex = None
    /\ ~IsReplay(call[p], clock[p])
    /\ Len(log) < MaxWrites
    /\ seen' = Purged(clock[p])
    /\ log' = Append(log, Line(call[p], "line"))
    /\ mutex' = p
    /\ UNCHANGED <<now, up, synced, call, clock, grants>>

\* With a seeded bug: the map is updated before the write succeeds.
WriteFailsBurning(p) ==
    /\ call[p] # None /\ mutex = None
    /\ ~IsReplay(call[p], clock[p])
    /\ Len(log) < MaxWrites
    /\ seen' = [Purged(clock[p]) EXCEPT ![call[p].jti] = Until(call[p])]
    /\ \/ log' = log
       \/ \E s \in {"bare", "torn"} : log' = Append(log, Line(call[p], s))
    /\ Leave(p)
    /\ UNCHANGED <<now, up, synced, mutex, grants>>

\* file.Write returned an error, after none or some of the bytes.
WriteFails(p) ==
    /\ call[p] # None /\ mutex = None
    /\ ~IsReplay(call[p], clock[p])
    /\ Len(log) < MaxWrites
    /\ seen' = Purged(clock[p])
    /\ \/ log' = log
       \/ \E s \in {"bare", "torn"} : log' = Append(log, Line(call[p], s))
    /\ Leave(p)
    /\ UNCHANGED <<now, up, synced, mutex, grants>>

\* With a seeded bug: the call returns before the record is on the disk.
SyncSkipped(p) ==
    /\ mutex = p
    /\ seen' = [seen EXCEPT ![call[p].jti] = Until(call[p])]
    /\ grants' = Append(grants, [claim |-> call[p], at |-> now])
    /\ mutex' = None
    /\ Leave(p)
    /\ UNCHANGED <<now, up, log, synced>>

Sync(p) ==
    /\ mutex = p
    /\ synced' = Len(log)
    /\ seen' = [seen EXCEPT ![call[p].jti] = Until(call[p])]
    /\ grants' = Append(grants, [claim |-> call[p], at |-> now])
    /\ mutex' = None
    /\ Leave(p)
    /\ UNCHANGED <<now, up, log>>

SyncFails(p) ==
    /\ mutex = p
    /\ mutex' = None
    /\ Leave(p)
    /\ UNCHANGED <<now, up, seen, log, synced, grants>>

-----------------------------------------------------------------------------

Tick ==
    /\ now < MaxTime
    /\ now' = now + 1
    /\ UNCHANGED <<up, seen, log, synced, mutex, call, clock, grants>>

\* What may be left of a write that did not reach the disk as a whole.
CutShort(shape) == IF shape = "line" THEN {"bare", "torn"} ELSE {"torn"}

\* The process dies.  If the machine dies with it, the writes after the last
\* sync may be lost from some point on and the first of them cut short.
Crash ==
    /\ up
    /\ up' = FALSE
    /\ \E n \in synced..Len(log) :
          \/ log' = SubSeq(log, 1, n)
          \/ /\ n < Len(log)
             /\ \E s \in CutShort(log[n + 1].shape) :
                   log' = Append(SubSeq(log, 1, n), 
                                 [log[n + 1] EXCEPT !.shape = s])
    /\ seen' = [k \in Key |-> 0]
    /\ mutex' = None
    /\ call' = [p \in Caller |-> None]
    /\ clock' = [p \in Caller |-> 0]
    /\ UNCHANGED <<now, synced, grants>>

\* Every line of the file decodes: a write that is not a whole line makes the
\* line it starts, and whatever is appended to it, undecodable, except a bare
\* record that ends the file.
Readable ==
    \A i \in DOMAIN log : 
        log[i].shape = "line" \/ (log[i].shape = "bare" /\ i = Len(log))

\* The records of k that recovery does not skip.
Live(k) == {i \in DOMAIN log : log[i].jti = k /\ log[i].until >= now}

\* Recovery leaves k in the map with deadline u: the last record wins.
Recovers(k, u) ==
    \/ Live(k) = {} /\ u = 0
    \/ \E i \in Live(k) : u = log[i].until /\ \A j \in Live(k) : j <= i

\* OpenReplayCache: an undecodable line keeps the process down.  Opening
\* syncs nothing.
Restart ==
    /\ ~up
    /\ Readable
    /\ up' = TRUE
    /\ seen' \in [Key -> {0} \cup {log[i].until : i \in DOMAIN log}]
    /\ \A k \in Key : Recovers(k, seen'[k])
    /\ UNCHANGED <<now, log, synced, mutex, call, clock, grants>>

CallerStep(p) ==
    \/ \E c \in Claim : Enter(p, c)
    \/ Reject(p)
    \/ Write(p)
    \/ WriteFails(p)
    \/ Sync(p)
    \/ SyncFails(p)

Next == Tick \/ Crash \/ Restart \/ \E p \in Caller : CallerStep(p)

Spec == Init /\ [][Next]_vars

-----------------------------------------------------------------------------
(* Properties *)

TypeOK ==
    /\ now \in 1..MaxTime
    /\ up \in BOOLEAN
    /\ seen \in [Key -> Nat]
    /\ log \in Seq(Entry)
    /\ synced \in 0..Len(log)
    /\ mutex \in Caller \cup {None}
    /\ call \in [Caller -> Claim \cup {None}]
    /\ clock \in [Caller -> Nat]
    /\ grants \in Seq(GrantRecord)

Abstract == INSTANCE SingleUse

\* While the window of a claim is open, no Consume whatsoever succeeds on a
\* claim that answers to the same key: not of a caller that read its clock
\* long ago, not after a failed write or sync, not in a process that recovered
\* the key from the file (Consume and recover; AI12).
NoReplayInWindow ==
    \A i, j \in DOMAIN grants :
        /\ i < j
        /\ Abstract!Conflicts(grants[j].claim, grants[i].claim)
        => Until(grants[i].claim) < grants[j].at

\* A granted key is never merely in memory: until its window closes, the map
\* of a running process has it, and recovery of the file would find it, with
\* the deadline it was granted with (Consume syncs before it records; recover
\* keeps the last record of a key).
OpenGrantsSurvive ==
    \A i \in DOMAIN grants :
        LET c == grants[i].claim
        IN  Until(c) >= now => /\ up => seen[c.jti] = Until(c)
                               /\ Recovers(c.jti, Until(c))

\* Nothing is refused as a replay on the strength of memory alone: a key in
\* the map has a record with that deadline in the file.  So a Consume whose
\* write failed does not burn the key, and a DPoP proof never burns a subject
\* token that happens to have the raw jti of the proof (Consume, aliases).
MapMatchesFile ==
    up => \A k \in Key : seen[k] # 0 =>
              \E i \in DOMAIN log : /\ log[i].jti = k
                                    /\ log[i].until = seen[k]
                                    /\ log[i].shape # "torn"

\* The cache implements single use within the window.
SingleUseInWindow == Abstract!Spec

-----------------------------------------------------------------------------
(* The inductive invariant *)

\* The record of a call that holds the mutex ends the file, and no key it
\* answers to is spent in a window that is still open.
WriterReady ==
    mutex # None =>
        /\ up
        /\ call[mutex] \in Claim
        /\ log # <<>>
        /\ log[Len(log)] = Line(call[mutex], "line")
        /\ \A i \in DOMAIN grants :
               Abstract!Conflicts(call[mutex], grants[i].claim)
               => Until(grants[i].claim) < now

\* The key of c is in the map if there is one, and its record is among the
\* synced writes with no write for the same key after it.
Kept(c) ==
    /\ up => seen[c.jti] = Until(c)
    /\ \E n \in 1..synced :
          /\ log[n] = Line(c, "line")
          /\ \A m \in DOMAIN log : m > n => log[m].jti # c.jti

OpenGrantsKept ==
    \A i \in DOMAIN grants :
        Until(grants[i].claim) >= now => Kept(grants[i].claim)

\* No caller read its clock in the future.
ClocksBehind == \A p \in Caller : clock[p] <= now

\* Only a running process has callers.
CallersUp == \A p \in Caller : call[p] # None => up

IInv == TypeOK /\ ClocksBehind /\ CallersUp /\ WriterReady
        /\ OpenGrantsKept /\ NoReplayInWindow

-----------------------------------------------------------------------------

\* AI12 as the README states it: a claim is exchanged once, and that is all.
OncePerClaim ==
    \A i, j \in DOMAIN grants : 
        i # j => grants[i].claim # grants[j].claim

=============================================================================
