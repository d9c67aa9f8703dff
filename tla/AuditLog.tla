------------------------------- MODULE AuditLog -------------------------------
(***************************************************************************)
(* Logger of internal/audit/logger.go: a hash-linked append-only log, with *)
(* failing writes and syncs that poison it, process death, power loss and  *)
(* the strict recovery of NewLogger.                                       *)
(*                                                                         *)
(* Append does all of its work under one mutex, so calls follow each other *)
(* and only the write and the sync of one call are separate steps.  The    *)
(* hash is injective: it is modelled by what it covers, the events of the  *)
(* chain up to and with its own.  Nobody else writes to the file.          *)
(***************************************************************************)
EXTENDS Naturals, Sequences, FiniteSets

CONSTANTS Event,      \* payloads
          None,       \* no append under way
          MaxWrites,  \* bound on the writes to the file
          MaxLives    \* bound on the processes that open it

ASSUME AuditLogAssumption ==
    /\ None \notin Event
    /\ MaxWrites \in Nat
    /\ MaxLives \in Nat \ {0}

VARIABLES up,          \* a process has the log open
          prevHash,    \* its l.prevHash
          chainIndex,  \* its l.chainIndex
          poisoned,    \* its l.poisoned
          writing,     \* the event written and not yet synced, or None
          file,        \* what each write left in the file
          synced,      \* how many writes a power loss cannot take back
          acked,       \* history: the writes whose Append returned nil
          lives        \* history: how many processes opened the log

vars == <<up, prevHash, chainIndex, poisoned, writing, file, synced, acked, lives>>

\* The hash of the empty payload.
GenesisPrevHash == <<>>

\* payloadHash: an event is hashed with the hash before it.
Hash(record) == Append(record.prev, record.event)

\* A line, a record without its newline, or less than a record.
Shapes == {"line", "bare", "torn"}

Record == [event : Event, prev : Seq(Event), index : Nat \ {0}, shape : Shapes]

NextRecord(e, shape) == 
    [event |-> e, prev |-> prevHash, index |-> chainIndex + 1, shape |-> shape]

-----------------------------------------------------------------------------

Init ==
    /\ up = TRUE
    /\ prevHash = GenesisPrevHash
    /\ chainIndex = 0
    /\ poisoned = FALSE
    /\ writing = None
    /\ file = <<>>
    /\ synced = 0
    /\ acked = {}
    /\ lives = 1

\* The logger takes an event: no other is under way and none failed before.
Healthy == up /\ ~poisoned /\ writing = None

Write(e) ==
    /\ Healthy
    /\ Len(file) < MaxWrites
    /\ file' = Append(file, NextRecord(e, "line"))
    /\ writing' = e
    /\ UNCHANGED <<up, prevHash, chainIndex, poisoned, synced, acked, lives>>

\* An error after none or some of the bytes.
WriteFails(e) ==
    /\ Healthy
    /\ Len(file) < MaxWrites
    /\ \/ file' = file
       \/ \E s \in {"bare", "torn"} : file' = Append(file, NextRecord(e, s))
    /\ poisoned' = TRUE
    /\ UNCHANGED <<up, prevHash, chainIndex, writing, synced, acked, lives>>

\* With a seeded bug: the answer does not wait for the disk.
SyncSkipped ==
    /\ writing # None
    /\ prevHash' = Hash(file[Len(file)])
    /\ chainIndex' = chainIndex + 1
    /\ acked' = acked \cup {Len(file)}
    /\ writing' = None
    /\ UNCHANGED <<up, poisoned, file, synced, lives>>

Sync ==
    /\ writing # None
    /\ synced' = Len(file)
    /\ prevHash' = Hash(file[Len(file)])
    /\ chainIndex' = chainIndex + 1
    /\ acked' = acked \cup {Len(file)}
    /\ writing' = None
    /\ UNCHANGED <<up, poisoned, file, lives>>

\* With a seeded bug: a failed sync leaves the logger in use.
SyncFailsHealthy ==
    /\ writing # None
    /\ writing' = None
    /\ UNCHANGED <<up, prevHash, chainIndex, poisoned, file, synced, acked, lives>>

SyncFails ==
    /\ writing # None
    /\ poisoned' = TRUE
    /\ writing' = None
    /\ UNCHANGED <<up, prevHash, chainIndex, file, synced, acked, lives>>

\* A record that is too large is turned away before it changes anything, and
\* a poisoned logger turns every event away: neither is a step.

-----------------------------------------------------------------------------

\* What may be left of a write that did not reach the disk as a whole.
CutShort(shape) == IF shape = "line" THEN {"bare", "torn"} ELSE {"torn"}

\* The process dies, alone or with the machine: then the writes after the last
\* sync may be lost from some point on and the first of them cut short.
Crash ==
    /\ up
    /\ up' = FALSE
    /\ \E n \in synced..Len(file) :
          \/ file' = SubSeq(file, 1, n)
          \/ /\ n < Len(file)
             /\ \E s \in CutShort(file[n + 1].shape) :
                   file' = Append(SubSeq(file, 1, n), 
                                  [file[n + 1] EXCEPT !.shape = s])
    /\ writing' = None
    /\ UNCHANGED <<prevHash, chainIndex, poisoned, synced, acked, lives>>

\* Every line is one record: a write without its newline starts a line that
\* nothing else may be on.
Decodes ==
    \A i \in DOMAIN file : 
        file[i].shape = "line" \/ (file[i].shape = "bare" /\ i = Len(file))

\* The hash that the record after the n-th one links to.
Tip(records, n) == IF n = 0 THEN GenesisPrevHash ELSE Hash(records[n])

\* verifyEvent along the file, from genesis.
Linked(records) ==
    \A i \in DOMAIN records :
        records[i].index = i /\ records[i].prev = Tip(records, i - 1)

\* NewLogger: the file decodes and verifies, and the logger goes on from its
\* last record.
Restart ==
    /\ ~up
    /\ lives < MaxLives
    /\ Decodes /\ Linked(file)
    /\ up' = TRUE
    /\ lives' = lives + 1
    /\ poisoned' = FALSE
    /\ chainIndex' = Len(file)
    /\ prevHash' = Tip(file, Len(file))
    /\ UNCHANGED <<writing, file, synced, acked>>

Next ==
    \/ \E e \in Event : Write(e) \/ WriteFails(e)
    \/ Sync \/ SyncFails
    \/ Crash \/ Restart

Spec == Init /\ [][Next]_vars

-----------------------------------------------------------------------------
(* Properties *)

TypeOK ==
    /\ up \in BOOLEAN
    /\ prevHash \in Seq(Event)
    /\ chainIndex \in Nat
    /\ poisoned \in BOOLEAN
    /\ writing \in Event \cup {None}
    /\ file \in Seq(Record)
    /\ synced \in 0..Len(file)
    /\ acked \subseteq 1..Len(file)
    /\ lives \in 1..MaxLives

\* The logger never writes what its own recovery would reject as a broken
\* chain, whatever failed before: with every failure a record stays behind
\* that the next process continues from and this one must not (poisoned).
OwnChainVerifies == Linked(file)

\* A record that was acknowledged is whole, on the disk, and the only one of
\* its index: neither a crash nor a later append takes it back (Sync before
\* Append returns; AI8).
AckedRecordsSurvive ==
    \A i \in acked : 
        /\ i <= synced
        /\ file[i].shape = "line"
        /\ \A j \in DOMAIN file : file[j].index = file[i].index => j = i

\* The records whose Append never returned nil.
Phantoms == (1..Len(file)) \ acked

\* A record that nobody was told of is the last one of a process that failed
\* or died: there are never more of them than processes, so an auditor can
\* tell a mint that was withheld from one that was released.
PhantomsBounded == Cardinality(Phantoms) <= lives

\* What the records, whole or not, are of.
EventsOf(records) == [i \in DOMAIN records |-> records[i].event]

Durable == INSTANCE Journal WITH events <- EventsOf(file)

\* The logger implements a journal: what was acknowledged stays where it was
\* and says what it said, through failed writes, failed syncs, crashes of the
\* machine and recoveries, and only what was written last is acknowledged, once
\* (Append, NewLogger).
KeepsJournal == Durable!Spec

-----------------------------------------------------------------------------
(* The inductive invariant *)

\* A logger that is not poisoned stands at the end of the file, with at most
\* the record that it is writing behind it.
AtTheEnd ==
    up /\ ~poisoned =>
        /\ prevHash = Tip(file, chainIndex)
        /\ Len(file) = IF writing = None THEN chainIndex ELSE chainIndex + 1

\* The record being written ends the file and is not acknowledged.
InFlight ==
    writing # None =>
        /\ up /\ ~poisoned
        /\ file[Len(file)] = NextRecord(writing, "line")
        /\ Len(file) \notin acked

\* A process leaves a phantom behind only by failing or dying.
OneEach == Healthy => Cardinality(Phantoms) <= lives - 1

IInv == /\ TypeOK /\ OwnChainVerifies /\ AckedRecordsSurvive 
        /\ AtTheEnd /\ InFlight /\ OneEach /\ PhantomsBounded

-----------------------------------------------------------------------------

\* AI8 as the invariants state it: what was answered has a record, that is, a
\* line of its own that recovery and trace read.
AckedRecordsReadable ==
    \A i \in acked : i > 1 => file[i - 1].shape = "line"

===============================================================================
