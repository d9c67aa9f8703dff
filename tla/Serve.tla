-------------------------------- MODULE Serve --------------------------------
(***************************************************************************)
(* The life of `agent-identity-plane serve`, cmd serve.go with reload.go:  *)
(* it reads its documents, serves, reloads them on SIGHUP, and on SIGTERM  *)
(* waits five seconds for its requests before it closes its files.  The    *)
(* main goroutine does all of this alone, one thing after another; the     *)
(* requests run beside it, and an operator edits the files meanwhile.      *)
(*                                                                         *)
(* A request is what it does to the two files: it consumes its subject     *)
(* token, appends to the audit log and answers.  The rest of it is in      *)
(* module STS, and a write that fails in ReplayCache and AuditLog.         *)
(* Subject tokens do not expire here.                                      *)
(***************************************************************************)
EXTENDS Naturals, Sequences

CONSTANTS Handler,   \* requests under way
          Token,     \* subject tokens
          Plain,     \* a registry or denylist that loads
          Ring,      \* signing files that load: [kids, active]
          FirstRing, \* the one the operator begins with
          Bad,       \* a document that does not load
          MaxEdits,  \* bound on the operator's edits
          MaxRuns    \* bound on the starts of the process

ASSUME ServeAssumption ==
    /\ \A r \in Ring : r.active \in r.kids
    /\ FirstRing \in Ring
    /\ Plain # Bad
    /\ MaxEdits \in Nat
    /\ MaxRuns \in Nat

VARIABLES files,      \* history: what was on the disk, edit by edit
          pc,         \* where the main goroutine is
          open,       \* signals are caught and connections may bring requests
          todo,       \* documents it has still to read
          read,       \* those it has read
          live,       \* those that requests are decided by
          began,      \* the edits there were when the last reload began
          refused,    \* the latest such number whose reload failed
          signalled,  \* the edits there were at the last SIGHUP
          pending,    \* reloadCh holds a signal
          stopping,   \* the context of NotifyContext is done
          run,        \* starts so far
          step,       \* where a request is
          token,      \* its subject token
          seen,       \* the consumed tokens the process knows of
          durable,    \* those in the replay log
          replayOpen, \* the replay log is open
          logOpen,    \* the audit log is open
          recorded,   \* exchanges in the audit log: a token and a run
          answered,   \* history: the exchanges that a client got an answer to
          forced      \* history: files were closed under a request

disk == <<files>>
main == <<pc, open, todo, read, live, began, refused, run, forced>>
signals == <<signalled, pending, stopping>>
requests == <<step, token, seen, durable, recorded, answered>>
sinks == <<replayOpen, logOpen>>
vars == <<disk, main, signals, requests, sinks>>

\* With a seeded bug: the denylist is the first document to be read.
OrderDenylistFirst == <<"denylist", "registry", "signing">>

\* Startup and Reload read the documents in one order.
Order == <<"registry", "signing", "denylist">>

Document == {"registry", "signing", "denylist"}

Texts(d) == IF d = "signing" THEN Ring ELSE {Plain}

Disk == files[Len(files)]

Idle == \A h \in Handler : step[h] = "idle"

Init ==
    /\ files = <<[d \in Document |-> [at |-> 1, 
                   text |-> IF d = "signing" THEN FirstRing ELSE Plain]]>>
    /\ pc = "down" /\ open = FALSE
    /\ todo = <<>>
    /\ read = files[1] /\ live = files[1]
    /\ began = 0 /\ refused = 0 /\ signalled = 0
    /\ pending = FALSE /\ stopping = FALSE
    /\ run = 0
    /\ step = [h \in Handler |-> "idle"]
    /\ token \in [Handler -> Token]
    /\ seen = {} /\ durable = {}
    /\ replayOpen = FALSE /\ logOpen = FALSE
    /\ recorded = {} /\ answered = <<>>
    /\ forced = FALSE

-----------------------------------------------------------------------------
(* The operator and the process *)

\* A file is replaced by a rename: what is read is one text or the other.
Edit(d, text) ==
    /\ Len(files) <= MaxEdits
    /\ files' = Append(files, [Disk EXCEPT ![d] = 
                                 [at |-> Len(files) + 1, text |-> text]])
    /\ UNCHANGED <<main, signals, requests, sinks>>

\* The process is gone, and with it what it knew and what it was doing.
Gone ==
    /\ pc' = "down" /\ open' = FALSE
    /\ todo' = <<>>
    /\ signalled' = 0 /\ pending' = FALSE /\ stopping' = FALSE
    /\ step' = [h \in Handler |-> "idle"]
    /\ seen' = {}
    /\ replayOpen' = FALSE /\ logOpen' = FALSE
    /\ UNCHANGED <<disk, read, live, began, refused, run, forced, token, 
                   durable, recorded, answered>>

\* It may be killed at any time.
Killed == pc # "down" /\ Gone

Start ==
    /\ pc = "down" /\ run < MaxRuns
    /\ pc' = "loading"
    /\ todo' = Order
    /\ run' = run + 1
    /\ began' = Len(files) /\ refused' = 0
    /\ UNCHANGED <<disk, open, read, live, forced, signals, requests, sinks>>

\* Signals are caught from signal.Notify on and until signal.Stop.
Caught == open /\ pc \in {"loop", "loading", "draining"}

\* With a seeded bug: reloadCh has no room, and a signal is lost when the loop
\* is not waiting for it.
HangupUnbuffered ==
    /\ pc # "down"
    /\ IF Caught THEN /\ signalled' = Len(files)
                      /\ pending' = (pending \/ pc = "loop")
                      /\ UNCHANGED <<disk, main, stopping, requests, sinks>>
                 ELSE Gone

\* SIGHUP.  reloadCh keeps one signal; nobody reads it once Shutdown has begun.
Hangup ==
    /\ pc # "down"
    /\ IF Caught THEN /\ signalled' = Len(files)
                      /\ pending' = TRUE
                      /\ UNCHANGED <<disk, main, stopping, requests, sinks>>
                 ELSE Gone

\* SIGTERM or an interrupt
Terminate ==
    /\ pc # "down"
    /\ IF Caught THEN /\ stopping' = TRUE
                      /\ UNCHANGED <<disk, main, signalled, pending, requests, sinks>>
                 ELSE Gone

-----------------------------------------------------------------------------
(* Startup and Reload *)

\* After Reload has failed the previous documents stay; at startup it is over.
Refused ==
    IF open THEN /\ pc' = "loop"
                 /\ refused' = began
                 /\ todo' = <<>>
                 /\ UNCHANGED <<disk, open, read, live, began, run, forced, 
                                signals, requests, sinks>>
            ELSE Gone

\* The next LoadFile
Load ==
    /\ pc = "loading" /\ todo # <<>>
    /\ LET doc == Disk[Head(todo)] IN
        \/ /\ doc.text # Bad
           /\ read' = [read EXCEPT ![Head(todo)] = doc]
           /\ todo' = Tail(todo)
           /\ UNCHANGED <<disk, pc, open, live, began, refused, run, forced, 
                          signals, requests, sinks>>
        \/ /\ doc.text = Bad
           /\ Refused

\* A new active kid was in the ring before.
AllowActivation(prev, next) == next.active \in prev.kids

\* installIdentity: all of them, or none
Install ==
    /\ pc = "loading" /\ todo = <<>> /\ open
    /\ \/ /\ AllowActivation(live.signing.text, read.signing.text)
          /\ live' = read
          /\ pc' = "loop"
          /\ UNCHANGED <<disk, open, todo, read, began, refused, run, forced, 
                         signals, requests, sinks>>
       \/ /\ ~AllowActivation(live.signing.text, read.signing.text)
          /\ Refused

\* NewServer with what was read, the replay log recovered, the signals caught
Listen ==
    /\ pc = "loading" /\ todo = <<>> /\ ~open
    /\ live' = read
    /\ seen' = durable
    /\ replayOpen' = TRUE /\ logOpen' = TRUE
    /\ open' = TRUE
    /\ pc' = "loop"
    /\ UNCHANGED <<disk, todo, read, began, refused, run, forced, signals, step, 
                   token, durable, recorded, answered>>

\* case <-reloadCh
BeginReload ==
    /\ pc = "loop" /\ pending
    /\ pending' = FALSE
    /\ pc' = "loading"
    /\ todo' = Order
    /\ began' = Len(files)
    /\ UNCHANGED <<disk, open, read, live, refused, run, forced, signalled, 
                   stopping, requests, sinks>>

-----------------------------------------------------------------------------
(* Shutdown *)

\* case <-ctx.Done()
BeginShutdown ==
    /\ pc = "loop" /\ stopping
    /\ pc' = "draining"
    /\ UNCHANGED <<disk, open, todo, read, live, began, refused, run, forced, 
                   signals, requests, sinks>>

\* With a seeded bug: Shutdown returns while requests are still under way.
DrainedEarly ==
    /\ pc = "draining"
    /\ pc' = "closeReplay"
    /\ open' = FALSE
    /\ UNCHANGED <<disk, todo, read, live, began, refused, run, forced, 
                   signals, requests, sinks>>

\* Shutdown has closed every connection.
Drained ==
    /\ pc = "draining" /\ Idle
    /\ pc' = "closeReplay"
    /\ open' = FALSE
    /\ UNCHANGED <<disk, todo, read, live, began, refused, run, forced, 
                   signals, requests, sinks>>

\* With a seeded bug: Shutdown waits for its requests for ever.
TimeoutNever ==
    /\ pc = "draining" /\ Idle
    /\ pc' = "closeReplay"
    /\ UNCHANGED <<disk, open, todo, read, live, began, refused, run, forced,
                   signals, requests, sinks>>

\* Its five seconds are over; requests go on, and new ones come over connections
\* that are still there.
Timeout ==
    /\ pc = "draining"
    /\ pc' = "closeReplay"
    /\ forced' = TRUE
    /\ UNCHANGED <<disk, open, todo, read, live, began, refused, run, 
                   signals, requests, sinks>>

\* case err := <-errCh: the listener failed, the connections are still there.
ListenerFails ==
    /\ pc = "loop"
    /\ pc' = "closeReplay"
    /\ forced' = TRUE
    /\ UNCHANGED <<disk, open, todo, read, live, began, refused, run, 
                   signals, requests, sinks>>

\* The deferred calls, the last one first: replay.Close,
CloseReplay ==
    /\ pc = "closeReplay"
    /\ replayOpen' = FALSE
    /\ pc' = "closeLog"
    /\ UNCHANGED <<disk, open, todo, read, live, began, refused, run, forced, 
                   signals, requests, logOpen>>

\* log.Close,
CloseLog ==
    /\ pc = "closeLog"
    /\ logOpen' = FALSE
    /\ pc' = "returned"
    /\ UNCHANGED <<disk, open, todo, read, live, began, refused, run, forced, 
                   signals, requests, replayOpen>>

\* and main returns.
Exit == pc = "returned" /\ Gone

-----------------------------------------------------------------------------
(* Requests *)

Admit(h, t) ==
    /\ open /\ step[h] = "idle"
    /\ step' = [step EXCEPT ![h] = "admitted"]
    /\ token' = [token EXCEPT ![h] = t]
    /\ UNCHANGED <<disk, main, signals, seen, durable, recorded, answered, sinks>>

\* Consume.  With its file closed the cache still grants, from memory.
Consume(h) ==
    /\ step[h] = "admitted"
    /\ token[h] \notin seen
    /\ seen' = seen \cup {token[h]}
    /\ durable' = IF replayOpen THEN durable \cup {token[h]} ELSE durable
    /\ step' = [step EXCEPT ![h] = "consumed"]
    /\ UNCHANGED <<disk, main, signals, token, recorded, answered, sinks>>

\* ErrReplay
Replayed(h) ==
    /\ step[h] = "admitted"
    /\ token[h] \in seen
    /\ step' = [step EXCEPT ![h] = "idle"]
    /\ UNCHANGED <<disk, main, signals, token, seen, durable, recorded, answered, 
                   sinks>>

\* With a seeded bug: a logger that is closed accepts a record and drops it.
AppendToClosed(h) ==
    /\ step[h] = "consumed"
    /\ recorded' = IF logOpen THEN recorded \cup {<<token[h], run>>} ELSE recorded
    /\ step' = [step EXCEPT ![h] = "recorded"]
    /\ UNCHANGED <<disk, main, signals, token, seen, durable, answered, sinks>>

\* Append, which a closed log refuses: no token then.
AppendEvent(h) ==
    /\ step[h] = "consumed"
    /\ \/ /\ logOpen
          /\ recorded' = recorded \cup {<<token[h], run>>}
          /\ step' = [step EXCEPT ![h] = "recorded"]
       \/ /\ ~logOpen
          /\ step' = [step EXCEPT ![h] = "idle"]
          /\ UNCHANGED recorded
    /\ UNCHANGED <<disk, main, signals, token, seen, durable, answered, sinks>>

Answer(h) ==
    /\ step[h] = "recorded"
    /\ answered' = Append(answered, <<token[h], run>>)
    /\ step' = [step EXCEPT ![h] = "idle"]
    /\ UNCHANGED <<disk, main, signals, token, seen, durable, recorded, sinks>>

-----------------------------------------------------------------------------

Main ==
    \/ Load \/ Install \/ Listen \/ BeginReload
    \/ BeginShutdown \/ Drained \/ Timeout
    \/ CloseReplay \/ CloseLog \/ Exit

Next ==
    \/ \E d \in Document : \E text \in Texts(d) \cup {Bad} : Edit(d, text)
    \/ Killed \/ Start \/ Hangup \/ Terminate
    \/ Main \/ ListenerFails
    \/ \E h \in Handler : \/ \E t \in Token : Admit(h, t)
                          \/ Consume(h) \/ Replayed(h) 
                          \/ AppendEvent(h) \/ Answer(h)

\* The main goroutine goes on, and a select with several cases ready takes each
\* of them in the end.  Nothing is asked of requests, nor of anybody else.
Fairness == WF_vars(Main) /\ SF_vars(BeginShutdown)

Spec == Init /\ [][Next]_vars /\ Fairness

-----------------------------------------------------------------------------
(* Properties *)

\* Everything that was on the disk after n edits, or something newer, is live.
Reflects(n) == \A d \in Document : live[d].at >= files[n][d].at

\* No SIGHUP is lost: when an operator has signalled, a reload that began after
\* the signal installs what was on the disk then or something newer, or fails 
\* and is counted, unless the process ends.  A signal that comes while the loop
\* reloads waits in reloadCh, and one that finds it full is covered by it.
SignalHeeded ==
    \A n \in 1..(MaxEdits + 1) :
        signalled = n ~> \/ refused >= n
                         \/ Len(files) >= n /\ Reflects(n)
                         \/ pc = "down"

\* What is denied is read after what is granted, so an operator may revoke and
\* grant in two edits during a reload: the live denylist is never older than 
\* the one that was there when the live registry, or ring, was written.
DenylistKeepsUp ==
    open => /\ live.denylist.at >= files[live.registry.at]["denylist"].at
            /\ live.denylist.at >= files[live.signing.at]["denylist"].at

\* Whatever is closed under a request, the log refuses before the answer is
\* given: each answer with a token has its record (AI7, fail closed).
AnsweredIsRecorded == \A i \in DOMAIN answered : answered[i] \in recorded

\* A subject token is exchanged once, over all runs.
SpentOnce ==
    \A i, j \in DOMAIN answered : answered[i][1] = answered[j][1] => i = j

\* It is, as long as requests were over whenever the files were closed.
SpentOnceWhenDrained == forced \/ SpentOnce

\* SIGTERM ends the process, with requests that never end and with SIGHUPs that
\* do not stop coming.
StopsInTheEnd == stopping ~> pc = "down"
=============================================================================
