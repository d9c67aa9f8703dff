----------------------------- MODULE ServeProofs -----------------------------
(***************************************************************************)
(* Proofs about the life of `serve`, for any documents, operators, signals,*)
(* requests and number of runs: that the live denylist keeps up with what  *)
(* is granted, that every answer has its record, and that a subject is     *)
(* exchanged once as long as no file was closed under a request.           *)
(***************************************************************************)
EXTENDS Serve, TLAPS

Doc == [at : Nat, text : Ring \cup {Plain, Bad}]

Docs == [Document -> Doc]

\* Where the main goroutine serves, and the files are open.
Serving == {"loop", "loading", "draining"}

WorldType ==
    /\ files \in Seq(Docs) /\ files # <<>>
    /\ read \in Docs /\ live \in Docs
    /\ todo \in {Order, <<"signing", "denylist">>, <<"denylist">>, <<>>}
    /\ pc \in Serving \cup {"down", "closeReplay", "closeLog", "returned"}
    /\ open \in BOOLEAN /\ forced \in BOOLEAN
    /\ replayOpen \in BOOLEAN /\ logOpen \in BOOLEAN
    /\ run \in Nat

RequestType ==
    /\ step \in [Handler -> {"idle", "admitted", "consumed", "recorded"}]
    /\ token \in [Handler -> Token]
    /\ seen \subseteq Token /\ durable \subseteq Token
    /\ answered \in Seq(Token \X Nat)

Typed == WorldType /\ RequestType

\* Files only grow newer, and what was read of one was there.
FilesInv ==
    /\ \A n \in DOMAIN files : \A d \in Document : files[n][d].at \in 1..n
    /\ \A m, n \in DOMAIN files : m <= n =>
          \A d \in Document : files[m][d].at <= files[n][d].at
    /\ \A d \in Document : read[d].at \in DOMAIN files /\ live[d].at \in DOMAIN files

KeepsUp(docs) ==
    /\ docs["denylist"].at >= files[docs["registry"].at]["denylist"].at
    /\ docs["denylist"].at >= files[docs["signing"].at]["denylist"].at

DenylistInv ==
    /\ pc = "loading" /\ todo = <<>> => KeepsUp(read)
    /\ open => KeepsUp(live)

\* A process that is down has no requests.
DownInv == pc = "down" => ~open /\ Idle

RecordInv == \A h \in Handler : step[h] = "recorded" => <<token[h], run>> \in recorded

\* Unless files were closed under requests, there are requests only while files
\* are open; what was answered is in the replay log, and what is there is known
\* to the process; what a request has consumed is its own.
Spent == {"consumed", "recorded"}

SpentInv ==
    /\ open \/ ~Idle => open /\ pc \in Serving /\ replayOpen
    /\ open => durable \subseteq seen
    /\ \A i \in DOMAIN answered : answered[i][1] \in durable
    /\ \A h \in Handler : step[h] \in Spent => token[h] \in durable
    /\ \A h \in Handler, i \in DOMAIN answered : 
          step[h] \in Spent => answered[i][1] # token[h]
    /\ \A g, h \in Handler : 
          step[g] \in Spent /\ step[h] \in Spent /\ token[g] = token[h] => g = h
    /\ SpentOnce

IInv ==
    /\ Typed
    /\ FilesInv /\ DenylistInv
    /\ DownInv /\ RecordInv /\ AnsweredIsRecorded
    /\ forced \/ SpentInv

-----------------------------------------------------------------------------
(* Steps *)

\* A signal that is caught, a document that is read, a reload that fails, and one
\* that succeeds: what they change of the process.
Signal == UNCHANGED <<disk, main, requests, sinks>>

ReadNext ==
    /\ pc = "loading" /\ todo # <<>>
    /\ read' = [read EXCEPT ![Head(todo)] = Disk[Head(todo)]]
    /\ todo' = Tail(todo)
    /\ UNCHANGED <<disk, pc, open, live, run, forced, requests, sinks>>

ReloadFails ==
    /\ pc = "loading" /\ open
    /\ pc' = "loop" /\ todo' = <<>>
    /\ UNCHANGED <<disk, open, read, live, run, forced, requests, sinks>>

Installed ==
    /\ pc = "loading" /\ todo = <<>> /\ open
    /\ live' = read /\ pc' = "loop"
    /\ UNCHANGED <<disk, open, todo, read, run, forced, requests, sinks>>

RequestStep ==
    \E h \in Handler : \/ \E t \in Token : Admit(h, t)
                       \/ Consume(h) \/ Replayed(h) \/ AppendEvent(h) \/ Answer(h)

Closing ==
    BeginShutdown \/ Drained \/ Timeout \/ ListenerFails \/ CloseReplay \/ CloseLog

LEMMA Steps ==
    ASSUME [Next]_vars
    PROVE  \/ \E d \in Document : \E text \in Texts(d) \cup {Bad} : Edit(d, text)
           \/ Gone \/ Start \/ Signal
           \/ ReadNext \/ ReloadFails \/ Installed \/ Listen \/ BeginReload
           \/ Closing
           \/ RequestStep
  <1>1. CASE UNCHANGED vars
    BY <1>1 DEF vars, Signal
  <1>2. CASE Killed \/ Exit
    BY <1>2 DEF Killed, Exit
  <1>3. CASE Hangup \/ Terminate
    BY <1>3 DEF Hangup, Terminate, Signal
  <1>4. CASE Load
    BY <1>4 DEF Load, Refused, ReadNext, ReloadFails, requests, sinks, signals
  <1>5. CASE Install
    BY <1>5 DEF Install, Refused, Installed, ReloadFails, requests, sinks, signals
  <1> QED
    BY <1>1, <1>2, <1>3, <1>4, <1>5 DEF Next, Main, Closing, RequestStep

-----------------------------------------------------------------------------
(* Types *)

LEMMA OneMore ==
    ASSUME NEW S, NEW s \in Seq(S), NEW x \in S
    PROVE  /\ Append(s, x) \in Seq(S) /\ Append(s, x) # <<>>
           /\ DOMAIN Append(s, x) = DOMAIN s \cup {Len(s) + 1}
           /\ Len(s) + 1 \notin DOMAIN s
           /\ Append(s, x)[Len(s) + 1] = x
           /\ \A i \in DOMAIN s : Append(s, x)[i] = s[i]
  OBVIOUS

LEMMA Latest == Typed => /\ Len(files) \in DOMAIN files /\ Disk \in Docs
                         /\ DOMAIN files = 1..Len(files) /\ Len(files) \in Nat \ {0}
  BY DEF Typed, WorldType, Disk

LEMMA Edited ==
    ASSUME Typed, NEW d \in Document, NEW text \in Texts(d) \cup {Bad}, Edit(d, text)
    PROVE  \E docs \in Docs : 
              /\ files' = Append(files, docs)
              /\ \A e \in Document : 
                    docs[e] = IF e = d THEN [at |-> Len(files) + 1, text |-> text]
                                       ELSE Disk[e]
  <1> DEFINE doc == [at |-> Len(files) + 1, text |-> text]
             docs == [Disk EXCEPT ![d] = doc]
  <1>1. doc \in Doc
    BY Latest DEF Doc, Texts
  <1>2. Disk \in Docs
    BY Latest
  <1>3. docs \in Docs /\ \A e \in Document : docs[e] = IF e = d THEN doc ELSE Disk[e]
    <2> HIDE DEF doc
    <2> QED
      BY <1>1, <1>2 DEF Docs
  <1>4. files' = Append(files, docs)
    BY DEF Edit
  <1> QED
    BY <1>3, <1>4

\* Documents are read in their order.
LEMMA Reading ==
    ASSUME Typed, todo # <<>>
    PROVE  /\ Head(todo) \in Document 
           /\ Tail(todo) \in {<<"signing", "denylist">>, <<"denylist">>, <<>>}
           /\ Tail(todo) = <<>> => Head(todo) = "denylist"
  <1>1. CASE todo = <<"registry", "signing", "denylist">>
    <2>1. Head(todo) = "registry" /\ Tail(todo) = <<"signing", "denylist">>
      BY <1>1
    <2>2. <<"signing", "denylist">> # <<>>
      OBVIOUS
    <2> QED
      BY <2>1, <2>2 DEF Document
  <1>2. CASE todo = <<"signing", "denylist">>
    <2>1. Head(todo) = "signing" /\ Tail(todo) = <<"denylist">>
      BY <1>2
    <2>2. <<"denylist">> # <<>>
      OBVIOUS
    <2> QED
      BY <2>1, <2>2 DEF Document
  <1>3. CASE todo = <<"denylist">>
    <2>1. Head(todo) = "denylist" /\ Tail(todo) = <<>>
      BY <1>3
    <2> QED
      BY <2>1 DEF Document
  <1> QED
    BY <1>1, <1>2, <1>3 DEF Typed, WorldType, Order

LEMMA TypedStep == Typed /\ [Next]_vars => Typed'
  <1> SUFFICES ASSUME Typed, [Next]_vars PROVE Typed'
    OBVIOUS
  <1> USE DEF Typed, WorldType, RequestType
  <1>1. CASE \E d \in Document : \E text \in Texts(d) \cup {Bad} : Edit(d, text)
    <2>1. PICK d \in Document : \E text \in Texts(d) \cup {Bad} : Edit(d, text)
      BY <1>1
    <2>2. PICK text \in Texts(d) \cup {Bad} : Edit(d, text)
      BY <2>1
    <2>3. PICK docs \in Docs : files' = Append(files, docs)
      BY <2>2, Edited
    <2>4. files' \in Seq(Docs) /\ files' # <<>>
      BY <2>3, OneMore
    <2> QED
      BY <2>2, <2>4 DEF Edit, main, requests, sinks
  <1>2. CASE Gone
    BY <1>2 DEF Gone, disk
  <1>3. CASE Start
    BY <1>3 DEF Start, disk, requests, sinks, Serving
  <1>4. CASE Signal
    BY <1>4 DEF Signal, disk, main, requests, sinks
  <1>5. CASE ReadNext
    <2>1. Head(todo) \in Document /\ Tail(todo) \in 
             {<<"signing", "denylist">>, <<"denylist">>, <<>>}
      BY <1>5, Reading DEF ReadNext
    <2>2. read' \in Docs
      BY <1>5, <2>1, Latest DEF ReadNext, Docs
    <2> QED
      BY <1>5, <2>1, <2>2 DEF ReadNext, disk, requests, sinks
  <1>6. CASE ReloadFails
    BY <1>6 DEF ReloadFails, disk, requests, sinks, Serving
  <1>7. CASE Installed
    BY <1>7 DEF Installed, disk, requests, sinks, Serving
  <1>8. CASE Listen
    BY <1>8 DEF Listen, disk, Serving
  <1>9. CASE BeginReload
    BY <1>9 DEF BeginReload, disk, requests, sinks, Serving
  <1>10. CASE Closing
    BY <1>10 DEF Closing, BeginShutdown, Drained, Timeout, ListenerFails, 
                 CloseReplay, CloseLog, disk, requests, sinks, Serving
  <1>11. CASE RequestStep
    <2>1. PICK h \in Handler : \/ \E t \in Token : Admit(h, t)
                               \/ Consume(h) \/ Replayed(h) \/ AppendEvent(h) 
                               \/ Answer(h)
      BY <1>11 DEF RequestStep
    <2>2. UNCHANGED <<disk, main, sinks>>
      BY <2>1 DEF Admit, Consume, Replayed, AppendEvent, Answer
    <2>3. CASE \E t \in Token : Admit(h, t)
      BY <2>2, <2>3 DEF Admit, disk, main, sinks
    <2>4. CASE Consume(h)
      BY <2>2, <2>4 DEF Consume, disk, main, sinks
    <2>5. CASE Replayed(h)
      BY <2>2, <2>5 DEF Replayed, disk, main, sinks
    <2>6. CASE AppendEvent(h)
      BY <2>2, <2>6 DEF AppendEvent, disk, main, sinks
    <2>7. CASE Answer(h)
      <3>1. <<token[h], run>> \in Token \X Nat
        OBVIOUS
      <3>2. answered' \in Seq(Token \X Nat)
        BY <2>7, <3>1, OneMore DEF Answer
      <3> QED
        BY <2>2, <2>7, <3>2 DEF Answer, disk, main, sinks
    <2> QED
      BY <2>1, <2>3, <2>4, <2>5, <2>6, <2>7
  <1> QED
    BY <1>1, <1>2, <1>3, <1>4, <1>5, <1>6, <1>7, <1>8, <1>9, <1>10, <1>11, Steps

-----------------------------------------------------------------------------
(* Documents *)

LEMMA FilesStep ==
    ASSUME Typed, FilesInv, [Next]_vars
    PROVE  /\ FilesInv'
           /\ DOMAIN files \subseteq DOMAIN files' 
           /\ \A n \in DOMAIN files : files'[n] = files[n]
  <1>1. CASE \E d \in Document : \E text \in Texts(d) \cup {Bad} : Edit(d, text)
    <2>1. PICK d \in Document : \E text \in Texts(d) \cup {Bad} : Edit(d, text)
      BY <1>1
    <2>2. PICK text \in Texts(d) \cup {Bad} : Edit(d, text)
      BY <2>1
    <2> DEFINE last == Len(files) + 1
    <2>3. PICK docs \in Docs : 
              /\ files' = Append(files, docs)
              /\ \A e \in Document : 
                    docs[e] = IF e = d THEN [at |-> last, text |-> text]
                                       ELSE Disk[e]
      BY <2>2, Edited
    <2>4. /\ DOMAIN files' = DOMAIN files \cup {last} /\ last \notin DOMAIN files
          /\ files'[last] = docs
          /\ \A n \in DOMAIN files : files'[n] = files[n]
      BY <2>3, OneMore DEF Typed, WorldType
    <2>5. DOMAIN files = 1..Len(files) /\ Len(files) \in Nat \ {0}
      BY Latest
    <2>6. \A e \in Document : docs[e].at = last \/ docs[e].at = files[Len(files)][e].at
      BY <2>3 DEF Disk
    <2>7. \A e \in Document : docs[e].at \in 1..last
      BY <2>5, <2>6 DEF FilesInv
    <2>8. \A n \in DOMAIN files : \A e \in Document : files[n][e].at <= docs[e].at
      BY <2>5, <2>6 DEF FilesInv
    <2>9. \A n \in DOMAIN files' : \A e \in Document : files'[n][e].at \in 1..n
      BY <2>4, <2>7 DEF FilesInv
    <2>10. \A m, n \in DOMAIN files' : m <= n =>
              \A e \in Document : files'[m][e].at <= files'[n][e].at
      <3> SUFFICES ASSUME NEW m \in DOMAIN files', NEW n \in DOMAIN files', m <= n,
                          NEW e \in Document
                   PROVE  files'[m][e].at <= files'[n][e].at
        OBVIOUS
      <3>1. CASE n \in DOMAIN files
        BY <2>4, <2>5, <3>1 DEF FilesInv
      <3>2. CASE n = last /\ m \in DOMAIN files
        BY <2>4, <2>8, <3>2
      <3>3. CASE n = last /\ m = last
        BY <2>4, <2>5, <2>7, <3>3
      <3> QED
        BY <2>4, <2>5, <3>1, <3>2, <3>3
    <2>11. read' = read /\ live' = live
      BY <2>2 DEF Edit, main
    <2> QED
      BY <2>4, <2>9, <2>10, <2>11 DEF FilesInv
  <1>2. CASE files' = files /\ read' = read /\ live' \in {live, read}
    BY <1>2 DEF FilesInv
  <1>3. CASE ReadNext
    <2>1. Head(todo) \in Document /\ Disk[Head(todo)].at \in DOMAIN files
      BY <1>3, Reading, Latest DEF ReadNext, FilesInv, Disk
    <2>2. \A d \in Document : read'[d].at \in DOMAIN files
      BY <1>3, <2>1 DEF ReadNext, FilesInv, Typed, WorldType, Docs
    <2> QED
      BY <1>3, <2>2 DEF ReadNext, FilesInv, disk
  <1> QED
    BY <1>1, <1>2, <1>3, Steps 
    DEF Gone, Start, Signal, ReloadFails, Installed, Listen, BeginReload, Closing, 
        BeginShutdown, Drained, Timeout, ListenerFails, CloseReplay, CloseLog, 
        RequestStep, Admit, Consume, Replayed, AppendEvent, Answer, disk, main

\* What was written of a document stays, so documents keep up once they do.
LEMMA KeepUp ==
    ASSUME Typed, FilesInv, [Next]_vars, NEW docs \in Docs, 
           \A d \in Document : docs[d].at \in DOMAIN files, KeepsUp(docs)
    PROVE  /\ docs["denylist"].at >= files'[docs["registry"].at]["denylist"].at
           /\ docs["denylist"].at >= files'[docs["signing"].at]["denylist"].at
  BY FilesStep DEF KeepsUp, Document

\* The denylist is read last, and not from an older disk than the others.
LEMMA ReadLast ==
    ASSUME Typed, FilesInv, ReadNext, Tail(todo) = <<>>
    PROVE  KeepsUp(read')
  <1>1. Head(todo) = "denylist"
    BY Reading DEF ReadNext
  <1>2. /\ read'["denylist"] = Disk["denylist"]
        /\ read'["registry"] = read["registry"] /\ read'["signing"] = read["signing"]
    BY <1>1 DEF ReadNext, Typed, WorldType, Docs, Document
  <1>3. ASSUME NEW d \in Document
        PROVE  Disk["denylist"].at >= files[read[d].at]["denylist"].at
    <2>1. read[d].at \in DOMAIN files /\ "denylist" \in Document
      BY DEF FilesInv, Document
    <2>2. read[d].at <= Len(files) /\ Len(files) \in DOMAIN files
      BY <2>1, Latest
    <2>3. /\ files[read[d].at]["denylist"].at <= files[Len(files)]["denylist"].at
          /\ files[read[d].at]["denylist"].at \in Nat 
          /\ files[Len(files)]["denylist"].at \in Nat
      BY <2>1, <2>2 DEF FilesInv
    <2> QED
      BY <2>3 DEF Disk
  <1> QED
    BY <1>2, <1>3 DEF KeepsUp, Document

LEMMA DenylistStep ==
    ASSUME Typed, FilesInv, DenylistInv, [Next]_vars
    PROVE  DenylistInv'
  <1>1. KeepsUp(read) => /\ read["denylist"].at >= files'[read["registry"].at]["denylist"].at
                         /\ read["denylist"].at >= files'[read["signing"].at]["denylist"].at
    BY KeepUp DEF Typed, WorldType, FilesInv
  <1>2. KeepsUp(live) => /\ live["denylist"].at >= files'[live["registry"].at]["denylist"].at
                         /\ live["denylist"].at >= files'[live["signing"].at]["denylist"].at
    BY KeepUp DEF Typed, WorldType, FilesInv
  <1>3. ASSUME read' = read, live' = live, 
               pc' = "loading" /\ todo' = <<>> => pc = "loading" /\ todo = <<>>,
               open' => open
        PROVE  DenylistInv'
    BY <1>1, <1>2, <1>3 DEF DenylistInv, KeepsUp
  <1>4. CASE ReadNext
    <2>1. todo' = <<>> => KeepsUp(read')
      BY <1>4, ReadLast DEF ReadNext
    <2>2. files' = files /\ open' = open /\ live' = live
      BY <1>4 DEF ReadNext, disk
    <2> QED
      BY <2>1, <2>2 DEF DenylistInv, KeepsUp
  <1>5. CASE Installed \/ Listen
    <2>1. /\ pc = "loading" /\ todo = <<>> /\ pc' = "loop" /\ live' = read 
          /\ files' = files
      BY <1>5 DEF Installed, Listen, disk
    <2> QED
      BY <2>1 DEF DenylistInv, KeepsUp
  <1>6. CASE Start \/ BeginReload
    <2>1. read' = read /\ live' = live /\ open' = open /\ todo' = Order
      BY <1>6 DEF Start, BeginReload
    <2>2. Order # <<>>
      BY DEF Order
    <2> QED
      BY <1>3, <2>1, <2>2
  <1> QED
    BY <1>3, <1>4, <1>5, <1>6, Steps 
    DEF Edit, Gone, Signal, ReloadFails, Closing, 
        BeginShutdown, Drained, Timeout, ListenerFails, CloseReplay, CloseLog, 
        RequestStep, Admit, Consume, Replayed, AppendEvent, Answer, main

-----------------------------------------------------------------------------
(* Requests *)

LEMMA DownStep ==
    ASSUME Typed, DownInv, [Next]_vars
    PROVE  DownInv'
  <1>1. CASE Gone
    BY <1>1 DEF Gone, DownInv, Idle
  <1>2. CASE RequestStep
    BY <1>2 DEF RequestStep, Admit, Consume, Replayed, AppendEvent, Answer, main,
                DownInv, Idle
  <1>3. ASSUME UNCHANGED <<open, step>>, pc' = "down" => pc = "down" PROVE DownInv'
    BY <1>3 DEF DownInv, Idle
  <1>4. CASE pc' # "down"
    BY <1>4 DEF DownInv
  <1> QED
    BY <1>1, <1>2, <1>3, <1>4, Steps 
    DEF Edit, Start, Signal, ReadNext, ReloadFails, Installed, Listen, BeginReload, 
        Closing, BeginShutdown, Drained, Timeout, ListenerFails, CloseReplay, 
        CloseLog, main, requests

LEMMA RecordStep ==
    ASSUME Typed, DownInv, RecordInv, AnsweredIsRecorded, [Next]_vars
    PROVE  RecordInv' /\ AnsweredIsRecorded'
  <1>1. ASSUME UNCHANGED <<token, recorded, answered, run>>, 
               \A h \in Handler : step'[h] = "recorded" => step[h] = "recorded"
        PROVE  RecordInv' /\ AnsweredIsRecorded'
    BY <1>1 DEF RecordInv, AnsweredIsRecorded
  <1>2. CASE Gone
    BY <1>1, <1>2 DEF Gone
  <1>3. CASE Start
    <2>1. \A h \in Handler : step'[h] = "idle"
      BY <1>3 DEF Start, DownInv, Idle, requests
    <2> QED
      BY <1>3, <2>1 DEF Start, RecordInv, AnsweredIsRecorded, requests
  <1>4. CASE RequestStep
    <2>1. PICK h \in Handler : \/ \E t \in Token : Admit(h, t)
                               \/ Consume(h) \/ Replayed(h) \/ AppendEvent(h) 
                               \/ Answer(h)
      BY <1>4 DEF RequestStep
    <2>2. run' = run
      BY <2>1 DEF Admit, Consume, Replayed, AppendEvent, Answer, main
    <2>3. CASE \E t \in Token : Admit(h, t)
      <3>1. PICK t \in Token : Admit(h, t)
        BY <2>3
      <3> QED
        BY <2>2, <3>1 
        DEF Admit, RecordInv, AnsweredIsRecorded, Typed, RequestType
    <2>4. CASE Consume(h) \/ Replayed(h)
      BY <1>1, <2>2, <2>4 DEF Consume, Replayed, Typed, RequestType
    <2>5. CASE AppendEvent(h)
      BY <2>2, <2>5 
      DEF AppendEvent, RecordInv, AnsweredIsRecorded, Typed, RequestType
    <2>6. CASE Answer(h)
      <3>1. <<token[h], run>> \in recorded /\ recorded' = recorded
        BY <2>6 DEF Answer, RecordInv
      <3>2. /\ DOMAIN answered' = DOMAIN answered \cup {Len(answered) + 1}
            /\ answered'[Len(answered) + 1] = <<token[h], run>>
            /\ \A i \in DOMAIN answered : answered'[i] = answered[i]
        <4>1. answered \in Seq(Token \X Nat) /\ <<token[h], run>> \in Token \X Nat
          BY DEF Typed, WorldType, RequestType
        <4> QED
          BY <2>6, <4>1, OneMore DEF Answer
      <3>3. AnsweredIsRecorded'
        BY <3>1, <3>2 DEF AnsweredIsRecorded
      <3>4. RecordInv'
        BY <2>2, <2>6, <3>1 DEF Answer, RecordInv, Typed, RequestType
      <3> QED
        BY <3>3, <3>4
    <2> QED
      BY <2>1, <2>3, <2>4, <2>5, <2>6
  <1> QED
    BY <1>1, <1>2, <1>3, <1>4, Steps 
    DEF Edit, Signal, ReadNext, ReloadFails, Installed, Listen, BeginReload, 
        Closing, BeginShutdown, Drained, Timeout, ListenerFails, CloseReplay, 
        CloseLog, main, requests

\* What a request does: it goes on, and takes its subject token on the way, or
\* is over, with an answer or without one.
LEMMA SpentRequest ==
    ASSUME Typed, SpentInv, NEW h \in Handler, 
           \/ \E t \in Token : Admit(h, t)
           \/ Consume(h) \/ Replayed(h) \/ AppendEvent(h) \/ Answer(h)
    PROVE  SpentInv'
  <1>1. UNCHANGED <<pc, open, replayOpen, forced>> /\ open /\ replayOpen /\ pc \in Serving
    <2>1. open \/ ~Idle
      BY DEF Admit, Consume, Replayed, AppendEvent, Answer, Idle
    <2> QED
      BY <2>1 DEF Admit, Consume, Replayed, AppendEvent, Answer, SpentInv, main, sinks
  <1>2. ASSUME UNCHANGED <<seen, durable, answered>>,
               \A g \in Handler : step'[g] \in Spent => 
                     step[g] \in Spent /\ token'[g] = token[g]
        PROVE  SpentInv'
    BY <1>1, <1>2 DEF SpentInv, SpentOnce
  <1>3. CASE \E t \in Token : Admit(h, t)
    BY <1>2, <1>3 DEF Admit, Spent, Typed, RequestType
  <1>4. CASE Replayed(h)
    BY <1>2, <1>4 DEF Replayed, Spent, Typed, RequestType
  <1>5. CASE AppendEvent(h)
    BY <1>2, <1>5 DEF AppendEvent, Spent, Typed, RequestType
  <1>6. CASE Consume(h)
    <2>1. /\ token[h] \notin durable /\ token' = token /\ answered' = answered
          /\ seen' = seen \cup {token[h]} /\ durable' = durable \cup {token[h]}
          /\ \A g \in Handler : step'[g] \in Spent => step[g] \in Spent \/ g = h
      BY <1>1, <1>6 DEF Consume, SpentInv, Spent, Typed, RequestType
    <2>2. /\ \A i \in DOMAIN answered : answered[i][1] # token[h]
          /\ \A g \in Handler : step[g] \in Spent => token[g] # token[h]
      BY <2>1 DEF SpentInv
    <2> QED
      BY <1>1, <2>1, <2>2 DEF SpentInv, SpentOnce
  <1>7. CASE Answer(h)
    <2> DEFINE last == Len(answered) + 1
    <2>1. /\ DOMAIN answered' = DOMAIN answered \cup {last} /\ last \notin DOMAIN answered
          /\ answered'[last][1] = token[h]
          /\ \A i \in DOMAIN answered : answered'[i] = answered[i]
      <3>1. answered \in Seq(Token \X Nat) /\ <<token[h], run>> \in Token \X Nat
        BY DEF Typed, WorldType, RequestType
      <3> QED
        BY <1>7, <3>1, OneMore DEF Answer
    <2>2. /\ UNCHANGED <<token, seen, durable>> /\ step[h] \in Spent
          /\ \A g \in Handler : step'[g] \in Spent => step[g] \in Spent /\ g # h
      BY <1>7 DEF Answer, Spent, Typed, RequestType
    <2>3. /\ token[h] \in durable
          /\ \A i \in DOMAIN answered : answered[i][1] # token[h]
          /\ \A g \in Handler : step'[g] \in Spent => token[g] # token[h]
      BY <2>2 DEF SpentInv
    <2>4. SpentOnce'
      BY <2>1, <2>3 DEF SpentInv, SpentOnce
    <2> HIDE DEF last
    <2>5. \A i \in DOMAIN answered' : answered'[i][1] \in durable
      BY <2>1, <2>3 DEF SpentInv
    <2>6. \A g \in Handler, i \in DOMAIN answered' : 
              step'[g] \in Spent => answered'[i][1] # token[g]
      BY <2>1, <2>2, <2>3 DEF SpentInv
    <2> QED
      BY <1>1, <2>2, <2>4, <2>5, <2>6 DEF SpentInv
  <1> QED
    BY <1>3, <1>4, <1>5, <1>6, <1>7

LEMMA SpentStep ==
    ASSUME Typed, DownInv, forced \/ SpentInv, [Next]_vars
    PROVE  (forced \/ SpentInv)'
  <1>1. CASE forced
    BY <1>1, Steps 
    DEF Edit, Gone, Start, Signal, ReadNext, ReloadFails, Installed, Listen, 
        BeginReload, Closing, BeginShutdown, Drained, Timeout, ListenerFails, 
        CloseReplay, CloseLog, RequestStep, Admit, Consume, Replayed, AppendEvent, 
        Answer, main
  <1>2. ASSUME SpentInv PROVE (forced \/ SpentInv)'
    <2>1. ASSUME UNCHANGED <<seen, durable, token, answered>>,
                 open' => open, open' \/ ~Idle' => pc' \in Serving /\ replayOpen' /\ open',
                 \A h \in Handler : step'[h] = step[h] \/ step'[h] = "idle"
          PROVE  SpentInv'
      BY <1>2, <2>1 DEF SpentInv, SpentOnce, Spent
    <2>2. CASE Gone
      <3>1. ~open' /\ Idle' /\ UNCHANGED <<durable, token, answered>>
        BY <2>2 DEF Gone, Idle
      <3> QED
        BY <1>2, <3>1 DEF SpentInv, SpentOnce, Spent, Idle
    <2>3. CASE Listen
      <3>1. /\ ~open /\ open' /\ replayOpen' /\ pc' \in Serving /\ seen' = durable
            /\ UNCHANGED <<durable, token, answered, step>>
        BY <2>3 DEF Listen, Serving
      <3> QED
        BY <1>2, <3>1 DEF SpentInv, SpentOnce
    <2>4. CASE RequestStep
      BY <1>2, <2>4, SpentRequest DEF RequestStep
    <2>5. CASE Start
      BY <1>2, <2>1, <2>5 DEF Start, DownInv, Idle, requests, sinks
    <2>6. CASE Closing
      <3>1. CASE Timeout \/ ListenerFails
        BY <3>1 DEF Timeout, ListenerFails
      <3>2. CASE Drained
        BY <1>2, <2>1, <3>2 DEF Drained, Idle, requests, sinks
      <3>3. CASE BeginShutdown
        BY <1>2, <2>1, <3>3 DEF BeginShutdown, Idle, requests, sinks, Serving, SpentInv
      <3>4. CASE CloseReplay \/ CloseLog
        <4>1. ~open /\ Idle
          BY <1>2, <3>4 DEF CloseReplay, CloseLog, SpentInv, Serving
        <4> QED
          BY <1>2, <2>1, <3>4, <4>1 DEF CloseReplay, CloseLog, Idle, requests
      <3> QED
        BY <2>6, <3>1, <3>2, <3>3, <3>4 DEF Closing
    <2>7. CASE Signal \/ ReadNext \/ ReloadFails \/ Installed \/ BeginReload
      <3>1. UNCHANGED <<open, requests, sinks>> /\ (pc' = pc \/ pc' \in Serving)
        BY <2>7 DEF Signal, ReadNext, ReloadFails, Installed, BeginReload, main, Serving
      <3> QED
        BY <1>2, <2>1, <3>1 DEF SpentInv, Idle, requests, sinks
    <2>8. CASE \E d \in Document : \E text \in Texts(d) \cup {Bad} : Edit(d, text)
      <3>1. UNCHANGED <<main, requests, sinks>>
        BY <2>8 DEF Edit
      <3> QED
        BY <1>2, <2>1, <3>1 DEF SpentInv, Idle, main, requests, sinks
    <2> QED
      BY <2>2, <2>3, <2>4, <2>5, <2>6, <2>7, <2>8, Steps
  <1> QED
    BY <1>1, <1>2

-----------------------------------------------------------------------------
(* Theorems *)

\* The invariant holds from the start on, whatever the operator writes and
\* signals, however requests interleave and however often the process ends.
THEOREM Inductive == Spec => []IInv
  <1>1. Init => IInv
    <2> SUFFICES ASSUME Init PROVE IInv
      OBVIOUS
    <2> DEFINE first == [d \in Document |-> [at |-> 1, 
                           text |-> IF d = "signing" THEN FirstRing ELSE Plain]]
    <2>1. files = <<first>> /\ files[1] = first /\ read = first /\ live = first
      BY DEF Init
    <2>2. first \in Docs /\ \A d \in Document : first[d].at = 1
      BY ServeAssumption DEF Docs, Doc
    <2> HIDE DEF first
    <2>3. files \in Seq(Docs) /\ files # <<>> /\ DOMAIN files = {1}
      BY <2>1, <2>2
    <2>4. Typed
      <3>1. WorldType
        BY <2>1, <2>2, <2>3 DEF Init, WorldType, Serving
      <3>2. RequestType
        BY DEF Init, RequestType
      <3> QED
        BY <3>1, <3>2 DEF Typed
    <2>5. FilesInv
      BY <2>1, <2>2, <2>3 DEF FilesInv
    <2>6. DenylistInv /\ DownInv /\ RecordInv /\ AnsweredIsRecorded
      BY DEF Init, DenylistInv, DownInv, RecordInv, AnsweredIsRecorded, Idle
    <2>7. SpentInv
      BY DEF Init, SpentInv, SpentOnce, Spent, Idle
    <2> QED
      BY <2>4, <2>5, <2>6, <2>7 DEF IInv
  <1>2. IInv /\ [Next]_vars => IInv'
    BY TypedStep, FilesStep, DenylistStep, DownStep, RecordStep, SpentStep DEF IInv
  <1> QED
    BY <1>1, <1>2, PTL DEF Spec

\* An operator may revoke and grant in two edits during a reload, since Reload
\* reads the denylist last: for any number of edits, documents and reloads.
THEOREM DenylistFollows == Spec => []DenylistKeepsUp
  <1>1. IInv => DenylistKeepsUp
    <2> SUFFICES ASSUME IInv, open PROVE KeepsUp(live)
      BY DEF DenylistKeepsUp, KeepsUp, IInv, Typed, WorldType, Docs, Document
    <2> QED
      BY DEF IInv, DenylistInv
  <1> QED
    BY <1>1, Inductive, PTL

\* No client gets a token that is not on record, whatever is closed under its
\* request and however often the process ends (AI7).
THEOREM AnswersRecorded == Spec => []AnsweredIsRecorded
  <1>1. IInv => AnsweredIsRecorded
    BY DEF IInv
  <1> QED
    BY <1>1, Inductive, PTL

\* A subject token is exchanged once over all runs of the process, for any
\* requests, as long as they were over whenever the files were closed.
THEOREM SubjectsSpentOnce == Spec => []SpentOnceWhenDrained
  <1>1. IInv => SpentOnceWhenDrained
    BY DEF IInv, SpentInv, SpentOnceWhenDrained
  <1> QED
    BY <1>1, Inductive, PTL
=============================================================================
