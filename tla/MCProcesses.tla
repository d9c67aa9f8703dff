----------------------------- MODULE MCProcesses -----------------------------
(* What a process does from its start to its end.  A behaviour is one of     *)
(* three parts:                                                              *)
(*   "reload": one operator edits files and signals; the second ring of its  *)
(*             three activates a key that the first has published, the third *)
(*             one a key that nobody has seen;                               *)
(*   "stop":   two requests while the process stops and starts again;        *)
(*   "files":  the check of the identity files that a process is given.      *)
(* The first two restrict the steps of Serve and add none.                   *)
EXTENDS Serve

CONSTANTS k1, k2, k3, None

VARIABLES part, fs, paths, at, opened

identity == <<fs, paths, at, opened>>

mcVars == <<vars, part, identity>>

Current == [kids |-> {k1, k2}, active |-> k1]
Switched == [kids |-> {k1, k2}, active |-> k2]
Unseen == [kids |-> {k1, k3}, active |-> k3]

MCRing == {Current, Switched, Unseen}

-----------------------------------------------------------------------------
(* A directory d with a directory s; a link l to either of them; and files f, *)
(* d/f and d/g, each of which may be missing, a file, or a link to another.   *)
(* Among them are those that RejectAliased gets wrong: l/../f, and d/f that   *)
(* goes through l, when l leads to d.                                         *)

Absent == [kind |-> "absent"]
Dir == [kind |-> "dir"]
File(ino) == [kind |-> "file", ino |-> ino]
Link(rooted, path) == [kind |-> "link", rooted |-> rooted, path |-> path]

FS(link, f, df, dg) ==
    [p \in {<<"d">>, <<"d", "s">>, <<"l">>, <<"f">>, <<"d", "f">>, <<"d", "g">>} |->
        CASE p = <<"l">> -> link
          [] p = <<"f">> -> f
          [] p = <<"d", "f">> -> df
          [] p = <<"d", "g">> -> dg
          [] OTHER -> Dir]

Links == {Absent, Link(TRUE, <<"d">>), Link(FALSE, <<"d", "s">>)}
Fs == {Absent, File(1), Link(FALSE, <<"d", "g">>), Link(FALSE, <<"f">>), 
       Link(TRUE, <<"d", "s", "f">>)}
DFs == {Absent, File(1), Link(FALSE, <<"g">>), Link(FALSE, <<"..", "f">>),
        Link(TRUE, <<"l", "g">>)}
DGs == {Absent, File(1), File(2), Link(FALSE, <<"f">>)}

MCFileSystems == {FS(l, f, df, dg) : l \in Links, f \in Fs, df \in DFs, dg \in DGs}

Paths == {<<"f">>, <<"d", "f">>, <<"d", "g">>, <<"l", "f">>, <<"l", "g">>, 
          <<"d", "s", "f">>, <<"x", "f">>, <<"d", "..", "f">>, <<"l", "..", "f">>}

MCArguments == {<<a, b>> : a \in Paths, b \in Paths} \cup
               {<<a, b, <<"f">>>> : a \in Paths, b \in Paths}

Identity == INSTANCE IdentFiles 
            WITH FileSystems <- MCFileSystems, Arguments <- MCArguments,
                 files <- paths, pc <- at

-----------------------------------------------------------------------------

MCInit ==
    /\ Init
    /\ \/ part = "files" /\ Identity!Init
       \/ /\ part \in {"reload", "stop"} 
          /\ fs = None /\ paths = None /\ at = None /\ opened = <<>>
    /\ part # "stop" => token = [h \in Handler |-> CHOOSE t \in Token : TRUE]

Stay == part \in {"reload", "stop"} /\ UNCHANGED <<part, identity>>

\* Outside part "reload" there is no edit, outside part "stop" no request.
Serving == 
    \/ Stay /\ part = "reload" 
       /\ \E d \in Document : \E text \in Texts(d) \cup {Bad} : Edit(d, text)
    \/ Stay /\ Killed
    \/ Stay /\ Start
    \/ Stay /\ Hangup
    \/ Stay /\ Terminate
    \/ Stay /\ ListenerFails
    \/ Stay /\ Load
    \/ Stay /\ Install
    \/ Stay /\ Listen
    \/ Stay /\ BeginReload
    \/ Stay /\ BeginShutdown
    \/ Stay /\ Drained
    \/ Stay /\ Timeout
    \/ Stay /\ CloseReplay
    \/ Stay /\ CloseLog
    \/ Stay /\ Exit
    \/ \E h \in Handler : 
          \/ Stay /\ part = "stop" /\ \E t \in Token : Admit(h, t)
          \/ Stay /\ Consume(h)
          \/ Stay /\ Replayed(h)
          \/ Stay /\ AppendEvent(h)
          \/ Stay /\ Answer(h)

Checking == part = "files" /\ UNCHANGED <<vars, part>>

MCNext ==
    \/ Serving
    \/ Checking /\ Identity!Check
    \/ Checking /\ Identity!Open

MCSpec == MCInit /\ [][MCNext]_mcVars /\ Fairness

-----------------------------------------------------------------------------
(* Identity files *)

\* As long as no path leaves a link by "..", two of the exclusive files of a
\* process that starts are never one; and as long as none goes through one link
\* twice either, files that are several are accepted (RejectAliased).  With such 
\* a path a file may be opened twice, or several refused (resolvePath).
OnlyAliasesRefused == part = "files" => Identity!OnlyAliasesRefused
=============================================================================
