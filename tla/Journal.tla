------------------------------- MODULE Journal -------------------------------
(***************************************************************************)
(* What an append-only log promises to those who rely on its answers,      *)
(* whatever fails and however often its process or machine dies: events    *)
(* are added at the end, the latest may be acknowledged, and only a tail   *)
(* of which nothing was acknowledged can be lost.                          *)
(***************************************************************************)
EXTENDS Naturals, Sequences

CONSTANT Event

VARIABLES events,  \* what was written and not lost, in order
          acked    \* the positions of those that were acknowledged

journal == <<events, acked>>

Init == events = <<>> /\ acked = {}

Write(e) ==
    /\ events' = Append(events, e)
    /\ UNCHANGED acked

\* Whoever is answered is answered for what it wrote last.
Acknowledge ==
    /\ events # <<>> /\ Len(events) \notin acked
    /\ acked' = acked \cup {Len(events)}
    /\ UNCHANGED events

Lose ==
    /\ \E n \in 0..Len(events) :
          acked \subseteq 1..n /\ events' = SubSeq(events, 1, n)
    /\ UNCHANGED acked

Next == (\E e \in Event : Write(e)) \/ Acknowledge \/ Lose

Spec == Init /\ [][Next]_journal
=============================================================================
