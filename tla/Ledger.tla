------------------------------- MODULE Ledger -------------------------------
(***************************************************************************)
(* What the token exchange promises to whoever presents or checks its      *)
(* tokens, whatever races, fails, reloads or restarts: a ledger to which   *)
(* each token is added in one step, as what its parent allowed at that     *)
(* time, which nothing changes later, and of which only what is on record  *)
(* gets out and can become a parent.                                       *)
(***************************************************************************)
EXTENDS Naturals, Sequences

CONSTANTS UserToken,  \* the tokens of the IdP
          Audience,   \* whom a token may be meant for
          None,       \* no transaction
          TTL,        \* lifetime of an entry
          ClockSkew,  \* tolerance of a parent's expiry
          MaxTime     \* bound on the clock

VARIABLES now,       \* the wall clock
          entries,   \* the tokens that were signed
          recorded,  \* the entries that the audit log knows
          released   \* the entries that reached a client

ledger == <<now, entries, recorded, released>>

Init == now = 1 /\ entries = <<>> /\ recorded = {} /\ released = {}

Tick ==
    /\ now < MaxTime
    /\ now' = now + 1
    /\ UNCHANGED <<entries, recorded, released>>

\* What an entry descends from: an earlier entry, or else a user token.
Parent(e) ==
    IF e.from # 0 THEN entries[e.from]
    ELSE [root |-> e.root, sub |-> e.root.sub, txn |-> e.root.txn,
          aud |-> e.root.aud, hops |-> <<>>, scope |-> e.root.scope,
          exp |-> e.root.exp]

\* Who may have got the parent.
Entitled(e) == IF e.from = 0 THEN e.root \in UserToken ELSE e.from \in released

\* The parent was meant for the agent that joins the hops, and still valid.
Delegated(e, given) ==
    /\ \E agent \in given.aud : e.hops = Append(given.hops, agent)
    /\ \E a \in Audience : e.aud = {a}
    /\ e.begun \in 0..now
    /\ e.begun <= given.exp + ClockSkew
    /\ e.exp = e.begun + TTL

\* The user stays the same and so does the transaction once there is one, and
\* the scope is within that of the parent if that has any.
Inherited(e, given) ==
    /\ e.root = given.root /\ e.sub = given.sub
    /\ e.txn = IF given.txn = None THEN Len(entries) + 1 ELSE given.txn
    /\ given.scope # {} => e.scope \subseteq given.scope

\* An entry was not the parent of another while it was valid.
Single(e, given) ==
    e.from # 0 =>
        /\ e.at \in e.begun..now
        /\ \A m \in DOMAIN entries : entries[m].from = e.from =>
              \/ e.at > given.exp + ClockSkew
              \/ entries[m].at > given.exp + ClockSkew

Delegate ==
    /\ Len(entries') = Len(entries) + 1
    /\ LET e == entries'[Len(entries) + 1]
       IN  /\ Entitled(e)
           /\ Delegated(e, Parent(e))
           /\ Inherited(e, Parent(e))
           /\ Single(e, Parent(e))
           /\ entries' = Append(entries, e)
    /\ UNCHANGED <<now, recorded, released>>

Record ==
    /\ \E n \in DOMAIN entries : recorded' = recorded \cup {n}
    /\ UNCHANGED <<now, entries, released>>

Release ==
    /\ \E n \in recorded : released' = released \cup {n}
    /\ UNCHANGED <<now, entries, recorded>>

Next == Tick \/ Delegate \/ Record \/ Release

Spec == Init /\ [][Next]_ledger
=============================================================================
