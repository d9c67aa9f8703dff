---------------------------- MODULE IdentityDocs ----------------------------
(***************************************************************************)
(* The documents the STS decides by: the agent registry                    *)
(* (internal/registry/registry.go) and the denylist                        *)
(* (internal/denylist/denylist.go), as pure functions of their contents.   *)
(*                                                                         *)
(* A registry is a function from the ids of its agents to their entries.   *)
(* from and until bound an entry's validity, 0 where the document sets no  *)
(* bound.                                                                  *)
(***************************************************************************)
EXTENDS Naturals

CONSTANTS Agent,      \* agent ids
          Workload,   \* attested workload ids
          Audience,   \* whom a token may be for: agents and resources
          Principal,  \* the users that delegate
          Scope       \* scope words

AgentEntry == [workloads : (SUBSET Workload) \ {{}}, 
               audiences : (SUBSET Audience) \ {{}},
               maxScopes : SUBSET Scope, 
               maxDepth : Nat \ {0},
               from : Nat, 
               until : Nat]

IsRegistry(registry) ==
    /\ DOMAIN registry \subseteq Agent
    /\ \A a \in DOMAIN registry : 
          /\ registry[a] \in AgentEntry
          /\ registry[a].from # 0 /\ registry[a].until # 0 
             => registry[a].from < registry[a].until

Denylist == [agents : SUBSET Agent, 
             workloads : SUBSET Workload,
             principals : SUBSET Principal]

\* Nothing is denied: the nil list, and the empty document.
NoDenials == [agents |-> {}, workloads |-> {}, principals |-> {}]

-----------------------------------------------------------------------------

\* The reason the registry refuses, in the order it looks, or "ok".
Authorize(registry, agent, workload, audience, now) ==
    IF agent \notin DOMAIN registry THEN "agent_not_registered"
    ELSE LET a == registry[agent]
         IN  CASE a.from # 0 /\ now < a.from -> "agent_not_yet_valid"
               [] a.from <= now /\ a.until # 0 /\ now >= a.until 
                     -> "agent_expired"
               [] OTHER ->
                    IF workload \notin a.workloads 
                    THEN "agent_not_authorized_on_workload"
                    ELSE IF audience \notin a.audiences 
                         THEN "audience_not_allowed"
                         ELSE "ok"

\* The STS checks the agent and the workload before it knows the principal.
DeniesAgent(denylist, agent) == agent \in denylist.agents
DeniesWorkload(denylist, workload) == workload \in denylist.workloads
DeniesPrincipal(denylist, principal) == principal \in denylist.principals

\* The gateway's check: the principal, the acting agent, and every hop but
\* the first position, which is the principal's.
DenyChain(denylist, principal, acting, hops) ==
    IF DeniesPrincipal(denylist, principal) THEN "principal_denied"
    ELSE IF \/ DeniesAgent(denylist, acting)
            \/ \E i \in DOMAIN hops : i # 1 /\ DeniesAgent(denylist, hops[i])
         THEN "agent_denied"
         ELSE "ok"

=============================================================================
