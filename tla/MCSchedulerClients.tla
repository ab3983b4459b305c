------------------------- MODULE MCSchedulerClients -------------------------
(* Small instances of SchedulerClients for TLC. *)
EXTENDS SchedulerClients

CONSTANTS i1, i2, h1, h2, h3, h4

MCClaim(id, i, h, kind, priority) ==
    [id |-> id, instance |-> i, holder |-> h, kind |-> kind,
     priority |-> priority, timeout |-> 1, ttl |-> LeaseTtl]

Client == MCClaim(1, i1, h1, "ClientLease", 1)

\* Another client of a lower priority.
TwoClients == {Client, MCClaim(2, i1, h2, "ClientLease", 0)}

\* A client that also waits on another instance; a ladder and its continuation; a
\* pause close and a startup package.
TwoInstances == TwoClients \cup {MCClaim(3, i2, h2, "ClientLease", 0)}
LadderClaims == {Client, MCClaim(4, i1, h3, "Ladder", 1),
                 MCClaim(5, i1, h3, "LadderContinuation", 1)}
CloseClaims == {Client, MCClaim(6, i1, h4, "StartupPackage", 1),
                MCClaim(7, i1, h4, "ResourceClose", 0)}
MixedClaims == TwoInstances \cup LadderClaims \cup CloseClaims

\* Bound: beside the first client the callers of a behaviour are of one of the groups, each
\* with its own number of steps, leases and outstanding preparations and its own time, and no
\* other instance is in cooldown.
CallsOf(claims) == {<<c.holder, c.instance>> : c \in claims}
Group(claims, steps, leases, preparations, time) ==
    [calls |-> CallsOf(claims), instances |-> {c.instance : c \in claims}, steps |-> steps,
     leases |-> leases, preparations |-> preparations, time |-> time]
Groups == {Group(TwoClients, 1, 2, 2, 1), Group(TwoClients, 0, 1, 1, 2),
           Group(TwoInstances, 1, 1, 1, 1), Group(LadderClaims, 1, 2, 1, 1),
           Group(CloseClaims, 1, 2, 1, 1), Group(CloseClaims, 2, 1, 1, 1)}
Calls == CallsOf(tokens) \cup CallsOf({p.token : p \in prepared})
             \cup UNION {CallsOf({e.claim : e \in queue[i]}) : i \in Instance}
OneGroup ==
    LET calls == Calls
    IN  \E g \in Groups : /\ now <= g.time
                          /\ nextStep <= g.steps + 1
                          /\ nextLease <= g.leases + 1
                          /\ Cardinality(prepared) <= g.preparations
                          /\ calls \subseteq g.calls
                          /\ \A i \in Instance : cooldown[i] > 0 => i \in g.instances
=============================================================================
