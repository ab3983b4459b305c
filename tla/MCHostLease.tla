------------------------------ MODULE MCHostLease ------------------------------
(* Small instances of HostLease for TLC. *)
EXTENDS HostLease

CONSTANTS i1, h1, h2, h3

MCClaim(id, h, kind, priority) ==
    [id |-> id, instance |-> i1, holder |-> h, kind |-> kind,
     priority |-> priority, timeout |-> 1, ttl |-> LeaseTtl]

Low == MCClaim(1, h1, "ClientLease", 0)
High == MCClaim(2, h2, "ClientLease", 1)
OperatorRun == MCClaim(3, h2, "DirectTaskRun", 0)
Ladder == MCClaim(4, h3, "Ladder", 1)

\* Two clients, one of which preempts the other, and a client beside an operator's
\* task run.
AllClaims == {Low, High, OperatorRun}
Preempting == [claims |-> {Low, High}, capacity |-> {TRUE}]
WithOperator == [claims |-> {Low, OperatorRun}, capacity |-> BOOLEAN]

\* Safety: the operator's claim meets capacity that comes and goes.
Contended == {Preempting, WithOperator}
\* Of such settings it is proved that nothing halts the Runtime.
ASSUME ContendedPrudent == \A s \in Contended : PrudentSetting(s)
\* Liveness: there is capacity.
Unhindered == {Preempting, [WithOperator EXCEPT !.capacity = {TRUE}]}
\* A preemption without capacity.
Hindered == {[Preempting EXCEPT !.capacity = BOOLEAN]}

\* A recovery ladder's claim waits before a client of the same priority.
LadderClaims == {Low, High, Ladder}
BehindLadder == {[claims |-> LadderClaims, capacity |-> {TRUE}]}
=============================================================================
