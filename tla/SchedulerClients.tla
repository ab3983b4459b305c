--------------------------- MODULE SchedulerClients ---------------------------
(***************************************************************************)
(* The scheduler under arbitrary callers.  Any caller may make any call of *)
(* the scheduler's interface in any order with what it was handed: a       *)
(* prepared grant or transfer (moved into exactly one commit), the witness *)
(* of an open step, and every token ever granted, current or superseded.   *)
(* What holds here does not depend on how the host orders its calls.       *)
(***************************************************************************)
EXTENDS Scheduler

CONSTANTS
    Request,      \* ids of renew and release requests
    MaxLeases,    \* bound: lease ids minted
    MaxPrepared,  \* bound: preparations in flight
    MaxArrivals,  \* bound: queue entries ever made
    MaxSteps      \* bound: destructive steps ever opened

ASSUME ClientsAssumption ==
    /\ Request \subseteq Nat
    /\ {MaxLeases, MaxPrepared, MaxArrivals, MaxSteps} \subseteq Nat

VARIABLES
    prepared,  \* preparations not committed yet
    writes,    \* FencedWrite witnesses not finished yet
    tokens     \* every token handed to a holder

clientVars == <<prepared, writes, tokens>>
vars == <<schedVars, clientVars>>

PreparedLeaseType ==
    [type : {"acquire"}, token : TokenType, claim : Claim,
     closeOnly : BOOLEAN, fromQueue : BOOLEAN]
PreparedTransferType ==
    [type : {"transfer"}, from : LeaseType, entry : EntryType,
     token : TokenType, release : Request \cup {None}, handOff : BOOLEAN]
WitnessType == [token : TokenType, holder : Holder, step : StepType]

\* SeedScheduler::new with any set of instances to take over.
Init ==
    /\ now = 0
    /\ nextLease = 1
    /\ \E takeover \in SUBSET Instance : New(takeover, 1)
    /\ prepared = {}
    /\ writes = {}
    /\ tokens = {}

\* A call that prepares p.
Prepares(p) ==
    /\ nextLease <= MaxLeases
    /\ Cardinality(prepared) < MaxPrepared
    /\ prepared' = prepared \cup {p}
    /\ UNCHANGED <<writes, tokens>>

ClientAcquire(c, gate) ==
    PrepareAcquire(c, gate) /\ Prepares(PreparedLease(c, c.ttl, FALSE, FALSE))
ClientRefuse(c, gate) == RefuseAcquire(c, gate) /\ UNCHANGED clientVars
ClientDedicated(c, gate) ==
    /\ c.kind \in {"ResourceClose", "DaemonStartPreparation"}
    /\ PrepareDedicatedLease(c, gate)
    /\ Prepares(PreparedLease(c, LeaseTtl, TRUE, FALSE))
ClientQueuedGrant(i, gate) ==
    \E e \in queue[i] :
        /\ PrepareQueuedGrant(i, gate, e)
        /\ Prepares(PreparedLease(e.claim, e.claim.ttl, FALSE, TRUE))
ClientQueueLease(c, gate, immediate) ==
    /\ c.kind = "ClientLease"
    /\ \/ /\ RequestQueuedLease(c, gate, immediate)
          /\ Prepares(PreparedLease(c, LeaseTtl, FALSE, FALSE))
       \/ /\ nextArrival <= MaxArrivals
          /\ RequestQueuedEntry(c, gate, immediate)
          /\ UNCHANGED clientVars
       \/ RequestQueuedRefused(c, gate, immediate) /\ UNCHANGED clientVars
\* PolicyDispatch and LabOperation claims are never queued, dedicated leases neither.
Queueable == ClaimKind \ {"ClientLease", "PolicyDispatch", "LabOperation",
                          "ResourceClose", "DaemonStartPreparation"}
ClientEnqueue(c) ==
    /\ c.kind \in Queueable
    /\ nextArrival <= MaxArrivals
    /\ EnqueueClaim(c)
    /\ UNCHANGED clientVars
ClientUnqueue(c) ==
    /\ \/ c.kind = "ClientLease" /\ PollQueuedExpired(c)
       \/ CancelQueued(c)
    /\ UNCHANGED clientVars
ClientTransfer(t, gate) ==
    \E e \in queue[t.instance], r \in Request \cup {None}, preempted \in BOOLEAN :
        /\ preempted => r = None
        /\ PrepareTransfer(t, t.holder, gate, e, preempted)
        /\ Prepares(PreparedTransfer(t, e, r, FALSE))
ClientHandOff(t, c, gate) ==
    \E r \in Request \cup {None} :
        /\ c.kind \in {"Ladder", "StartupPackage"}
        /\ PrepareHandOff(t, t.holder, c, gate)
        /\ Prepares(PreparedTransfer(t, HandOffEntry(c), r, TRUE))

\* A commit consumes its preparation whether or not it is accepted.
CommitSucceeds(p) ==
    /\ \/ p.type = "acquire" /\ CommitAcquire(p)
       \/ p.type = "transfer" /\ CommitTransfer(p)
    /\ prepared' = prepared \ {p}
    /\ tokens' = tokens \cup {p.token}
    /\ UNCHANGED writes
CommitRefused(p) ==
    /\ IF p.type = "acquire" THEN ~AcquireCommittable(p) ELSE ~TransferCommittable(p)
    /\ prepared' = prepared \ {p}
    /\ UNCHANGED <<schedVars, writes, tokens>>

\* The steps of a holder on its token.
ClientBegin(t) ==
    /\ nextStep <= MaxSteps
    /\ \/ /\ BeginDestructiveStep(t, t.holder)
          /\ writes' = writes \cup {Witness(t, t.holder, "Business")}
       \/ /\ BeginResourceClose(t, t.holder)
          /\ writes' = writes \cup {Witness(t, t.holder, "ResourceClose")}
    /\ UNCHANGED <<prepared, tokens>>
\* finish_destructive_step takes the witness; a refused finish drops it too.
ClientFinish(w) ==
    /\ \/ FinishDestructiveStep(w)
       \/ /\ ~(HeldBy(w.token, w.holder) /\ lease[w.token.instance].step = w.step)
          /\ UNCHANGED schedVars
    /\ writes' = writes \ {w}
    /\ UNCHANGED <<prepared, tokens>>
ClientRenew(t) ==
    /\ \/ /\ \E r \in Request : Renew(t, t.holder, r)
          /\ tokens' = tokens \cup {RenewedToken(t, LeaseTtl)}
       \/ \E c \in Claim : /\ RenewWithTtl(t, t.holder, c.ttl)
                           /\ tokens' = tokens \cup {RenewedToken(t, c.ttl)}
    /\ UNCHANGED <<prepared, writes>>
ClientEnd(t) ==
    /\ \/ \E r \in Request : Release(t, t.holder, r)
       \/ ExpireToken(t)
       \/ ReleaseOwned(t, t.holder)
       \/ RollbackLease(t)
    /\ UNCHANGED clientVars

\* The host's sweeps over whole queues and the clock.
Sweep ==
    /\ \/ \E i \in Instance :
             \/ TakeExpired(i)
             \/ \E h \in Holder : RemoveForConnection(i, h)
             \/ RemoveForInstance(i)
             \/ RemoveForDrain(i)
       \/ ClearElapsedCooldowns
       \/ Tick
    /\ UNCHANGED clientVars

Next ==
    \/ \E c \in Claim, gate \in ClaimGate :
          \/ ClientAcquire(c, gate)
          \/ ClientRefuse(c, gate)
          \/ ClientDedicated(c, gate)
          \/ \E immediate \in BOOLEAN : ClientQueueLease(c, gate, immediate)
          \/ \E t \in tokens : ClientHandOff(t, c, gate)
    \/ \E i \in Instance, gate \in ClaimGate : ClientQueuedGrant(i, gate)
    \/ \E t \in tokens, gate \in ClaimGate : ClientTransfer(t, gate)
    \/ \E c \in Claim : ClientEnqueue(c) \/ ClientUnqueue(c)
    \/ \E p \in prepared : CommitSucceeds(p) \/ CommitRefused(p)
    \/ \E t \in tokens : ClientBegin(t) \/ ClientRenew(t) \/ ClientEnd(t)
    \/ \E w \in writes : ClientFinish(w)
    \/ Sweep

Spec == Init /\ [][Next]_vars

-----------------------------------------------------------------------------
\* Types of every variable of the scheduler and of its callers.
TypeOK ==
    /\ now \in 0..MaxTime
    /\ epoch \in Nat
    /\ lease \in [Instance -> LeaseType \cup {None}]
    /\ lastRelease \in [Instance -> ReleaseType \cup {None}]
    /\ cooldown \in [Instance -> Nat]
    /\ queue \in [Instance -> SUBSET EntryType]
    /\ locations \subseteq Nat \X Instance
    /\ {nextLease, nextArrival, nextStep} \subseteq Nat
    /\ prepared \subseteq PreparedLeaseType \cup PreparedTransferType
    /\ writes \subseteq WitnessType
    /\ tokens \subseteq TokenType

\* lease_locations and the leases never disagree: the map finds exactly the held
\* leases, each on its own instance, after any interleaving of grants, transfers,
\* renewals and ends (locate_token_instance trusts it for every token check).
LocationsExact ==
    locations = {<<lease[i].token.id, i>> : i \in {j \in Instance : lease[j] # None}}

\* A lease's preempt_requested is set exactly while a client entry of higher
\* priority heads its instance's queue, whatever was queued, expired, cancelled,
\* granted or transferred since (begin_destructive_step refuses new steps on it,
\* so a stale flag would stop a holder for good or let it ignore a preemption).
PreemptExact ==
    \A i \in Instance : lease[i] # None =>
        (lease[i].preempt <=> \E e \in queue[i] : /\ IsFirst(e, queue[i])
                                                  /\ Preempts(e, lease[i]))

\* Every queue stays within max_queue_depth_per_instance, holds only entries of
\* its instance, and no request waits twice, on any two instances; arrival
\* numbers are never shared, so the queue order is total (insert_queue_entry,
\* replay_queue_request, enqueue_claim).
QueueSound ==
    /\ \A i \in Instance : Cardinality(queue[i]) <= MaxDepth
    /\ \A i, j \in Instance : \A e \in queue[i], f \in queue[j] :
          /\ e.claim.instance = i
          /\ (e.claim = f.claim \/ e.arrival = f.arrival) => e = f

\* An outstanding write authority is always visible: while its lease is held, the
\* lease records the witness's step as open, through renewals and refused calls, so
\* no second step opens and every transfer is deferred (begin_destructive_step,
\* prepare_transfer_gated); step ids are never issued twice.
WritesVisible ==
    /\ \A w, v \in writes : w.step.id = v.step.id => w = v
    /\ \A w \in writes : LET l == lease[w.token.instance] IN
          l # None /\ l.token.id = w.token.id => l.step = w.step

\* A resource-close-only lease never opens a business step, and nobody gets one
\* by a transfer (prepare_dedicated_lease, validate_write, commit_transfer).
CloseOnlyFenced ==
    \A i \in Instance : lease[i] # None /\ lease[i].closeOnly =>
        /\ lease[i].kind \in {"ResourceClose", "DaemonStartPreparation"}
        /\ lease[i].step # None => lease[i].step.purpose = "ResourceClose"

\* The instance changes hands in one step only while no write authority of the old
\* lease is outstanding, although the transfer was prepared earlier and any calls
\* ran between (commit_transfer compares the whole lease with the prepared one).
HandoverBetweenSteps ==
    [][\A i \in Instance :
          /\ lease[i] # None /\ lease'[i] # None
          /\ lease[i].token.id # lease'[i].token.id
          => \A w \in writes : w.token.id # lease[i].token.id]_vars

\* A lease that ended never comes back: a lease id that becomes current was never
\* handed to a holder before, so a token of an ended lease stays refused for good,
\* however many stale preparations are committed after it.
NoRevival ==
    [][\A i \in Instance :
          /\ lease'[i] # None
          /\ lease[i] # None => lease[i].token.id # lease'[i].token.id
          => \A t \in tokens : t.id # lease'[i].token.id]_vars

\* A refused QueueLease drops no entry: request_queued_gated removes the expired
\* entries before it can refuse, and its error carries none of them, so an entry
\* removed there would never get its terminal record.  None can be: no entry with a
\* deadline waits on an instance in takeover cooldown, and a full queue lost none.
NoExpiryLost ==
    \A i \in Instance : LiveQueue(i) # queue[i] =>
        /\ lease[i] = None => cooldown[i] <= now
        /\ Cardinality(LiveQueue(i)) < MaxDepth

=============================================================================
