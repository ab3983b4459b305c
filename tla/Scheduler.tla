------------------------------ MODULE Scheduler ------------------------------
(***************************************************************************)
(* The seed scheduler of the Runtime (crates/scheduler/src/lib.rs): one    *)
(* lease per device instance, a priority queue of waiting claims, fenced   *)
(* destructive steps, two-phase grants and transfers, and the takeover     *)
(* cooldown of a restarted daemon.                                         *)
(*                                                                         *)
(* Each method of SeedScheduler that changes state is one action here, or  *)
(* one per outcome; the host calls every method under one mutex, so an     *)
(* action is one call.  A call that is refused without a change of state   *)
(* is not an action.  The module has no Next of its own: SchedulerClients  *)
(* lets arbitrary callers interleave the calls, HostLease calls them the   *)
(* way the daemon does.                                                    *)
(***************************************************************************)
EXTENDS Naturals, FiniteSets

CONSTANTS
    Instance,   \* device instances
    Holder,     \* lease holders; one holder has one connection
    Claim,      \* the claims (requests) that may be made, see ClaimType
    None,       \* the absent value of an Option
    Cooldown,   \* takeover_cooldown_ms
    LeaseTtl,   \* lease_ttl_ms of the configuration
    MaxDepth,   \* max_queue_depth_per_instance
    MaxTime     \* bound: the clock stops here

\* ClaimClass::Routine, HolderOwned, HostInternal and Operator.
Routine == {"PolicyDispatch", "Ladder", "StartupPackage"}
HolderOwned == {"LadderContinuation"}
HostInternal == {"Autostart", "DaemonStartPreparation", "ResourceClose"}
Operator == {"DirectTaskRun", "EmulatorControl", "InputLifecycle",
             "ResumeReconnect", "SelfCheck", "BackendSwitch",
             "LabOperation", "ClientLease"}
ClaimKind == Routine \cup HolderOwned \cup HostInternal \cup Operator

\* A ClaimGate is the set of kinds it holds back (ClaimGate::holds).
Open == {}
RoutineHeld == Routine
Silenced(routineHeld, autostart) ==
    (IF routineHeld THEN Routine ELSE {}) \cup {"StartupPackage"}
        \cup (IF autostart THEN {"Autostart"} ELSE {})
ClaimGate == {Open, RoutineHeld} \cup {Silenced(r, a) : r, a \in BOOLEAN}

\* A claim is a request with its content.  Replays repeat the content, so the
\* record also stands for the request id.  LeasePriority: 0 Normal, 1 High.
ClaimType == [id : Nat, instance : Instance, holder : Holder, kind : ClaimKind,
              priority : 0..1, ttl : Nat \ {0}, timeout : Nat \ {0}]

\* SchedulerConfig::validate, validate_claim_ttl: zero times and an empty queue
\* are rejected before the scheduler starts, a client lease has the configured
\* TTL; prepare_dedicated_lease asks with LeasePriority::Normal.
ASSUME ConfigAssumption ==
    /\ Claim \subseteq ClaimType
    /\ \A c \in Claim :
          /\ c.kind = "ClientLease" => c.ttl = LeaseTtl
          /\ c.kind \in {"ResourceClose", "DaemonStartPreparation"} => c.priority = 0
    /\ Cooldown \in Nat \ {0}
    /\ LeaseTtl \in Nat \ {0}
    /\ MaxDepth \in Nat \ {0}
    /\ MaxTime \in Nat

\* CLAIM_NO_DEADLINE_MONOTONIC_MS, a time the clock never reaches.
NoDeadline == MaxTime + 1

VARIABLES
    now,          \* the host's monotonic clock
    epoch,        \* owner_epoch
    lease,        \* instance -> LeaseEntry or None
    lastRelease,  \* instance -> ReleaseRecord or None
    cooldown,     \* instance -> cooldown_until_monotonic_ms, 0 when none
    queue,        \* instance -> set of QueueEntry, ordered by Before
    locations,    \* lease_locations, as pairs <<lease id, instance>>
    nextLease,    \* the lease id issuer
    nextArrival,  \* next_arrival_sequence
    nextStep      \* next_step_id

schedVars == <<now, epoch, lease, lastRelease, cooldown, queue, locations,
               nextLease, nextArrival, nextStep>>

-----------------------------------------------------------------------------
\* The records of the scheduler.

TokenType == [epoch : Nat, id : Nat, instance : Instance, holder : Holder,
              expires : Nat]
StepType == [id : Nat, purpose : {"Business", "ResourceClose"}]
RenewType == [request : Nat, submitted : TokenType, renewed : TokenType]
ReleaseType == [request : Nat, submitted : TokenType]
EntryType == [claim : Claim, arrival : Nat, deadline : Nat]
LeaseType == [token : TokenType, claim : Claim, kind : ClaimKind,
              closeOnly : BOOLEAN, renew : RenewType \cup {None},
              step : StepType \cup {None}, preempt : BOOLEAN]

\* An Option is told apart from its value.
ASSUME NoneAssumption ==
    None \notin LeaseType /\ None \notin StepType /\ None \notin RenewType

\* The token a grant mints now, with a fresh lease id.
MintedToken(c, ttl) ==
    [epoch |-> epoch, id |-> nextLease, instance |-> c.instance,
     holder |-> c.holder, expires |-> now + ttl]

\* sort_queue: the order of a queue; arrival numbers make it total.
Rank(e) == IF e.claim.kind \in HolderOwned THEN 0 ELSE 1
Before(e, f) ==
    \/ Rank(e) < Rank(f)
    \/ Rank(e) = Rank(f) /\ e.claim.priority > f.claim.priority
    \/ /\ Rank(e) = Rank(f)
       /\ e.claim.priority = f.claim.priority
       /\ e.arrival < f.arrival
IsFirst(e, q) == e \in q /\ \A f \in q \ {e} : Before(e, f)

\* QueueEntry::eligible, and the entries of an instance that are.
Live(e) == e.deadline > now
Eligible(q, gate) == {e \in q : Live(e) /\ e.claim.kind \notin gate}

\* QueueEntry.may_preempt: only a client QueueLease asks for a preemption.
MayPreempt(e) == e.claim.kind = "ClientLease"

\* refresh_preempt_requested, on a lease (or None) and its queue.
Preempts(e, l) == MayPreempt(e) /\ e.claim.priority > l.claim.priority
Refreshed(l, q) ==
    IF l = None THEN None
    ELSE [l EXCEPT !.preempt = \E e \in q : IsFirst(e, q) /\ Preempts(e, l)]

\* Mutant: a queue change that forgets the refresh.
SetQueueUnrefreshed(i, q) ==
    /\ queue' = [queue EXCEPT ![i] = q]
    /\ UNCHANGED lease
\* Replaces the queue of i; every such change refreshes the preemption request.
SetQueue(i, q) ==
    /\ queue' = [queue EXCEPT ![i] = q]
    /\ lease' = [lease EXCEPT ![i] = Refreshed(@, q)]

\* The lease_locations map after a removal and after an insertion.
Unlocated(id) == {l \in locations : l[1] # id}
Located(id, i) == Unlocated(id) \cup {<<id, i>>}

\* Mutant: only the leases are searched for the request.
UnknownToLeases(c) == \A i \in Instance : lease[i] # None => lease[i].claim # c
\* The request is neither a lease's acquire request nor queued anywhere.
Unknown(c) ==
    \A i \in Instance : /\ lease[i] # None => lease[i].claim # c
                        /\ \A e \in queue[i] : e.claim # c

\* validate_epoch, locate_token_instance and the token comparison: the token is
\* the whole current token of its instance's lease.
Current(t) ==
    /\ t.epoch = epoch
    /\ <<t.id, t.instance>> \in locations
    /\ lease[t.instance] # None
    /\ lease[t.instance].token = t
\* transferable_lease and connection_for_token.
HeldBy(t, h) == Current(t) /\ lease[t.instance].claim.holder = h
\* validate_active_lease.
ActiveLease(t, h) == HeldBy(t, h) /\ t.expires > now
\* validate_current_lease and validate_write.
ValidLease(t, h) == ActiveLease(t, h) /\ cooldown[t.instance] <= now
\* Mutant: the write check ignores resource_close_only.
ValidWriteAnyLease(t, h) == ValidLease(t, h)
ValidWrite(t, h) == ValidLease(t, h) /\ ~lease[t.instance].closeOnly

-----------------------------------------------------------------------------
\* Mutant: the cooldown is subtracted from the clock.
NewCooldownBefore(takeover, e) ==
    /\ epoch = e
    /\ lease = [i \in Instance |-> None]
    /\ lastRelease = [i \in Instance |-> None]
    /\ cooldown = [i \in Instance |-> IF i \in takeover THEN now - Cooldown ELSE 0]
    /\ queue = [i \in Instance |-> {}]
    /\ locations = {}
    /\ nextArrival = 1
    /\ nextStep = 1

\* SeedScheduler::new of a daemon that takes over the instances in takeover.
New(takeover, e) ==
    /\ epoch = e
    /\ lease = [i \in Instance |-> None]
    /\ lastRelease = [i \in Instance |-> None]
    /\ cooldown = [i \in Instance |-> IF i \in takeover THEN now + Cooldown ELSE 0]
    /\ queue = [i \in Instance |-> {}]
    /\ locations = {}
    /\ nextArrival = 1
    /\ nextStep = 1

\* Time passes.
Tick ==
    /\ now < MaxTime
    /\ now' = now + 1
    /\ UNCHANGED <<epoch, lease, lastRelease, cooldown, queue, locations,
                   nextLease, nextArrival, nextStep>>

-----------------------------------------------------------------------------
\* Immediate grants: prepare_acquire_with_policy, prepare_dedicated_lease,
\* prepare_queued_grant and commit_acquire.

\* A prepared grant of claim c.
PreparedLease(c, ttl, closeOnly, fromQueue) ==
    [type |-> "acquire", token |-> MintedToken(c, ttl), claim |-> c,
     closeOnly |-> closeOnly, fromQueue |-> fromQueue]

\* The checks of prepare_acquire_with_policy that end in a new preparation.
Acquirable(c, gate) ==
    /\ cooldown[c.instance] <= now
    /\ lease[c.instance] = None
    /\ Eligible(queue[c.instance], gate) = {}
    /\ c.kind \in gate => c.kind = "PolicyDispatch"

\* prepare_claim_acquire: granted preparation.
PrepareAcquire(c, gate) ==
    /\ Acquirable(c, gate)
    /\ nextLease' = nextLease + 1
    /\ cooldown' = [cooldown EXCEPT ![c.instance] = 0]
    /\ UNCHANGED <<now, epoch, lease, lastRelease, queue, locations,
                   nextArrival, nextStep>>

\* A refused try (or an existing lease's replay) still clears an elapsed cooldown.
RefuseAcquire(c, gate) ==
    /\ cooldown[c.instance] \in 1..now
    /\ ~Acquirable(c, gate)
    /\ cooldown' = [cooldown EXCEPT ![c.instance] = 0]
    /\ UNCHANGED <<now, epoch, lease, lastRelease, queue, locations,
                   nextLease, nextArrival, nextStep>>

\* refusing_count > 0: the entries that refuse a dedicated lease.
Refusing(i, gate) ==
    {e \in Eligible(queue[i], gate) : e.claim.kind \notin HolderOwned}

\* prepare_dedicated_lease: the inner try runs with the gate open.
DedicatedPreparable(c, gate) ==
    Refusing(c.instance, gate) = {} /\ Acquirable(c, Open)
PrepareDedicatedLease(c, gate) ==
    /\ Refusing(c.instance, gate) = {}
    /\ PrepareAcquire(c, Open)

\* prepare_queued_grant: the first eligible entry e of a free instance.
QueuedGrantable(i, gate, e) ==
    /\ lease[i] = None
    /\ cooldown[i] <= now
    /\ IsFirst(e, Eligible(queue[i], gate))
PrepareQueuedGrant(i, gate, e) ==
    /\ QueuedGrantable(i, gate, e)
    /\ nextLease' = nextLease + 1
    /\ UNCHANGED <<now, epoch, lease, lastRelease, cooldown, queue, locations,
                   nextArrival, nextStep>>

\* commit_acquire of a prepared grant p: its checks, then the new lease.
AcquireCommittable(p) ==
    LET i == p.token.instance IN
    /\ p.token.epoch = epoch
    /\ p.token.expires > now
    /\ cooldown[i] <= now
    /\ lease[i] = None
    /\ p.fromQueue => \E e \in queue[i] : e.claim = p.claim
GrantedLease(t, c, kind, closeOnly) ==
    [token |-> t, claim |-> c, kind |-> kind, closeOnly |-> closeOnly,
     renew |-> None, step |-> None, preempt |-> FALSE]
CommitAcquire(p) ==
    LET i == p.token.instance
        q == IF p.fromQueue THEN {e \in queue[i] : e.claim # p.claim}
                            ELSE queue[i]
        l == GrantedLease(p.token, p.claim, p.claim.kind, p.closeOnly)
    IN  /\ AcquireCommittable(p)
        /\ queue' = [queue EXCEPT ![i] = q]
        /\ lease' = [lease EXCEPT ![i] = Refreshed(l, q)]
        /\ lastRelease' = [lastRelease EXCEPT ![i] = None]
        /\ locations' = Located(p.token.id, i)
        /\ UNCHANGED <<now, epoch, cooldown, nextLease, nextArrival, nextStep>>

-----------------------------------------------------------------------------
\* Queueing: request_queued_gated, enqueue_claim, polls and removals.

\* insert_queue_entry: the depth check, then push, sort and refresh.
Insert(c, q, deadline) ==
    /\ Cardinality(q) < MaxDepth
    /\ SetQueue(c.instance, q \cup {[claim |-> c, arrival |-> nextArrival,
                                     deadline |-> deadline]})
    /\ nextArrival' = nextArrival + 1

\* take_expired_for_instance leaves these.
LiveQueue(i) == {e \in queue[i] : Live(e)}

\* A client QueueLease on a free instance where nobody eligible waits.
ImmediateGrant(c, gate, immediate) ==
    /\ immediate
    /\ lease[c.instance] = None
    /\ Eligible(queue[c.instance], gate) = {}

\* request_queued_gated, granted at once: expired entries go, a lease is prepared.
RequestQueuedLease(c, gate, immediate) ==
    /\ Unknown(c)
    /\ ImmediateGrant(c, gate, immediate)
    /\ cooldown[c.instance] <= now
    /\ SetQueue(c.instance, LiveQueue(c.instance))
    /\ cooldown' = [cooldown EXCEPT ![c.instance] = 0]
    /\ nextLease' = nextLease + 1
    /\ UNCHANGED <<now, epoch, lastRelease, locations, nextArrival, nextStep>>

\* Mutant: a request queues during the takeover cooldown.
QueuedInCooldown(c, gate, immediate) ==
    /\ Unknown(c)
    /\ ~ImmediateGrant(c, gate, immediate)
    /\ Insert(c, LiveQueue(c.instance), now + c.timeout)
    /\ UNCHANGED <<now, epoch, lastRelease, cooldown, locations, nextLease, nextStep>>

\* request_queued_gated, queued: expired entries go, the request goes in.
RequestQueuedEntry(c, gate, immediate) ==
    /\ Unknown(c)
    /\ ~ImmediateGrant(c, gate, immediate)
    /\ lease[c.instance] = None => cooldown[c.instance] <= now
    /\ Insert(c, LiveQueue(c.instance), now + c.timeout)
    /\ UNCHANGED <<now, epoch, lastRelease, cooldown, locations, nextLease, nextStep>>

\* request_queued_gated, refused (cooldown, queue full): expired entries are gone.
RequestQueuedRefused(c, gate, immediate) ==
    /\ Unknown(c)
    /\ \/ lease[c.instance] = None /\ cooldown[c.instance] > now
       \/ /\ ~ImmediateGrant(c, gate, immediate)
          /\ Cardinality(LiveQueue(c.instance)) >= MaxDepth
    /\ SetQueue(c.instance, LiveQueue(c.instance))
    /\ UNCHANGED <<now, epoch, lastRelease, cooldown, locations, nextLease,
                   nextArrival, nextStep>>

\* enqueue_claim: no deadline; a continuation only behind its own holder.
Enqueueable(c) ==
    /\ Unknown(c)
    /\ c.kind \in HolderOwned =>
           /\ lease[c.instance] # None
           /\ lease[c.instance].token.holder = c.holder
EnqueueClaim(c) ==
    /\ Enqueueable(c)
    /\ Insert(c, queue[c.instance], NoDeadline)
    /\ UNCHANGED <<now, epoch, lastRelease, cooldown, locations, nextLease, nextStep>>

\* Removes the entries of instance i that are in out.
RemoveQueued(i, out) ==
    /\ SetQueue(i, queue[i] \ out)
    /\ UNCHANGED <<now, epoch, lastRelease, cooldown, locations, nextLease,
                   nextArrival, nextStep>>

\* poll_queued and a replayed request_queued_gated of an entry past its deadline.
PollQueuedExpired(c) ==
    /\ \A i \in Instance : lease[i] # None => lease[i].claim # c
    /\ \E e \in queue[c.instance] :
          e.claim = c /\ ~Live(e) /\ RemoveQueued(c.instance, {e})

\* cancel_queued by the connection of the request.
CancelQueued(c) ==
    \E e \in queue[c.instance] : e.claim = c /\ RemoveQueued(c.instance, {e})

\* take_expired_for_instance (take_expired_queued does it for every instance).
TakeExpired(i) ==
    /\ LiveQueue(i) # queue[i]
    /\ RemoveQueued(i, queue[i] \ LiveQueue(i))

\* remove_queued_for_connection_on_instance (remove_queued_for_connection does it
\* for every instance), remove_queued_for_instance and remove_queued_for_drain.
RemoveForConnection(i, h) ==
    RemoveQueued(i, {e \in queue[i] : e.claim.holder = h})
RemoveForInstance(i) == RemoveQueued(i, queue[i])
RemoveForDrain(i) ==
    RemoveQueued(i, {e \in queue[i] : e.claim.kind \notin HolderOwned})

-----------------------------------------------------------------------------
\* Destructive steps.  A FencedWrite is the witness of one open step.

Witness(t, h, purpose) ==
    [token |-> t, holder |-> h, step |-> [id |-> nextStep, purpose |-> purpose]]
\* Mutant: a second step opens over the first.
OpenStepOverlapping(t, purpose) ==
    /\ lease' = [lease EXCEPT ![t.instance].step =
                    [id |-> nextStep, purpose |-> purpose]]
    /\ nextStep' = nextStep + 1
    /\ UNCHANGED <<now, epoch, lastRelease, cooldown, queue, locations,
                   nextLease, nextArrival>>
OpenStep(t, purpose) ==
    /\ lease[t.instance].step = None
    /\ lease' = [lease EXCEPT ![t.instance].step =
                    [id |-> nextStep, purpose |-> purpose]]
    /\ nextStep' = nextStep + 1
    /\ UNCHANGED <<now, epoch, lastRelease, cooldown, queue, locations,
                   nextLease, nextArrival>>

\* begin_destructive_step: refused while a preemption waits.
BeginDestructiveStep(t, h) ==
    /\ ValidWrite(t, h)
    /\ ~lease[t.instance].preempt
    /\ OpenStep(t, "Business")

\* begin_resource_close.
BeginResourceClose(t, h) == ValidLease(t, h) /\ OpenStep(t, "ResourceClose")

\* finish_destructive_step: the witness must name the open step of the current
\* token; the lease may have run past its expiry meanwhile.
FinishDestructiveStep(w) ==
    /\ HeldBy(w.token, w.holder)
    /\ lease[w.token.instance].step = w.step
    /\ lease' = [lease EXCEPT ![w.token.instance].step = None]
    /\ UNCHANGED <<now, epoch, lastRelease, cooldown, queue, locations,
                   nextLease, nextArrival, nextStep>>

-----------------------------------------------------------------------------
\* Transfers.

\* prepared_transfer: the lease as it is now, the entry it goes to, the release
\* request it answers (or None) and whether it bypasses the queue.
PreparedTransfer(t, e, release, handOff) ==
    [type |-> "transfer", from |-> lease[t.instance], entry |-> e,
     token |-> MintedToken(e.claim, e.claim.ttl), release |-> release,
     handOff |-> handOff]

\* Mutant: a transfer is prepared under an open step.
TransferableAnytime(t, h) == HeldBy(t, h)
\* transferable_lease outside a destructive step (TransferPreparation::Deferred
\* otherwise).
Transferable(t, h) == HeldBy(t, h) /\ lease[t.instance].step = None

PrepareToken == /\ nextLease' = nextLease + 1
                /\ UNCHANGED <<now, epoch, lease, lastRelease, cooldown, queue,
                               locations, nextArrival, nextStep>>

\* prepare_transfer_gated to the first eligible entry e; a preemption only goes
\* to a client entry of higher priority.
TransferCandidate(t, h, gate, e, preempted) ==
    /\ Transferable(t, h)
    /\ IsFirst(e, Eligible(queue[t.instance], gate))
    /\ preempted => Preempts(e, lease[t.instance])
PrepareTransfer(t, h, gate, e, preempted) ==
    TransferCandidate(t, h, gate, e, preempted) /\ PrepareToken

\* prepare_claim_hand_off: claim c takes the lease past the queue.
HandOffEntry(c) == [claim |-> c, arrival |-> 0, deadline |-> NoDeadline]
PrepareHandOff(t, h, c, gate) ==
    /\ c.instance = t.instance
    /\ Transferable(t, h)
    /\ c.kind \notin gate
    /\ Unknown(c)
    /\ PrepareToken

\* Mutant: the commit compares the token only.
TransferCommittableByToken(p) ==
    LET i == p.from.token.instance IN
    /\ p.from.token.epoch = epoch
    /\ p.token.expires > now
    /\ lease[i] # None
    /\ lease[i].token = p.from.token
    /\ IF p.handOff THEN \A e \in queue[i] : e.claim # p.entry.claim
                    ELSE p.entry \in queue[i]

\* commit_transfer: the lease and the entry must still be what was prepared.
TransferCommittable(p) ==
    LET i == p.from.token.instance IN
    /\ p.from.token.epoch = epoch
    /\ p.token.expires > now
    /\ lease[i] = p.from
    /\ IF p.handOff THEN \A e \in queue[i] : e.claim # p.entry.claim
                    ELSE p.entry \in queue[i]
TransferredKind(k) == IF k = "LadderContinuation" THEN "Ladder" ELSE k
ReleaseRecord(request, t) == [request |-> request, submitted |-> t]
CommitTransfer(p) ==
    LET i == p.from.token.instance
        q == queue[i] \ {p.entry}
        c == p.entry.claim
        l == GrantedLease(p.token, c, TransferredKind(c.kind), FALSE)
    IN  /\ TransferCommittable(p)
        /\ queue' = [queue EXCEPT ![i] = q]
        /\ lease' = [lease EXCEPT ![i] = Refreshed(l, q)]
        /\ lastRelease' = [lastRelease EXCEPT ![i] =
               IF p.release = None THEN None
               ELSE ReleaseRecord(p.release, p.from.token)]
        /\ locations' = {l2 \in locations : l2[1] \notin {p.from.token.id, p.token.id}}
                            \cup {<<p.token.id, i>>}
        /\ UNCHANGED <<now, epoch, cooldown, nextLease, nextArrival, nextStep>>

-----------------------------------------------------------------------------
\* Renewals and the ends of a lease.

\* The token a renewal puts in place of t: same lease id, new expiry.
RenewedToken(t, ttl) == [t EXCEPT !.expires = now + ttl]

\* replayed_renew answers request r from the record, without a change.
RenewReplayed(t, r) == /\ lease[t.instance] # None
                       /\ lease[t.instance].renew # None
                       /\ lease[t.instance].renew.request = r
\* Mutant: the renewed lease is rebuilt without its step.
RenewRebuilt(t, h, r) ==
    /\ ~RenewReplayed(t, r)
    /\ ActiveLease(t, h)
    /\ lease' = [lease EXCEPT ![t.instance] =
           [@ EXCEPT !.token = RenewedToken(t, LeaseTtl), !.step = None]]
    /\ UNCHANGED <<now, epoch, lastRelease, cooldown, queue, locations,
                   nextLease, nextArrival, nextStep>>
\* renew
Renew(t, h, r) ==
    /\ ~RenewReplayed(t, r)
    /\ ActiveLease(t, h)
    /\ lease' = [lease EXCEPT ![t.instance] =
           [@ EXCEPT !.token = RenewedToken(t, LeaseTtl),
                     !.renew = [request |-> r, submitted |-> t,
                                renewed |-> RenewedToken(t, LeaseTtl)]]]
    /\ UNCHANGED <<now, epoch, lastRelease, cooldown, queue, locations,
                   nextLease, nextArrival, nextStep>>

\* renew_with_ttl: a Runtime-held lease, without a replay record.
RenewWithTtl(t, h, ttl) ==
    /\ ActiveLease(t, h)
    /\ lease' = [lease EXCEPT ![t.instance].token = RenewedToken(t, ttl)]
    /\ UNCHANGED <<now, epoch, lastRelease, cooldown, queue, locations,
                   nextLease, nextArrival, nextStep>>

\* Mutant: the ended lease stays in lease_locations.
EndLeaseStillLocated(t, record) ==
    /\ lease' = [lease EXCEPT ![t.instance] = None]
    /\ lastRelease' = [lastRelease EXCEPT ![t.instance] = record]
    /\ UNCHANGED <<now, epoch, cooldown, queue, locations, nextLease, nextArrival,
                   nextStep>>
\* Ends the lease of t, leaving the given release record.
EndLease(t, record) ==
    /\ lease' = [lease EXCEPT ![t.instance] = None]
    /\ lastRelease' = [lastRelease EXCEPT ![t.instance] = record]
    /\ locations' = Unlocated(t.id)
    /\ UNCHANGED <<now, epoch, cooldown, queue, nextLease, nextArrival, nextStep>>

\* replayed_release answers request r from the record, without a change.
ReleaseReplayed(t, r) == /\ lastRelease[t.instance] # None
                         /\ lastRelease[t.instance].request = r
\* release
Release(t, h, r) ==
    /\ ~ReleaseReplayed(t, r)
    /\ ActiveLease(t, h)
    /\ EndLease(t, ReleaseRecord(r, t))

\* expire_token
ExpireToken(t) == Current(t) /\ t.expires <= now /\ EndLease(t, None)

\* release_owned: every end the Runtime owns, except an explicit release and expiry.
ReleaseOwned(t, h) == HeldBy(t, h) /\ EndLease(t, None)

\* Mutant: a lease rolled back gives its id back.
RollbackReturnsId(t) ==
    /\ Current(t)
    /\ lease' = [lease EXCEPT ![t.instance] = None]
    /\ lastRelease' = [lastRelease EXCEPT ![t.instance] = None]
    /\ locations' = Unlocated(t.id)
    /\ nextLease' = t.id
    /\ UNCHANGED <<now, epoch, cooldown, queue, nextArrival, nextStep>>

\* rollback_lease
RollbackLease(t) == Current(t) /\ EndLease(t, None)

\* protected_instance_ids: what the owner file lists for the next daemon.
Protected == {i \in Instance : lease[i] # None \/ cooldown[i] > now}

\* clear_elapsed_cooldowns
Elapsed == {i \in Instance : cooldown[i] \in 1..now}
ClearElapsedCooldowns ==
    /\ Elapsed # {}
    /\ cooldown' = [i \in Instance |-> IF i \in Elapsed THEN 0 ELSE cooldown[i]]
    /\ UNCHANGED <<now, epoch, lease, lastRelease, queue, locations,
                   nextLease, nextArrival, nextStep>>

=============================================================================
