---------------------------- MODULE ResourceFence ----------------------------
(***************************************************************************)
(* The resource fence of one instance (runtime-host/src/host/              *)
(* resource_fence.rs): work that leaves the instance's device resources    *)
(* unconfirmed fences it, the lease sweep hands the fence to a recovery    *)
(* ladder or to a person, the end of a ladder decides, a fence that waits  *)
(* for a person is rechecked, and a preparation whose self-check passes    *)
(* lifts it.                                                               *)
(*                                                                         *)
(* Four threads meet here: the lease sweep, the instance's worker (ladders *)
(* and rechecks), whoever holds the key otherwise, and whoever pumps.      *)
(* Each step holds one lock of the code, so a thread acts on what it read  *)
(* under the lock before.  The scheduler is reduced to the key and a queue *)
(* in grant order; Scheduler and HostLease have the rest of it.            *)
(***************************************************************************)
EXTENDS Integers, Sequences, FiniteSets

CONSTANTS
    None,
    MaxAttempts,    \* recovery_ladder.fence_recheck.max_attempts
    QueueLimit,     \* entries an instance's queue takes
    Requesters,     \* the claims others make, a subset of Requester
    LadderFences,   \* whether a ladder's own work, or its lease's end, may fence
    Blackouts,      \* whether a blackout may cover the instance
    MaxRequests,    \* bound: claims made by others
    MaxFences       \* bound: failures that fence

Requester == {"ClientLease", "PolicyRun", "SelfCheck", "Ladder", "PlanDrill"}

ASSUME FenceAssumption ==
    /\ {MaxAttempts, QueueLimit, MaxRequests, MaxFences} \subseteq Nat
    /\ Requesters \subseteq Requester
    /\ {LadderFences, Blackouts} \subseteq BOOLEAN

\* A claim: attempt is the number of a recheck and 0 for every other claim; forFence
\* marks the ladder of the trigger stage resource_fence, drill a plan drill.
ClaimOf(kind, forFence, drill, attempt) ==
    [kind |-> kind, forFence |-> forFence, drill |-> drill, attempt |-> attempt]

Claim == [kind: {"ClientLease", "PolicyRun", "SelfCheck", "Ladder"},
          forFence: BOOLEAN, drill: BOOLEAN, attempt: 0..MaxAttempts]

RequestOf(requester) ==
    ClaimOf(IF requester = "PlanDrill" THEN "Ladder" ELSE requester,
            FALSE, requester = "PlanDrill", 0)

\* Work of the instance's worker: ladders and rechecks.
OnWorker(c) == c.kind = "Ladder" \/ c.attempt > 0

\* Kinds the routine gate holds (gated_by_pause).
Routine(c) == c.kind \in {"Ladder", "PolicyRun"}

VARIABLES
    fence,     \* the instance's entry of resource_fences, or None
    key,       \* the claim that holds the instance's lease, or None
    queue,     \* the claims that wait, in order of arrival
    posted,    \* the worker's channel
    worker,    \* the payload the worker runs and where it is in it
    sweep,     \* where the lease sweep is, and the recheck it is queueing
    pump,      \* the routine gate a pump has read, or "none"
    fencing,   \* a fence_instance between its reading and its entry
    blackout,  \* a blackout covers the instance
    requests, fences   \* counted for the bounds

vars == <<fence, key, queue, posted, worker, sweep, pump, fencing, blackout,
          requests, fences>>

\* What the fence, the scheduler and the threads are to each other.
Idle == [at |-> "idle", claim |-> None, holds |-> FALSE, failed |-> FALSE]

SweepAt == {"tick", "judge", "admit", "mark", "hand", "enqueue", "confirm", "await",
            "silence", "due", "queue", "refused", "drop"}

WorkerAt == {"idle", "climb", "decide", "begin", "prepare", "release", "settle"}

\* A fence with no wait for a person; the wait's fields then have their first values.
Staged(stage) == [stage |-> stage, attempts |-> 0, recheck |-> "Idle", due |-> FALSE]

Fence == [stage: {"Pending", "Ladder", "Person"}, attempts: 0..MaxAttempts,
          recheck: {"Idle", "Queued", "Preparing"}, due: BOOLEAN]

\* The types, and a wait for a person only in the stage that has one.
FenceTypeOK ==
    /\ fence \in Fence \cup {None}
    /\ key \in Claim \cup {None}
    /\ queue \in Seq(Claim) /\ Len(queue) <= QueueLimit
    /\ posted \in Seq(Claim)
    /\ worker \in [at: WorkerAt, claim: Claim \cup {None}, holds: BOOLEAN,
                  failed: BOOLEAN]
    /\ sweep \in [at: SweepAt, attempt: 0..MaxAttempts]
    /\ pump \in {"none", "open", "held"}
    /\ fencing \in {None} \cup ({"worker", "holder"} \X BOOLEAN)
    /\ blackout \in BOOLEAN
    /\ requests \in 0..MaxRequests /\ fences \in 0..MaxFences
    /\ fence # None /\ fence.stage # "Person" => fence = Staged(fence.stage)

Init ==
    /\ fence = None /\ key = None
    /\ queue = <<>> /\ posted = <<>>
    /\ worker = Idle
    /\ sweep = [at |-> "tick", attempt |-> 0]
    /\ pump = "none" /\ fencing = None
    /\ blackout = FALSE
    /\ requests = 0 /\ fences = 0

LadderActive ==
    \/ key # None /\ key.kind = "Ladder"
    \/ \E n \in DOMAIN queue : queue[n].kind = "Ladder"

HoldsRoutine == fence # None /\ fence.stage # "Ladder"

AwaitingPerson ==
    IF fence = None \/ fence.stage = "Person" THEN fence ELSE Staged("Person")

-----------------------------------------------------------------------------
\* The key and the queue.

\* A claim is taken into the queue, or refused by a full one; one the code grants at
\* once is granted by the next pump.
Enqueued(c) == queue' = Append(queue, c)

\* Someone claims the key.  A ladder is admitted when none holds or waits for the
\* instance and no blackout covers it, and so is a drill.
Request(requester) ==
    /\ requests < MaxRequests
    /\ Len(queue) < QueueLimit
    /\ requester \in {"Ladder", "PlanDrill"} => ~LadderActive /\ ~blackout
    /\ requests' = requests + 1
    /\ Enqueued(RequestOf(requester))
    /\ UNCHANGED <<fence, key, posted, worker, sweep, pump, fencing, blackout, fences>>

\* pump reads the routine gate before the scheduler's lock.
PumpReadGate ==
    /\ pump = "none"
    /\ key = None /\ queue # <<>>
    /\ pump' = IF HoldsRoutine THEN "held" ELSE "open"
    /\ UNCHANGED <<fence, key, queue, posted, worker, sweep, fencing, blackout,
                   requests, fences>>

Eligible == {n \in DOMAIN queue : pump = "open" \/ ~Routine(queue[n])}

\* Ladders come first (LeasePriority::High), then the order of arrival.
Ahead(m, n) ==
    \/ queue[m].kind = "Ladder" /\ queue[n].kind # "Ladder"
    \/ (queue[m].kind = "Ladder" <=> queue[n].kind = "Ladder") /\ m <= n

Without(n) ==
    [i \in 1..Len(queue) - 1 |-> IF i < n THEN queue[i] ELSE queue[i + 1]]

\* The first eligible entry of a free instance gets the key; the worker's work is
\* posted to it.
PumpGrant ==
    /\ pump # "none"
    /\ pump' = "none"
    /\ IF key = None /\ Eligible # {}
       THEN LET n == CHOOSE m \in Eligible : \A l \in Eligible : Ahead(m, l) IN
            /\ key' = queue[n]
            /\ queue' = Without(n)
            /\ posted' = IF OnWorker(queue[n]) THEN Append(posted, queue[n]) ELSE posted
       ELSE UNCHANGED <<key, queue, posted>>
    /\ UNCHANGED <<fence, worker, sweep, fencing, blackout, requests, fences>>

\* The lease of the payload the worker runs lapses under it.
KeyLapses ==
    /\ worker.holds
    /\ key' = None
    /\ worker' = [worker EXCEPT !.holds = FALSE]
    /\ UNCHANGED <<fence, queue, posted, sweep, pump, fencing, blackout,
                   requests, fences>>

BlackoutTurns ==
    /\ Blackouts
    /\ blackout' = ~blackout
    /\ UNCHANGED <<fence, key, queue, posted, worker, sweep, pump, fencing, requests,
                   fences>>

-----------------------------------------------------------------------------
\* Fencing and lifting.

\* fence_instance reads whether manual work holds the key.
FenceRead(by) ==
    /\ fencing = None
    /\ fences < MaxFences
    /\ fences' = fences + 1
    /\ fencing' = <<by, key # None /\ key.kind = "ClientLease">>
    /\ UNCHANGED <<fence, key, queue, posted, worker, sweep, pump, blackout, requests>>

\* ... and enters the fence unless one holds; manual work's waits for a person at once.
FenceEnter ==
    /\ fencing # None
    /\ fencing' = None
    /\ fence' = IF fence = None
                THEN Staged(IF fencing[2] THEN "Person" ELSE "Pending")
                ELSE fence
    /\ UNCHANGED <<key, queue, posted, worker, sweep, pump, blackout, requests, fences>>

Fencing(by) == fencing # None /\ fencing[1] = by

\* The holder of the key, when it is not the worker: its work fences the instance, a
\* person's self-check passes, it releases the key.
Holding == key # None /\ ~OnWorker(key) /\ ~Fencing("holder")

HolderFences == Holding /\ FenceRead("holder")

HolderLifts ==
    /\ Holding /\ key.kind = "SelfCheck"
    /\ fence # None
    /\ fence' = None
    /\ UNCHANGED <<key, queue, posted, worker, sweep, pump, fencing, blackout,
                   requests, fences>>

HolderReleases ==
    /\ Holding
    /\ key' = None
    /\ UNCHANGED <<fence, queue, posted, worker, sweep, pump, fencing, blackout,
                   requests, fences>>

\* An interval of the wait's recheck passes.
IntervalPasses ==
    /\ fence # None /\ fence.stage = "Person" /\ fence.recheck = "Idle"
    /\ ~fence.due
    /\ fence' = [fence EXCEPT !.due = TRUE]
    /\ UNCHANGED <<key, queue, posted, worker, sweep, pump, fencing, blackout,
                   requests, fences>>

-----------------------------------------------------------------------------
\* The instance's worker.

AtWork(at) == worker.at = at /\ ~Fencing("worker")

WorkerTakes ==
    /\ worker = Idle /\ posted # <<>>
    /\ worker' = [at |-> IF Head(posted).kind = "Ladder" THEN "climb" ELSE "begin",
                  claim |-> Head(posted), holds |-> TRUE, failed |-> FALSE]
    /\ posted' = Tail(posted)
    /\ UNCHANGED <<fence, key, queue, sweep, pump, fencing, blackout, requests, fences>>

\* A climb that finds its fence lifted, or a blackout, ends at once; a drill acts on
\* nothing.  Otherwise its rungs prepare the instance again, which lifts the fence, or
\* fail, and their own checks may fence it.
Climbs == AtWork("climb") /\ ~worker.claim.drill /\ ~blackout
          /\ (worker.claim.forFence => fence # None)

ClimbFences ==
    /\ LadderFences
    /\ Climbs
    /\ FenceRead("worker")

ClimbLifts ==
    /\ Climbs
    /\ fence # None
    /\ fence' = None
    /\ UNCHANGED <<key, queue, posted, worker, sweep, pump, fencing, blackout,
                   requests, fences>>

ClimbEnds ==
    /\ AtWork("climb")
    /\ worker' = [worker EXCEPT !.at = "decide"]
    /\ UNCHANGED <<fence, key, queue, posted, sweep, pump, fencing, blackout,
                   requests, fences>>

\* The end of a ladder, before its key's release: the fence it leaves waits for a
\* person; a plan drill leaves the stage as it was.
LadderDecided ==
    /\ AtWork("decide")
    /\ worker' = [worker EXCEPT !.at = "release"]
    /\ fence' = IF worker.claim.drill THEN fence ELSE AwaitingPerson
    /\ UNCHANGED <<key, queue, posted, sweep, pump, fencing, blackout, requests, fences>>

\* A recheck superseded, or whose fence was lifted while its claim waited, runs nothing.
RecheckBegins ==
    /\ AtWork("begin")
    /\ LET current == /\ fence # None
                      /\ fence.recheck = "Queued"
                      /\ fence.attempts = worker.claim.attempt
       IN /\ worker' = [worker EXCEPT !.at = IF current THEN "prepare" ELSE "release"]
          /\ fence' = IF current THEN [fence EXCEPT !.recheck = "Preparing"] ELSE fence
    /\ UNCHANGED <<key, queue, posted, sweep, pump, fencing, blackout, requests, fences>>

\* An unconfirmed close of the recheck's own preparation.
RecheckFences ==
    /\ AtWork("prepare")
    /\ FenceRead("worker")

RecheckPasses ==
    /\ AtWork("prepare")
    /\ fence' = None
    /\ worker' = [worker EXCEPT !.at = "release"]
    /\ UNCHANGED <<key, queue, posted, sweep, pump, fencing, blackout, requests, fences>>

RecheckFails ==
    /\ AtWork("prepare")
    /\ worker' = [worker EXCEPT !.at = "release", !.failed = TRUE]
    /\ UNCHANGED <<fence, key, queue, posted, sweep, pump, fencing, blackout,
                   requests, fences>>

\* The lease's end closes the device session first; a close it cannot confirm fences
\* the instance while the key is still the worker's.
ReleaseFences ==
    /\ LadderFences
    /\ AtWork("release") /\ worker.holds
    /\ FenceRead("worker")

WorkerReleases ==
    /\ AtWork("release")
    /\ key' = IF worker.holds THEN None ELSE key
    /\ worker' = IF worker.failed
                 THEN [worker EXCEPT !.at = "settle", !.holds = FALSE]
                 ELSE Idle
    /\ UNCHANGED <<fence, queue, posted, sweep, pump, fencing, blackout, requests, fences>>

\* settle_fence_recheck: the wait's next recheck counts its interval from now.
Settled(attempt) ==
    IF fence # None /\ fence.attempts = attempt /\ fence.recheck # "Idle"
    THEN [fence EXCEPT !.recheck = "Idle", !.due = FALSE]
    ELSE fence

RecheckSettles ==
    /\ AtWork("settle")
    /\ fence' = Settled(worker.claim.attempt)
    /\ worker' = Idle
    /\ UNCHANGED <<key, queue, posted, sweep, pump, fencing, blackout, requests, fences>>

Worker ==
    \/ WorkerTakes
    \/ ClimbFences \/ ClimbLifts \/ ClimbEnds \/ LadderDecided
    \/ RecheckBegins \/ RecheckFences \/ RecheckPasses \/ RecheckFails
    \/ ReleaseFences \/ WorkerReleases \/ RecheckSettles

-----------------------------------------------------------------------------
\* The lease sweep: hand_resource_fences_to_ladders, recheck_resource_fences and
\* sweep_blackout_silence of one tick.

Sweeps(from, to) == sweep.at = from /\ sweep' = [sweep EXCEPT !.at = to]

\* The fences not handed on yet are listed before the first of them is judged.
SweepLists ==
    /\ Sweeps("tick", IF fence # None /\ fence.stage = "Pending"
                      THEN "judge" ELSE "silence")
    /\ UNCHANGED <<fence, key, queue, posted, worker, pump, fencing, blackout,
                   requests, fences>>

SweepJudges ==
    /\ Sweeps("judge", IF LadderActive THEN "mark" ELSE "admit")
    /\ UNCHANGED <<fence, key, queue, posted, worker, pump, fencing, blackout,
                   requests, fences>>

\* Mutant: a fence no ladder may take is left as it is.
SweepAdmitsOrLeaves ==
    /\ \/ Sweeps("admit", "silence")
       \/ ~blackout /\ ~LadderActive /\ Sweeps("admit", "hand")
    /\ UNCHANGED <<fence, key, queue, posted, worker, pump, fencing, blackout,
                   requests, fences>>

\* resource_fence_ladder: refused inside a blackout and behind another ladder, and
\* for reasons the model leaves open (recovery off, paused, no capacity, cooling down).
SweepAdmits ==
    /\ \/ Sweeps("admit", "await")
       \/ ~blackout /\ ~LadderActive /\ Sweeps("admit", "hand")
    /\ UNCHANGED <<fence, key, queue, posted, worker, pump, fencing, blackout,
                   requests, fences>>

\* Mutant: the stage is set without ending the wait.
SweepMarksStage ==
    /\ \/ Sweeps("mark", "silence")
       \/ Sweeps("hand", "enqueue")
    /\ fence' = IF fence = None THEN None ELSE [fence EXCEPT !.stage = "Ladder"]
    /\ UNCHANGED <<key, queue, posted, worker, pump, fencing, blackout, requests, fences>>

\* set_resource_fence_stage(Ladder): for the ladder that is active, or for its own.
SweepMarks ==
    /\ \/ Sweeps("mark", "silence")
       \/ Sweeps("hand", "enqueue")
    /\ fence' = IF fence = None THEN None ELSE Staged("Ladder")
    /\ UNCHANGED <<key, queue, posted, worker, pump, fencing, blackout, requests, fences>>

SweepEnqueues ==
    /\ Sweeps("enqueue", "confirm")
    /\ \/ Len(queue) < QueueLimit /\ Enqueued(ClaimOf("Ladder", TRUE, FALSE, 0))
       \/ UNCHANGED queue
    /\ UNCHANGED <<fence, key, posted, worker, pump, fencing, blackout, requests, fences>>

SweepConfirms ==
    /\ Sweeps("confirm", IF LadderActive THEN "silence" ELSE "await")
    /\ UNCHANGED <<fence, key, queue, posted, worker, pump, fencing, blackout,
                   requests, fences>>

SweepAwaits ==
    /\ Sweeps("await", "silence")
    /\ fence' = AwaitingPerson
    /\ UNCHANGED <<key, queue, posted, worker, pump, fencing, blackout, requests, fences>>

\* No recheck is queued inside a blackout, which is read before the fences' lock.
SweepReadsSilence ==
    /\ Sweeps("silence", IF blackout THEN "drop" ELSE "due")
    /\ UNCHANGED <<fence, key, queue, posted, worker, pump, fencing, blackout,
                   requests, fences>>

\* Mutant: the last recheck never comes.
DueShort ==
    /\ fence # None /\ fence.stage = "Person"
    /\ fence.recheck = "Idle" /\ fence.attempts + 1 < MaxAttempts /\ fence.due
\* next_due: the interval has passed, no recheck is under way, and attempts are left.
Due ==
    /\ fence # None /\ fence.stage = "Person"
    /\ fence.recheck = "Idle" /\ fence.attempts < MaxAttempts /\ fence.due

SweepStartsRecheck ==
    /\ IF Due
       THEN /\ sweep.at = "due"
            /\ sweep' = [at |-> "queue", attempt |-> fence.attempts + 1]
            /\ fence' = [fence EXCEPT !.attempts = @ + 1, !.recheck = "Queued"]
       ELSE Sweeps("due", "drop") /\ UNCHANGED fence
    /\ UNCHANGED <<key, queue, posted, worker, pump, fencing, blackout, requests, fences>>

SweepQueuesRecheck ==
    /\ \/ /\ Len(queue) < QueueLimit
          /\ Sweeps("queue", "drop")
          /\ Enqueued(ClaimOf("SelfCheck", FALSE, FALSE, sweep.attempt))
       \/ Sweeps("queue", "refused") /\ UNCHANGED queue
    /\ UNCHANGED <<fence, key, posted, worker, pump, fencing, blackout, requests, fences>>

\* Mutant: a recheck whose claim was refused is left queued.
SweepForgetsRecheck ==
    /\ Sweeps("refused", "drop")
    /\ UNCHANGED <<fence, key, queue, posted, worker, pump, fencing, blackout,
                   requests, fences>>

SweepSettlesRecheck ==
    /\ Sweeps("refused", "drop")
    /\ fence' = Settled(sweep.attempt)
    /\ UNCHANGED <<key, queue, posted, worker, pump, fencing, blackout, requests, fences>>

\* The entries at the places kept, in their order.
Keep(kept) ==
    [i \in 1..Cardinality(kept) |->
        queue[CHOOSE n \in kept : Cardinality(kept \cap 1..n) = i]]

\* A blackout drops the ladder claims that wait for the instance.
SweepDropsLadders ==
    /\ sweep.at = "drop"
    /\ sweep' = [at |-> "tick", attempt |-> 0]
    /\ queue' = IF blackout
                THEN Keep({n \in DOMAIN queue : queue[n].kind # "Ladder"})
                ELSE queue
    /\ UNCHANGED <<fence, key, posted, worker, pump, fencing, blackout, requests, fences>>

Sweep ==
    \/ SweepLists \/ SweepJudges \/ SweepAdmits \/ SweepMarks \/ SweepEnqueues
    \/ SweepConfirms \/ SweepAwaits
    \/ SweepReadsSilence \/ SweepStartsRecheck \/ SweepQueuesRecheck
    \/ SweepSettlesRecheck \/ SweepDropsLadders

Next ==
    \/ \E r \in Requesters : Request(r)
    \/ PumpReadGate \/ PumpGrant \/ KeyLapses \/ BlackoutTurns
    \/ FenceEnter \/ HolderFences \/ HolderLifts \/ HolderReleases
    \/ IntervalPasses
    \/ Worker
    \/ Sweep

Spec == Init /\ [][Next]_vars

\* The sweep ticks, the worker runs what it is given, every guard's drop and every tick
\* pump, work on the key ends, and time passes.  In a blackout no recheck starts, so the
\* properties are about behaviours in which the blackouts, at some time, are over.
Fairness ==
    /\ WF_vars(Sweep) /\ WF_vars(Worker)
    /\ WF_vars(PumpReadGate) /\ WF_vars(PumpGrant)
    /\ WF_vars(FenceEnter) /\ WF_vars(HolderReleases)
    /\ WF_vars(IntervalPasses)
    /\ <>[]~blackout

FairSpec == Spec /\ Fairness

-----------------------------------------------------------------------------
\* Properties.

\* A ladder that will still come to the end that decides the fence: it waits, was
\* granted, climbs, or is the one the sweep is about to queue.
WillDecide(c) == c.kind = "Ladder" /\ ~c.drill

LadderAhead ==
    \/ \E n \in DOMAIN queue : WillDecide(queue[n])
    \/ \E n \in DOMAIN posted : WillDecide(posted[n])
    \/ worker.at \in {"climb", "decide"} /\ WillDecide(worker.claim)
    \/ sweep.at \in {"enqueue", "confirm", "await"}

\* A fence in the stage Ladder has a ladder whose end decides it (FenceStage::Ladder: "A
\* recovery ladder holds or waits for the instance; its end decides"): otherwise nobody
\* lifts it, waits for a person or rechecks it, and it holds no routine claim back.
LadderDecides == fence # None /\ fence.stage = "Ladder" => LadderAhead

\* A recheck that is queued or prepares has someone who will settle it: its claim waits,
\* was posted, runs, or is being queued by the sweep (recheck_resource_fences,
\* run_fence_recheck and settle_fence_recheck together); a recheck nobody settles would
\* end the wait's periodic self-check.
RecheckServed ==
    fence # None /\ fence.recheck # "Idle" =>
        \/ \E n \in DOMAIN queue : queue[n].attempt = fence.attempts
        \/ \E n \in DOMAIN posted : posted[n].attempt = fence.attempts
        \/ /\ worker.at # "idle" /\ worker.claim.attempt = fence.attempts
           /\ worker.at \in {"begin", "prepare"} \/ worker.failed
        \/ sweep.at \in {"queue", "refused"} /\ sweep.attempt = fence.attempts

\* Every new fence is handed on by a sweep: it goes to a ladder or a person, or is lifted
\* (lease_sweep_loop: "every new resource fence goes to a recovery ladder or a person").
HandedOn ==
    fence # None /\ fence.stage = "Pending" ~> fence = None \/ fence.stage # "Pending"

\* A fence that waits for a person is rechecked until it is lifted or its attempts are
\* used up (module comment of resource_fence.rs, #411 A38), whatever else claims the key.
WaitRechecked ==
    fence # None /\ fence.stage = "Person"
        ~> \/ fence = None \/ fence.stage # "Person"
           \/ fence.attempts = MaxAttempts /\ fence.recheck = "Idle"
=============================================================================
