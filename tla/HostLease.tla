------------------------------ MODULE HostLease ------------------------------
(***************************************************************************)
(* How the daemon uses the scheduler (runtime-host/src/host/lease.rs,      *)
(* input.rs, resource_close.rs): one thread per connection serves the      *)
(* requests of its holder one after another, host workers queue claims of  *)
(* their own, and the lease sweep ends what nobody ended.  The threads     *)
(* meet at three locks of an instance: the admission guard, the            *)
(* queue-order lock and, for the length of one call, the scheduler's.      *)
(* A destructive step holds none of them while the device writes.          *)
(*                                                                         *)
(* The locks, the queue and the lease belong to one instance and no thread *)
(* holds a lock of two, so the module follows one instance.  A step is     *)
(* what a thread does between two points where another thread can change   *)
(* what it read: a blocking lock, or two calls of the scheduler.           *)
(***************************************************************************)
EXTENDS Scheduler

CONSTANTS
    Sweep,     \* the lease sweep's thread
    Setting,   \* the settings of a behaviour: who asks, and for what capacity
    MaxSteps   \* bound: destructive steps ever opened

ASSUME HostAssumption ==
    /\ \E i \in Instance : Instance = {i}
    /\ Sweep \notin Holder
    /\ None \notin Holder \cup {Sweep}
    /\ Setting \subseteq [claims : SUBSET Claim, capacity : SUBSET BOOLEAN]
    /\ MaxSteps \in Nat

inst == CHOOSE i \in Instance : TRUE
Thread == Holder \cup {Sweep}

VARIABLES
    admission,  \* the thread that holds the instance's admission guard, or None
    order,      \* the thread that holds its queue-order lock, or None
    pc,         \* where each thread is
    job,        \* what each thread carries from step to step
    contexts,   \* queued_requests: the claims with a queued context
    settled,    \* claim -> terminal records its wait has got
    setting,    \* the claims that may be made and the answers admit_capacity may give
    asked,      \* the claims made so far
    fault       \* the invariant error that halted the Runtime, or None

lockVars == <<admission, order>>
threadVars == <<pc, job>>
bookVars == <<contexts, settled>>
vars == <<schedVars, lockVars, threadVars, bookVars, setting, asked, fault>>

Capacity == setting.capacity

\* op: the operation under way; prep: a preparation to commit; step: the witness
\* of an open step; flag: what the operation decided earlier.
NoJob == [op |-> "none", claim |-> None, token |-> None, prep |-> None,
          step |-> None, flag |-> FALSE]

Init ==
    /\ now = 0
    /\ nextLease = 1
    /\ New({}, 1)
    /\ admission = None
    /\ order = None
    /\ pc = [th \in Thread |-> IF th = Sweep THEN "rest" ELSE "idle"]
    /\ job = [th \in Thread |-> NoJob]
    /\ contexts = {}
    /\ settled = [c \in Claim |-> 0]
    /\ setting \in Setting
    /\ asked = {}
    /\ fault = None

-----------------------------------------------------------------------------
\* Threads, locks and books.

At(th, p) == fault = None /\ pc[th] = p
Go(th, p) == pc' = [pc EXCEPT ![th] = p]
\* A thread between operations carries nothing.
Carry(th, j) == job' = [job EXCEPT ![th] = j]

\* A RuntimeHostError::fatal poisons the Runtime: no thread goes on.
Fail(name) ==
    /\ fault' = name
    /\ UNCHANGED <<schedVars, lockVars, threadVars, bookVars, setting, asked>>
Fine == UNCHANGED <<setting, asked, fault>>

\* What follows a pump, by operation.
AfterPump(op) == CASE op = "leaving" -> "tokens"
                   [] op = "part" -> "gone"
                   [] op = "dying" -> "dead"
                   [] op = "sweep" -> "rest"
                   [] OTHER -> "idle"
AfterJob(th) == IF AfterPump(job[th].op) = "tokens" THEN job[th] ELSE NoJob

\* Both locks go and the thread is at p.
Unlock(th) ==
    /\ admission' = IF admission = th THEN None ELSE admission
    /\ order' = IF order = th THEN None ELSE order
\* The operation ends; AdmissionGuard::drop lets the guard go and pumps.
Leave(th) == Unlock(th) /\ Go(th, "pump") /\ Carry(th, job[th])
\* The operation ends under a plain guard, whose drop pumps nothing.
LeavePlain(th) == Unlock(th) /\ Go(th, "idle") /\ Carry(th, NoJob)

\* The waits of the claims cs get their terminal record and lose their context.
Settle(cs) ==
    /\ contexts' = contexts \ cs
    /\ settled' = [c \in Claim |-> IF c \in cs THEN settled[c] + 1 ELSE settled[c]]

Lapsed == {e.claim : e \in queue[inst] \ LiveQueue(inst)}
\* Mutant: only the queue of a leased instance is looked at.
ExpireQueuedLeased ==
    IF lease[inst] = None \/ Lapsed = {} THEN UNCHANGED <<schedVars, bookVars>>
    ELSE TakeExpired(inst) /\ Settle(Lapsed)
\* expire_queued_while_ordered and record_expired_queued.
ExpireQueued ==
    /\ IF Lapsed = {} THEN UNCHANGED schedVars ELSE TakeExpired(inst)
    /\ Settle(Lapsed)

\* The lease of the job's token still has a step open (lease_step_active).
StepActive(t) == Current(t) /\ lease[inst].step # None

\* The token of a lapsed lease (due_tokens).
Due == {lease[i].token : i \in {j \in Instance : /\ lease[j] # None
                                                 /\ lease[j].token.expires <= now}}

-----------------------------------------------------------------------------
\* The pump: a free instance goes to the first waiting claim.

\* Mutant: the pump grants client requests only.
CandidateClient == \E e \in queue[inst] : /\ e.claim.kind = "ClientLease"
                                          /\ QueuedGrantable(inst, Open, e)
Candidate == \E e \in queue[inst] : QueuedGrantable(inst, Open, e)

\* The candidate is read before the guard is tried; a held guard, or no capacity,
\* leaves the grant to the guard's holder or to the next tick.
PumpSkip(th) ==
    /\ At(th, "pump")
    /\ \/ ~Candidate
       \/ FALSE \in Capacity
       \/ admission # None
    /\ Go(th, AfterPump(job[th].op))
    /\ Carry(th, AfterJob(th))
    /\ UNCHANGED <<schedVars, lockVars, bookVars>> /\ Fine
PumpEnter(th) ==
    /\ At(th, "pump")
    /\ Candidate
    /\ TRUE \in Capacity
    /\ admission = None
    /\ admission' = th
    /\ Go(th, "pumping")
    /\ UNCHANGED <<schedVars, order, job, bookVars>> /\ Fine
PumpExpire(th) ==
    /\ At(th, "pumping")
    /\ order = None
    /\ order' = th
    /\ ExpireQueued
    /\ Go(th, "pumpPrepare")
    /\ UNCHANGED <<admission, job>> /\ Fine
PumpPrepare(th) ==
    /\ At(th, "pumpPrepare")
    /\ \/ \E e \in queue[inst] :
             /\ PrepareQueuedGrant(inst, Open, e)
             /\ Carry(th, [job[th] EXCEPT !.prep =
                    PreparedLease(e.claim, e.claim.ttl, FALSE, TRUE)])
             /\ Go(th, "pumpGrant")
             /\ UNCHANGED lockVars
       \/ /\ \A e \in queue[inst] : ~QueuedGrantable(inst, Open, e)
          /\ Unlock(th)
          /\ Go(th, AfterPump(job[th].op))
          /\ Carry(th, AfterJob(th))
          /\ UNCHANGED schedVars
    /\ UNCHANGED bookVars /\ Fine
PumpGrant(th) ==
    LET p == job[th].prep IN
    /\ At(th, "pumpGrant")
    /\ IF AcquireCommittable(p) /\ p.claim \in contexts
       THEN /\ CommitAcquire(p)
            /\ Settle({p.claim})
            /\ Unlock(th)
            /\ Go(th, AfterPump(job[th].op))
            /\ Carry(th, [AfterJob(th) EXCEPT !.prep = None])
            /\ Fine
       ELSE Fail("PumpedGrant")

Pump(th) == \/ PumpSkip(th) \/ PumpEnter(th) \/ PumpExpire(th)
            \/ PumpPrepare(th) \/ PumpGrant(th)

-----------------------------------------------------------------------------
\* Lease ends: cleanup_token_guarded, and release_lease after its validation.

\* LeaseReleaseReason, by the operation that runs the cleanup.
Reason(op) == CASE op \in {"queue", "acquire", "sweep"} -> "Expired"
                [] op = "release" -> "Explicit"
                [] op = "part" -> "Disconnect"
                [] op = "failure" -> "BackendFailure"
                [] OTHER -> "Preempted"

\* The cleanup is over.  An acquisition goes on under the guard it holds; an input
\* that met its preemption is denied.
Resumed(op) == IF op = "queue" THEN "request" ELSE "acquire"
Return(th) ==
    LET op == job[th].op IN
    IF op \in {"queue", "acquire"}
    THEN /\ order' = None
         /\ UNCHANGED admission
         /\ Go(th, Resumed(op))
         /\ Carry(th, [job[th] EXCEPT !.token = None, !.prep = None])
    ELSE IF op = "input" THEN LeavePlain(th)
    ELSE Unlock(th) /\ Go(th, "pump") /\ Carry(th, [job[th] EXCEPT !.prep = None])
\* The cleanup was refused.  The sweep's error ends its thread: lease_sweep_loop
\* marks the error fatal, FatalState::mark refuses one that is not.
Refused(th) ==
    /\ Unlock(th)
    /\ Go(th, "pump")
    /\ Carry(th, IF th = Sweep THEN [NoJob EXCEPT !.op = "dying"] ELSE job[th])

\* expire_queued_for_instance, then end_lease_device_use.
CleanupBegin(th) ==
    LET j == job[th] IN
    /\ At(th, "cleanup")
    /\ order = None
    /\ IF StepActive(j.token) /\ Reason(j.op) # "Expired"
       THEN Fail("DestructiveStateMismatch")
       ELSE /\ ExpireQueued
            /\ Go(th, "prepare")
            /\ UNCHANGED <<lockVars, job>> /\ Fine

\* Mutant: the order lock is let go between the preparation and the transfer.
CleanupPrepareUnordered(th) ==
    LET j == job[th]  t == j.token IN
    /\ At(th, "prepare")
    /\ order = None
    /\ Reason(j.op) # "Preempted"
    /\ \E e \in queue[inst] :
          /\ PrepareTransfer(t, t.holder, Open, e, FALSE)
          /\ Carry(th, [j EXCEPT !.prep = PreparedTransfer(t, e, None, FALSE)])
    /\ Go(th, "transfer")
    /\ UNCHANGED <<lockVars, bookVars>> /\ Fine
\* The next lease holder is looked for under the order lock, which the thread then
\* keeps until the lease has ended.
CleanupPrepare(th) ==
    LET j == job[th]  t == j.token  r == Reason(j.op) IN
    /\ At(th, "prepare")
    /\ order = None
    /\ r # "Preempted"
    /\ \E e \in queue[inst], capacity \in Capacity :
          /\ PrepareTransfer(t, t.holder, Open, e, FALSE)
          /\ order' = th
          /\ IF capacity
             THEN /\ Go(th, "transfer")
                  /\ Carry(th, [j EXCEPT !.prep = PreparedTransfer(t, e,
                           IF r = "Explicit" THEN t.id ELSE None, FALSE)])
             ELSE Go(th, "end") /\ UNCHANGED job
    /\ UNCHANGED <<admission, bookVars>> /\ Fine
\* Nobody to transfer to: a preemption without capacity asks nobody, a failed
\* input's lease may be gone already.
CleanupAlone(th) ==
    LET t == job[th].token  r == Reason(job[th].op) IN
    /\ At(th, "prepare")
    /\ order = None
    /\ \/ r = "Preempted"
       \/ r = "BackendFailure" /\ ~HeldBy(t, t.holder)
       \/ Transferable(t, t.holder) /\ Eligible(queue[inst], Open) = {}
    /\ order' = th
    /\ Go(th, "end")
    /\ UNCHANGED <<schedVars, admission, job, bookVars>> /\ Fine
\* prepare_transfer_gated refuses the token: its lease is gone.
CleanupStale(th) ==
    LET t == job[th].token  r == Reason(job[th].op) IN
    /\ At(th, "prepare")
    /\ order = None
    /\ r \notin {"Preempted", "BackendFailure"}
    /\ ~HeldBy(t, t.holder)
    /\ IF r = "Explicit" THEN Fail("PrepareReleaseTransfer")
       ELSE Refused(th) /\ UNCHANGED <<schedVars, bookVars>> /\ Fine
\* TransferPreparation::Deferred: a step is open.
CleanupDeferred(th) ==
    LET t == job[th].token  r == Reason(job[th].op) IN
    /\ At(th, "prepare")
    /\ order = None
    /\ r # "Preempted"
    /\ StepActive(t)
    /\ IF r \in {"Expired", "Explicit"}
       THEN Return(th) /\ UNCHANGED <<schedVars, bookVars>> /\ Fine
       ELSE Fail("CleanupTransferRemainedDestructive")

\* release_owned, expire_token or release; a lease already gone is no failure.  The
\* request id of the one release of a lease stands as the lease's id.
CleanupEnd(th) ==
    LET t == job[th].token  r == Reason(job[th].op) IN
    /\ At(th, "end")
    /\ CASE r = "Expired" ->
              IF Current(t) /\ t.expires <= now THEN ExpireToken(t)
                                                ELSE UNCHANGED schedVars
         [] r = "Explicit" ->
              IF ActiveLease(t, t.holder) THEN Release(t, t.holder, t.id)
                                          ELSE UNCHANGED schedVars
         [] OTHER ->
              IF HeldBy(t, t.holder) THEN ReleaseOwned(t, t.holder)
                                     ELSE UNCHANGED schedVars
    /\ Return(th)
    /\ UNCHANGED bookVars /\ Fine

\* perform_transfer: the context, end_lease_device_use, the durable fact, the commit.
Transfer(th) ==
    LET p == job[th].prep IN
    /\ At(th, "transfer")
    /\ IF /\ p.entry.claim \in contexts
          /\ ~StepActive(p.from.token)
          /\ TransferCommittable(p)
       THEN /\ CommitTransfer(p)
            /\ Settle({p.entry.claim})
            /\ Return(th)
            /\ Fine
       ELSE Fail("LeaseTransferCommitFailedAfterDurableFact")

Cleanup(th) == \/ CleanupBegin(th) \/ CleanupPrepare(th) \/ CleanupAlone(th)
               \/ CleanupStale(th) \/ CleanupDeferred(th)
               \/ CleanupEnd(th) \/ Transfer(th)
-----------------------------------------------------------------------------
\* Acquisitions: queue_lease, acquire_lease and request_host_claim.

Ask(th, c) == /\ At(th, "idle")
              /\ c.holder = th
              /\ c \in setting.claims \ asked
              /\ asked' = asked \cup {c}
              /\ UNCHANGED <<setting, fault>>

\* queue_lease tries the guard; under it, a lapsed lease is ended first.  The
\* deadline falls within the bound on the clock.
QueueLease(th, c) ==
    /\ c.kind = "ClientLease"
    /\ now + c.timeout <= MaxTime
    /\ Ask(th, c)
    /\ IF admission = None
       THEN admission' = th /\ Go(th, "expire")
       ELSE UNCHANGED admission /\ Go(th, "request")
    /\ Carry(th, [NoJob EXCEPT !.op = "queue", !.claim = c])
    /\ UNCHANGED <<schedVars, order, bookVars>>

\* acquire_lease waits for the guard.
AcquireLease(th, c) ==
    /\ c.kind = "ClientLease"
    /\ c.priority = 0
    /\ Ask(th, c)
    /\ Go(th, "enter")
    /\ Carry(th, [NoJob EXCEPT !.op = "acquire", !.claim = c])
    /\ UNCHANGED <<schedVars, lockVars, bookVars>>
AcquireEnter(th) ==
    /\ At(th, "enter")
    /\ admission = None
    /\ admission' = th
    /\ Go(th, "expire")
    /\ UNCHANGED <<schedVars, order, job, bookVars>> /\ Fine

\* expire_instance_if_due, under the guard.
ExpireInstanceIfDue(th) ==
    /\ At(th, "expire")
    /\ \/ \E t \in Due : /\ Go(th, "cleanup")
                         /\ Carry(th, [job[th] EXCEPT !.token = t])
       \/ Due = {} /\ Go(th, Resumed(job[th].op)) /\ UNCHANGED job
    /\ UNCHANGED <<schedVars, lockVars, bookVars>> /\ Fine

\* prepare_claim_acquire under the order lock.
AcquirePrepare(th) ==
    LET c == job[th].claim IN
    /\ At(th, "acquire")
    /\ order = None
    /\ \/ /\ PrepareAcquire(c, Open)
          /\ order' = th
          /\ Go(th, "grant")
          /\ Carry(th, [job[th] EXCEPT
                           !.prep = PreparedLease(c, c.ttl, FALSE, FALSE)])
          /\ UNCHANGED admission
       \/ /\ ~Acquirable(c, Open)
          /\ Leave(th)
          /\ UNCHANGED schedVars
    /\ UNCHANGED bookVars /\ Fine

\* request_queued_gated under the order lock; the guard decides whether a free
\* instance is granted at once.  What the queue reports of the new entry's
\* preemption (queued_at_position) is kept for the record of it.
QueueRequest(th) ==
    LET c == job[th].claim
        immediate == admission = th
    IN
    /\ At(th, "request")
    /\ order = None
    /\ \/ /\ RequestQueuedLease(c, Open, immediate)
          /\ order' = th
          /\ Go(th, "grant")
          /\ Carry(th, [job[th] EXCEPT
                           !.prep = PreparedLease(c, LeaseTtl, FALSE, FALSE)])
          /\ Settle(Lapsed)
          /\ UNCHANGED admission
       \/ /\ RequestQueuedEntry(c, Open, immediate)
          /\ order' = th
          /\ Go(th, "visible")
          /\ Carry(th, [job[th] EXCEPT !.flag =
                 lease[inst] # None /\ c.priority > lease[inst].claim.priority])
          /\ Settle(Lapsed)
          /\ UNCHANGED admission
       \/ /\ RequestQueuedRefused(c, Open, immediate)
          /\ Leave(th)
          /\ UNCHANGED bookVars
    /\ Fine

\* request_host_claim: a claim without a deadline, granted at once under the guard.
HostClaim(th, c) ==
    /\ c.kind # "ClientLease"
    /\ Ask(th, c)
    /\ admission' = IF admission = None THEN th ELSE admission
    /\ Go(th, "hostClaim")
    /\ Carry(th, [NoJob EXCEPT !.op = "claim", !.claim = c])
    /\ UNCHANGED <<schedVars, order, bookVars>>
HostRequest(th) ==
    LET c == job[th].claim IN
    /\ At(th, "hostClaim")
    /\ order = None
    /\ \E capacity \in Capacity :
          LET immediate == admission = th /\ capacity /\ Acquirable(c, Open) IN
          \/ /\ immediate
             /\ PrepareAcquire(c, Open)
             /\ order' = th
             /\ Go(th, "grant")
             /\ Carry(th, [job[th] EXCEPT !.flag = TRUE,
                              !.prep = PreparedLease(c, c.ttl, FALSE, FALSE)])
             /\ UNCHANGED admission
          \/ /\ ~immediate
             /\ EnqueueClaim(c)
             /\ order' = th
             /\ Go(th, "visible")
             /\ UNCHANGED <<admission, job>>
          \/ /\ ~immediate
             /\ Cardinality(queue[inst]) >= MaxDepth
             /\ Leave(th)
             /\ UNCHANGED schedVars
    /\ UNCHANGED bookVars /\ Fine

\* grant_prepared_lease: business capacity unless it was asked before, the commit.
Grant(th) ==
    LET j == job[th] IN
    /\ At(th, "grant")
    /\ \/ /\ FALSE \in Capacity
          /\ ~j.flag
          /\ Unlock(th) /\ Go(th, "pump") /\ Carry(th, [j EXCEPT !.prep = None])
          /\ UNCHANGED <<schedVars, bookVars>> /\ Fine
       \/ /\ TRUE \in Capacity
          /\ IF AcquireCommittable(j.prep)
             THEN /\ CommitAcquire(j.prep)
                  /\ Unlock(th) /\ Go(th, "pump") /\ Carry(th, [j EXCEPT !.prep = None])
                  /\ UNCHANGED bookVars /\ Fine
             ELSE Fail("GrantCommit")

\* Mutants: the entry is visible without its context; the context has the key of
\* the connection; the preemption keeps the order lock.
VisibleContext(th, cs, kept) ==
    LET j == job[th] IN
    /\ At(th, "visible")
    /\ contexts' = contexts \cup cs
    /\ order' = kept
    /\ Go(th, IF j.flag THEN "promote" ELSE "pump")
    /\ Carry(th, IF j.flag THEN [j EXCEPT !.op = "promote"] ELSE j)
    /\ admission' = IF admission = th /\ ~j.flag THEN None ELSE admission
    /\ UNCHANGED <<schedVars, settled>> /\ Fine
VisibleUnregistered(th) == VisibleContext(th, {}, None)
VisibleByHolder(th) == VisibleContext(th, {th}, None)
VisibleOrdered(th) ==
    VisibleContext(th, {job[th].claim}, IF job[th].flag THEN th ELSE None)
\* The entry's records (append_scheduler_preempted reads the lease again), its
\* context, and the way on: a preemption of an idle holder, or a pump.
Visible(th) ==
    LET j == job[th] IN
    /\ At(th, "visible")
    /\ IF j.flag /\ lease[inst] = None THEN Fail("PreemptionActiveLeaseMissing")
       ELSE IF j.flag /\ ~lease[inst].preempt THEN Fail("PreemptionStateMismatch")
       ELSE /\ contexts' = contexts \cup {j.claim}
            /\ order' = None
            /\ IF j.flag
               THEN /\ Go(th, "promote")
                    /\ Carry(th, [j EXCEPT !.op = "promote"])
                    /\ UNCHANGED admission
               ELSE /\ admission' = IF admission = th THEN None ELSE admission
                    /\ Go(th, "pump")
                    /\ UNCHANGED job
            /\ UNCHANGED <<schedVars, settled>> /\ Fine

\* promote_idle_preemption, under the guard.
PromoteEnter(th) ==
    /\ At(th, "promote")
    /\ admission \in {None, th}
    /\ admission' = th
    /\ Go(th, "promoting")
    /\ UNCHANGED <<schedVars, order, job, bookVars>> /\ Fine
Promote(th) ==
    LET j == job[th]
        l == lease[inst]
        ready == {e \in queue[inst] : /\ l # None
                                      /\ e.claim = j.claim
                                      /\ TransferCandidate(l.token, l.token.holder,
                                                           Open, e, TRUE)}
    IN
    /\ At(th, "promoting")
    /\ order = None
    /\ \/ \E e \in ready, capacity \in Capacity :
             /\ PrepareToken
             /\ IF capacity
                THEN /\ order' = th
                     /\ Go(th, "transfer")
                     /\ Carry(th, [j EXCEPT !.prep =
                                      PreparedTransfer(l.token, e, None, FALSE)])
                ELSE /\ Go(th, "cleanup")
                     /\ Carry(th, [j EXCEPT !.token = l.token])
                     /\ UNCHANGED order
             /\ UNCHANGED admission
       \/ ready = {} /\ Leave(th) /\ UNCHANGED schedVars
    /\ UNCHANGED bookVars /\ Fine

Acquisition(th) ==
    \/ AcquireEnter(th) \/ ExpireInstanceIfDue(th) \/ AcquirePrepare(th)
    \/ QueueRequest(th) \/ HostRequest(th) \/ Grant(th) \/ Visible(th)
    \/ PromoteEnter(th) \/ Promote(th)
-----------------------------------------------------------------------------
\* A queued request's own calls.

\* poll_queued_lease and cancel_queued_lease read the context before the order lock.
PollOrCancel(th, c, op) ==
    /\ At(th, "idle")
    /\ c \in asked
    /\ c.holder = th
    /\ c.kind = "ClientLease"
    /\ Go(th, op)
    /\ Carry(th, [NoJob EXCEPT !.op = op, !.claim = c, !.flag = c \in contexts])
    /\ UNCHANGED <<schedVars, lockVars, bookVars>> /\ Fine

\* Mutant: a poll that finds its entry gone records an expiry.
PollSettles(th) ==
    LET j == job[th] IN
    /\ At(th, "poll")
    /\ j.flag => order = None
    /\ IF j.flag /\ j.claim \notin contexts THEN Settle({j.claim})
                                          ELSE UNCHANGED bookVars
    /\ Go(th, "idle") /\ Carry(th, NoJob)
    /\ UNCHANGED <<schedVars, lockVars>> /\ Fine
Poll(th) ==
    LET j == job[th] IN
    /\ At(th, "poll")
    /\ j.flag => order = None
    /\ IF j.claim \in Lapsed
       THEN IF j.flag THEN /\ PollQueuedExpired(j.claim)
                           /\ Settle({j.claim})
                           /\ Go(th, "idle") /\ Carry(th, NoJob)
                           /\ UNCHANGED lockVars /\ Fine
                      ELSE Fail("ExpiredQueueContextMissing")
       ELSE /\ Go(th, "idle") /\ Carry(th, NoJob)
            /\ UNCHANGED <<schedVars, lockVars, bookVars>> /\ Fine

Cancel(th) ==
    LET j == job[th]
        waits == \E e \in queue[inst] : e.claim = j.claim
    IN
    /\ At(th, "cancel")
    /\ j.flag => order = None
    /\ IF ~waits THEN /\ Go(th, "idle") /\ Carry(th, NoJob)
                      /\ UNCHANGED <<schedVars, lockVars, bookVars>> /\ Fine
       ELSE IF j.claim \notin contexts THEN Fail("QueuedRequestContextMissing")
       ELSE /\ CancelQueued(j.claim)
            /\ Settle({j.claim})
            /\ Go(th, "pump")
            /\ UNCHANGED <<lockVars, job>> /\ Fine

\* await_operator_claim: the wait of a host claim is capped; the cancel may meet a
\* grant that came first.
AwaitOperatorClaim(th, c) ==
    /\ At(th, "idle")
    /\ c.holder = th
    /\ c.kind # "ClientLease"
    /\ order = None
    /\ CancelQueued(c)
    /\ Settle({c})
    /\ Go(th, "pump")
    /\ Carry(th, [NoJob EXCEPT !.op = "claim"])
    /\ UNCHANGED lockVars /\ Fine

-----------------------------------------------------------------------------
\* Calls on a held lease.  A call with a token that is no longer current is denied
\* without a change, so each starts from the current one; it may go stale under it.

Use(th, op, p) ==
    /\ At(th, "idle")
    /\ lease[inst] # None
    /\ lease[inst].token.holder = th
    /\ Go(th, p)
    /\ Carry(th, [NoJob EXCEPT !.op = op, !.token = lease[inst].token])
    /\ UNCHANGED <<schedVars, lockVars, bookVars>> /\ Fine

\* The guard for a release, an input's end, a failed input or a disconnect.
EnterGuard(th) ==
    LET j == job[th] IN
    /\ At(th, "guard")
    /\ admission = None
    /\ IF j.op = "release" /\ ~ValidWrite(j.token, th)
       THEN UNCHANGED admission /\ Go(th, "pump")
       ELSE /\ admission' = th
            /\ Go(th, IF j.op = "finish" THEN "boundary" ELSE "cleanup")
    /\ UNCHANGED <<schedVars, order, job, bookVars>> /\ Fine

\* renew_lease: a plain guard around the renewal.
RenewEnter(th) ==
    /\ At(th, "renew")
    /\ admission = None
    /\ admission' = th
    /\ Go(th, "renewing")
    /\ UNCHANGED <<schedVars, order, job, bookVars>> /\ Fine
RenewCommit(th) ==
    LET t == job[th].token IN
    /\ At(th, "renewing")
    /\ IF ActiveLease(t, th) /\ ~RenewReplayed(t, 0) THEN Renew(t, th, 0)
                                                     ELSE UNCHANGED schedVars
    /\ LeavePlain(th)
    /\ UNCHANGED bookVars /\ Fine

\* input: a plain guard around the check for a preemption at a safe boundary.
InputEnter(th) ==
    /\ At(th, "input")
    /\ admission = None
    /\ IF ValidWrite(job[th].token, th)
       THEN admission' = th /\ Go(th, "boundary") /\ UNCHANGED job
       ELSE UNCHANGED admission /\ Go(th, "idle") /\ Carry(th, NoJob)
    /\ UNCHANGED <<schedVars, order, bookVars>> /\ Fine

\* transfer_preempted_while_guarded: the lapsed entries go, then the preemption.
Boundary(th) ==
    /\ At(th, "boundary")
    /\ order = None
    /\ ExpireQueued
    /\ Go(th, "preempt")
    /\ UNCHANGED <<lockVars, job>> /\ Fine
Preempt(th) ==
    LET j == job[th]
        t == j.token
        ready == {e \in queue[inst] : TransferCandidate(t, th, Open, e, TRUE)}
    IN
    /\ At(th, "preempt")
    /\ order = None
    /\ \/ \E e \in ready, capacity \in Capacity :
             /\ PrepareToken
             /\ IF capacity
                THEN /\ order' = th
                     /\ Go(th, "transfer")
                     /\ Carry(th, [j EXCEPT !.prep =
                                      PreparedTransfer(t, e, None, FALSE)])
                ELSE Go(th, "cleanup") /\ UNCHANGED <<order, job>>
             /\ UNCHANGED <<admission, bookVars>> /\ Fine
       \/ /\ ready = {}
          /\ IF StepActive(t) THEN Fail("PreemptedTransferRemainedDestructive")
             ELSE /\ IF j.op = "input" THEN /\ admission' = None
                                            /\ Go(th, "begin")
                                            /\ UNCHANGED <<order, job>>
                                       ELSE Leave(th)
                  /\ UNCHANGED <<schedVars, bookVars>> /\ Fine

\* begin_destructive_step, under no lock; refused for a waiting preemption, the
\* input goes to the boundary again.
Begin(th) ==
    LET t == job[th].token IN
    /\ At(th, "begin")
    /\ \/ /\ BeginDestructiveStep(t, th)
          /\ Go(th, "write")
          /\ Carry(th, [job[th] EXCEPT !.step = Witness(t, th, "Business")])
       \/ /\ ValidWrite(t, th)
          /\ lease[inst].preempt
          /\ Go(th, "guard")
          /\ Carry(th, [job[th] EXCEPT !.op = "finish"])
          /\ UNCHANGED schedVars
       \/ /\ ~ValidWrite(t, th)
          /\ Go(th, "idle")
          /\ Carry(th, NoJob)
          /\ UNCHANGED schedVars
    /\ UNCHANGED <<lockVars, bookVars>> /\ Fine

\* The device write returns; finish_destructive_input.  A failed write is finished
\* under the guard (finish_input_failure) and ends the lease.
WriteReturns(th, failed) ==
    LET j == job[th]  w == j.step IN
    /\ At(th, "write")
    /\ failed => admission = None
    /\ IF HeldBy(w.token, w.holder) /\ lease[inst].step = w.step
       THEN /\ FinishDestructiveStep(w)
            /\ Go(th, "guard")
            /\ Carry(th, [j EXCEPT !.step = None,
                                   !.op = IF failed THEN "failure" ELSE "finish"])
            /\ UNCHANGED <<lockVars, bookVars>> /\ Fine
       ELSE Fail("FinishDestructiveInput")

\* cleanup_connection: the waiting entries first, then the leases.
Disconnect(th) ==
    /\ At(th, "idle")
    /\ \A c \in Claim : c.holder = th => c.kind = "ClientLease"
    /\ order = None
    /\ LET cs == {e.claim : e \in {f \in queue[inst] : f.claim.holder = th}} IN
       /\ IF cs = {} THEN UNCHANGED schedVars ELSE RemoveForConnection(inst, th)
       /\ Settle(cs)
    /\ Go(th, "pump")
    /\ Carry(th, [NoJob EXCEPT !.op = "leaving"])
    /\ UNCHANGED lockVars /\ Fine
DisconnectLease(th) ==
    /\ At(th, "tokens")
    /\ IF lease[inst] # None /\ lease[inst].token.holder = th
       THEN /\ Go(th, "guard")
            /\ Carry(th, [NoJob EXCEPT !.op = "part", !.token = lease[inst].token])
       ELSE Go(th, "gone") /\ Carry(th, NoJob)
    /\ UNCHANGED <<schedVars, lockVars, bookVars>> /\ Fine

Held(th) ==
    \/ EnterGuard(th) \/ RenewEnter(th) \/ RenewCommit(th)
    \/ InputEnter(th) \/ Boundary(th) \/ Preempt(th) \/ Begin(th)
    \/ \E failed \in BOOLEAN : WriteReturns(th, failed)
    \/ DisconnectLease(th) \/ Poll(th) \/ Cancel(th)
-----------------------------------------------------------------------------
\* The lease sweep: expire_due_leases, every tick.

SweepStart ==
    /\ At(Sweep, "rest")
    /\ \/ Lapsed # {}
       \/ Due # {}
       \/ Candidate
    /\ Go(Sweep, "lapse")
    /\ Carry(Sweep, [NoJob EXCEPT !.op = "sweep"])
    /\ UNCHANGED <<schedVars, lockVars, bookVars>> /\ Fine
SweepExpire ==
    /\ At(Sweep, "lapse")
    /\ order = None
    /\ ExpireQueued
    /\ Go(Sweep, "scan")
    /\ UNCHANGED <<lockVars, job>> /\ Fine
\* The due tokens are read under one lock of the scheduler, their connections
\* under the next.
SweepScan ==
    /\ At(Sweep, "scan")
    /\ \/ \E t \in Due : /\ Go(Sweep, "lookup")
                         /\ Carry(Sweep, [job[Sweep] EXCEPT !.token = t])
       \/ Due = {} /\ Go(Sweep, "pump") /\ UNCHANGED job
    /\ UNCHANGED <<schedVars, lockVars, bookVars>> /\ Fine
SweepLookup ==
    /\ At(Sweep, "lookup")
    /\ IF Current(job[Sweep].token)
       THEN Go(Sweep, "try") /\ UNCHANGED job
       ELSE Go(Sweep, "dead") /\ Carry(Sweep, NoJob)
    /\ UNCHANGED <<schedVars, lockVars, bookVars>> /\ Fine
\* Mutant: the guard is tried, the open step is not asked for.
SweepTryUnderWrite ==
    /\ At(Sweep, "try")
    /\ IF admission # None \/ order # None
       THEN Go(Sweep, "pump") /\ UNCHANGED lockVars
       ELSE Go(Sweep, "end") /\ admission' = Sweep /\ order' = Sweep
    /\ UNCHANGED <<schedVars, job, bookVars>> /\ Fine
\* cleanup_expired_if_guard_free: a held guard or an open step leaves it to a later
\* tick.
SweepTry ==
    /\ At(Sweep, "try")
    /\ IF admission # None \/ StepActive(job[Sweep].token)
       THEN Go(Sweep, "pump") /\ UNCHANGED admission
       ELSE Go(Sweep, "cleanup") /\ admission' = Sweep
    /\ UNCHANGED <<schedVars, order, job, bookVars>> /\ Fine
SweepStep == SweepExpire \/ SweepScan \/ SweepLookup \/ SweepTry

-----------------------------------------------------------------------------
\* The clock.  A prepared grant or transfer is committed within its own TTL; bound:
\* the clock waits for a request that would else wait past MaxTime.
HostTick ==
    /\ fault = None
    /\ \A th \in Holder : job[th].op = "queue" /\ pc[th] # "pump" =>
           now + 1 + job[th].claim.timeout <= MaxTime
    /\ \A th \in Thread : pc[th] \in {"pumpGrant", "grant", "transfer"} =>
           job[th].prep.token.expires > now + 1
    /\ Tick
    /\ UNCHANGED <<lockVars, threadVars, bookVars, setting, asked, fault>>

\* A thread goes on with what it began.
Continue(th) == Pump(th) \/ Cleanup(th) \/ Acquisition(th) \/ Held(th)
\* A connection or a host worker begins an operation.
Start(th) ==
    \/ \E c \in Claim : \/ QueueLease(th, c) \/ AcquireLease(th, c)
                        \/ HostClaim(th, c) \/ AwaitOperatorClaim(th, c)
                        \/ PollOrCancel(th, c, "poll")
                        \/ PollOrCancel(th, c, "cancel")
    \/ Use(th, "release", "guard")
    \/ Use(th, "renew", "renew")
    \/ nextStep <= MaxSteps /\ Use(th, "input", "input")
    \/ Disconnect(th)

Next ==
    \/ \E th \in Holder : Start(th)
    \/ \E th \in Thread : Continue(th)
    \/ SweepStart \/ SweepStep
    \/ HostTick

\* The operating system runs every thread that can go on, the sweep ticks, and time
\* passes; nobody has to begin an operation.  A mutex does not promise its turn to a
\* thread others keep overtaking, so the liveness properties are about behaviours
\* in which the clients, at some time, begin no more operations.
Fairness ==
    /\ \A th \in Thread : WF_vars(Continue(th))
    /\ WF_vars(SweepStart \/ SweepStep)
    /\ WF_vars(HostTick)
    /\ <>[][\A th \in Holder : pc[th] = "idle" => pc'[th] = "idle"]_pc

Spec == Init /\ [][Next]_vars
FairSpec == Spec /\ Fairness

-----------------------------------------------------------------------------
\* Types of the host's variables.
HostTypeOK ==
    /\ {admission, order} \subseteq Thread \cup {None}
    /\ \A th \in Thread : job[th].claim \in Claim \cup {None}
    /\ contexts \subseteq asked /\ asked \subseteq setting.claims
    /\ settled \in [Claim -> Nat]

\* No interleaving of requests, sweeps, pumps, expiries and device writes reaches
\* one of the invariant errors that halt the Runtime: a transfer refused after its
\* durable fact, a finished step refused, a context missing, a step open where the
\* code says there is none.
NeverHalts == fault = None

\* Outside the queue-order lock every waiting entry has exactly one context, which
\* the grant, expiry, cancel and disconnect paths read under it.
ContextsExact == order = None => contexts = {e.claim : e \in queue[inst]}

\* A queued request's wait gets at most one terminal record, and none while it
\* still waits, whichever of poll, cancel, expiry, pump, transfer and disconnect
\* come together.
SettledOnce == \A c \in Claim : /\ settled[c] <= 1
                                /\ c \in contexts => settled[c] = 0

\* The device is written by the holder of the current lease only, and by one write
\* at a time: while a write is in flight its step is open in the current lease, so
\* the lease neither passes on nor ends under it.
WritesFenced ==
    \A th \in Thread : pc[th] = "write" =>
        /\ Current(job[th].token)
        /\ lease[inst].step = job[th].step.step

\* A setting without the two situations in which the code disagrees with itself: no
\* claim of the host's own passes the clients (ladders, their continuations and startup
\* packages have the high priority), and where capacity may be missing no client preempts.
PrudentSetting(s) ==
    /\ \A c \in s.claims : c.kind # "ClientLease" =>
          c.priority = 0 /\ c.kind \notin HolderOwned
    /\ FALSE \in s.capacity =>
          \A c, d \in s.claims : c.kind = "ClientLease" => c.priority <= d.priority

\* Every operation that began ends, once the clients begin no more: no lock is kept
\* and no two threads wait for each other's lock, although operations take the guard
\* and the order lock in turns and a preemption takes the guard after it let the
\* order lock go; the sweep comes round again.
OperationsEnd ==
    /\ <>[](\A th \in Holder : pc[th] \in {"idle", "gone"})
    /\ []<>(pc[Sweep] \in {"rest", "dead"})

\* No queued client request waits for ever, once the clients ask no more: each is
\* granted, expires, is cancelled or goes with its connection, unless the sweep's
\* thread has ended.
WaitsEnd ==
    <>[](pc[Sweep] = "dead" \/ \A c \in contexts : c.kind # "ClientLease")

\* A free instance does not stay free while a claim waits for it: the pump of a
\* dropped guard or the sweep grants it.
FreeIsGranted ==
    (lease[inst] = None /\ Eligible(queue[inst], Open) # {})
        ~> (lease[inst] # None \/ Eligible(queue[inst], Open) = {}
               \/ pc[Sweep] = "dead")

\* lease.rs, pump: "the guard's holder pumps when it drops it; the sweep pumps every
\* tick"; expire_instance_if_due: "the lease sweep ends the lease later".  Both
\* need a sweep that goes on.
SweepAlive == pc[Sweep] # "dead"

\* scheduler lib.rs, refresh_preempt_requested: "only a client entry at the head of
\* the queue requests a preemption": the request queue_lease reports for its new
\* entry is the one the lease carries.
PreemptionsAgree ==
    \A th \in Holder : pc[th] = "visible" /\ job[th].flag =>
        lease[inst] # None /\ lease[inst].preempt

\* read-session-resource-close.md: "A lease end with a destructive step still in
\* flight fails fatally ... except an expiry, which the scheduler defers under the
\* step": no lease ends while its holder writes to the device.
NoEndUnderWrite ==
    \A th \in Holder : pc[th] = "write" => Current(job[th].token)

=============================================================================
