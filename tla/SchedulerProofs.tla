-------------------------- MODULE SchedulerProofs ---------------------------
(***************************************************************************)
(* The theorems about the scheduler under arbitrary callers                *)
(* (SchedulerClients), for every set of instances, holders, claims and     *)
(* requests and every bound.  StepShape sorts the actions by what they     *)
(* change, and each conjunct of the inductive invariant IInv is shown to   *)
(* be preserved shape by shape.                                            *)
(***************************************************************************)
EXTENDS SchedulerClients, TLAPS

\* Lease ids are issued once, each for one instance.
TokensSound ==
    /\ \A t \in tokens : t.id < nextLease
    /\ \A s, t \in tokens : s.id = t.id => s.instance = t.instance

\* The current token of a lease was handed out, for the lease's own instance.
LeasesSound ==
    \A i \in Instance : lease[i] # None =>
        lease[i].token \in tokens /\ lease[i].token.instance = i

\* A preparation has a lease id of its own that nobody holds yet.
PreparedFresh ==
    /\ \A p \in prepared :
          p.token.id < nextLease /\ \A t \in tokens : t.id # p.token.id
    /\ \A p, q \in prepared : p.token.id = q.token.id => p = q

\* A transfer was prepared between two steps and stays on its instance; only a
\* dedicated grant is close-only.
SoundPreparation(p) ==
    /\ p.type = "transfer" =>
          p.from.step = None /\ p.token.instance = p.from.token.instance
    /\ p.type = "acquire" /\ p.closeOnly =>
          p.claim.kind \in {"ResourceClose", "DaemonStartPreparation"}
PreparedSound == \A p \in prepared : SoundPreparation(p)

\* A witness names an issued step and a token that was handed out.
WitnessesSound ==
    \A w \in writes : w.step.id < nextStep /\ w.token \in tokens

\* Queues are finite and arrival numbers are issued once.
QueuesFinite ==
    \A i \in Instance :
        IsFiniteSet(queue[i]) /\ \A e \in queue[i] : e.arrival < nextArrival

\* An instance in takeover cooldown has no lease and no entry with a deadline.
CooldownSound ==
    \A i \in Instance : cooldown[i] > now =>
        lease[i] = None /\ \A e \in queue[i] : e.deadline = NoDeadline

\* The inductive invariant.
IInv ==
    /\ TypeOK
    /\ TokensSound
    /\ LeasesSound
    /\ PreparedFresh
    /\ PreparedSound
    /\ WitnessesSound
    /\ LocationsExact
    /\ PreemptExact
    /\ QueuesFinite
    /\ QueueSound
    /\ WritesVisible
    /\ CloseOnlyFenced
    /\ CooldownSound

-----------------------------------------------------------------------------
\* What a step does to the state, by shape.

\* Cooldowns only ever end.
CooldownsEnd ==
    /\ cooldown' \in [Instance -> Nat]
    /\ \A i \in Instance : cooldown'[i] \in {cooldown[i], 0}

\* A preparation takes a fresh lease id and at most drops expired entries.
PrepareShape(p) ==
    /\ p \in PreparedLeaseType \cup PreparedTransferType
    /\ p.token.id = nextLease
    /\ SoundPreparation(p)
    /\ prepared' = prepared \cup {p}
    /\ nextLease' = nextLease + 1
    /\ CooldownsEnd
    /\ \/ UNCHANGED <<lease, queue>>
       \/ \E i \in Instance : SetQueue(i, LiveQueue(i))
    /\ UNCHANGED <<now, epoch, lastRelease, locations, nextArrival, nextStep,
                   writes, tokens>>

\* Entries leave one queue.
RemoveShape(i, out) == RemoveQueued(i, out) /\ UNCHANGED clientVars

\* A new request goes into what is left of its instance's queue.
InsertShape(c, q, d) ==
    /\ Unknown(c)
    /\ Insert(c, q, d)
    /\ \/ d = NoDeadline
       \/ lease[c.instance] = None => cooldown[c.instance] <= now
    /\ UNCHANGED <<now, epoch, lastRelease, cooldown, locations, nextLease, nextStep,
                   clientVars>>

\* A held lease gets a new expiry.
RenewShape(t, ttl, record) ==
    /\ Current(t)
    /\ lease' = [lease EXCEPT ![t.instance] =
           [@ EXCEPT !.token = RenewedToken(t, ttl), !.renew = record]]
    /\ tokens' = tokens \cup {RenewedToken(t, ttl)}
    /\ UNCHANGED <<now, epoch, lastRelease, cooldown, queue, locations, nextLease,
                   nextArrival, nextStep, prepared, writes>>

\* A held lease ends.
EndShape(t, record) ==
    Current(t) /\ EndLease(t, record) /\ UNCHANGED clientVars

\* Only cooldowns end, or only time passes.
ClockShape ==
    /\ \/ now' = now /\ CooldownsEnd
       \/ now' = now + 1 /\ now < MaxTime /\ cooldown' = cooldown
    /\ UNCHANGED <<epoch, lease, lastRelease, queue, locations, nextLease,
                   nextArrival, nextStep, clientVars>>

StepShape ==
    \/ \E p : PrepareShape(p)
    \/ \E i \in Instance : \E out : RemoveShape(i, out)
    \/ \E c \in Claim, d \in Nat : \E q \in SUBSET queue[c.instance] :
          InsertShape(c, q, d)
    \/ \E p \in prepared : CommitSucceeds(p) \/ CommitRefused(p)
    \/ \E t \in tokens : ClientBegin(t)
    \/ \E w \in writes : ClientFinish(w)
    \/ \E t \in tokens, ttl \in Nat, r \in RenewType \cup {None} :
          RenewShape(t, ttl, r)
    \/ \E t \in tokens, r \in ReleaseType \cup {None} : EndShape(t, r)
    \/ ClockShape

-----------------------------------------------------------------------------
\* Facts about the helpers.

\* refresh_preempt_requested changes nothing but the flag.
SameLease(l, m) ==
    /\ l = None <=> m = None
    /\ l # None => /\ m.token = l.token /\ m.claim = l.claim /\ m.kind = l.kind
                   /\ m.closeOnly = l.closeOnly /\ m.renew = l.renew
                   /\ m.step = l.step

\* Refreshed keeps the type and every field but preempt, which it makes exact.
LEMMA RefreshedFacts ==
    ASSUME NEW l \in LeaseType \cup {None}, NEW q
    PROVE  /\ Refreshed(l, q) \in LeaseType \cup {None}
           /\ SameLease(l, Refreshed(l, q))
           /\ l # None =>
                 (Refreshed(l, q).preempt <=>
                    \E e \in q : IsFirst(e, q) /\ Preempts(e, Refreshed(l, q)))
<1> DEFINE b == \E e \in q : IsFirst(e, q) /\ Preempts(e, l)
<1> HIDE DEF b
<1>1. CASE l = None
  BY <1>1 DEF Refreshed, SameLease
<1>2. CASE l # None
  <2>1. b \in BOOLEAN
    BY DEF b
  <2>2. Refreshed(l, q) = [l EXCEPT !.preempt = b]
    BY <1>2 DEF Refreshed, b
  <2>3. /\ [l EXCEPT !.preempt = b] \in LeaseType
        /\ SameLease(l, [l EXCEPT !.preempt = b])
        /\ [l EXCEPT !.preempt = b].preempt = b
    BY <1>2, <2>1, NoneAssumption DEF LeaseType, SameLease
  <2>4. b <=> \E e \in q : IsFirst(e, q) /\ Preempts(e, [l EXCEPT !.preempt = b])
    BY <1>2, <2>3 DEF b, Preempts, SameLease
  <2> QED
    BY <2>2, <2>3, <2>4
<1> QED
  BY <1>1, <1>2

\* SetQueue gives i the queue q and keeps every lease but its flag, which it makes
\* exact for the new queue.
LEMMA SetQueueFacts ==
    ASSUME TypeOK, NEW i \in Instance, NEW q \in SUBSET EntryType, SetQueue(i, q)
    PROVE  /\ lease' \in [Instance -> LeaseType \cup {None}]
           /\ queue' \in [Instance -> SUBSET EntryType]
           /\ queue'[i] = q
           /\ \A j \in Instance \ {i} : queue'[j] = queue[j] /\ lease'[j] = lease[j]
           /\ \A j \in Instance : SameLease(lease[j], lease'[j])
           /\ PreemptExact => PreemptExact'
<1>1. /\ lease \in [Instance -> LeaseType \cup {None}]
      /\ queue \in [Instance -> SUBSET EntryType]
  BY DEF TypeOK
<1>2. /\ queue' = [queue EXCEPT ![i] = q]
      /\ lease' = [lease EXCEPT ![i] = Refreshed(lease[i], q)]
  BY DEF SetQueue
<1>3. /\ Refreshed(lease[i], q) \in LeaseType \cup {None}
      /\ SameLease(lease[i], Refreshed(lease[i], q))
      /\ lease[i] # None =>
           (Refreshed(lease[i], q).preempt <=>
              \E e \in q : IsFirst(e, q) /\ Preempts(e, Refreshed(lease[i], q)))
  BY <1>1, RefreshedFacts
<1>4. /\ lease'[i] = Refreshed(lease[i], q)
      /\ queue'[i] = q
      /\ \A j \in Instance \ {i} : queue'[j] = queue[j] /\ lease'[j] = lease[j]
      /\ lease' \in [Instance -> LeaseType \cup {None}]
      /\ queue' \in [Instance -> SUBSET EntryType]
  BY <1>1, <1>2, <1>3
<1>5. \A j \in Instance : SameLease(lease[j], lease'[j])
  BY <1>3, <1>4 DEF SameLease
<1>6. ASSUME PreemptExact PROVE PreemptExact'
  <2> SUFFICES ASSUME NEW j \in Instance, lease'[j] # None
               PROVE  lease'[j].preempt <=>
                        \E e \in queue'[j] : IsFirst(e, queue'[j]) /\ Preempts(e, lease'[j])
    BY DEF PreemptExact
  <2>1. CASE j = i
    BY <2>1, <1>3, <1>4 DEF SameLease
  <2>2. CASE j # i
    BY <2>2, <1>4, <1>6 DEF PreemptExact
  <2> QED
    BY <2>1, <2>2
<1> QED
  BY <1>4, <1>5, <1>6

\* Token facts: a token that is current is the lease's token.
LEMMA MintedTokenType ==
    ASSUME TypeOK, NEW c \in Claim, NEW ttl \in Nat
    PROVE  /\ MintedToken(c, ttl) \in TokenType
           /\ MintedToken(c, ttl).id = nextLease
           /\ MintedToken(c, ttl).instance = c.instance
           /\ c \in ClaimType
BY ConfigAssumption DEF TypeOK, MintedToken, TokenType, ClaimType

\* Every gate is a set of kinds.
LEMMA ClaimFacts ==
    ASSUME NEW c \in Claim
    PROVE  /\ c.instance \in Instance /\ c.holder \in Holder /\ c.kind \in ClaimKind
           /\ c.ttl \in Nat /\ c.timeout \in Nat
BY ConfigAssumption DEF ClaimType

\* A grant prepared for claim c is a sound preparation.
LEMMA PreparedLeaseFacts ==
    ASSUME TypeOK, NEW c \in Claim, NEW ttl \in Nat, NEW b \in BOOLEAN,
           NEW f \in BOOLEAN,
           b => c.kind \in {"ResourceClose", "DaemonStartPreparation"}
    PROVE  LET p == PreparedLease(c, ttl, b, f)
           IN  /\ p \in PreparedLeaseType
               /\ p.token.id = nextLease
               /\ SoundPreparation(p)
BY MintedTokenType DEF PreparedLease, PreparedLeaseType, SoundPreparation

\* A transfer prepared from t's lease to entry e is a sound preparation.
LEMMA PreparedTransferFacts ==
    ASSUME TypeOK, LeasesSound, NEW t \in tokens, NEW h, Transferable(t, h),
           NEW e \in EntryType, e.claim.instance = t.instance,
           NEW r \in Request \cup {None}, NEW b \in BOOLEAN
    PROVE  LET p == PreparedTransfer(t, e, r, b)
           IN  /\ p \in PreparedTransferType
               /\ p.token.id = nextLease
               /\ SoundPreparation(p)
<1>1. t \in TokenType /\ t.instance \in Instance
  BY DEF TypeOK, TokenType
<1>2. /\ lease[t.instance] \in LeaseType
      /\ lease[t.instance].step = None
      /\ lease[t.instance].token = t
  BY <1>1 DEF TypeOK, Transferable, HeldBy, Current
<1>3. e.claim \in Claim /\ e.claim.ttl \in Nat
  BY ClaimFacts DEF EntryType
<1> QED
  BY <1>1, <1>2, <1>3, MintedTokenType, Zenon
  DEF PreparedTransfer, PreparedTransferType, SoundPreparation

\* Every step of SchedulerClients has one of the shapes.
LEMMA StepShapes ==
    ASSUME IInv, Next
    PROVE  StepShape
<1> USE DEF IInv
<1>1. ASSUME NEW c \in Claim, NEW gate \in ClaimGate, ClientAcquire(c, gate)
      PROVE  StepShape
  <2> DEFINE p == PreparedLease(c, c.ttl, FALSE, FALSE)
  <2>1. p \in PreparedLeaseType /\ p.token.id = nextLease /\ SoundPreparation(p)
    BY PreparedLeaseFacts, ClaimFacts, Zenon
  <2>2. CooldownsEnd
    BY <1>1, ClaimFacts DEF ClientAcquire, PrepareAcquire, CooldownsEnd, TypeOK
  <2>3. PrepareShape(p)
    BY <1>1, <2>1, <2>2, Zenon DEF ClientAcquire, PrepareAcquire, Prepares, PrepareShape
  <2> QED
    BY <2>3, Zenon DEF StepShape
<1>2. ASSUME NEW c \in Claim, NEW gate \in ClaimGate, ClientRefuse(c, gate)
      PROVE  StepShape
  <2>1. CooldownsEnd
    BY <1>2, ClaimFacts DEF ClientRefuse, RefuseAcquire, CooldownsEnd, TypeOK
  <2> QED
    BY <1>2, <2>1, Zenon DEF ClientRefuse, RefuseAcquire, ClockShape, StepShape
<1>3. ASSUME NEW c \in Claim, NEW gate \in ClaimGate, ClientDedicated(c, gate)
      PROVE  StepShape
  <2> DEFINE p == PreparedLease(c, LeaseTtl, TRUE, FALSE)
  <2>1. p \in PreparedLeaseType /\ p.token.id = nextLease /\ SoundPreparation(p)
    BY <1>3, PreparedLeaseFacts, ConfigAssumption, Zenon DEF ClientDedicated
  <2>2. CooldownsEnd
    BY <1>3, ClaimFacts, Zenon
    DEF ClientDedicated, PrepareDedicatedLease, PrepareAcquire, CooldownsEnd, TypeOK
  <2>3. PrepareShape(p)
    BY <1>3, <2>1, <2>2, Zenon
    DEF ClientDedicated, PrepareDedicatedLease, PrepareAcquire, Prepares, PrepareShape
  <2> QED
    BY <2>3, Zenon DEF StepShape
<1>4. ASSUME NEW c \in Claim, NEW gate \in ClaimGate, NEW immediate \in BOOLEAN,
             ClientQueueLease(c, gate, immediate)
      PROVE  StepShape
  <2>1. c.instance \in Instance /\ c.timeout \in Nat
    BY ClaimFacts, Zenon
  <2>2. CASE /\ RequestQueuedLease(c, gate, immediate)
             /\ Prepares(PreparedLease(c, LeaseTtl, FALSE, FALSE))
    <3> DEFINE p == PreparedLease(c, LeaseTtl, FALSE, FALSE)
    <3>1. p \in PreparedLeaseType /\ p.token.id = nextLease /\ SoundPreparation(p)
      BY PreparedLeaseFacts, ConfigAssumption, Zenon
    <3>2. CooldownsEnd
      BY <2>1, <2>2, Zenon DEF RequestQueuedLease, CooldownsEnd, TypeOK
    <3>3. PrepareShape(p)
      BY <2>1, <2>2, <3>1, <3>2, Zenon DEF RequestQueuedLease, Prepares, PrepareShape
    <3> QED
      BY <3>3, Zenon DEF StepShape
  <2>3. CASE RequestQueuedEntry(c, gate, immediate) /\ UNCHANGED clientVars
    <3>1. InsertShape(c, LiveQueue(c.instance), now + c.timeout)
      BY <2>3 DEF RequestQueuedEntry, InsertShape
    <3>2. LiveQueue(c.instance) \in SUBSET queue[c.instance] /\ now + c.timeout \in Nat
      BY <2>1 DEF LiveQueue, TypeOK
    <3> QED
      BY <3>1, <3>2, Zenon DEF StepShape
  <2>4. CASE RequestQueuedRefused(c, gate, immediate) /\ UNCHANGED clientVars
    <3> DEFINE out == queue[c.instance] \ LiveQueue(c.instance)
    <3>1. LiveQueue(c.instance) = queue[c.instance] \ out
      BY DEF LiveQueue
    <3>2. RemoveShape(c.instance, out)
      BY <2>4, <3>1, Zenon DEF RequestQueuedRefused, RemoveShape, RemoveQueued
    <3> QED
      BY <2>1, <3>2, Zenon DEF StepShape
  <2> QED
    BY <1>4, <2>2, <2>3, <2>4, Zenon DEF ClientQueueLease
<1>5. ASSUME NEW t \in tokens, NEW c \in Claim, NEW gate \in ClaimGate,
             ClientHandOff(t, c, gate)
      PROVE  StepShape
  <2>1. PICK r \in Request \cup {None} :
           /\ PrepareHandOff(t, t.holder, c, gate)
           /\ Prepares(PreparedTransfer(t, HandOffEntry(c), r, TRUE))
    BY <1>5, Zenon DEF ClientHandOff
  <2> DEFINE p == PreparedTransfer(t, HandOffEntry(c), r, TRUE)
  <2>2. HandOffEntry(c) \in EntryType /\ HandOffEntry(c).claim.instance = t.instance
    BY <2>1, ConfigAssumption DEF PrepareHandOff, HandOffEntry, EntryType, NoDeadline
  <2>3. p \in PreparedTransferType /\ p.token.id = nextLease /\ SoundPreparation(p)
    BY <2>1, <2>2, PreparedTransferFacts, Zenon DEF PrepareHandOff
  <2>4. CooldownsEnd
    BY <2>1, Zenon DEF PrepareHandOff, PrepareToken, CooldownsEnd, TypeOK
  <2>5. PrepareShape(p)
    BY <2>1, <2>3, <2>4, Zenon DEF PrepareHandOff, PrepareToken, Prepares, PrepareShape
  <2> QED
    BY <2>5, Zenon DEF StepShape
<1>6. ASSUME NEW i \in Instance, NEW gate \in ClaimGate, ClientQueuedGrant(i, gate)
      PROVE  StepShape
  <2>1. PICK e \in queue[i] :
           /\ PrepareQueuedGrant(i, gate, e)
           /\ Prepares(PreparedLease(e.claim, e.claim.ttl, FALSE, TRUE))
    BY <1>6, Zenon DEF ClientQueuedGrant
  <2> DEFINE p == PreparedLease(e.claim, e.claim.ttl, FALSE, TRUE)
  <2>2. e.claim \in Claim
    BY DEF TypeOK, EntryType
  <2>3. p \in PreparedLeaseType /\ p.token.id = nextLease /\ SoundPreparation(p)
    BY <2>2, PreparedLeaseFacts, ClaimFacts, Zenon
  <2>4. CooldownsEnd
    BY <2>1 DEF PrepareQueuedGrant, CooldownsEnd, TypeOK
  <2>5. PrepareShape(p)
    BY <2>1, <2>3, <2>4, Zenon DEF PrepareQueuedGrant, Prepares, PrepareShape
  <2> QED
    BY <2>5, Zenon DEF StepShape
<1>7. ASSUME NEW t \in tokens, NEW gate \in ClaimGate, ClientTransfer(t, gate)
      PROVE  StepShape
  <2>1. PICK e \in queue[t.instance], r \in Request \cup {None}, preempted \in BOOLEAN :
           /\ PrepareTransfer(t, t.holder, gate, e, preempted)
           /\ Prepares(PreparedTransfer(t, e, r, FALSE))
    BY <1>7, Zenon DEF ClientTransfer
  <2> DEFINE p == PreparedTransfer(t, e, r, FALSE)
  <2>2. t.instance \in Instance
    BY DEF TypeOK, TokenType
  <2>3. e \in EntryType /\ e.claim.instance = t.instance
    BY <2>2, Zenon DEF TypeOK, QueueSound
  <2>4. p \in PreparedTransferType /\ p.token.id = nextLease /\ SoundPreparation(p)
    BY <2>1, <2>3, PreparedTransferFacts, Zenon DEF PrepareTransfer, TransferCandidate
  <2>5. CooldownsEnd
    BY <2>1, Zenon DEF PrepareTransfer, PrepareToken, CooldownsEnd, TypeOK
  <2>6. PrepareShape(p)
    BY <2>1, <2>4, <2>5, Zenon DEF PrepareTransfer, PrepareToken, Prepares, PrepareShape
  <2> QED
    BY <2>6, Zenon DEF StepShape
<1>8. ASSUME NEW c \in Claim, ClientEnqueue(c)
      PROVE  StepShape
  <2>1. InsertShape(c, queue[c.instance], NoDeadline)
    BY <1>8, Zenon DEF ClientEnqueue, EnqueueClaim, Enqueueable, InsertShape
  <2>2. NoDeadline \in Nat
    BY ConfigAssumption DEF NoDeadline
  <2> QED
    BY <2>1, <2>2, Zenon DEF StepShape
<1>9. ASSUME NEW c \in Claim, ClientUnqueue(c)
      PROVE  StepShape
  <2>1. PICK e \in queue[c.instance] : RemoveShape(c.instance, {e})
    BY <1>9, Zenon DEF ClientUnqueue, PollQueuedExpired, CancelQueued, RemoveShape
  <2> QED
    BY <2>1, ClaimFacts, Zenon DEF StepShape
<1>10. ASSUME NEW t \in tokens, ClientRenew(t)
       PROVE  StepShape
  <2>1. /\ t \in TokenType /\ t.instance \in Instance
        /\ lease[t.instance] \in LeaseType \cup {None}
    BY DEF TypeOK, TokenType
  <2>2. ASSUME NEW r \in Request, Renew(t, t.holder, r),
               tokens' = tokens \cup {RenewedToken(t, LeaseTtl)}
        PROVE  StepShape
    <3> DEFINE record == [request |-> r, submitted |-> t,
                          renewed |-> RenewedToken(t, LeaseTtl)]
    <3>1. RenewedToken(t, LeaseTtl) \in TokenType
      BY <2>1, ConfigAssumption DEF RenewedToken, TokenType, TypeOK
    <3>2. record \in RenewType
      BY <2>1, <3>1, ClientsAssumption, Zenon DEF RenewType
    <3>3. RenewShape(t, LeaseTtl, record)
      BY <1>10, <2>2, Zenon DEF ClientRenew, Renew, RenewShape, ActiveLease, HeldBy
    <3> QED
      BY <3>2, <3>3, ConfigAssumption, Zenon DEF StepShape
  <2>3. ASSUME NEW c \in Claim, RenewWithTtl(t, t.holder, c.ttl),
               tokens' = tokens \cup {RenewedToken(t, c.ttl)}
        PROVE  StepShape
    <3> DEFINE record == lease[t.instance].renew
    <3>1. Current(t) /\ lease[t.instance] \in LeaseType
      BY <2>1, <2>3 DEF RenewWithTtl, ActiveLease, HeldBy, Current
    <3>2. [lease EXCEPT ![t.instance].token = RenewedToken(t, c.ttl)]
            = [lease EXCEPT ![t.instance] =
                 [@ EXCEPT !.token = RenewedToken(t, c.ttl), !.renew = record]]
      BY <2>1, <3>1, Zenon DEF TypeOK, LeaseType
    <3>3. RenewShape(t, c.ttl, record)
      BY <1>10, <2>3, <3>1, <3>2, Zenon DEF ClientRenew, RenewWithTtl, RenewShape
    <3> QED
      BY <3>1, <3>3, ClaimFacts, Zenon DEF StepShape, LeaseType
  <2> QED
    BY <1>10, <2>2, <2>3 DEF ClientRenew
<1>11. ASSUME NEW t \in tokens, ClientEnd(t)
       PROVE  StepShape
  <2>1. t \in TokenType
    BY DEF TypeOK
  <2>2. ASSUME NEW r \in Request PROVE ReleaseRecord(r, t) \in ReleaseType
    BY <2>1, ClientsAssumption DEF ReleaseRecord, ReleaseType
  <2>3. \E r \in ReleaseType \cup {None} : EndShape(t, r)
    BY <1>11, <2>2, Zenon
    DEF ClientEnd, Release, ExpireToken, ReleaseOwned, RollbackLease, ActiveLease,
        HeldBy, EndShape
  <2> QED
    BY <2>3, Zenon DEF StepShape
<1>12. ASSUME Sweep PROVE StepShape
  <2>1. ASSUME NEW i \in Instance, UNCHANGED clientVars,
               \/ TakeExpired(i)
               \/ \E h \in Holder : RemoveForConnection(i, h)
               \/ RemoveForInstance(i)
               \/ RemoveForDrain(i)
        PROVE  StepShape
    <3>1. \E out : RemoveShape(i, out)
      BY <2>1, Zenon DEF TakeExpired, RemoveForConnection, RemoveForInstance,
                  RemoveForDrain, RemoveShape
    <3> QED
      BY <3>1 DEF StepShape
  <2>2. CASE ClearElapsedCooldowns /\ UNCHANGED clientVars
    <3>1. CooldownsEnd
      BY <2>2, Zenon DEF ClearElapsedCooldowns, CooldownsEnd, TypeOK
    <3> QED
      BY <2>2, <3>1, Zenon DEF ClearElapsedCooldowns, ClockShape, StepShape
  <2>3. CASE Tick /\ UNCHANGED clientVars
    BY <2>3, Zenon DEF Tick, ClockShape, StepShape
  <2> QED
    BY <1>12, <2>1, <2>2, <2>3 DEF Sweep
<1>13. ASSUME NEW p \in prepared, CommitSucceeds(p) \/ CommitRefused(p)
       PROVE  StepShape
  BY <1>13, Zenon DEF StepShape
<1>14. ASSUME NEW t \in tokens, ClientBegin(t) PROVE StepShape
  BY <1>14, Zenon DEF StepShape
<1>15. ASSUME NEW w \in writes, ClientFinish(w) PROVE StepShape
  BY <1>15, Zenon DEF StepShape
<1> QED
  BY <1>1, <1>2, <1>3, <1>4, <1>5, <1>6, <1>7, <1>8, <1>9, <1>10, <1>11, <1>12,
     <1>13, <1>14, <1>15 DEF Next

-----------------------------------------------------------------------------
\* What an accepted commit does: a fresh lease replaces none, or one between steps.
CommitShape(p, l, q) ==
    LET i == p.token.instance IN
    /\ i \in Instance
    /\ l \in LeaseType
    /\ l.token = p.token
    /\ l.step = None
    /\ l.closeOnly => l.kind \in {"ResourceClose", "DaemonStartPreparation"}
    /\ l.preempt <=> \E e \in q : IsFirst(e, q) /\ Preempts(e, l)
    /\ lease[i] # None => lease[i].step = None
    /\ cooldown[i] <= now
    /\ q \in SUBSET queue[i]
    /\ lease' = [lease EXCEPT ![i] = l]
    /\ queue' = [queue EXCEPT ![i] = q]
    /\ lastRelease' \in [Instance -> ReleaseType \cup {None}]
    /\ locations' = {x \in locations :
                       /\ x[1] # p.token.id
                       /\ lease[i] # None => x[1] # lease[i].token.id}
                       \cup {<<p.token.id, i>>}
    /\ prepared' = prepared \ {p}
    /\ tokens' = tokens \cup {p.token}
    /\ UNCHANGED <<now, epoch, cooldown, nextLease, nextArrival, nextStep, writes>>

\* A fresh lease of token t and kind k whose flag is exact for queue q.
FreshLease(l, t, k, b, q) ==
    /\ l \in LeaseType /\ l.token = t /\ l.step = None /\ l.kind = k
    /\ l.closeOnly <=> b
    /\ l.preempt <=> \E e \in q : IsFirst(e, q) /\ Preempts(e, l)

\* A granted lease, refreshed for its queue, is one.
LEMMA GrantedLeaseFacts ==
    ASSUME NEW t \in TokenType, NEW c \in Claim, NEW k \in ClaimKind,
           NEW b \in BOOLEAN, NEW q
    PROVE  FreshLease(Refreshed(GrantedLease(t, c, k, b), q), t, k, b, q)
<1> DEFINE g == GrantedLease(t, c, k, b)
           l == Refreshed(g, q)
<1>1. /\ g \in LeaseType /\ g.token = t /\ g.step = None /\ g.kind = k
      /\ g.closeOnly <=> b
  BY Zenon DEF GrantedLease, LeaseType
<1> HIDE DEF g
<1>2. g # None
  BY <1>1, NoneAssumption
<1>3. /\ l \in LeaseType \cup {None}
      /\ SameLease(g, l)
      /\ l.preempt <=> \E e \in q : IsFirst(e, q) /\ Preempts(e, l)
  BY <1>1, <1>2, RefreshedFacts, Zenon
<1>4. l # None
  BY <1>2, <1>3, Zenon DEF SameLease
<1>5. /\ l.token = g.token /\ l.step = g.step /\ l.kind = g.kind
      /\ l.closeOnly = g.closeOnly
  BY <1>2, <1>3, Zenon DEF SameLease
<1> HIDE DEF l
<1>6. l.closeOnly <=> b
  BY <1>1, <1>5
<1>7. /\ l \in LeaseType /\ l.token = t /\ l.step = None /\ l.kind = k
  BY <1>1, <1>3, <1>4, <1>5, Zenon
<1>8. FreshLease(l, t, k, b, q)
  BY <1>3, <1>6, <1>7, Zenon DEF FreshLease
<1> QED
  BY <1>8, Zenon DEF l, g

\* A successful commit of a preparation (commit_acquire, commit_transfer) grants one
\* fresh lease and consumes the preparation.
LEMMA CommitShapes ==
    ASSUME IInv, NEW p \in prepared, CommitSucceeds(p)
    PROVE  \E l, q : CommitShape(p, l, q)
<1> USE DEF IInv
<1>1. SoundPreparation(p)
  BY DEF PreparedSound
<1>2. /\ prepared' = prepared \ {p}
      /\ tokens' = tokens \cup {p.token}
      /\ UNCHANGED writes
  BY DEF CommitSucceeds
<1>3. CASE p.type = "acquire" /\ CommitAcquire(p)
  <2>1. p \in PreparedLeaseType
    BY <1>3 DEF TypeOK, PreparedTransferType
  <2> DEFINE i == p.token.instance
             q == IF p.fromQueue THEN {e \in queue[i] : e.claim # p.claim}
                                 ELSE queue[i]
             l == Refreshed(GrantedLease(p.token, p.claim, p.claim.kind,
                                         p.closeOnly), q)
  <2>2. i \in Instance /\ p.token \in TokenType /\ p.claim \in Claim
    BY <2>1 DEF PreparedLeaseType, TokenType
  <2>3. p.claim.kind \in ClaimKind /\ p.closeOnly \in BOOLEAN
    BY <2>1, <2>2, ClaimFacts, Zenon DEF PreparedLeaseType
  <2>4. FreshLease(l, p.token, p.claim.kind, p.closeOnly, q)
    BY <2>2, <2>3, GrantedLeaseFacts, Zenon
  <2>5. l.closeOnly => l.kind \in {"ResourceClose", "DaemonStartPreparation"}
    <3> HIDE DEF l, q
    <3> QED
      BY <1>1, <1>3, <2>4, Zenon DEF SoundPreparation, FreshLease
  <2>6. /\ lease[i] = None /\ cooldown[i] <= now
        /\ lease' = [lease EXCEPT ![i] = l]
        /\ queue' = [queue EXCEPT ![i] = q]
        /\ lastRelease' = [lastRelease EXCEPT ![i] = None]
        /\ locations' = Located(p.token.id, i)
        /\ UNCHANGED <<now, epoch, cooldown, nextLease, nextArrival, nextStep>>
    BY <1>3, Zenon DEF CommitAcquire, AcquireCommittable
  <2>7. lastRelease' \in [Instance -> ReleaseType \cup {None}]
    BY <2>6, Zenon DEF TypeOK
  <2>8. q \in SUBSET queue[i]
    OBVIOUS
  <2> HIDE DEF l, q
  <2>9. CommitShape(p, l, q)
    BY <1>2, <2>2, <2>4, <2>5, <2>6, <2>7, <2>8, Zenon
    DEF CommitShape, Located, Unlocated, FreshLease
  <2> QED
    BY <2>9
<1>4. CASE p.type = "transfer" /\ CommitTransfer(p)
  <2>1. p \in PreparedTransferType
    BY <1>4, Zenon DEF TypeOK, PreparedLeaseType
  <2> DEFINE i == p.from.token.instance
             c == p.entry.claim
             q == queue[i] \ {p.entry}
             l == Refreshed(GrantedLease(p.token, c, TransferredKind(c.kind), FALSE), q)
  <2>2. /\ i \in Instance /\ i = p.token.instance
        /\ p.token \in TokenType /\ c \in Claim
        /\ p.from \in LeaseType /\ p.from.step = None /\ p.from.token \in TokenType
    BY <1>1, <1>4, <2>1, Zenon
    DEF PreparedTransferType, TokenType, LeaseType, EntryType, SoundPreparation
  <2>3. TransferredKind(c.kind) \in ClaimKind
    BY <2>2, ClaimFacts, Zenon DEF TransferredKind, ClaimKind, Routine
  <2>4. FALSE \in BOOLEAN
    OBVIOUS
  <2>5. FreshLease(l, p.token, TransferredKind(c.kind), FALSE, q)
    BY <2>2, <2>3, <2>4, GrantedLeaseFacts, Zenon
  <2>6. /\ lease[i] = p.from
        /\ lease' = [lease EXCEPT ![i] = l]
        /\ queue' = [queue EXCEPT ![i] = q]
        /\ lastRelease' = [lastRelease EXCEPT ![i] =
               IF p.release = None THEN None
               ELSE ReleaseRecord(p.release, p.from.token)]
        /\ locations' = {x \in locations : x[1] \notin {p.from.token.id, p.token.id}}
                            \cup {<<p.token.id, i>>}
        /\ UNCHANGED <<now, epoch, cooldown, nextLease, nextArrival, nextStep>>
    BY <1>4, Zenon DEF CommitTransfer, TransferCommittable
  <2>7. lastRelease' \in [Instance -> ReleaseType \cup {None}]
    BY <2>1, <2>2, <2>6, ClientsAssumption, Zenon
    DEF TypeOK, PreparedTransferType, ReleaseRecord, ReleaseType
  <2>8. cooldown[i] <= now
    BY <2>2, <2>6, NoneAssumption DEF CooldownSound, TypeOK
  <2>9. lease[i] # None /\ lease[i].step = None
    BY <2>2, <2>6, NoneAssumption, Zenon
  <2>10. q \in SUBSET queue[i]
    OBVIOUS
  <2> HIDE DEF l, q
  <2>11. CommitShape(p, l, q)
    BY <1>2, <2>2, <2>5, <2>6, <2>7, <2>8, <2>9, <2>10, Zenon
    DEF CommitShape, FreshLease
  <2> QED
    BY <2>11
<1> QED
  BY <1>3, <1>4 DEF CommitSucceeds

-----------------------------------------------------------------------------
\* Preservation, one lemma per part of IInv.

\* What begin_destructive_step and begin_resource_close do to the state.
BeginShape(t, s) ==
    /\ t.instance \in Instance
    /\ Current(t)
    /\ s \in StepType /\ s.id = nextStep
    /\ lease[t.instance].step = None
    /\ lease[t.instance].closeOnly => s.purpose = "ResourceClose"
    /\ lease' = [lease EXCEPT ![t.instance].step = s]
    /\ nextStep' = nextStep + 1
    /\ writes' = writes \cup {[token |-> t, holder |-> t.holder, step |-> s]}
    /\ UNCHANGED <<now, epoch, lastRelease, cooldown, queue, locations, nextLease,
                   nextArrival, prepared, tokens>>

\* A begin of a destructive step (begin_destructive_step) marks the lease and hands
\* out one witness of it.
LEMMA BeginShapes ==
    ASSUME TypeOK, NEW t \in tokens, ClientBegin(t)
    PROVE  \E s : BeginShape(t, s)
<1>1. t.instance \in Instance /\ nextStep \in Nat
  BY Zenon DEF TypeOK, TokenType
<1>2. CASE /\ BeginDestructiveStep(t, t.holder)
           /\ writes' = writes \cup {Witness(t, t.holder, "Business")}
  <2> DEFINE s == [id |-> nextStep, purpose |-> "Business"]
  <2>1. s \in StepType
    BY <1>1, Zenon DEF StepType
  <2>2. BeginShape(t, s)
    BY <1>1, <1>2, <2>1, Zenon
    DEF ClientBegin, BeginDestructiveStep, OpenStep, Witness, ValidWrite, ValidLease,
        ActiveLease, HeldBy, BeginShape
  <2> QED
    BY <2>2, Zenon
<1>3. CASE /\ BeginResourceClose(t, t.holder)
           /\ writes' = writes \cup {Witness(t, t.holder, "ResourceClose")}
  <2> DEFINE s == [id |-> nextStep, purpose |-> "ResourceClose"]
  <2>1. s \in StepType
    BY <1>1, Zenon DEF StepType
  <2>2. BeginShape(t, s)
    BY <1>1, <1>3, <2>1, Zenon
    DEF ClientBegin, BeginResourceClose, OpenStep, Witness, ValidLease,
        ActiveLease, HeldBy, BeginShape
  <2> QED
    BY <2>2, Zenon
<1> QED
  BY <1>2, <1>3, Zenon DEF ClientBegin

\* Types are preserved.
LEMMA TypeStep ==
    ASSUME IInv, StepShape
    PROVE  TypeOK'
<1> USE DEF IInv
<1>1. ASSUME NEW p, PrepareShape(p) PROVE TypeOK'
  <2>1. /\ lease' \in [Instance -> LeaseType \cup {None}]
        /\ queue' \in [Instance -> SUBSET EntryType]
    <3>1. CASE UNCHANGED <<lease, queue>>
      BY <3>1, Zenon DEF TypeOK
    <3>2. ASSUME NEW i \in Instance, SetQueue(i, LiveQueue(i))
          PROVE  /\ lease' \in [Instance -> LeaseType \cup {None}]
                 /\ queue' \in [Instance -> SUBSET EntryType]
      <4>1. LiveQueue(i) \in SUBSET EntryType
        BY Zenon DEF LiveQueue, TypeOK
      <4> QED
        BY <3>2, <4>1, SetQueueFacts, Zenon
    <3> QED
      BY <1>1, <3>1, <3>2, Zenon DEF PrepareShape
  <2> QED
    BY <1>1, <2>1 DEF PrepareShape, CooldownsEnd, TypeOK
<1>2. ASSUME NEW i \in Instance, NEW out, RemoveShape(i, out) PROVE TypeOK'
  <2>1. queue[i] \ out \in SUBSET EntryType
    BY Zenon DEF TypeOK
  <2>2. /\ lease' \in [Instance -> LeaseType \cup {None}]
        /\ queue' \in [Instance -> SUBSET EntryType]
    BY <1>2, <2>1, SetQueueFacts, Zenon DEF RemoveShape, RemoveQueued
  <2> QED
    BY <1>2, <2>2, Zenon DEF RemoveShape, RemoveQueued, clientVars, TypeOK
<1>3. ASSUME NEW c \in Claim, NEW d \in Nat, NEW q \in SUBSET queue[c.instance],
             InsertShape(c, q, d)
      PROVE  TypeOK'
  <2> DEFINE e == [claim |-> c, arrival |-> nextArrival, deadline |-> d]
  <2>1. c.instance \in Instance
    BY ClaimFacts
  <2>2. q \cup {e} \in SUBSET EntryType
    BY <2>1 DEF TypeOK, EntryType
  <2>3. /\ lease' \in [Instance -> LeaseType \cup {None}]
        /\ queue' \in [Instance -> SUBSET EntryType]
    BY <1>3, <2>1, <2>2, SetQueueFacts, Zenon DEF InsertShape, Insert
  <2> QED
    BY <1>3, <2>3 DEF InsertShape, Insert, clientVars, TypeOK
<1>4. ASSUME NEW p \in prepared, CommitSucceeds(p) PROVE TypeOK'
  <2>1. PICK l, q : CommitShape(p, l, q)
    BY <1>4, CommitShapes, Zenon
  <2>2. p.token \in TokenType
    BY Zenon DEF TypeOK, PreparedLeaseType, PreparedTransferType
  <2>3. locations' \subseteq Nat \X Instance
    BY <2>1, <2>2 DEF CommitShape, TypeOK, TokenType
  <2>4. /\ lease' \in [Instance -> LeaseType \cup {None}]
        /\ queue' \in [Instance -> SUBSET EntryType]
    BY <2>1, Zenon DEF CommitShape, TypeOK
  <2> QED
    BY <2>1, <2>2, <2>3, <2>4, Zenon DEF CommitShape, TypeOK
<1>5. ASSUME NEW p \in prepared, CommitRefused(p) PROVE TypeOK'
  BY <1>5, Zenon DEF CommitRefused, schedVars, TypeOK
<1>6. ASSUME NEW t \in tokens, ClientBegin(t) PROVE TypeOK'
  <2>1. PICK s : BeginShape(t, s)
    BY <1>6, BeginShapes
  <2>2. t \in TokenType /\ t.holder \in Holder
    BY Zenon DEF TypeOK, TokenType
  <2>3. lease[t.instance] \in LeaseType
    BY <2>1, Zenon DEF BeginShape, Current, TypeOK
  <2>4. lease' \in [Instance -> LeaseType \cup {None}]
    BY <2>1, <2>3, Zenon DEF BeginShape, LeaseType, TypeOK
  <2>5. writes' \subseteq WitnessType
    BY <2>1, <2>2 DEF BeginShape, WitnessType, TypeOK
  <2> QED
    BY <2>1, <2>4, <2>5 DEF BeginShape, TypeOK
<1>7. ASSUME NEW w \in writes, ClientFinish(w) PROVE TypeOK'
  <2>1. CASE FinishDestructiveStep(w)
    <3>1. lease[w.token.instance] \in LeaseType /\ w.token.instance \in Instance
      BY <2>1, Zenon DEF FinishDestructiveStep, HeldBy, Current, TypeOK, WitnessType, TokenType
    <3>2. lease' \in [Instance -> LeaseType \cup {None}]
      BY <2>1, <3>1, Zenon DEF FinishDestructiveStep, LeaseType, TypeOK
    <3> QED
      BY <1>7, <2>1, <3>2, Zenon DEF ClientFinish, FinishDestructiveStep, TypeOK
  <2>2. CASE UNCHANGED schedVars
    BY <1>7, <2>2, Zenon DEF ClientFinish, schedVars, TypeOK
  <2> QED
    BY <1>7, <2>1, <2>2, Zenon DEF ClientFinish
<1>8. ASSUME NEW t \in tokens, NEW ttl \in Nat, NEW r \in RenewType \cup {None},
             RenewShape(t, ttl, r)
      PROVE  TypeOK'
  <2>1. t \in TokenType /\ t.instance \in Instance
    BY Zenon DEF TypeOK, TokenType
  <2>2. RenewedToken(t, ttl) \in TokenType
    BY <2>1 DEF RenewedToken, TokenType, TypeOK
  <2>3. lease[t.instance] \in LeaseType
    BY <1>8, <2>1 DEF RenewShape, Current, TypeOK
  <2>4. lease' \in [Instance -> LeaseType \cup {None}]
    BY <1>8, <2>1, <2>2, <2>3, Zenon DEF RenewShape, LeaseType, TypeOK
  <2> QED
    BY <1>8, <2>2, <2>4 DEF RenewShape, TypeOK
<1>9. ASSUME NEW t \in tokens, NEW r \in ReleaseType \cup {None}, EndShape(t, r)
      PROVE  TypeOK'
  BY <1>9, Zenon DEF EndShape, EndLease, Unlocated, clientVars, TypeOK
<1>10. ASSUME ClockShape PROVE TypeOK'
  BY <1>10, ConfigAssumption DEF ClockShape, CooldownsEnd, clientVars, TypeOK
<1> QED
  BY <1>1, <1>2, <1>3, <1>4, <1>5, <1>6, <1>7, <1>8, <1>9, <1>10, Zenon DEF StepShape

\* A step that changes no lease but for its flag, and hands out no token, witness or
\* step.
Quiet ==
    /\ \A j \in Instance : SameLease(lease[j], lease'[j])
    /\ PreemptExact'
    /\ nextLease' \in {nextLease, nextLease + 1}
    /\ UNCHANGED <<locations, tokens, nextStep>>
    /\ writes' \in SUBSET writes

\* The shapes of such steps.
QuietShape ==
    \/ \E p : PrepareShape(p)
    \/ \E i \in Instance : \E out : RemoveShape(i, out)
    \/ \E c \in Claim, d \in Nat : \E q \in SUBSET queue[c.instance] :
          InsertShape(c, q, d)
    \/ \E p \in prepared : CommitRefused(p)
    \/ \E w \in writes : ClientFinish(w) /\ UNCHANGED schedVars
    \/ ClockShape

\* An accepted finish closes the step its witness names.
FinishShape(w) ==
    /\ w \in writes
    /\ FinishDestructiveStep(w)
    /\ writes' = writes \ {w}
    /\ UNCHANGED <<prepared, tokens>>

\* A step is quiet, or one of the five that touch a lease.
LEMMA QuietOrNot ==
    ASSUME StepShape, TypeOK
    PROVE  \/ QuietShape
           \/ \E p \in prepared : CommitSucceeds(p)
           \/ \E t \in tokens, s \in StepType : BeginShape(t, s)
           \/ \E w \in writes : FinishShape(w)
           \/ \E t \in tokens, ttl \in Nat, r \in RenewType \cup {None} :
                 RenewShape(t, ttl, r)
           \/ \E t \in tokens, r \in ReleaseType \cup {None} : EndShape(t, r)
<1>1. ASSUME NEW t \in tokens, ClientBegin(t)
      PROVE  \E s \in StepType : BeginShape(t, s)
  BY <1>1, BeginShapes, Zenon DEF BeginShape
<1>2. ASSUME NEW w \in writes, ClientFinish(w)
      PROVE  FinishShape(w) \/ (ClientFinish(w) /\ UNCHANGED schedVars)
  BY <1>2, Zenon DEF ClientFinish, FinishShape
<1>3. ASSUME NEW w \in writes, ClientFinish(w)
      PROVE  FinishShape(w) \/ QuietShape
  BY <1>2, <1>3, Zenon DEF QuietShape
<1> QED
  BY <1>1, <1>3, Zenon DEF StepShape, QuietShape

\* A quiet step leaves every lease the same but for its exact preemption flag.
LEMMA QuietSteps ==
    ASSUME IInv, QuietShape
    PROVE  Quiet
<1> USE DEF IInv
<1>1. ASSUME UNCHANGED <<lease, queue>>
      PROVE  (\A j \in Instance : SameLease(lease[j], lease'[j])) /\ PreemptExact'
  BY <1>1, Zenon DEF SameLease, PreemptExact
<1>2. nextLease \in Nat
  BY Zenon DEF TypeOK
<1>3. ASSUME NEW p, PrepareShape(p) PROVE Quiet
  <2>1. ASSUME NEW i \in Instance, SetQueue(i, LiveQueue(i))
        PROVE  (\A j \in Instance : SameLease(lease[j], lease'[j])) /\ PreemptExact'
    <3>1. LiveQueue(i) \in SUBSET EntryType
      BY Zenon DEF LiveQueue, TypeOK
    <3> QED
      BY <2>1, <3>1, SetQueueFacts, Zenon
  <2> QED
    BY <1>1, <1>3, <2>1, Zenon DEF PrepareShape, Quiet
<1>4. ASSUME NEW i \in Instance, NEW out, RemoveShape(i, out) PROVE Quiet
  <2>1. queue[i] \ out \in SUBSET EntryType
    BY Zenon DEF TypeOK
  <2>2. SetQueue(i, queue[i] \ out)
    BY <1>4, Zenon DEF RemoveShape, RemoveQueued
  <2>3. (\A j \in Instance : SameLease(lease[j], lease'[j])) /\ PreemptExact'
    BY <2>1, <2>2, SetQueueFacts, Zenon
  <2> QED
    BY <1>4, <2>3, Zenon DEF RemoveShape, RemoveQueued, clientVars, Quiet
<1>5. ASSUME NEW c \in Claim, NEW d \in Nat, NEW q \in SUBSET queue[c.instance],
             InsertShape(c, q, d)
      PROVE  Quiet
  <2> DEFINE e == [claim |-> c, arrival |-> nextArrival, deadline |-> d]
  <2>1. c.instance \in Instance
    BY ClaimFacts, Zenon
  <2>2. q \cup {e} \in SUBSET EntryType
    BY <2>1 DEF TypeOK, EntryType
  <2>3. SetQueue(c.instance, q \cup {e})
    BY <1>5, Zenon DEF InsertShape, Insert
  <2>4. (\A j \in Instance : SameLease(lease[j], lease'[j])) /\ PreemptExact'
    BY <2>1, <2>2, <2>3, SetQueueFacts, Zenon
  <2> QED
    BY <1>5, <2>4, Zenon DEF InsertShape, Insert, clientVars, Quiet
<1>6. ASSUME NEW p \in prepared, CommitRefused(p) PROVE Quiet
  BY <1>1, <1>6, Zenon DEF CommitRefused, schedVars, Quiet
<1>7. ASSUME NEW w \in writes, ClientFinish(w) /\ UNCHANGED schedVars PROVE Quiet
  BY <1>1, <1>7, Zenon DEF ClientFinish, schedVars, Quiet
<1>8. ASSUME ClockShape PROVE Quiet
  BY <1>1, <1>8, Zenon DEF ClockShape, clientVars, Quiet
<1> QED
  BY <1>3, <1>4, <1>5, <1>6, <1>7, <1>8, Zenon DEF QuietShape

\* Tokens, leases and preparations stay sound.
LEMMA TokensStep ==
    ASSUME IInv, StepShape, TypeOK'
    PROVE  TokensSound' /\ LeasesSound' /\ WitnessesSound'
<1> USE DEF IInv
<1>1. ASSUME Quiet PROVE TokensSound' /\ LeasesSound' /\ WitnessesSound'
  <2>1. TokensSound'
    BY <1>1 DEF Quiet, TokensSound, TypeOK, TokenType
  <2>2. LeasesSound'
    BY <1>1, Zenon DEF Quiet, SameLease, LeasesSound
  <2>3. WitnessesSound'
    BY <1>1, Zenon DEF Quiet, WitnessesSound
  <2> QED
    BY <2>1, <2>2, <2>3
<1>2. ASSUME NEW p \in prepared, CommitSucceeds(p)
      PROVE  TokensSound' /\ LeasesSound' /\ WitnessesSound'
  <2>1. PICK l, q : CommitShape(p, l, q)
    BY <1>2, CommitShapes
  <2>2. p.token.id < nextLease /\ \A t \in tokens : t.id # p.token.id
    BY Zenon DEF PreparedFresh
  <2>3. TokensSound'
    <3>1. tokens' = tokens \cup {p.token} /\ nextLease' = nextLease
      BY <2>1, Zenon DEF CommitShape
    <3> QED
      BY <2>2, <3>1, Zenon DEF TokensSound
  <2>4. LeasesSound'
    BY <2>1, Zenon DEF CommitShape, LeasesSound, TypeOK
  <2>5. WitnessesSound'
    BY <2>1, Zenon DEF CommitShape, WitnessesSound
  <2> QED
    BY <2>3, <2>4, <2>5
<1>3. ASSUME NEW t \in tokens, NEW s \in StepType, BeginShape(t, s)
      PROVE  TokensSound' /\ LeasesSound' /\ WitnessesSound'
  <2>1. lease[t.instance] \in LeaseType
    BY <1>3, Zenon DEF BeginShape, Current, TypeOK
  <2>2. \A i \in Instance : lease'[i] # None =>
           lease[i] # None /\ lease'[i].token = lease[i].token
    BY <1>3, <2>1, NoneAssumption, Zenon DEF BeginShape, LeaseType, TypeOK
  <2>3. WitnessesSound'
    BY <1>3 DEF BeginShape, WitnessesSound, TypeOK, WitnessType, StepType
  <2> QED
    BY <1>3, <2>2, <2>3 DEF BeginShape, TokensSound, LeasesSound
<1>4. ASSUME NEW w \in writes, FinishShape(w)
      PROVE  TokensSound' /\ LeasesSound' /\ WitnessesSound'
  <2>1. lease[w.token.instance] \in LeaseType /\ w.token.instance \in Instance
    BY <1>4, Zenon DEF FinishShape, FinishDestructiveStep, HeldBy, Current, TypeOK,
                WitnessType, TokenType
  <2>2. \A i \in Instance : lease'[i] # None =>
           lease[i] # None /\ lease'[i].token = lease[i].token
    BY <1>4, <2>1, NoneAssumption, Zenon
    DEF FinishShape, FinishDestructiveStep, LeaseType, TypeOK
  <2> QED
    BY <1>4, <2>2
    DEF FinishShape, FinishDestructiveStep, TokensSound, LeasesSound, WitnessesSound
<1>5. ASSUME NEW t \in tokens, NEW ttl \in Nat, NEW r \in RenewType \cup {None},
             RenewShape(t, ttl, r)
      PROVE  TokensSound' /\ LeasesSound' /\ WitnessesSound'
  <2>1. /\ t \in TokenType /\ t.instance \in Instance
        /\ RenewedToken(t, ttl).id = t.id
        /\ RenewedToken(t, ttl).instance = t.instance
    BY DEF TypeOK, TokenType, RenewedToken
  <2>2. lease[t.instance] \in LeaseType
    BY <1>5, <2>1, Zenon DEF RenewShape, Current, TypeOK
  <2>3. TokensSound'
    BY <1>5, <2>1 DEF RenewShape, TokensSound
  <2>4. LeasesSound'
    BY <1>5, <2>1, <2>2, Zenon DEF RenewShape, LeasesSound, LeaseType, TypeOK
  <2>5. WitnessesSound'
    BY <1>5 DEF RenewShape, WitnessesSound
  <2> QED
    BY <2>3, <2>4, <2>5
<1>6. ASSUME NEW t \in tokens, NEW r \in ReleaseType \cup {None}, EndShape(t, r)
      PROVE  TokensSound' /\ LeasesSound' /\ WitnessesSound'
  BY <1>6, Zenon DEF EndShape, EndLease, clientVars, TokensSound, LeasesSound,
              WitnessesSound, TypeOK
<1> QED
  BY <1>1, <1>2, <1>3, <1>4, <1>5, <1>6, QuietOrNot, QuietSteps, Zenon

\* Preparations keep lease ids of their own: only PrepareShape adds one, and a token
\* is handed out only by a commit, which consumes its preparation, or by a renewal.
LEMMA PreparedStep ==
    ASSUME IInv, StepShape
    PROVE  PreparedFresh' /\ PreparedSound'
<1> USE DEF IInv
<1>1. /\ nextLease \in Nat
      /\ \A p \in prepared : p.token \in TokenType
      /\ \A t \in tokens : t \in TokenType
  BY Zenon DEF TypeOK, PreparedLeaseType, PreparedTransferType
<1>2. ASSUME NEW p, PrepareShape(p) PROVE PreparedFresh' /\ PreparedSound'
  <2>1. PreparedSound'
    BY <1>2, Zenon DEF PrepareShape, PreparedSound
  <2>2. \A t \in tokens : t.id # p.token.id /\ t.id \in Nat
    BY <1>1, <1>2 DEF PrepareShape, TokensSound, TokenType
  <2>3. \A q \in prepared : q.token.id # p.token.id /\ q.token.id \in Nat
    BY <1>1, <1>2 DEF PrepareShape, PreparedFresh, TokenType
  <2>4. PreparedFresh'
    BY <1>1, <1>2, <2>2, <2>3 DEF PrepareShape, PreparedFresh
  <2> QED
    BY <2>1, <2>4
<1>3. ASSUME prepared' \in SUBSET prepared, tokens' = tokens, nextLease' = nextLease
      PROVE  PreparedFresh' /\ PreparedSound'
  BY <1>3, Zenon DEF PreparedFresh, PreparedSound
<1>4. ASSUME NEW p \in prepared, CommitSucceeds(p)
      PROVE  PreparedFresh' /\ PreparedSound'
  <2>1. PICK l, q : CommitShape(p, l, q)
    BY <1>4, CommitShapes
  <2>2. /\ tokens' = tokens \cup {p.token} /\ nextLease' = nextLease
        /\ prepared' = prepared \ {p}
    BY <2>1, Zenon DEF CommitShape
  <2>3. PreparedFresh'
    BY <2>2, Zenon DEF PreparedFresh
  <2>4. PreparedSound'
    BY <2>2, Zenon DEF PreparedSound
  <2> QED
    BY <2>3, <2>4
<1>5. ASSUME NEW t \in tokens, NEW ttl \in Nat, NEW r \in RenewType \cup {None},
             RenewShape(t, ttl, r)
      PROVE  PreparedFresh' /\ PreparedSound'
  <2>1. RenewedToken(t, ttl).id = t.id
    BY <1>1 DEF TokenType, RenewedToken
  <2> QED
    BY <1>5, <2>1 DEF RenewShape, PreparedFresh, PreparedSound
<1>6. ASSUME NEW i \in Instance, NEW out, RemoveShape(i, out)
      PROVE  PreparedFresh' /\ PreparedSound'
  BY <1>3, <1>6, Zenon DEF RemoveShape, RemoveQueued, clientVars
<1>7. ASSUME NEW c \in Claim, NEW d \in Nat, NEW q \in SUBSET queue[c.instance],
             InsertShape(c, q, d)
      PROVE  PreparedFresh' /\ PreparedSound'
  BY <1>3, <1>7, Zenon DEF InsertShape, clientVars
<1>8. ASSUME NEW p \in prepared, CommitRefused(p)
      PROVE  PreparedFresh' /\ PreparedSound'
  BY <1>3, <1>8, Zenon DEF CommitRefused, schedVars
<1>9. ASSUME NEW t \in tokens, ClientBegin(t)
      PROVE  PreparedFresh' /\ PreparedSound'
  BY <1>3, <1>9, Zenon
  DEF ClientBegin, BeginDestructiveStep, BeginResourceClose, OpenStep
<1>10. ASSUME NEW w \in writes, ClientFinish(w)
       PROVE  PreparedFresh' /\ PreparedSound'
  BY <1>3, <1>10 DEF ClientFinish, FinishDestructiveStep, schedVars
<1>11. ASSUME NEW t \in tokens, NEW r \in ReleaseType \cup {None}, EndShape(t, r)
       PROVE  PreparedFresh' /\ PreparedSound'
  BY <1>3, <1>11, Zenon DEF EndShape, EndLease, clientVars
<1>12. ASSUME ClockShape PROVE PreparedFresh' /\ PreparedSound'
  BY <1>3, <1>12, Zenon DEF ClockShape, clientVars
<1> QED
  BY <1>2, <1>4, <1>5, <1>6, <1>7, <1>8, <1>9, <1>10, <1>11, <1>12, Zenon DEF StepShape

\* lease_locations as a relation.
LEMMA LocationsRelation ==
    LocationsExact <=>
        \A x : x \in locations <=>
            \E i \in Instance : lease[i] # None /\ x = <<lease[i].token.id, i>>
BY Zenon DEF LocationsExact

\* One lease is edited in place.
LEMMA LeaseEdited ==
    ASSUME TypeOK, NEW k \in Instance, lease[k] \in LeaseType, NEW m \in LeaseType,
           lease' = [lease EXCEPT ![k] = m]
    PROVE  /\ lease'[k] = m
           /\ \A i \in Instance : i # k => lease'[i] = lease[i]
           /\ \A i \in Instance : lease[i] = None <=> lease'[i] = None
<1>1. lease'[k] = m /\ \A i \in Instance : i # k => lease'[i] = lease[i]
  BY Zenon DEF TypeOK
<1>2. lease[k] # None /\ m # None
  BY NoneAssumption, Zenon
<1> QED
  BY <1>1, <1>2, Zenon

\* lease_locations stays exact.
LEMMA LocationsStep ==
    ASSUME IInv, StepShape
    PROVE  LocationsExact'
<1> USE DEF IInv
<1>1. \A x : x \in locations <=>
          \E i \in Instance : lease[i] # None /\ x = <<lease[i].token.id, i>>
  BY LocationsRelation
<1>2. \A i \in Instance : \A j \in Instance :
          /\ lease[i] # None /\ lease[j] # None
          /\ lease[i].token.id = lease[j].token.id
          => i = j
  BY DEF LeasesSound, TokensSound
<1>3. ASSUME locations' = locations,
             \A i \in Instance : /\ lease[i] = None <=> lease'[i] = None
                                 /\ lease[i] # None =>
                                       lease'[i].token.id = lease[i].token.id
      PROVE  LocationsExact'
  BY <1>3, Zenon DEF LocationsExact
<1>4. ASSUME Quiet PROVE LocationsExact'
  BY <1>3, <1>4, Zenon DEF Quiet, SameLease
<1>5. ASSUME NEW p \in prepared, CommitSucceeds(p) PROVE LocationsExact'
  <2>1. PICK l, q : CommitShape(p, l, q)
    BY <1>5, CommitShapes
  <2> DEFINE k == p.token.instance
  <2>2. /\ k \in Instance /\ lease'[k] = l /\ l # None /\ l.token.id = p.token.id
        /\ \A i \in Instance \ {k} : lease'[i] = lease[i]
    BY <2>1, NoneAssumption, Zenon DEF CommitShape, TypeOK
  <2>3. \A i \in Instance : lease[i] # None => lease[i].token.id # p.token.id
    BY Zenon DEF PreparedFresh, LeasesSound
  <2>4. ASSUME NEW x
        PROVE  x \in locations' <=>
                 \E i \in Instance : lease'[i] # None /\ x = <<lease'[i].token.id, i>>
    <3>1. x \in locations' <=>
            \/ x = <<p.token.id, k>>
            \/ /\ x \in locations
               /\ x[1] # p.token.id
               /\ lease[k] # None => x[1] # lease[k].token.id
      BY <2>1, Zenon DEF CommitShape
    <3>2. ASSUME x \in locations'
          PROVE  \E i \in Instance : lease'[i] # None /\ x = <<lease'[i].token.id, i>>
      <4>1. CASE x = <<p.token.id, k>>
        BY <2>2, <4>1, Zenon
      <4>2. CASE x # <<p.token.id, k>>
        <5>1. PICK i \in Instance : lease[i] # None /\ x = <<lease[i].token.id, i>>
          BY <1>1, <3>1, <3>2, <4>2, Zenon
        <5>2. x[1] = lease[i].token.id
          BY <5>1
        <5>3. i # k
          BY <3>1, <3>2, <4>2, <5>1, <5>2, Zenon
        <5> QED
          BY <2>2, <5>1, <5>3, Zenon
      <4> QED
        BY <4>1, <4>2, Zenon
    <3>3. ASSUME NEW i \in Instance, lease'[i] # None, x = <<lease'[i].token.id, i>>
          PROVE  x \in locations'
      <4>1. CASE i = k
        BY <2>2, <3>1, <3>3, <4>1, Zenon
      <4>2. CASE i # k
        <5>1. lease[i] # None /\ x = <<lease[i].token.id, i>>
          BY <2>2, <3>3, <4>2, Zenon
        <5>2. x \in locations
          BY <1>1, <5>1, Zenon
        <5>3. x[1] = lease[i].token.id
          BY <5>1
        <5> QED
          BY <1>2, <2>2, <2>3, <3>1, <4>2, <5>1, <5>2, <5>3, Zenon
      <4> QED
        BY <4>1, <4>2
    <3> QED
      BY <3>2, <3>3, Zenon
  <2> QED
    BY <2>4, Zenon DEF LocationsExact
<1>6. ASSUME NEW t \in tokens, NEW s \in StepType, BeginShape(t, s)
      PROVE  LocationsExact'
  <2>1. lease[t.instance] \in LeaseType
    BY <1>6, Zenon DEF BeginShape, Current, TypeOK
  <2>2. \A i \in Instance : /\ lease[i] = None <=> lease'[i] = None
                            /\ lease[i] # None => lease'[i].token = lease[i].token
    <3> DEFINE m == [lease[t.instance] EXCEPT !.step = s]
    <3>1. m \in LeaseType /\ m.token = lease[t.instance].token
      BY <2>1, Zenon DEF LeaseType
    <3>2. t.instance \in Instance /\ lease' = [lease EXCEPT ![t.instance] = m]
      BY <1>6, Zenon DEF BeginShape
    <3> HIDE DEF m
    <3> QED
      BY <2>1, <3>1, <3>2, LeaseEdited, Zenon
  <2> QED
    BY <1>3, <1>6, <2>2, Zenon DEF BeginShape
<1>7. ASSUME NEW w \in writes, FinishShape(w) PROVE LocationsExact'
  <2>1. lease[w.token.instance] \in LeaseType /\ w.token.instance \in Instance
    BY <1>7, Zenon DEF FinishShape, FinishDestructiveStep, HeldBy, Current, TypeOK,
                WitnessType, TokenType
  <2>2. \A i \in Instance : /\ lease[i] = None <=> lease'[i] = None
                            /\ lease[i] # None => lease'[i].token = lease[i].token
    <3> DEFINE m == [lease[w.token.instance] EXCEPT !.step = None]
    <3>1. m \in LeaseType /\ m.token = lease[w.token.instance].token
      BY <2>1, Zenon DEF LeaseType
    <3>2. lease' = [lease EXCEPT ![w.token.instance] = m]
      BY <1>7, Zenon DEF FinishShape, FinishDestructiveStep
    <3> HIDE DEF m
    <3> QED
      BY <2>1, <3>1, <3>2, LeaseEdited, Zenon
  <2> QED
    BY <1>3, <1>7, <2>2, Zenon DEF FinishShape, FinishDestructiveStep
<1>8. ASSUME NEW t \in tokens, NEW ttl \in Nat, NEW r \in RenewType \cup {None},
             RenewShape(t, ttl, r)
      PROVE  LocationsExact'
  <2>1. /\ t \in TokenType /\ t.instance \in Instance
        /\ RenewedToken(t, ttl) \in TokenType
        /\ RenewedToken(t, ttl).id = t.id
    BY DEF TypeOK, TokenType, RenewedToken
  <2>2. lease[t.instance] \in LeaseType /\ lease[t.instance].token = t
    BY <1>8, <2>1 DEF RenewShape, Current, TypeOK
  <2>3. \A i \in Instance :
           /\ lease[i] = None <=> lease'[i] = None
           /\ lease[i] # None => lease'[i].token.id = lease[i].token.id
    <3> DEFINE n == RenewedToken(t, ttl)
               m == [lease[t.instance] EXCEPT !.token = n, !.renew = r]
    <3>2. lease' = [lease EXCEPT ![t.instance] = m] /\ n.id = t.id /\ n \in TokenType
      BY <1>8, <2>1, Zenon DEF RenewShape
    <3> HIDE DEF n
    <3>1. m \in LeaseType /\ m.token = n
      BY <1>8, <2>2, <3>2, Zenon DEF LeaseType
    <3> HIDE DEF m
    <3> QED
      BY <2>1, <2>2, <3>1, <3>2, LeaseEdited, Zenon
  <2> QED
    BY <1>3, <1>8, <2>3 DEF RenewShape
<1>9. ASSUME NEW t \in tokens, NEW r \in ReleaseType \cup {None}, EndShape(t, r)
      PROVE  LocationsExact'
  <2>1. /\ t.instance \in Instance /\ lease[t.instance] # None
        /\ lease[t.instance].token = t
        /\ lease' = [lease EXCEPT ![t.instance] = None]
        /\ locations' = {x \in locations : x[1] # t.id}
    BY <1>9, Zenon DEF EndShape, EndLease, Current, Unlocated, TypeOK, TokenType
  <2>2. \A i \in Instance :
           /\ lease'[i] # None <=> lease[i] # None /\ i # t.instance
           /\ i # t.instance => lease'[i] = lease[i]
    BY <2>1, Zenon DEF TypeOK
  <2>3. ASSUME NEW x
        PROVE  x \in locations' <=>
                 \E i \in Instance : lease'[i] # None /\ x = <<lease'[i].token.id, i>>
    <3>1. ASSUME x \in locations'
          PROVE  \E i \in Instance : lease'[i] # None /\ x = <<lease'[i].token.id, i>>
      <4>1. PICK i \in Instance : lease[i] # None /\ x = <<lease[i].token.id, i>>
        BY <1>1, <2>1, <3>1, Zenon
      <4>2. x[1] = lease[i].token.id /\ x[1] # t.id
        BY <2>1, <3>1, <4>1, Zenon
      <4> QED
        BY <2>1, <2>2, <4>1, <4>2, Zenon
    <3>2. ASSUME NEW i \in Instance, lease'[i] # None, x = <<lease'[i].token.id, i>>
          PROVE  x \in locations'
      <4>1. lease[i] # None /\ i # t.instance /\ x = <<lease[i].token.id, i>>
        BY <2>2, <3>2, Zenon
      <4>2. x \in locations /\ x[1] = lease[i].token.id
        BY <1>1, <4>1, Zenon
      <4> QED
        BY <1>2, <2>1, <4>1, <4>2, Zenon
    <3> QED
      BY <3>1, <3>2, Zenon
  <2> QED
    BY <2>3, Zenon DEF LocationsExact
<1> QED
  BY <1>4, <1>5, <1>6, <1>7, <1>8, <1>9, QuietOrNot, QuietSteps, Zenon

\* The preemption flag stays exact: steps that change no queue keep the lease's
\* claim and flag, the others refresh.
LEMMA PreemptStep ==
    ASSUME IInv, StepShape
    PROVE  PreemptExact'
<1> USE DEF IInv
<1>1. ASSUME UNCHANGED queue,
             \A i \in Instance : lease'[i] # None =>
                 /\ lease[i] # None
                 /\ lease'[i].preempt = lease[i].preempt
                 /\ lease'[i].claim = lease[i].claim
      PROVE  PreemptExact'
  BY <1>1 DEF PreemptExact, Preempts
<1>2. ASSUME Quiet PROVE PreemptExact'
  BY <1>2 DEF Quiet
<1>3. ASSUME NEW p \in prepared, CommitSucceeds(p) PROVE PreemptExact'
  <2>1. PICK l, q : CommitShape(p, l, q)
    BY <1>3, CommitShapes
  <2> DEFINE k == p.token.instance
  <2>2. /\ k \in Instance /\ lease'[k] = l /\ queue'[k] = q
        /\ \A i \in Instance \ {k} : lease'[i] = lease[i] /\ queue'[i] = queue[i]
    BY <2>1, Zenon DEF CommitShape, TypeOK
  <2>3. l.preempt <=> \E e \in q : IsFirst(e, q) /\ Preempts(e, l)
    BY <2>1 DEF CommitShape
  <2> SUFFICES ASSUME NEW i \in Instance, lease'[i] # None
               PROVE  lease'[i].preempt <=>
                        \E e \in queue'[i] : IsFirst(e, queue'[i]) /\ Preempts(e, lease'[i])
    BY DEF PreemptExact
  <2>4. CASE i = k
    BY <2>2, <2>3, <2>4
  <2>5. CASE i # k
    BY <2>2, <2>5 DEF PreemptExact
  <2> QED
    BY <2>4, <2>5
<1>4. ASSUME NEW t \in tokens, NEW s \in StepType, BeginShape(t, s)
      PROVE  PreemptExact'
  <2>1. lease[t.instance] \in LeaseType
    BY <1>4 DEF BeginShape, Current, TypeOK
  <2>2. \A i \in Instance : lease'[i] # None =>
           /\ lease[i] # None /\ lease'[i].preempt = lease[i].preempt
           /\ lease'[i].claim = lease[i].claim
    BY <1>4, <2>1, NoneAssumption, Zenon DEF BeginShape, LeaseType, TypeOK
  <2> QED
    BY <1>1, <1>4, <2>2 DEF BeginShape
<1>5. ASSUME NEW w \in writes, FinishShape(w) PROVE PreemptExact'
  <2>1. lease[w.token.instance] \in LeaseType /\ w.token.instance \in Instance
    BY <1>5, Zenon DEF FinishShape, FinishDestructiveStep, HeldBy, Current, TypeOK,
                WitnessType, TokenType
  <2>2. \A i \in Instance : lease'[i] # None =>
           /\ lease[i] # None /\ lease'[i].preempt = lease[i].preempt
           /\ lease'[i].claim = lease[i].claim
    BY <1>5, <2>1, NoneAssumption, Zenon
    DEF FinishShape, FinishDestructiveStep, LeaseType, TypeOK
  <2> QED
    BY <1>1, <1>5, <2>2, Zenon DEF FinishShape, FinishDestructiveStep
<1>6. ASSUME NEW t \in tokens, NEW ttl \in Nat, NEW r \in RenewType \cup {None},
             RenewShape(t, ttl, r)
      PROVE  PreemptExact'
  <2>1. t.instance \in Instance
    BY DEF TypeOK, TokenType
  <2>2. lease[t.instance] \in LeaseType
    BY <1>6, <2>1 DEF RenewShape, Current, TypeOK
  <2>3. \A i \in Instance : lease'[i] # None =>
           /\ lease[i] # None /\ lease'[i].preempt = lease[i].preempt
           /\ lease'[i].claim = lease[i].claim
    BY <1>6, <2>1, <2>2, NoneAssumption, Zenon DEF RenewShape, LeaseType, TypeOK
  <2> QED
    BY <1>1, <1>6, <2>3 DEF RenewShape
<1>7. ASSUME NEW t \in tokens, NEW r \in ReleaseType \cup {None}, EndShape(t, r)
      PROVE  PreemptExact'
  <2>1. t.instance \in Instance
    BY DEF TypeOK, TokenType
  <2>2. \A i \in Instance : lease'[i] # None => lease'[i] = lease[i]
    BY <1>7, <2>1 DEF EndShape, EndLease, TypeOK
  <2> QED
    BY <1>1, <1>7, <2>2 DEF EndShape, EndLease
<1> QED
  BY <1>2, <1>3, <1>4, <1>5, <1>6, <1>7, QuietOrNot, QuietSteps, Zenon

\* Outstanding witnesses stay visible in their lease.
LEMMA WritesStep ==
    ASSUME IInv, StepShape
    PROVE  WritesVisible'
<1> USE DEF IInv
<1>1. \A w \in writes : /\ w.token.instance \in Instance
                        /\ w.token \in tokens
                        /\ w.step \in StepType
  BY DEF TypeOK, WitnessType, TokenType, WitnessesSound
<1>2. ASSUME Quiet PROVE WritesVisible'
  <2>1. /\ writes' \in SUBSET writes
        /\ \A j \in Instance : SameLease(lease[j], lease'[j])
    BY <1>2, Zenon DEF Quiet
  <2>2. ASSUME NEW j \in Instance, lease'[j] # None
        PROVE  /\ lease[j] # None /\ lease'[j].token = lease[j].token
               /\ lease'[j].step = lease[j].step
    BY <2>1, <2>2, Zenon DEF SameLease
  <2> QED
    BY <1>1, <2>1, <2>2, Zenon DEF WritesVisible
<1>3. ASSUME NEW p \in prepared, CommitSucceeds(p) PROVE WritesVisible'
  <2>1. PICK l, q : CommitShape(p, l, q)
    BY <1>3, CommitShapes
  <2>2. \A w \in writes : w.token.id # p.token.id
    BY <1>1 DEF PreparedFresh
  <2>3. \A i \in Instance : lease'[i] = lease[i] \/ lease'[i].token = p.token
    BY <2>1, Zenon DEF CommitShape, TypeOK
  <2> QED
    BY <1>1, <2>1, <2>2, <2>3 DEF CommitShape, WritesVisible
<1>4. ASSUME NEW t \in tokens, NEW s \in StepType, BeginShape(t, s)
      PROVE  WritesVisible'
  <2> DEFINE v == [token |-> t, holder |-> t.holder, step |-> s]
  <2>1. lease[t.instance] \in LeaseType /\ lease[t.instance].token = t
    BY <1>4 DEF BeginShape, Current, TypeOK
  <2>2. /\ t.instance \in Instance
        /\ lease'[t.instance].step = s
        /\ \A i \in Instance \ {t.instance} : lease'[i] = lease[i]
        /\ lease'[t.instance].token = t
    BY <1>4, <2>1, Zenon DEF BeginShape, LeaseType, TypeOK
  <2>3. \A w \in writes : w.step.id # v.step.id
    BY <1>1, <1>4 DEF BeginShape, WitnessesSound, TypeOK, StepType
  <2>4. \A w \in writes : w.token.instance = t.instance => w.token.id # t.id
    BY <1>1, <1>4, <2>1, NoneAssumption DEF BeginShape, WritesVisible
  <2>5. writes' = writes \cup {v}
    BY <1>4 DEF BeginShape
  <2>6. \A w, x \in writes' : w.step.id = x.step.id => w = x
    BY <2>3, <2>5 DEF WritesVisible
  <2>7. ASSUME NEW w \in writes', lease'[w.token.instance] # None,
               lease'[w.token.instance].token.id = w.token.id
        PROVE  lease'[w.token.instance].step = w.step
    <3>1. CASE w = v
      BY <2>2, <3>1
    <3>2. CASE w \in writes
      BY <1>1, <2>2, <2>4, <2>7, <3>2, Zenon DEF WritesVisible
    <3> QED
      BY <2>5, <2>7, <3>1, <3>2
  <2> QED
    BY <2>6, <2>7 DEF WritesVisible
<1>5. ASSUME NEW w \in writes, FinishShape(w) PROVE WritesVisible'
  <2>1. /\ lease[w.token.instance] \in LeaseType /\ w.token.instance \in Instance
        /\ lease[w.token.instance].step = w.step
    BY <1>1, <1>5, Zenon DEF FinishShape, FinishDestructiveStep, HeldBy, Current, TypeOK
  <2>2. /\ \A i \in Instance \ {w.token.instance} : lease'[i] = lease[i]
        /\ lease'[w.token.instance].token = lease[w.token.instance].token
    BY <1>5, <2>1, Zenon DEF FinishShape, FinishDestructiveStep, LeaseType, TypeOK
  <2>3. \A v \in writes' :
           v.token.instance = w.token.instance =>
              v.token.id # lease[w.token.instance].token.id
    BY <1>1, <1>5, <2>1, NoneAssumption DEF FinishShape, WritesVisible
  <2> QED
    BY <1>1, <1>5, <2>1, <2>2, <2>3 DEF FinishShape, WritesVisible
<1>6. ASSUME NEW t \in tokens, NEW ttl \in Nat, NEW r \in RenewType \cup {None},
             RenewShape(t, ttl, r)
      PROVE  WritesVisible'
  <2>1. /\ t \in TokenType /\ t.instance \in Instance
        /\ RenewedToken(t, ttl).id = t.id
    BY DEF TypeOK, TokenType, RenewedToken
  <2>2. lease[t.instance] \in LeaseType /\ lease[t.instance].token = t
    BY <1>6, <2>1 DEF RenewShape, Current, TypeOK
  <2>3. \A i \in Instance : lease'[i] # None =>
           /\ lease[i] # None /\ lease'[i].step = lease[i].step
           /\ lease'[i].token.id = lease[i].token.id
    BY <1>6, <2>1, <2>2, NoneAssumption, Zenon DEF RenewShape, LeaseType, TypeOK
  <2> QED
    BY <1>1, <1>6, <2>3, Zenon DEF RenewShape, WritesVisible
<1>7. ASSUME NEW t \in tokens, NEW r \in ReleaseType \cup {None}, EndShape(t, r)
      PROVE  WritesVisible'
  <2>1. \A i \in Instance : lease'[i] # None => lease'[i] = lease[i]
    BY <1>7 DEF EndShape, EndLease, TypeOK, TokenType
  <2> QED
    BY <1>1, <1>7, <2>1, Zenon DEF EndShape, EndLease, clientVars, WritesVisible
<1> QED
  BY <1>2, <1>3, <1>4, <1>5, <1>6, <1>7, QuietOrNot, QuietSteps

\* A close-only lease stays fenced.
LEMMA CloseOnlyStep ==
    ASSUME IInv, StepShape
    PROVE  CloseOnlyFenced'
<1> USE DEF IInv
<1>1. ASSUME Quiet PROVE CloseOnlyFenced'
  BY <1>1 DEF Quiet, SameLease, CloseOnlyFenced
<1>2. ASSUME NEW p \in prepared, CommitSucceeds(p) PROVE CloseOnlyFenced'
  <2>1. PICK l, q : CommitShape(p, l, q)
    BY <1>2, CommitShapes
  <2>2. \A i \in Instance : lease'[i] = lease[i] \/ lease'[i] = l
    BY <2>1, Zenon DEF CommitShape, TypeOK
  <2>3. l.closeOnly => /\ l.kind \in {"ResourceClose", "DaemonStartPreparation"}
                       /\ l.step = None
    BY <2>1, Zenon DEF CommitShape
  <2> QED
    BY <2>2, <2>3 DEF CloseOnlyFenced
<1>3. ASSUME NEW t \in tokens, NEW s \in StepType, BeginShape(t, s)
      PROVE  CloseOnlyFenced'
  <2>1. lease[t.instance] \in LeaseType
    BY <1>3 DEF BeginShape, Current, TypeOK
  <2>2. \A i \in Instance : lease'[i] # None =>
           /\ lease[i] # None
           /\ lease'[i].closeOnly = lease[i].closeOnly /\ lease'[i].kind = lease[i].kind
           /\ lease'[i].step = IF i = t.instance THEN s ELSE lease[i].step
    BY <1>3, <2>1, NoneAssumption, Zenon DEF BeginShape, LeaseType, TypeOK
  <2> QED
    BY <1>3, <2>2 DEF BeginShape, CloseOnlyFenced
<1>4. ASSUME NEW w \in writes, FinishShape(w) PROVE CloseOnlyFenced'
  <2>1. lease[w.token.instance] \in LeaseType /\ w.token.instance \in Instance
    BY <1>4, Zenon DEF FinishShape, FinishDestructiveStep, HeldBy, Current, TypeOK,
                WitnessType, TokenType
  <2>2. \A i \in Instance : lease'[i] # None =>
           /\ lease[i] # None
           /\ lease'[i].closeOnly = lease[i].closeOnly /\ lease'[i].kind = lease[i].kind
           /\ lease'[i].step \in {lease[i].step, None}
    BY <1>4, <2>1, NoneAssumption, Zenon
    DEF FinishShape, FinishDestructiveStep, LeaseType, TypeOK
  <2> QED
    BY <2>2 DEF CloseOnlyFenced
<1>5. ASSUME NEW t \in tokens, NEW ttl \in Nat, NEW r \in RenewType \cup {None},
             RenewShape(t, ttl, r)
      PROVE  CloseOnlyFenced'
  <2>1. t.instance \in Instance
    BY DEF TypeOK, TokenType
  <2>2. lease[t.instance] \in LeaseType
    BY <1>5, <2>1 DEF RenewShape, Current, TypeOK
  <2>3. \A i \in Instance : lease'[i] # None =>
           /\ lease[i] # None /\ lease'[i].step = lease[i].step
           /\ lease'[i].closeOnly = lease[i].closeOnly /\ lease'[i].kind = lease[i].kind
    BY <1>5, <2>1, <2>2, NoneAssumption, Zenon DEF RenewShape, LeaseType, TypeOK
  <2> QED
    BY <2>3 DEF CloseOnlyFenced
<1>6. ASSUME NEW t \in tokens, NEW r \in ReleaseType \cup {None}, EndShape(t, r)
      PROVE  CloseOnlyFenced'
  <2>1. \A i \in Instance : lease'[i] # None => lease'[i] = lease[i]
    BY <1>6 DEF EndShape, EndLease, TypeOK, TokenType
  <2> QED
    BY <2>1 DEF CloseOnlyFenced
<1> QED
  BY <1>1, <1>2, <1>3, <1>4, <1>5, <1>6, QuietOrNot, QuietSteps

\* Every shape but InsertShape leaves each queue a part of what it was.
LEMMA QueuesShrink ==
    ASSUME IInv, StepShape
    PROVE  \/ /\ nextArrival' = nextArrival
              /\ \A i \in Instance : queue'[i] \in SUBSET queue[i]
           \/ \E c \in Claim, d \in Nat : \E q \in SUBSET queue[c.instance] :
                 InsertShape(c, q, d)
<1> USE DEF IInv
<1> DEFINE Shrink == /\ nextArrival' = nextArrival
                     /\ \A i \in Instance : queue'[i] \in SUBSET queue[i]
<1>1. ASSUME NEW p, PrepareShape(p) PROVE Shrink
  <2>1. ASSUME NEW i \in Instance, SetQueue(i, LiveQueue(i))
        PROVE  \A j \in Instance : queue'[j] \in SUBSET queue[j]
    BY <2>1 DEF SetQueue, LiveQueue, TypeOK
  <2> QED
    BY <1>1, <2>1, Zenon DEF PrepareShape
<1>2. ASSUME NEW i \in Instance, NEW out, RemoveShape(i, out) PROVE Shrink
  BY <1>2 DEF RemoveShape, RemoveQueued, SetQueue, TypeOK
<1>3. ASSUME NEW p \in prepared, CommitSucceeds(p) PROVE Shrink
  <2>1. PICK l, q : CommitShape(p, l, q)
    BY <1>3, CommitShapes
  <2> QED
    BY <2>1, Zenon DEF CommitShape, TypeOK
<1>4. ASSUME NEW p \in prepared, CommitRefused(p) PROVE Shrink
  BY <1>4, Zenon DEF CommitRefused, schedVars
<1>5. ASSUME NEW t \in tokens, ClientBegin(t) PROVE Shrink
  BY <1>5 DEF ClientBegin, BeginDestructiveStep, BeginResourceClose, OpenStep
<1>6. ASSUME NEW w \in writes, ClientFinish(w) PROVE Shrink
  BY <1>6, Zenon DEF ClientFinish, FinishDestructiveStep, schedVars
<1>7. ASSUME NEW t \in tokens, NEW ttl \in Nat, NEW r \in RenewType \cup {None},
             RenewShape(t, ttl, r)
      PROVE  Shrink
  BY <1>7 DEF RenewShape
<1>8. ASSUME NEW t \in tokens, NEW r \in ReleaseType \cup {None}, EndShape(t, r)
      PROVE  Shrink
  BY <1>8, Zenon DEF EndShape, EndLease
<1>9. ASSUME ClockShape PROVE Shrink
  BY <1>9 DEF ClockShape
<1> HIDE DEF Shrink
<1>10. Shrink \/ \E c \in Claim, d \in Nat : \E q \in SUBSET queue[c.instance] :
                    InsertShape(c, q, d)
  BY <1>1, <1>2, <1>3, <1>4, <1>5, <1>6, <1>7, <1>8, <1>9, Zenon DEF StepShape
<1> QED
  BY <1>10, Zenon DEF Shrink

\* A cooldown only protects an instance that nobody holds.
LEMMA CooldownStep ==
    ASSUME IInv, StepShape
    PROVE  CooldownSound'
<1> USE DEF IInv
<1>1. /\ now \in Nat /\ cooldown \in [Instance -> Nat]
  BY ConfigAssumption DEF TypeOK
<1>2. \A i \in Instance : cooldown'[i] > now' =>
         cooldown[i] > now /\ (lease[i] = None => lease'[i] = None)
  <2>1. ASSUME now' \in {now, now + 1},
               \A i \in Instance : cooldown'[i] \in {cooldown[i], 0}
        PROVE  \A i \in Instance : cooldown'[i] > now' => cooldown[i] > now
    BY <1>1, <2>1
  <2>2. ASSUME Quiet PROVE \A i \in Instance : lease[i] = None => lease'[i] = None
    BY <2>2, Zenon DEF Quiet, SameLease
  <2>3. /\ now' \in {now, now + 1}
        /\ \A i \in Instance : cooldown'[i] \in {cooldown[i], 0}
    <3>1. ASSUME NEW p \in prepared, CommitSucceeds(p)
          PROVE  now' = now /\ cooldown' = cooldown
      BY <3>1, CommitShapes, Zenon DEF CommitShape
    <3> QED
      BY <3>1, Zenon DEF StepShape, PrepareShape, CooldownsEnd, RemoveShape, RemoveQueued,
                  InsertShape, CommitRefused, schedVars, ClientBegin,
                  BeginDestructiveStep, BeginResourceClose, OpenStep, ClientFinish,
                  FinishDestructiveStep, RenewShape, EndShape, EndLease, ClockShape
  <2>4. ASSUME NEW p \in prepared, CommitSucceeds(p), NEW i \in Instance,
               cooldown'[i] > now'
        PROVE  lease[i] = None => lease'[i] = None
    <3>1. PICK l, q : CommitShape(p, l, q)
      BY <2>4, CommitShapes
    <3> QED
      BY <1>1, <2>4, <3>1 DEF CommitShape, TypeOK
  <2>5. ASSUME NEW t \in tokens, NEW s \in StepType, BeginShape(t, s)
        PROVE  \A i \in Instance : lease[i] = None => lease'[i] = None
    BY <2>5, Zenon DEF BeginShape, Current, TypeOK
  <2>6. ASSUME NEW w \in writes, FinishShape(w)
        PROVE  \A i \in Instance : lease[i] = None => lease'[i] = None
    BY <2>6, Zenon DEF FinishShape, FinishDestructiveStep, HeldBy, Current, TypeOK
  <2>7. ASSUME NEW t \in tokens, NEW ttl \in Nat, NEW r \in RenewType \cup {None},
               RenewShape(t, ttl, r)
        PROVE  \A i \in Instance : lease[i] = None => lease'[i] = None
    BY <2>7 DEF RenewShape, Current, TypeOK
  <2>8. ASSUME NEW t \in tokens, NEW r \in ReleaseType \cup {None}, EndShape(t, r)
        PROVE  \A i \in Instance : lease[i] = None => lease'[i] = None
    BY <2>8, Zenon DEF EndShape, EndLease, TypeOK
  <2> QED
    BY <2>1, <2>2, <2>3, <2>4, <2>5, <2>6, <2>7, <2>8, QuietOrNot, QuietSteps, Zenon
<1>3. ASSUME NEW i \in Instance, cooldown'[i] > now', NEW e \in queue'[i]
      PROVE  e.deadline = NoDeadline
  <2>1. cooldown[i] > now /\ lease[i] = None
    BY <1>2, <1>3, Zenon DEF CooldownSound
  <2>2. CASE e \in queue[i]
    BY <2>1, <2>2, Zenon DEF CooldownSound
  <2>3. ASSUME NEW c \in Claim, NEW d \in Nat, NEW q \in SUBSET queue[c.instance],
               InsertShape(c, q, d), e \notin queue[i]
        PROVE  e.deadline = NoDeadline
    <3>1. /\ c.instance = i
          /\ e = [claim |-> c, arrival |-> nextArrival, deadline |-> d]
      BY <2>3, ClaimFacts, Zenon DEF InsertShape, Insert, SetQueue, TypeOK
    <3> QED
      BY <1>1, <2>1, <2>3, <3>1 DEF InsertShape
  <2> QED
    BY <2>2, <2>3, QueuesShrink, Zenon
<1> QED
  BY <1>2, <1>3 DEF CooldownSound

\* A lease keeps its id, ends, or is replaced by an accepted commit.
LEMMA LeaseIdStep ==
    ASSUME IInv, StepShape, NEW i \in Instance, lease'[i] # None,
           lease[i] # None => lease[i].token.id # lease'[i].token.id
    PROVE  \E p \in prepared : \E l, q :
              /\ CommitShape(p, l, q)
              /\ p.token.instance = i
              /\ lease'[i] = l
<1> USE DEF IInv
<1>1. ASSUME lease[i] # None, lease'[i].token.id = lease[i].token.id PROVE FALSE
  BY <1>1
<1>2. ASSUME Quiet PROVE FALSE
  BY <1>1, <1>2, Zenon DEF Quiet, SameLease
<1>3. ASSUME NEW t \in tokens, NEW s \in StepType, BeginShape(t, s) PROVE FALSE
  <2>1. lease[t.instance] \in LeaseType
    BY <1>3, Zenon DEF BeginShape, Current, TypeOK
  <2> QED
    BY <1>1, <1>3, <2>1, NoneAssumption, Zenon DEF BeginShape, LeaseType, TypeOK
<1>4. ASSUME NEW w \in writes, FinishShape(w) PROVE FALSE
  <2>1. lease[w.token.instance] \in LeaseType /\ w.token.instance \in Instance
    BY <1>4, Zenon DEF FinishShape, FinishDestructiveStep, HeldBy, Current, TypeOK,
                WitnessType, TokenType
  <2> QED
    BY <1>1, <1>4, <2>1, NoneAssumption, Zenon
    DEF FinishShape, FinishDestructiveStep, LeaseType, TypeOK
<1>5. ASSUME NEW t \in tokens, NEW ttl \in Nat, NEW r \in RenewType \cup {None},
             RenewShape(t, ttl, r)
      PROVE  FALSE
  <2>1. t.instance \in Instance /\ RenewedToken(t, ttl).id = t.id
    BY DEF TypeOK, TokenType, RenewedToken
  <2>2. lease[t.instance] \in LeaseType /\ lease[t.instance].token = t
    BY <1>5, <2>1, Zenon DEF RenewShape, Current, TypeOK
  <2> QED
    BY <1>1, <1>5, <2>1, <2>2, NoneAssumption, Zenon DEF RenewShape, LeaseType, TypeOK
<1>6. ASSUME NEW t \in tokens, NEW r \in ReleaseType \cup {None}, EndShape(t, r)
      PROVE  FALSE
  BY <1>1, <1>6, Zenon DEF EndShape, EndLease, TypeOK, TokenType
<1>7. PICK p \in prepared : CommitSucceeds(p)
  BY <1>2, <1>3, <1>4, <1>5, <1>6, QuietOrNot, QuietSteps, Zenon
<1>8. PICK l, q : CommitShape(p, l, q)
  BY <1>7, CommitShapes, Zenon
<1>9. p.token.instance = i /\ lease'[i] = l
  BY <1>1, <1>8, Zenon DEF CommitShape, TypeOK
<1> QED
  BY <1>8, <1>9, Zenon

-----------------------------------------------------------------------------
\* The queues' bound needs the laws of finite sets.
INSTANCE FiniteSetTheorems

\* Queues stay finite, within their depth, and free of duplicates.
LEMMA QueueStep ==
    ASSUME IInv, StepShape
    PROVE  QueuesFinite' /\ QueueSound'
<1> USE DEF IInv
<1>1. MaxDepth \in Nat /\ nextArrival \in Nat
  BY ConfigAssumption DEF TypeOK
<1>2. ASSUME nextArrival' = nextArrival,
             \A i \in Instance : queue'[i] \in SUBSET queue[i]
      PROVE  QueuesFinite' /\ QueueSound'
  <2>1. ASSUME NEW i \in Instance
        PROVE  IsFiniteSet(queue'[i]) /\ Cardinality(queue'[i]) <= MaxDepth
    <3>1. /\ IsFiniteSet(queue[i]) /\ Cardinality(queue[i]) <= MaxDepth
          /\ queue'[i] \in SUBSET queue[i]
      BY <1>2, Zenon DEF QueuesFinite, QueueSound
    <3>2. /\ IsFiniteSet(queue'[i])
          /\ Cardinality(queue'[i]) <= Cardinality(queue[i])
          /\ Cardinality(queue[i]) \in Nat /\ Cardinality(queue'[i]) \in Nat
      BY <3>1, FS_Subset, FS_CardinalityType
    <3> QED
      BY <1>1, <3>1, <3>2
  <2>2. QueuesFinite'
    BY <1>2, <2>1, Zenon DEF QueuesFinite
  <2>3. QueueSound'
    <3>1. \A i \in Instance : Cardinality(queue'[i]) <= MaxDepth
      BY <2>1
    <3>2. \A i, j \in Instance : \A e \in queue[i], f \in queue[j] :
             /\ e.claim.instance = i
             /\ (e.claim = f.claim \/ e.arrival = f.arrival) => e = f
      BY DEF QueueSound
    <3>3. ASSUME NEW i \in Instance, NEW j \in Instance,
                 NEW e \in queue'[i], NEW f \in queue'[j]
          PROVE  /\ e.claim.instance = i
                 /\ (e.claim = f.claim \/ e.arrival = f.arrival) => e = f
      <4>1. e \in queue[i] /\ f \in queue[j]
        BY <1>2, Zenon
      <4> QED
        BY <3>2, <4>1
    <3> QED
      BY <3>1, <3>3 DEF QueueSound
  <2> QED
    BY <2>2, <2>3
<1>3. ASSUME NEW c \in Claim, NEW d \in Nat, NEW q \in SUBSET queue[c.instance],
             InsertShape(c, q, d)
      PROVE  QueuesFinite' /\ QueueSound'
  <2> DEFINE k == c.instance
             e == [claim |-> c, arrival |-> nextArrival, deadline |-> d]
  <2>1. k \in Instance
    BY ClaimFacts
  <2>2. /\ queue'[k] = q \cup {e} /\ nextArrival' = nextArrival + 1
        /\ Cardinality(q) < MaxDepth
        /\ \A i \in Instance \ {k} : queue'[i] = queue[i]
    BY <1>3, <2>1, Zenon DEF InsertShape, Insert, SetQueue, TypeOK
  <2>3. /\ IsFiniteSet(q \cup {e}) /\ Cardinality(q \cup {e}) <= MaxDepth
    <3>1. IsFiniteSet(q) /\ Cardinality(q) \in Nat
      BY <2>1, FS_Subset, FS_CardinalityType DEF QueuesFinite
    <3>2. /\ IsFiniteSet(q \cup {e})
          /\ Cardinality(q \cup {e}) = IF e \in q THEN Cardinality(q)
                                                  ELSE Cardinality(q) + 1
      BY <3>1, FS_AddElement, Zenon
    <3> QED
      BY <1>1, <2>2, <3>1, <3>2
  <2>4. \A i \in Instance : \A f \in queue'[i] : (f = e /\ i = k) \/ f \in queue[i]
    BY <2>1, <2>2
  <2>5. \A i \in Instance : \A f \in queue[i] :
           /\ f.claim # c /\ f.arrival # nextArrival
           /\ f.claim.instance = i /\ f.arrival \in Nat /\ f.arrival < nextArrival
    BY <1>1, <1>3 DEF InsertShape, Unknown, QueuesFinite, QueueSound, TypeOK, EntryType
  <2>6. e.claim = c /\ e.arrival = nextArrival
    OBVIOUS
  <2> HIDE DEF e
  <2>7. QueuesFinite'
    <3>1. \A i \in Instance : IsFiniteSet(queue'[i])
      BY <2>1, <2>2, <2>3, Zenon DEF QueuesFinite
    <3>2. \A i \in Instance : \A f \in queue'[i] : f.arrival < nextArrival'
      BY <1>1, <2>2, <2>4, <2>5, <2>6
    <3> QED
      BY <3>1, <3>2 DEF QueuesFinite
  <2>8. QueueSound'
    <3>1. \A i \in Instance : Cardinality(queue'[i]) <= MaxDepth
      BY <2>1, <2>2, <2>3, Zenon DEF QueueSound
    <3>2. ASSUME NEW i \in Instance, NEW j \in Instance,
                 NEW f \in queue'[i], NEW g \in queue'[j]
          PROVE  /\ f.claim.instance = i
                 /\ (f.claim = g.claim \/ f.arrival = g.arrival) => f = g
      <4>1. f.claim.instance = i
        BY <2>4, <2>5, <2>6
      <4>2. CASE f = e
        BY <2>4, <2>5, <2>6, <4>2
      <4>3. CASE g = e
        BY <2>4, <2>5, <2>6, <4>3
      <4>4. CASE f \in queue[i] /\ g \in queue[j]
        BY <4>4 DEF QueueSound
      <4>5. (f.claim = g.claim \/ f.arrival = g.arrival) => f = g
        BY <2>4, <4>2, <4>3, <4>4, Zenon
      <4> QED
        BY <4>1, <4>5
    <3> QED
      BY <3>1, <3>2, Zenon DEF QueueSound
  <2> QED
    BY <2>7, <2>8
<1> QED
  BY <1>2, <1>3, QueuesShrink, Zenon

-----------------------------------------------------------------------------
\* A new SeedScheduler satisfies the invariant.
LEMMA InitInv == Init => IInv
<1> SUFFICES ASSUME Init PROVE IInv
  OBVIOUS
<1>1. PICK takeover \in SUBSET Instance : New(takeover, 1)
  BY DEF Init
<1>2. /\ lease = [i \in Instance |-> None] /\ queue = [i \in Instance |-> {}]
      /\ locations = {} /\ prepared = {} /\ writes = {} /\ tokens = {} /\ now = 0
  BY <1>1 DEF Init, New
<1>3. TypeOK
  BY <1>1, <1>2, ConfigAssumption DEF Init, New, TypeOK
<1>4. QueuesFinite /\ QueueSound
  BY <1>2, FS_EmptySet, ConfigAssumption DEF QueuesFinite, QueueSound
<1>5. LocationsExact
  BY <1>2, Zenon DEF LocationsExact
<1> QED
  BY <1>2, <1>3, <1>4, <1>5, Zenon
  DEF IInv, TokensSound, LeasesSound, PreparedFresh, PreparedSound, WitnessesSound,
      PreemptExact, WritesVisible, CloseOnlyFenced, CooldownSound

\* Every call, of any caller, preserves the invariant.
LEMMA NextInv == IInv /\ [Next]_vars => IInv'
<1> SUFFICES ASSUME IInv, [Next]_vars PROVE IInv'
  OBVIOUS
<1>1. CASE Next
  <2>1. StepShape
    BY <1>1, StepShapes
  <2>2. TypeOK'
    BY <2>1, TypeStep
  <2> QED
    BY <2>1, <2>2, TokensStep, PreparedStep, LocationsStep, PreemptStep, WritesStep,
       CloseOnlyStep, QueueStep, CooldownStep, Zenon DEF IInv
<1>2. CASE UNCHANGED vars
  <2> USE <1>2 DEF vars, schedVars, clientVars, IInv
  <2>1. TypeOK'
    BY DEF TypeOK
  <2>2. TokensSound'
    BY DEF TokensSound
  <2>3. LeasesSound'
    BY DEF LeasesSound
  <2>4. PreparedFresh'
    BY DEF PreparedFresh
  <2>5. PreparedSound'
    BY DEF PreparedSound
  <2>6. WitnessesSound'
    BY DEF WitnessesSound
  <2>7. LocationsExact'
    BY DEF LocationsExact
  <2>8. PreemptExact'
    BY DEF PreemptExact
  <2>9. QueuesFinite'
    BY DEF QueuesFinite
  <2>10. QueueSound'
    BY DEF QueueSound
  <2>11. WritesVisible'
    BY DEF WritesVisible
  <2>12. CloseOnlyFenced'
    BY DEF CloseOnlyFenced
  <2>13. CooldownSound'
    BY DEF CooldownSound
  <2> QED
    BY <2>1, <2>2, <2>3, <2>4, <2>5, <2>6, <2>7,
       <2>8, <2>9, <2>10, <2>11, <2>12, <2>13, Zenon
<1> QED
  BY <1>1, <1>2

\* The inductive invariant holds throughout: each conjunct of the scheduler's
\* correctness, with the facts on tokens, preparations and cooldowns they rest on.
THEOREM Invariance == Spec => []IInv
BY InitInv, NextInv, PTL DEF Spec

\* The state of the scheduler and of its callers keeps its type.
THEOREM TypeCorrect == Spec => []TypeOK
<1>1. IInv => TypeOK
  BY DEF IInv
<1> QED
  BY <1>1, Invariance, PTL

\* lease_locations names exactly the held leases, whatever callers do.
THEOREM LocationsCorrect == Spec => []LocationsExact
<1>1. IInv => LocationsExact
  BY DEF IInv
<1> QED
  BY <1>1, Invariance, PTL

\* preempt_requested is exact after every call.
THEOREM PreemptionCorrect == Spec => []PreemptExact
<1>1. IInv => PreemptExact
  BY DEF IInv
<1> QED
  BY <1>1, Invariance, PTL

\* Every queue is bounded and no request waits twice.
THEOREM QueueCorrect == Spec => []QueueSound
<1>1. IInv => QueueSound
  BY DEF IInv
<1> QED
  BY <1>1, Invariance, PTL

\* An outstanding write authority is visible in its lease.
THEOREM FencingCorrect == Spec => []WritesVisible
<1>1. IInv => WritesVisible
  BY DEF IInv
<1> QED
  BY <1>1, Invariance, PTL

\* A resource-close-only lease never carries a business step.
THEOREM CloseOnlyCorrect == Spec => []CloseOnlyFenced
<1>1. IInv => CloseOnlyFenced
  BY DEF IInv
<1> QED
  BY <1>1, Invariance, PTL

\* A refused QueueLease drops no expired entry.
THEOREM ExpiryCorrect == Spec => []NoExpiryLost
<1>1. IInv => NoExpiryLost
  <2> SUFFICES ASSUME IInv, NEW i \in Instance, LiveQueue(i) # queue[i]
               PROVE  /\ lease[i] = None => cooldown[i] <= now
                      /\ Cardinality(LiveQueue(i)) < MaxDepth
    BY DEF NoExpiryLost
  <2>1. /\ TypeOK /\ QueuesFinite /\ QueueSound /\ CooldownSound
        /\ MaxDepth \in Nat /\ MaxTime \in Nat /\ now \in 0..MaxTime
        /\ cooldown[i] \in Nat
    BY ConfigAssumption, Zenon DEF IInv, TypeOK
  <2>2. cooldown[i] <= now
    <3>1. ASSUME cooldown[i] > now PROVE LiveQueue(i) = queue[i]
      BY <2>1, <3>1 DEF CooldownSound, LiveQueue, Live, NoDeadline
    <3> QED
      BY <2>1, <3>1
  <2>3. /\ LiveQueue(i) \in SUBSET queue[i] /\ IsFiniteSet(queue[i])
        /\ Cardinality(queue[i]) <= MaxDepth
    BY <2>1, Zenon DEF LiveQueue, QueuesFinite, QueueSound
  <2>4. /\ Cardinality(LiveQueue(i)) <= Cardinality(queue[i])
        /\ Cardinality(queue[i]) = Cardinality(LiveQueue(i)) => queue[i] = LiveQueue(i)
        /\ Cardinality(queue[i]) \in Nat /\ Cardinality(LiveQueue(i)) \in Nat
    BY <2>3, FS_Subset, FS_CardinalityType, Zenon
  <2> QED
    BY <2>1, <2>2, <2>3, <2>4
<1> QED
  BY <1>1, Invariance, PTL

\* The instance changes hands only while no write authority of the old lease is
\* outstanding.
THEOREM HandoverCorrect == Spec => HandoverBetweenSteps
<1> DEFINE A == \A i \in Instance :
                   /\ lease[i] # None /\ lease'[i] # None
                   /\ lease[i].token.id # lease'[i].token.id
                   => \A w \in writes : w.token.id # lease[i].token.id
<1>1. IInv /\ [Next]_vars => [A]_vars
  <2> SUFFICES ASSUME IInv, Next, NEW i \in Instance,
                      lease[i] # None, lease'[i] # None,
                      lease[i].token.id # lease'[i].token.id,
                      NEW w \in writes, w.token.id = lease[i].token.id
               PROVE  FALSE
    OBVIOUS
  <2>1. PICK p \in prepared : \E l, q :
           CommitShape(p, l, q) /\ p.token.instance = i /\ lease'[i] = l
    BY StepShapes, LeaseIdStep
  <2>2. lease[i].step = None
    BY <2>1, Zenon DEF CommitShape
  <2>3. w.token.instance = i /\ w.step \in StepType
    BY Zenon DEF IInv, LeasesSound, TokensSound, WitnessesSound, TypeOK, WitnessType
  <2> QED
    BY <2>2, <2>3, NoneAssumption, Zenon DEF IInv, WritesVisible
<1> QED
  BY <1>1, Invariance, PTL DEF Spec, HandoverBetweenSteps

\* A lease id that becomes current was never handed to a holder before.
THEOREM RevivalCorrect == Spec => NoRevival
<1> DEFINE A == \A i \in Instance :
                   /\ lease'[i] # None
                   /\ lease[i] # None => lease[i].token.id # lease'[i].token.id
                   => \A t \in tokens : t.id # lease'[i].token.id
<1>1. IInv /\ [Next]_vars => [A]_vars
  <2> SUFFICES ASSUME IInv, Next, NEW i \in Instance, lease'[i] # None,
                      lease[i] # None => lease[i].token.id # lease'[i].token.id,
                      NEW t \in tokens
               PROVE  t.id # lease'[i].token.id
    OBVIOUS
  <2>1. PICK p \in prepared : \E l, q :
           CommitShape(p, l, q) /\ p.token.instance = i /\ lease'[i] = l
    BY StepShapes, LeaseIdStep, Zenon
  <2>2. lease'[i].token = p.token
    BY <2>1, Zenon DEF CommitShape
  <2> QED
    BY <2>2, Zenon DEF IInv, PreparedFresh
<1> QED
  BY <1>1, Invariance, PTL DEF Spec, NoRevival

=============================================================================
