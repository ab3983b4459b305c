------------------------- MODULE ResourceFenceProofs -------------------------
(***************************************************************************)
(* Proofs about ResourceFence, for every number of attempts, claims and    *)
(* fences: its types, and that a recheck which is queued or prepares has   *)
(* someone who will settle it.                                             *)
(***************************************************************************)
EXTENDS ResourceFence, FiniteSetTheorems, TLAPS

-----------------------------------------------------------------------------
\* What the operations on the queue keep.

\* The rank of a place among the places kept is one of 1..Cardinality(kept), it tells the
\* places apart, and every number up to Cardinality(kept) is the rank of one.
LEMMA Ranks ==
    ASSUME NEW m \in Nat, NEW kept \in SUBSET (1..m)
    PROVE  /\ IsFiniteSet(kept) /\ Cardinality(kept) \in 0..m
           /\ \A n \in kept : Cardinality(kept \cap 1..n) \in 1..Cardinality(kept)
           /\ \A n, l \in kept :
                n < l => Cardinality(kept \cap 1..n) < Cardinality(kept \cap 1..l)
           /\ \A n, l \in kept :
                Cardinality(kept \cap 1..n) = Cardinality(kept \cap 1..l) => n = l
           /\ \A i \in 1..Cardinality(kept) : \E n \in kept :
                Cardinality(kept \cap 1..n) = i
<1> DEFINE rank == [n \in kept |-> Cardinality(kept \cap 1..n)]
<1>1. IsFiniteSet(1..m) /\ Cardinality(1..m) = m
  BY FS_Interval, SMT
<1>2. IsFiniteSet(kept) /\ Cardinality(kept) \in 0..m
  <2>1. IsFiniteSet(kept) /\ Cardinality(kept) <= m
    BY <1>1, FS_Subset, Zenon
  <2>2. Cardinality(kept) \in Nat
    BY <2>1, FS_CardinalityType, Zenon
  <2> QED
    BY <2>1, <2>2, SMT
<1>3. \A n : IsFiniteSet(kept \cap 1..n) /\ Cardinality(kept \cap 1..n) \in Nat
             /\ Cardinality(kept \cap 1..n) <= Cardinality(kept)
  BY <1>2, FS_Subset, FS_CardinalityType, Zenon
<1>4. \A n, l \in kept : n < l => Cardinality(kept \cap 1..n) < Cardinality(kept \cap 1..l)
  <2> SUFFICES ASSUME NEW n \in kept, NEW l \in kept, n < l
               PROVE  Cardinality(kept \cap 1..n) < Cardinality(kept \cap 1..l)
    OBVIOUS
  <2>1. /\ kept \cap 1..n \subseteq kept \cap 1..l
        /\ l \in kept \cap 1..l /\ l \notin kept \cap 1..n
    BY SMT
  <2>2. /\ Cardinality(kept \cap 1..n) <= Cardinality(kept \cap 1..l)
        /\ Cardinality(kept \cap 1..n) # Cardinality(kept \cap 1..l)
    BY <1>3, <2>1, FS_Subset, Zenon
  <2> QED
    BY <1>3, <2>2, SMT
<1>5. \A n, l \in kept :
        Cardinality(kept \cap 1..n) = Cardinality(kept \cap 1..l) => n = l
  BY <1>3, <1>4, SMT
<1>6. \A n \in kept : Cardinality(kept \cap 1..n) \in 1..Cardinality(kept)
  <2> TAKE n \in kept
  <2>1. n \in kept \cap 1..n
    BY SMT
  <2>2. Cardinality(kept \cap 1..n) # 0
    BY <1>3, <2>1, FS_EmptySet, Zenon
  <2> QED
    BY <1>2, <1>3, <2>2, SMT
<1>7. rank \in Injection(kept, 1..Cardinality(kept))
  BY <1>5, <1>6, Zenon DEF Injection, IsInjective
<1>8. /\ IsFiniteSet(1..Cardinality(kept))
      /\ Cardinality(1..Cardinality(kept)) = Cardinality(kept)
  BY <1>2, FS_Interval, SMT
<1>9. rank \in Surjection(kept, 1..Cardinality(kept))
  BY <1>7, <1>8, FS_Injection, Zenon
<1>10. \A i \in 1..Cardinality(kept) : \E n \in kept : Cardinality(kept \cap 1..n) = i
  BY <1>9, Zenon DEF Surjection
<1> QED
  BY <1>2, <1>4, <1>5, <1>6, <1>10, Zenon

\* A set of places that is not empty has a first one.
LEMMA Least ==
    ASSUME NEW m \in Nat, NEW kept \in SUBSET (1..m), kept # {}
    PROVE  \E n \in kept : \A l \in kept : n <= l
<1>1. Cardinality(kept) \in Nat \ {0}
  <2>1. IsFiniteSet(kept) /\ Cardinality(kept) \in 0..m
    BY Ranks, Zenon
  <2>2. Cardinality(kept) # 0
    BY <2>1, FS_EmptySet, Zenon
  <2> QED
    BY <2>1, <2>2, SMT
<1>2. 1 \in 1..Cardinality(kept)
  BY <1>1, SMT
<1>3. PICK n \in kept : Cardinality(kept \cap 1..n) = 1
  BY <1>2, Ranks, Zenon
<1>4. \A l \in kept : ~(Cardinality(kept \cap 1..l) < 1)
  <2>1. \A l \in kept : Cardinality(kept \cap 1..l) \in 1..Cardinality(kept)
    BY Ranks, Zenon
  <2> QED
    BY <1>1, <2>1, SMT
<1>5. \A l \in kept : ~(l < n)
  <2>1. \A l \in kept : l < n => Cardinality(kept \cap 1..l) < Cardinality(kept \cap 1..n)
    BY Ranks, Zenon
  <2> QED
    BY <1>3, <1>4, <2>1, Zenon
<1> QED
  BY <1>3, <1>5, SMT

\* Keep leaves exactly the entries at the places kept.
LEMMA Kept ==
    ASSUME queue \in Seq(Claim), NEW kept \in SUBSET DOMAIN queue
    PROVE  /\ Keep(kept) \in Seq(Claim) /\ Len(Keep(kept)) <= Len(queue)
           /\ \A i \in DOMAIN Keep(kept) : \E n \in kept : Keep(kept)[i] = queue[n]
           /\ \A n \in kept : \E i \in DOMAIN Keep(kept) : Keep(kept)[i] = queue[n]
<1> DEFINE at(i) == CHOOSE n \in kept : Cardinality(kept \cap 1..n) = i
<1> DEFINE rank(n) == Cardinality(kept \cap 1..n)
<1>1. Len(queue) \in Nat /\ kept \in SUBSET (1..Len(queue))
  BY SMT
<1>2. /\ Cardinality(kept) \in 0..Len(queue)
      /\ \A n \in kept : rank(n) \in 1..Cardinality(kept)
      /\ \A n, l \in kept : rank(n) = rank(l) => n = l
      /\ \A i \in 1..Cardinality(kept) : \E n \in kept : rank(n) = i
  BY <1>1, Ranks, Zenon
<1>3. \A i \in 1..Cardinality(kept) : at(i) \in kept /\ rank(at(i)) = i
  BY <1>2, Zenon
<1>4. \A n \in kept : rank(n) \in 1..Cardinality(kept) /\ at(rank(n)) = n
  BY <1>2, <1>3, Zenon
<1>5. Keep(kept) = [i \in 1..Cardinality(kept) |-> queue[at(i)]]
  BY Zenon DEF Keep
<1> HIDE DEF at, rank
<1>6. \A n \in kept : queue[n] \in Claim
  BY <1>1, SMT
<1>7. Keep(kept) \in Seq(Claim) /\ Len(Keep(kept)) = Cardinality(kept)
      /\ DOMAIN Keep(kept) = 1..Cardinality(kept)
  BY <1>2, <1>3, <1>5, <1>6, SMT
<1> QED
  BY <1>1, <1>2, <1>3, <1>4, <1>5, <1>7, SMT

\* Taking one entry out leaves the others.
LEMMA Taken ==
    ASSUME queue \in Seq(Claim), NEW n \in DOMAIN queue
    PROVE  /\ Without(n) \in Seq(Claim) /\ Len(Without(n)) <= Len(queue)
           /\ \A i \in DOMAIN Without(n) : \E l \in DOMAIN queue : Without(n)[i] = queue[l]
           /\ \A l \in DOMAIN queue \ {n} : \E i \in DOMAIN Without(n) :
                Without(n)[i] = queue[l]
<1> DEFINE without == Without(n)
<1>1. /\ Len(queue) \in Nat /\ n \in 1..Len(queue)
      /\ without = [i \in 1..Len(queue) - 1 |-> IF i < n THEN queue[i] ELSE queue[i + 1]]
  BY SMT DEF Without
<1> HIDE DEF without
<1>2. \A l \in DOMAIN queue : queue[l] \in Claim
  BY SMT
<1>3. without \in Seq(Claim) /\ Len(without) = Len(queue) - 1
      /\ DOMAIN without = 1..Len(queue) - 1
  BY <1>1, <1>2, SMT
<1>4. \A i \in DOMAIN without : \E l \in DOMAIN queue : without[i] = queue[l]
  BY <1>1, <1>3, SMT
<1>5. \A l \in DOMAIN queue \ {n} : \E i \in DOMAIN without : without[i] = queue[l]
  <2> TAKE l \in DOMAIN queue \ {n}
  <2>1. CASE l < n
    BY <1>1, <1>3, <2>1, SMT
  <2>2. CASE l > n
    <3>1. l - 1 \in DOMAIN without /\ without[l - 1] = queue[l]
      BY <1>1, <1>3, <2>2, SMT
    <3> QED
      BY <3>1
  <2> QED
    BY <1>1, <2>1, <2>2, SMT
<1> QED
  BY <1>1, <1>3, <1>4, <1>5, SMT DEF without

\* A pump finds a first eligible entry when there is one.
LEMMA FirstEligible ==
    ASSUME queue \in Seq(Claim), Eligible # {}
    PROVE  (CHOOSE m \in Eligible : \A l \in Eligible : Ahead(m, l)) \in Eligible
<1> DEFINE ladders == {n \in Eligible : queue[n].kind = "Ladder"}
<1>1. Len(queue) \in Nat /\ Eligible \in SUBSET (1..Len(queue))
      /\ ladders \in SUBSET (1..Len(queue))
  BY SMT DEF Eligible
<1>2. \E m \in Eligible : \A l \in Eligible : Ahead(m, l)
  <2>1. CASE ladders # {}
    <3>1. PICK m \in ladders : \A l \in ladders : m <= l
      BY <1>1, <2>1, Least, Zenon
    <3> QED
      BY <3>1, Zenon DEF Ahead
  <2>2. CASE ladders = {}
    <3>1. PICK m \in Eligible : \A l \in Eligible : m <= l
      BY <1>1, Least, Zenon
    <3> QED
      BY <3>1, <2>2, Zenon DEF Ahead
  <2> QED
    BY <2>1, <2>2
<1> QED
  BY <1>2, Zenon

-----------------------------------------------------------------------------
\* The inductive invariant.

\* A ladder's claim is no recheck.
LaddersUnnumbered ==
    /\ \A n \in DOMAIN queue : queue[n].kind = "Ladder" => queue[n].attempt = 0
    /\ \A n \in DOMAIN posted : posted[n].kind = "Ladder" => posted[n].attempt = 0
    /\ worker.at \in {"climb", "decide"} => worker.claim.attempt = 0

\* The worker has the claim it runs, and a recheck that failed is not settled yet.
WorkerRuns ==
    /\ worker.at # "idle" => worker.claim \in Claim
    /\ worker.failed => worker.at \in {"release", "settle"}

\* A recheck under way has a number, and one that prepares is the worker's.
RecheckOwned ==
    fence # None =>
        /\ fence.recheck # "Idle" => fence.attempts > 0
        /\ fence.recheck = "Preparing" =>
             /\ worker.claim.attempt = fence.attempts
             /\ worker.at = "prepare" \/ worker.failed

IInv == FenceTypeOK /\ LaddersUnnumbered /\ WorkerRuns /\ RecheckOwned /\ RecheckServed

\* The bounds are numbers.
LEMMA Bounds == /\ MaxAttempts \in Nat /\ QueueLimit \in Nat
                /\ MaxRequests \in Nat /\ MaxFences \in Nat
BY FenceAssumption DEF FenceAssumption

\* It holds at first.
LEMMA InitInv == Init => IInv
<1> SUFFICES ASSUME Init PROVE IInv
  OBVIOUS
<1>1. /\ queue \in Seq(Claim) /\ Len(queue) = 0 /\ posted \in Seq(Claim)
      /\ DOMAIN queue = {} /\ DOMAIN posted = {}
  BY SMT DEF Init
<1>2. FenceTypeOK
  <2>1. worker \in [at: WorkerAt, claim: Claim \cup {None}, holds: BOOLEAN, failed: BOOLEAN]
    BY SMT DEF Init, Idle, WorkerAt
  <2>2. sweep \in [at: SweepAt, attempt: 0..MaxAttempts]
    BY Bounds, SMT DEF Init, SweepAt
  <2> QED
    <3>1. 0 \in 0..MaxRequests /\ 0 \in 0..MaxFences /\ Len(queue) <= QueueLimit
      BY <1>1, Bounds, SMT
    <3>2. fencing \in {None} \cup ({"worker", "holder"} \X BOOLEAN)
      BY Zenon DEF Init
    <3>3. blackout \in BOOLEAN /\ pump \in {"none", "open", "held"}
      BY Zenon DEF Init
    <3>4. fence \in Fence \cup {None} /\ key \in Claim \cup {None}
      BY Zenon DEF Init
    <3>5. fence # None /\ fence.stage # "Person" => fence = Staged(fence.stage)
      BY Zenon DEF Init
    <3> QED
      BY <1>1, <2>1, <2>2, <3>1, <3>2, <3>3, <3>4, <3>5, Zenon DEF Init, FenceTypeOK
<1>3. LaddersUnnumbered /\ WorkerRuns /\ RecheckOwned /\ RecheckServed
  BY <1>1, SMT DEF Init, LaddersUnnumbered, WorkerRuns, RecheckOwned, RecheckServed, Idle
<1> QED
  BY <1>2, <1>3 DEF IInv

\* The types of the parts of the state.
TypeFence == /\ fence \in Fence \cup {None}
             /\ fence # None /\ fence.stage # "Person" => fence = Staged(fence.stage)

TypeQueues == /\ key \in Claim \cup {None} /\ posted \in Seq(Claim)
              /\ queue \in Seq(Claim) /\ Len(queue) <= QueueLimit

TypeWorker == worker \in [at: WorkerAt, claim: Claim \cup {None}, holds: BOOLEAN,
                          failed: BOOLEAN]

TypeSweep == sweep \in [at: SweepAt, attempt: 0..MaxAttempts]

TypeFencing == /\ fencing \in {None} \cup ({"worker", "holder"} \X BOOLEAN)
               /\ fences \in 0..MaxFences

TypeRest == /\ pump \in {"none", "open", "held"} /\ blackout \in BOOLEAN
            /\ requests \in 0..MaxRequests

\* They are FenceTypeOK, before a step and after it.
LEMMA Types ==
    /\ FenceTypeOK <=> /\ TypeFence /\ TypeQueues /\ TypeWorker
                       /\ TypeSweep /\ TypeFencing /\ TypeRest
    /\ FenceTypeOK' <=> /\ TypeFence' /\ TypeQueues' /\ TypeWorker'
                        /\ TypeSweep' /\ TypeFencing' /\ TypeRest'
BY Zenon DEF FenceTypeOK, TypeFence, TypeQueues, TypeWorker, TypeSweep, TypeFencing,
   TypeRest

\* A fence entered, or moved to another stage, starts with no recheck.
LEMMA StagedFence ==
    ASSUME NEW stage \in {"Pending", "Ladder", "Person"}
    PROVE  /\ Staged(stage) \in Fence /\ Staged(stage).stage = stage
           /\ Staged(stage).recheck = "Idle" /\ Staged(stage).attempts = 0
<1>1. 0 \in 0..MaxAttempts
  BY Bounds, SMT
<1> QED
  BY <1>1, Zenon DEF Staged, Fence

\* Only a fence that waits for a person is rechecked.
LEMMA PersonRechecked ==
    ASSUME TypeFence, fence # None
    PROVE  /\ fence \in Fence
           /\ fence.recheck # "Idle" => fence.stage = "Person"
<1>1. fence \in Fence
  BY Zenon DEF TypeFence
<1>2. fence.stage # "Person" => Staged(fence.stage).recheck = "Idle"
  BY <1>1, StagedFence, Zenon DEF Fence
<1> QED
  BY <1>1, <1>2, Zenon DEF TypeFence

\* What the steps of a recheck do to the fence they find.
LEMMA RecheckedFence ==
    ASSUME fence \in Fence, fence.stage = "Person"
    PROVE  /\ [fence EXCEPT !.due = TRUE] \in Fence
           /\ [fence EXCEPT !.due = TRUE].stage = "Person"
           /\ [fence EXCEPT !.recheck = "Preparing"] \in Fence
           /\ [fence EXCEPT !.recheck = "Preparing"].stage = "Person"
           /\ [fence EXCEPT !.recheck = "Idle", !.due = FALSE] \in Fence
           /\ [fence EXCEPT !.recheck = "Idle", !.due = FALSE].stage = "Person"
BY Zenon DEF Fence

\* Settling a recheck leaves a fence of its type.
LEMMA SettledFence ==
    ASSUME TypeFence, NEW attempt, fence' = Settled(attempt)
    PROVE  TypeFence'
BY PersonRechecked, RecheckedFence, Zenon DEF Settled, TypeFence

\* So does the start of a wait for a person.
LEMMA AwaitedFence ==
    ASSUME TypeFence, fence' = AwaitingPerson
    PROVE  TypeFence'
BY StagedFence, Zenon DEF AwaitingPerson, TypeFence

\* fence_instance's reading.
LEMMA FenceReadTypes ==
    ASSUME TypeFencing, NEW by \in {"worker", "holder"}, FenceRead(by)
    PROVE  TypeFencing'
<1>1. fencing' \in {"worker", "holder"} \X BOOLEAN
  BY Zenon DEF FenceRead
<1>2. fences' \in 0..MaxFences
  BY Bounds, SMT DEF TypeFencing, FenceRead
<1> QED
  BY <1>1, <1>2, Zenon DEF TypeFencing

\* Steps that leave the claims and the worker alone, and a recheck under way as it is or
\* without its fence.
LEMMA CalmStep ==
    ASSUME IInv, UNCHANGED <<queue, posted, worker>>, key' \in Claim \cup {None},
           TypeFence', TypeSweep', TypeFencing', TypeRest',
           fence' = fence \/ fence' = None \/ fence'.recheck = "Idle",
           sweep' = sweep \/ sweep.at \notin {"queue", "refused"}
    PROVE  IInv'
<1>1. FenceTypeOK'
  BY Types, Zenon DEF IInv, TypeQueues, TypeWorker
<1>2. LaddersUnnumbered' /\ WorkerRuns'
  BY Zenon DEF IInv, LaddersUnnumbered, WorkerRuns
<1>3. RecheckOwned' /\ RecheckServed'
  BY Zenon DEF IInv, RecheckOwned, RecheckServed
<1> QED
  BY <1>1, <1>2, <1>3 DEF IInv

\* A step of the sweep from a place where it queues no recheck.
LEMMA SweepMoves ==
    ASSUME IInv, NEW from \in SweepAt \ {"queue", "refused"}, NEW to \in SweepAt,
           Sweeps(from, to),
           UNCHANGED <<key, queue, posted, worker, pump, fencing, blackout, requests, fences>>,
           TypeFence', fence' = fence \/ fence' = None \/ fence'.recheck = "Idle"
    PROVE  IInv'
<1>1. TypeQueues /\ TypeSweep /\ TypeFencing /\ TypeRest
  BY Types, Zenon DEF IInv
<1>2. TypeSweep'
  BY <1>1, Zenon DEF Sweeps, TypeSweep
<1>3. /\ TypeFencing' /\ TypeRest' /\ key' \in Claim \cup {None}
      /\ sweep.at \notin {"queue", "refused"}
  BY <1>1, Zenon DEF Sweeps, TypeFencing, TypeRest, TypeQueues
<1> QED
  BY <1>2, <1>3, CalmStep, Zenon

\* The claims that are made: the requesters', the ladder's of a sweep and a recheck's.
Fits(c) == c \in Claim /\ (c.kind = "Ladder" => c.attempt = 0)

\* Every claim of the model is such a claim.
LEMMA ClaimsFit ==
    /\ \A r \in Requesters : Fits(RequestOf(r))
    /\ Fits(ClaimOf("Ladder", TRUE, FALSE, 0))
    /\ \A attempt \in 0..MaxAttempts :
         /\ Fits(ClaimOf("SelfCheck", FALSE, FALSE, attempt))
         /\ ClaimOf("SelfCheck", FALSE, FALSE, attempt).attempt = attempt
BY Bounds, FenceAssumption, SMT DEF Fits, RequestOf, ClaimOf, Claim, Requester

\* A claim is appended.
LEMMA EnqueuedKeeps ==
    ASSUME TypeQueues, LaddersUnnumbered, NEW c, Fits(c), Enqueued(c),
           Len(queue) < QueueLimit, UNCHANGED <<key, posted, worker>>
    PROVE  /\ TypeQueues' /\ LaddersUnnumbered'
           /\ \A n \in DOMAIN queue : n \in DOMAIN queue' /\ queue'[n] = queue[n]
           /\ \E n \in DOMAIN queue' : queue'[n] = c
<1>1. /\ DOMAIN queue = 1..Len(queue) /\ Len(queue) \in Nat
      /\ DOMAIN queue' = 1..Len(queue) + 1 /\ Len(queue') = Len(queue) + 1
      /\ \A n \in DOMAIN queue : queue'[n] = queue[n]
      /\ queue'[Len(queue) + 1] = c
      /\ queue' \in Seq(Claim)
  BY SMT DEF TypeQueues, Enqueued, Fits
<1>2. TypeQueues'
  BY <1>1, Bounds, SMT DEF TypeQueues
<1>3. \A n \in DOMAIN queue' : n \in DOMAIN queue \/ queue'[n] = c
  BY <1>1, SMT
<1>4. LaddersUnnumbered'
  BY <1>1, <1>3, Zenon DEF LaddersUnnumbered, Fits
<1>5. Len(queue) + 1 \in DOMAIN queue' /\ \A n \in DOMAIN queue : n \in DOMAIN queue'
  BY <1>1, SMT
<1> QED
  BY <1>1, <1>2, <1>4, <1>5, Zenon

\* The key, the queue, the holder and fence_instance.
LEMMA KeyInv ==
    ASSUME IInv,
           \/ \E r \in Requesters : Request(r)
           \/ PumpReadGate \/ PumpGrant \/ KeyLapses \/ BlackoutTurns
           \/ FenceEnter \/ HolderFences \/ HolderLifts \/ HolderReleases
           \/ IntervalPasses
    PROVE  IInv'
<1>0. TypeFence /\ TypeQueues /\ TypeWorker /\ TypeSweep /\ TypeFencing /\ TypeRest
  BY Types, Zenon DEF IInv
<1>1. ASSUME NEW r \in Requesters, Request(r) PROVE IInv'
  <2>1. FenceTypeOK'
    <3>1. TypeQueues'
      BY <1>1, <1>0, ClaimsFit, EnqueuedKeeps, Zenon DEF Request, IInv
    <3>2. TypeRest'
      BY <1>1, <1>0, Bounds, SMT DEF Request, ClaimOf, RequestOf, Enqueued, TypeRest
    <3>3. TypeFence' /\ TypeWorker' /\ TypeSweep' /\ TypeFencing'
      BY <1>1, <1>0, SMT DEF Request, ClaimOf, RequestOf, Enqueued, TypeFence,
         TypeWorker, TypeSweep, TypeFencing
    <3> QED
      BY Types, <3>1, <3>2, <3>3, Zenon
  <2>2. LaddersUnnumbered' /\ WorkerRuns'
    BY <1>1, <1>0, ClaimsFit, EnqueuedKeeps, Zenon DEF Request, IInv, WorkerRuns
  <2>3. RecheckOwned' /\ RecheckServed'
    <3>1. \A n \in DOMAIN queue : n \in DOMAIN queue' /\ queue'[n] = queue[n]
      BY <1>1, <1>0, ClaimsFit, EnqueuedKeeps, Zenon DEF Request, IInv
    <3> QED
      BY <1>1, <3>1, Zenon DEF Request, IInv, RecheckOwned, RecheckServed
  <2> QED
    BY <2>1, <2>2, <2>3 DEF IInv
<1>2. ASSUME PumpReadGate PROVE IInv'
  <2>1. TypeRest'
    BY <1>2, <1>0, Zenon DEF PumpReadGate, TypeRest
  <2> QED
    BY <1>2, <1>0, <2>1, CalmStep, Zenon DEF PumpReadGate, TypeFence, TypeQueues,
       TypeSweep, TypeFencing, TypeRest
<1>3. ASSUME PumpGrant PROVE IInv'
  <2> DEFINE n == CHOOSE m \in Eligible : \A l \in Eligible : Ahead(m, l)
  <2>1. CASE ~(key = None /\ Eligible # {})
    <3>1. /\ UNCHANGED <<key, queue, posted, fence, worker, sweep, fencing, blackout,
                         requests, fences>>
          /\ pump' = "none"
      BY <1>3, <2>1, Zenon DEF PumpGrant
    <3>2. FenceTypeOK'
      BY <3>1, <1>0, Types, Zenon DEF TypeFence, TypeQueues, TypeWorker, TypeSweep,
         TypeFencing, TypeRest
    <3> QED
      BY <3>1, <3>2, Zenon DEF IInv, LaddersUnnumbered, WorkerRuns, RecheckOwned,
         RecheckServed
  <2>2. CASE key = None /\ Eligible # {}
    <3>1. /\ key' = queue[n] /\ queue' = Without(n) /\ pump' = "none"
          /\ posted' = IF OnWorker(queue[n]) THEN Append(posted, queue[n]) ELSE posted
          /\ UNCHANGED <<fence, worker, sweep, fencing, blackout, requests, fences>>
      BY <1>3, <2>2, Zenon DEF PumpGrant
    <3>2. n \in DOMAIN queue
      BY <1>0, <2>2, FirstEligible, Zenon DEF TypeQueues, Eligible
    <3> HIDE DEF n
    <3>3. queue[n] \in Claim
      BY <1>0, <3>2, SMT DEF TypeQueues
    <3>4. /\ queue' \in Seq(Claim) /\ Len(queue') <= Len(queue)
          /\ \A i \in DOMAIN queue' : \E l \in DOMAIN queue : queue'[i] = queue[l]
          /\ \A l \in DOMAIN queue \ {n} : \E i \in DOMAIN queue' : queue'[i] = queue[l]
      BY <1>0, <3>1, <3>2, Taken, Zenon DEF TypeQueues
    <3>5. /\ posted' \in Seq(Claim)
          /\ \A i \in DOMAIN posted : i \in DOMAIN posted' /\ posted'[i] = posted[i]
          /\ \A i \in DOMAIN posted' : i \in DOMAIN posted \/ posted'[i] = queue[n]
          /\ OnWorker(queue[n]) => \E i \in DOMAIN posted' : posted'[i] = queue[n]
      <4>1. CASE ~OnWorker(queue[n])
        BY <1>0, <3>1, <4>1, Zenon DEF TypeQueues
      <4>2. CASE OnWorker(queue[n])
        <5>1. /\ posted' \in Seq(Claim) /\ DOMAIN posted = 1..Len(posted) /\ Len(posted) \in Nat
              /\ DOMAIN posted' = 1..Len(posted) + 1
              /\ \A i \in 1..Len(posted) : posted'[i] = posted[i]
              /\ posted'[Len(posted) + 1] = queue[n]
          BY <1>0, <3>1, <3>3, <4>2, SMT DEF TypeQueues
        <5>2. /\ \A i \in 1..Len(posted) + 1 : i \in 1..Len(posted) \/ i = Len(posted) + 1
              /\ \A i \in 1..Len(posted) : i \in 1..Len(posted) + 1
              /\ Len(posted) + 1 \in 1..Len(posted) + 1
          BY <5>1, SMT
        <5> QED
          BY <5>1, <5>2, Zenon
      <4> QED
        BY <4>1, <4>2
    <3>6. FenceTypeOK'
      <4>1. Len(queue') <= QueueLimit
        BY <1>0, <3>4, Bounds, SMT DEF TypeQueues
      <4>2. TypeQueues'
        BY <1>0, <3>1, <3>3, <3>4, <3>5, <4>1, Zenon DEF TypeQueues
      <4> QED
        BY <1>0, <3>1, <4>2, Types, Zenon DEF TypeFence, TypeWorker, TypeSweep,
           TypeFencing, TypeRest
    <3>7. LaddersUnnumbered' /\ WorkerRuns'
      BY <3>1, <3>2, <3>4, <3>5, SMT DEF IInv, LaddersUnnumbered, WorkerRuns
    <3>8. RecheckOwned'
      BY <3>1, Zenon DEF IInv, RecheckOwned
    <3>9. RecheckServed'
      <4>1. fence # None /\ fence.recheck # "Idle" /\ queue[n].attempt = fence.attempts
            => OnWorker(queue[n])
        BY Zenon DEF IInv, RecheckOwned, OnWorker
      <4> QED
        BY <3>1, <3>4, <3>5, <4>1, SMT DEF IInv, RecheckServed
    <3> QED
      BY <3>6, <3>7, <3>8, <3>9 DEF IInv
  <2> QED
    BY <2>1, <2>2
<1>4. ASSUME KeyLapses PROVE IInv'
  <2>1. FenceTypeOK'
    <3>1. TypeQueues'
      BY <1>4, <1>0, Bounds, SMT DEF KeyLapses, TypeQueues, Claim
    <3>2. TypeWorker'
      BY <1>4, <1>0, Zenon DEF KeyLapses, TypeWorker, WorkerAt, WorkerRuns
    <3>3. TypeFence' /\ TypeSweep' /\ TypeFencing' /\ TypeRest'
      BY <1>4, <1>0, SMT DEF KeyLapses, TypeFence, TypeSweep, TypeFencing, TypeRest
    <3> QED
      BY Types, <3>1, <3>2, <3>3, Zenon
  <2>2. LaddersUnnumbered' /\ WorkerRuns'
    BY <1>4, <1>0, SMT DEF IInv, TypeQueues, TypeWorker, LaddersUnnumbered, WorkerRuns,
       Claim, KeyLapses
  <2>3. RecheckOwned' /\ RecheckServed'
    BY <1>4, <1>0, Bounds, SMT DEF IInv, TypeFence, TypeQueues, TypeWorker, TypeSweep,
       LaddersUnnumbered, WorkerRuns, RecheckOwned, RecheckServed, Staged, Fence, Claim,
       KeyLapses
  <2> QED
    BY <2>1, <2>2, <2>3 DEF IInv
<1>5. ASSUME BlackoutTurns PROVE IInv'
  <2>1. TypeRest'
    BY <1>5, <1>0, Zenon DEF BlackoutTurns, TypeRest
  <2> QED
    BY <1>5, <1>0, <2>1, CalmStep, Zenon DEF BlackoutTurns, TypeFence, TypeQueues,
       TypeSweep, TypeFencing, TypeRest
<1>6. ASSUME FenceEnter PROVE IInv'
  <2>1. TypeFence' /\ (fence' = fence \/ fence'.recheck = "Idle")
    BY <1>6, <1>0, StagedFence, Zenon DEF FenceEnter, TypeFence
  <2>2. TypeFencing'
    BY <1>6, <1>0, Zenon DEF FenceEnter, TypeFencing
  <2> QED
    BY <1>6, <1>0, <2>1, <2>2, CalmStep, Zenon DEF FenceEnter, TypeFence, TypeQueues,
       TypeSweep, TypeFencing, TypeRest
<1>7. ASSUME HolderFences PROVE IInv'
  <2>1. TypeFencing'
    BY <1>7, <1>0, FenceReadTypes, Zenon DEF HolderFences
  <2> QED
    BY <1>7, <1>0, <2>1, CalmStep, Zenon DEF HolderFences, FenceRead, TypeFence,
       TypeQueues, TypeSweep, TypeFencing, TypeRest
<1>8. ASSUME HolderLifts PROVE IInv'
  BY <1>8, <1>0, CalmStep, Zenon DEF HolderLifts, TypeFence, TypeQueues, TypeSweep,
     TypeFencing, TypeRest
<1>9. ASSUME HolderReleases PROVE IInv'
  BY <1>9, <1>0, CalmStep, Zenon DEF HolderReleases, TypeFence, TypeQueues, TypeSweep,
     TypeFencing, TypeRest
<1>10. ASSUME IntervalPasses PROVE IInv'
  <2>1. TypeFence' /\ fence'.recheck = "Idle"
    BY <1>10, <1>0, RecheckedFence, Zenon DEF IntervalPasses, TypeFence, Fence
  <2> QED
    BY <1>10, <1>0, <2>1, CalmStep, Zenon DEF IntervalPasses, TypeFence, TypeQueues,
       TypeSweep, TypeFencing, TypeRest
<1> QED
  BY <1>1, <1>2, <1>3, <1>4, <1>5, <1>6, <1>7, <1>8, <1>9, <1>10, Zenon

\* The instance's worker.
LEMMA WorkerInv ==
    ASSUME IInv,
           Worker
    PROVE  IInv'
<1>0. TypeFence /\ TypeQueues /\ TypeWorker /\ TypeSweep /\ TypeFencing /\ TypeRest
  BY Types, Zenon DEF IInv
<1>1. ASSUME WorkerTakes PROVE IInv'
  <2> DEFINE c == Head(posted)
  <2>1. /\ worker = Idle
        /\ worker' = [at |-> IF c.kind = "Ladder" THEN "climb" ELSE "begin",
                      claim |-> c, holds |-> TRUE, failed |-> FALSE]
        /\ posted' = Tail(posted)
        /\ UNCHANGED <<fence, key, queue, sweep, pump, fencing, blackout, requests, fences>>
    BY <1>1, Zenon DEF WorkerTakes
  <2>2. /\ c \in Claim /\ posted' \in Seq(Claim)
        /\ 1 \in DOMAIN posted /\ c = posted[1]
        /\ \A i \in DOMAIN posted' : i + 1 \in DOMAIN posted /\ posted'[i] = posted[i + 1]
        /\ \A i \in DOMAIN posted :
             i = 1 \/ (i - 1 \in DOMAIN posted' /\ posted'[i - 1] = posted[i])
    <3>1. posted \in Seq(Claim) /\ posted # <<>> /\ posted' = Tail(posted)
      BY <1>1, <1>0, Zenon DEF WorkerTakes, TypeQueues
    <3>2. 1 \in DOMAIN posted /\ c = posted[1] /\ c \in Claim
      BY <3>1, SMT
    <3>3. /\ DOMAIN posted = 1..Len(posted) /\ Len(posted) \in Nat
          /\ posted' \in Seq(Claim) /\ DOMAIN posted' = 1..Len(posted) - 1
          /\ \A i \in 1..Len(posted) - 1 : posted'[i] = posted[i + 1]
      BY <3>1, SMT
    <3>4. \A i \in DOMAIN posted :
            i = 1 \/ (i - 1 \in DOMAIN posted' /\ posted'[i - 1] = posted[i])
      BY <3>3, SMT
    <3>5. \A i \in DOMAIN posted' : i + 1 \in DOMAIN posted /\ posted'[i] = posted[i + 1]
      BY <3>3, SMT
    <3> QED
      BY <3>2, <3>3, <3>4, <3>5, Zenon
  <2> HIDE DEF c
  <2>3. /\ worker'.claim = c /\ ~worker'.failed
        /\ worker'.at = IF c.kind = "Ladder" THEN "climb" ELSE "begin"
    BY <2>1, Zenon
  <2>4. FenceTypeOK'
    <3>1. TypeWorker'
      BY <2>1, <2>2, Zenon DEF TypeWorker, WorkerAt
    <3>2. TypeQueues'
      BY <1>0, <2>1, <2>2, Zenon DEF TypeQueues
    <3> QED
      BY <1>0, <2>1, <3>1, <3>2, Types, Zenon DEF TypeFence, TypeSweep, TypeFencing,
         TypeRest
  <2>5. LaddersUnnumbered' /\ WorkerRuns'
    BY <2>1, <2>2, <2>3, SMT DEF IInv, LaddersUnnumbered, WorkerRuns
  <2>6. worker.at = "idle" /\ ~worker.failed
    BY <2>1, Zenon DEF Idle
  <2>7. RecheckOwned'
    BY <2>1, <2>6, Zenon DEF IInv, RecheckOwned
  <2>8. RecheckServed'
    <3>1. fence # None /\ fence.recheck # "Idle" => fence.attempts > 0
      BY SMT DEF IInv, RecheckOwned
    <3>2. fence # None /\ fence.recheck # "Idle" /\ c.attempt = fence.attempts
          => worker'.at = "begin"
      BY <2>2, <2>3, <3>1, SMT DEF IInv, LaddersUnnumbered
    <3>3. worker'.at # "idle"
      BY <2>3, Zenon
    <3> QED
      BY <2>1, <2>2, <2>3, <2>6, <3>2, <3>3, ZenonT(60) DEF IInv, RecheckServed
  <2> QED
    BY <2>4, <2>5, <2>7, <2>8 DEF IInv
<1>2. ASSUME ClimbFences PROVE IInv'
  <2>1. TypeFencing'
    BY <1>2, <1>0, FenceReadTypes, Zenon DEF ClimbFences
  <2> QED
    BY <1>2, <1>0, <2>1, CalmStep, Zenon DEF ClimbFences, FenceRead, TypeFence,
       TypeQueues,
       TypeSweep, TypeFencing, TypeRest
<1>3. ASSUME ClimbLifts PROVE IInv'
  BY <1>3, <1>0, CalmStep, Zenon DEF ClimbLifts, TypeFence, TypeQueues, TypeSweep,
     TypeFencing, TypeRest
<1>4. ASSUME ClimbEnds PROVE IInv'
  <2>1. FenceTypeOK'
    <3>1. TypeWorker'
      BY <1>4, <1>0, Zenon DEF ClimbEnds, AtWork, TypeWorker, WorkerAt, WorkerRuns
    <3>2. TypeFence' /\ TypeQueues' /\ TypeSweep' /\ TypeFencing' /\ TypeRest'
      BY <1>4, <1>0, SMT DEF ClimbEnds, AtWork, TypeFence, TypeQueues, TypeSweep,
         TypeFencing, TypeRest
    <3> QED
      BY Types, <3>1, <3>2, Zenon
  <2>2. LaddersUnnumbered' /\ WorkerRuns'
    BY <1>4, <1>0, SMT DEF IInv, TypeQueues, TypeWorker, LaddersUnnumbered, WorkerRuns,
       Claim, ClimbEnds, AtWork
  <2>3. RecheckOwned' /\ RecheckServed'
    BY <1>4, <1>0, Bounds, SMT DEF IInv, TypeFence, TypeQueues, TypeWorker, TypeSweep,
       LaddersUnnumbered, WorkerRuns, RecheckOwned, RecheckServed, Staged, Fence, Claim,
       ClimbEnds, AtWork
  <2> QED
    BY <2>1, <2>2, <2>3 DEF IInv
<1>5. ASSUME LadderDecided PROVE IInv'
  <2>1. FenceTypeOK'
    <3>1. TypeFence'
      BY <1>5, <1>0, AwaitedFence, Zenon DEF LadderDecided, TypeFence
    <3>2. TypeWorker'
      BY <1>5, <1>0, Zenon DEF LadderDecided, AtWork, AwaitingPerson, TypeWorker,
         WorkerAt, WorkerRuns
    <3>3. TypeQueues' /\ TypeSweep' /\ TypeFencing' /\ TypeRest'
      BY <1>5, <1>0, SMT DEF LadderDecided, AtWork, AwaitingPerson, TypeQueues,
         TypeSweep, TypeFencing, TypeRest
    <3> QED
      BY Types, <3>1, <3>2, <3>3, Zenon
  <2>2. LaddersUnnumbered' /\ WorkerRuns'
    BY <1>5, <1>0, SMT DEF IInv, TypeQueues, TypeWorker, LaddersUnnumbered, WorkerRuns,
       Claim, LadderDecided, AtWork, AwaitingPerson
  <2>3. RecheckOwned' /\ RecheckServed'
    BY <1>5, <1>0, Bounds, SMT DEF IInv, TypeFence, TypeQueues, TypeWorker, TypeSweep,
       LaddersUnnumbered, WorkerRuns, RecheckOwned, RecheckServed, Staged, Fence, Claim,
       LadderDecided, AtWork, AwaitingPerson
  <2> QED
    BY <2>1, <2>2, <2>3 DEF IInv
<1>6. ASSUME RecheckBegins PROVE IInv'
  <2>1. FenceTypeOK'
    <3>1. TypeFence'
      BY <1>6, <1>0, PersonRechecked, RecheckedFence, Zenon DEF RecheckBegins, TypeFence
    <3>2. TypeWorker'
      BY <1>6, <1>0, Zenon DEF RecheckBegins, AtWork, TypeWorker, WorkerAt, WorkerRuns
    <3>3. TypeQueues' /\ TypeSweep' /\ TypeFencing' /\ TypeRest'
      BY <1>6, <1>0, SMT DEF RecheckBegins, AtWork, TypeQueues, TypeSweep, TypeFencing,
         TypeRest
    <3> QED
      BY Types, <3>1, <3>2, <3>3, Zenon
  <2>2. LaddersUnnumbered' /\ WorkerRuns'
    BY <1>6, <1>0, SMT DEF IInv, TypeQueues, TypeWorker, LaddersUnnumbered, WorkerRuns,
       Claim, RecheckBegins, AtWork
  <2>3. RecheckOwned' /\ RecheckServed'
    BY <1>6, <1>0, Bounds, SMT DEF IInv, TypeFence, TypeQueues, TypeWorker, TypeSweep,
       LaddersUnnumbered, WorkerRuns, RecheckOwned, RecheckServed, Staged, Fence, Claim,
       RecheckBegins, AtWork
  <2> QED
    BY <2>1, <2>2, <2>3 DEF IInv
<1>7. ASSUME RecheckFences PROVE IInv'
  <2>1. TypeFencing'
    BY <1>7, <1>0, FenceReadTypes, Zenon DEF RecheckFences
  <2> QED
    BY <1>7, <1>0, <2>1, CalmStep, Zenon DEF RecheckFences, FenceRead, TypeFence,
       TypeQueues, TypeSweep, TypeFencing, TypeRest
<1>8. ASSUME RecheckPasses PROVE IInv'
  <2>1. FenceTypeOK'
    <3>1. TypeFence'
      BY <1>8, <1>0, Bounds, SMT DEF RecheckPasses, AtWork, TypeFence, Fence, Staged
    <3>2. TypeWorker'
      BY <1>8, <1>0, Zenon DEF RecheckPasses, AtWork, TypeWorker, WorkerAt, WorkerRuns
    <3>3. TypeQueues' /\ TypeSweep' /\ TypeFencing' /\ TypeRest'
      BY <1>8, <1>0, SMT DEF RecheckPasses, AtWork, TypeQueues, TypeSweep, TypeFencing,
         TypeRest
    <3> QED
      BY Types, <3>1, <3>2, <3>3, Zenon
  <2>2. LaddersUnnumbered' /\ WorkerRuns'
    BY <1>8, <1>0, SMT DEF IInv, TypeQueues, TypeWorker, LaddersUnnumbered, WorkerRuns,
       Claim, RecheckPasses, AtWork
  <2>3. RecheckOwned' /\ RecheckServed'
    BY <1>8, <1>0, Bounds, SMT DEF IInv, TypeFence, TypeQueues, TypeWorker, TypeSweep,
       LaddersUnnumbered, WorkerRuns, RecheckOwned, RecheckServed, Staged, Fence, Claim,
       RecheckPasses, AtWork
  <2> QED
    BY <2>1, <2>2, <2>3 DEF IInv
<1>9. ASSUME RecheckFails PROVE IInv'
  <2>1. FenceTypeOK'
    <3>1. TypeWorker'
      BY <1>9, <1>0, Zenon DEF RecheckFails, AtWork, TypeWorker, WorkerAt, WorkerRuns
    <3>2. TypeFence' /\ TypeQueues' /\ TypeSweep' /\ TypeFencing' /\ TypeRest'
      BY <1>9, <1>0, SMT DEF RecheckFails, AtWork, TypeFence, TypeQueues, TypeSweep,
         TypeFencing, TypeRest
    <3> QED
      BY Types, <3>1, <3>2, Zenon
  <2>2. LaddersUnnumbered' /\ WorkerRuns'
    BY <1>9, <1>0, SMT DEF IInv, TypeQueues, TypeWorker, LaddersUnnumbered, WorkerRuns,
       Claim, RecheckFails, AtWork
  <2>3. RecheckOwned' /\ RecheckServed'
    BY <1>9, <1>0, Bounds, SMT DEF IInv, TypeFence, TypeQueues, TypeWorker, TypeSweep,
       LaddersUnnumbered, WorkerRuns, RecheckOwned, RecheckServed, Staged, Fence, Claim,
       RecheckFails, AtWork
  <2> QED
    BY <2>1, <2>2, <2>3 DEF IInv
<1>10. ASSUME ReleaseFences PROVE IInv'
  <2>1. TypeFencing'
    BY <1>10, <1>0, FenceReadTypes, Zenon DEF ReleaseFences
  <2> QED
    BY <1>10, <1>0, <2>1, CalmStep, Zenon DEF ReleaseFences, FenceRead, TypeFence,
       TypeQueues, TypeSweep, TypeFencing, TypeRest
<1>11. ASSUME WorkerReleases PROVE IInv'
  <2>1. FenceTypeOK'
    <3>1. TypeQueues'
      BY <1>11, <1>0, Bounds, SMT DEF WorkerReleases, AtWork, Idle, TypeQueues, Claim
    <3>2. TypeWorker'
      BY <1>11, <1>0, Zenon DEF WorkerReleases, AtWork, Idle, TypeWorker, WorkerAt,
         WorkerRuns
    <3>3. TypeFence' /\ TypeSweep' /\ TypeFencing' /\ TypeRest'
      BY <1>11, <1>0, SMT DEF WorkerReleases, AtWork, Idle, TypeFence, TypeSweep,
         TypeFencing, TypeRest
    <3> QED
      BY Types, <3>1, <3>2, <3>3, Zenon
  <2>2. LaddersUnnumbered' /\ WorkerRuns'
    BY <1>11, <1>0, SMT DEF IInv, TypeQueues, TypeWorker, LaddersUnnumbered, WorkerRuns,
       Claim, WorkerReleases, AtWork, Idle
  <2>3. RecheckOwned' /\ RecheckServed'
    BY <1>11, <1>0, Bounds, SMT DEF IInv, TypeFence, TypeQueues, TypeWorker, TypeSweep,
       LaddersUnnumbered, WorkerRuns, RecheckOwned, RecheckServed, Staged, Fence, Claim,
       WorkerReleases, AtWork, Idle
  <2> QED
    BY <2>1, <2>2, <2>3 DEF IInv
<1>12. ASSUME RecheckSettles PROVE IInv'
  <2>1. FenceTypeOK'
    <3>1. TypeFence'
      BY <1>12, <1>0, SettledFence, Zenon DEF RecheckSettles
    <3>2. TypeWorker'
      BY <1>12, <1>0, Zenon DEF RecheckSettles, AtWork, Idle, Settled, TypeWorker,
         WorkerAt, WorkerRuns
    <3>3. TypeQueues' /\ TypeSweep' /\ TypeFencing' /\ TypeRest'
      BY <1>12, <1>0, SMT DEF RecheckSettles, AtWork, Idle, Settled, TypeQueues,
         TypeSweep, TypeFencing, TypeRest
    <3> QED
      BY Types, <3>1, <3>2, <3>3, Zenon
  <2>2. LaddersUnnumbered' /\ WorkerRuns'
    BY <1>12, <1>0, SMT DEF IInv, TypeQueues, TypeWorker, LaddersUnnumbered, WorkerRuns,
       Claim, RecheckSettles, AtWork, Idle, Settled
  <2>3. RecheckOwned' /\ RecheckServed'
    BY <1>12, <1>0, Bounds, SMT DEF IInv, TypeFence, TypeQueues, TypeWorker, TypeSweep,
       LaddersUnnumbered, WorkerRuns, RecheckOwned, RecheckServed, Staged, Fence, Claim,
       RecheckSettles, AtWork, Idle, Settled
  <2> QED
    BY <2>1, <2>2, <2>3 DEF IInv
<1> QED
  BY <1>1, <1>2, <1>3, <1>4, <1>5, <1>6, <1>7, <1>8, <1>9, <1>10, <1>11, <1>12, Zenon
     DEF Worker

\* The lease sweep.
LEMMA SweepInv ==
    ASSUME IInv,
           Sweep
    PROVE  IInv'
<1>0. TypeFence /\ TypeQueues /\ TypeWorker /\ TypeSweep /\ TypeFencing /\ TypeRest
  BY Types, Zenon DEF IInv
<1>1. ASSUME SweepLists PROVE IInv'
  BY <1>1, <1>0, SweepMoves, Zenon DEF SweepLists, SweepAt, TypeFence
<1>2. ASSUME SweepJudges PROVE IInv'
  BY <1>2, <1>0, SweepMoves, Zenon DEF SweepJudges, SweepAt, TypeFence
<1>3. ASSUME SweepAdmits PROVE IInv'
  BY <1>3, <1>0, SweepMoves, Zenon DEF SweepAdmits, SweepAt, TypeFence
<1>4. ASSUME SweepMarks PROVE IInv'
  <2>1. TypeFence' /\ (fence' = None \/ fence'.recheck = "Idle")
    BY <1>4, <1>0, StagedFence, Zenon DEF SweepMarks, TypeFence
  <2> QED
    BY <1>4, <2>1, SweepMoves, Zenon DEF SweepMarks, SweepAt
<1>5. ASSUME SweepEnqueues PROVE IInv'
  <2>1. FenceTypeOK'
    <3>1. TypeQueues'
      BY <1>5, <1>0, ClaimsFit, EnqueuedKeeps, Zenon DEF SweepEnqueues, TypeQueues, IInv
    <3>2. TypeSweep'
      BY <1>5, <1>0, Bounds, SMT DEF SweepEnqueues, Sweeps, Enqueued, ClaimOf,
         TypeSweep, SweepAt
    <3>3. TypeFence' /\ TypeWorker' /\ TypeFencing' /\ TypeRest'
      BY <1>5, <1>0, SMT DEF SweepEnqueues, Sweeps, Enqueued, ClaimOf, TypeFence,
         TypeWorker, TypeFencing, TypeRest
    <3> QED
      BY Types, <3>1, <3>2, <3>3, Zenon
  <2>2. LaddersUnnumbered' /\ WorkerRuns'
    BY <1>5, <1>0, ClaimsFit, EnqueuedKeeps, Zenon
       DEF SweepEnqueues, IInv, LaddersUnnumbered, WorkerRuns
  <2>3. RecheckOwned' /\ RecheckServed'
    <3>1. \A n \in DOMAIN queue : n \in DOMAIN queue' /\ queue'[n] = queue[n]
      BY <1>5, <1>0, ClaimsFit, EnqueuedKeeps, Zenon DEF SweepEnqueues, IInv
    <3> QED
      BY <1>5, <3>1, Zenon DEF SweepEnqueues, Sweeps, IInv, RecheckOwned, RecheckServed
  <2> QED
    BY <2>1, <2>2, <2>3 DEF IInv
<1>6. ASSUME SweepConfirms PROVE IInv'
  BY <1>6, <1>0, SweepMoves, Zenon DEF SweepConfirms, SweepAt, TypeFence
<1>7. ASSUME SweepAwaits PROVE IInv'
  <2>1. TypeFence' /\ (fence' = fence \/ fence'.recheck = "Idle")
    BY <1>7, <1>0, AwaitedFence, StagedFence, Zenon DEF SweepAwaits, TypeFence,
       AwaitingPerson
  <2> QED
    BY <1>7, <2>1, SweepMoves, Zenon DEF SweepAwaits, SweepAt
<1>8. ASSUME SweepReadsSilence PROVE IInv'
  BY <1>8, <1>0, SweepMoves, Zenon DEF SweepReadsSilence, SweepAt, TypeFence
<1>9. ASSUME SweepStartsRecheck PROVE IInv'
  <2>1. FenceTypeOK'
    <3>1. TypeFence'
      <4>1. CASE ~Due
        BY <1>9, <1>0, <4>1, Zenon DEF SweepStartsRecheck, TypeFence
      <4>2. CASE Due
        <5>1. fence \in Fence /\ fence.stage = "Person" /\ fence.attempts + 1 \in 0..MaxAttempts
          BY <1>0, <4>2, Bounds, SMT DEF Due, TypeFence, Fence
        <5>2. fence' = [fence EXCEPT !.attempts = fence.attempts + 1, !.recheck = "Queued"]
          BY <1>9, <4>2, Zenon DEF SweepStartsRecheck
        <5> QED
          BY <5>1, <5>2, Zenon DEF TypeFence, Fence
      <4> QED
        BY <4>1, <4>2
    <3>2. TypeSweep'
      <4>1. CASE ~Due
        BY <1>9, <1>0, <4>1, SMT DEF SweepStartsRecheck, Sweeps, TypeSweep, SweepAt
      <4>2. CASE Due
        BY <1>9, <1>0, <4>2, Bounds, SMT DEF SweepStartsRecheck, TypeSweep, SweepAt, Due,
           TypeFence, Fence
      <4> QED
        BY <4>1, <4>2
    <3>3. TypeQueues' /\ TypeWorker' /\ TypeFencing' /\ TypeRest'
      BY <1>9, <1>0, SMT DEF SweepStartsRecheck, Sweeps, Due, TypeQueues, TypeWorker,
         TypeFencing, TypeRest
    <3> QED
      BY Types, <3>1, <3>2, <3>3, Zenon
  <2>2. LaddersUnnumbered' /\ WorkerRuns'
    BY <1>9, <1>0, SMT DEF IInv, TypeQueues, TypeWorker, LaddersUnnumbered, WorkerRuns,
       Claim, SweepStartsRecheck, Sweeps, Due
  <2>3. RecheckOwned' /\ RecheckServed'
    <3>1. CASE ~Due
      BY <1>9, <3>1, Zenon DEF SweepStartsRecheck, Sweeps, IInv, RecheckOwned,
         RecheckServed
    <3>2. CASE Due
      <4>1. /\ sweep' = [at |-> "queue", attempt |-> fence.attempts + 1]
            /\ fence' = [fence EXCEPT !.attempts = fence.attempts + 1, !.recheck = "Queued"]
        BY <1>9, <3>2, Zenon DEF SweepStartsRecheck
      <4>2. fence \in Fence /\ fence.attempts \in Nat
        BY <1>0, <3>2, SMT DEF Due, TypeFence, Fence
      <4>3. /\ fence'.attempts = fence.attempts + 1 /\ fence'.recheck = "Queued"
            /\ sweep'.at = "queue" /\ sweep'.attempt = fence.attempts + 1
        BY <4>1, <4>2, Zenon DEF Fence
      <4>4. fence.attempts + 1 > 0
        BY <4>2, SMT
      <4> QED
        BY <4>3, <4>4, Zenon DEF RecheckOwned, RecheckServed
    <3> QED
      BY <3>1, <3>2
  <2> QED
    BY <2>1, <2>2, <2>3 DEF IInv
<1>10. ASSUME SweepQueuesRecheck PROVE IInv'
  <2>1. FenceTypeOK'
    <3>1. TypeQueues'
      <4>1. sweep.attempt \in 0..MaxAttempts
        BY <1>0, Zenon DEF TypeSweep
      <4> QED
        BY <1>10, <1>0, <4>1, ClaimsFit, EnqueuedKeeps, Zenon DEF SweepQueuesRecheck,
           TypeQueues, IInv
    <3>2. TypeSweep'
      BY <1>10, <1>0, Bounds, SMT DEF SweepQueuesRecheck, Sweeps, Enqueued, ClaimOf,
         TypeSweep, SweepAt
    <3>3. TypeFence' /\ TypeWorker' /\ TypeFencing' /\ TypeRest'
      BY <1>10, <1>0, SMT DEF SweepQueuesRecheck, Sweeps, Enqueued, ClaimOf, TypeFence,
         TypeWorker, TypeFencing, TypeRest
    <3> QED
      BY Types, <3>1, <3>2, <3>3, Zenon
  <2>2. LaddersUnnumbered' /\ WorkerRuns'
    <3>1. sweep.attempt \in 0..MaxAttempts
      BY <1>0, Zenon DEF TypeSweep
    <3> QED
      BY <1>10, <1>0, <3>1, ClaimsFit, EnqueuedKeeps, Zenon
         DEF SweepQueuesRecheck, IInv, LaddersUnnumbered, WorkerRuns
  <2>3. RecheckOwned' /\ RecheckServed'
    <3>1. sweep.attempt \in 0..MaxAttempts
      BY <1>0, Zenon DEF TypeSweep
    <3>2. CASE Sweeps("queue", "refused") /\ UNCHANGED queue
      <4>1. sweep'.at = "refused" /\ sweep'.attempt = sweep.attempt
        BY <1>0, <3>2, Zenon DEF Sweeps, TypeSweep, SweepAt
      <4> QED
        BY <1>10, <3>2, <4>1, Zenon DEF SweepQueuesRecheck, IInv, RecheckOwned,
           RecheckServed
    <3>3. CASE ~(Sweeps("queue", "refused") /\ UNCHANGED queue)
      <4> DEFINE c == ClaimOf("SelfCheck", FALSE, FALSE, sweep.attempt)
      <4>1. Fits(c) /\ c.attempt = sweep.attempt
        BY <3>1, ClaimsFit, Zenon
      <4>2. Len(queue) < QueueLimit /\ Enqueued(c) /\ UNCHANGED <<key, posted, worker>>
        BY <1>10, <3>3, Zenon DEF SweepQueuesRecheck
      <4> HIDE DEF c
      <4>3. /\ \A n \in DOMAIN queue : n \in DOMAIN queue' /\ queue'[n] = queue[n]
            /\ \E n \in DOMAIN queue' : queue'[n].attempt = sweep.attempt
        BY <1>0, <4>1, <4>2, EnqueuedKeeps, Zenon DEF IInv
      <4> QED
        BY <1>10, <4>3, Zenon DEF SweepQueuesRecheck, IInv, RecheckOwned, RecheckServed
    <3> QED
      BY <3>2, <3>3
  <2> QED
    BY <2>1, <2>2, <2>3 DEF IInv
<1>11. ASSUME SweepSettlesRecheck PROVE IInv'
  <2>1. FenceTypeOK'
    <3>1. TypeFence'
      BY <1>11, <1>0, SettledFence, Zenon DEF SweepSettlesRecheck
    <3>2. TypeSweep'
      BY <1>11, <1>0, Bounds, SMT DEF SweepSettlesRecheck, Sweeps, Settled, TypeSweep,
         SweepAt
    <3>3. TypeQueues' /\ TypeWorker' /\ TypeFencing' /\ TypeRest'
      BY <1>11, <1>0, SMT DEF SweepSettlesRecheck, Sweeps, Settled, TypeQueues,
         TypeWorker, TypeFencing, TypeRest
    <3> QED
      BY Types, <3>1, <3>2, <3>3, Zenon
  <2>2. LaddersUnnumbered' /\ WorkerRuns'
    BY <1>11, <1>0, SMT DEF IInv, TypeQueues, TypeWorker, LaddersUnnumbered, WorkerRuns,
       Claim, SweepSettlesRecheck, Sweeps, Settled
  <2>3. RecheckOwned' /\ RecheckServed'
    BY <1>11, <1>0, Bounds, SMT DEF IInv, TypeFence, TypeQueues, TypeWorker, TypeSweep,
       LaddersUnnumbered, WorkerRuns, RecheckOwned, RecheckServed, Staged, Fence, Claim,
       SweepSettlesRecheck, Sweeps, Settled
  <2> QED
    BY <2>1, <2>2, <2>3 DEF IInv
<1>12. ASSUME SweepDropsLadders PROVE IInv'
  <2> DEFINE kept == {n \in DOMAIN queue : queue[n].kind # "Ladder"}
  <2>1. /\ sweep.at = "drop" /\ sweep' = [at |-> "tick", attempt |-> 0]
        /\ queue' = IF blackout THEN Keep(kept) ELSE queue
        /\ UNCHANGED <<fence, key, posted, worker, pump, fencing, blackout, requests, fences>>
    BY <1>12, Zenon DEF SweepDropsLadders
  <2>2. /\ queue' \in Seq(Claim) /\ Len(queue') <= QueueLimit
        /\ \A i \in DOMAIN queue' : \E n \in DOMAIN queue : queue'[i] = queue[n]
        /\ \A n \in kept : \E i \in DOMAIN queue' : queue'[i] = queue[n]
    <3>1. CASE ~blackout
      BY <1>0, <2>1, <3>1, Zenon DEF TypeQueues
    <3>2. CASE blackout
      <4>0. kept \in SUBSET DOMAIN queue
        OBVIOUS
      <4> HIDE DEF kept
      <4>1. /\ queue' \in Seq(Claim) /\ Len(queue') <= Len(queue)
            /\ \A i \in DOMAIN queue' : \E n \in kept : queue'[i] = queue[n]
            /\ \A n \in kept : \E i \in DOMAIN queue' : queue'[i] = queue[n]
        BY <1>0, <2>1, <3>2, <4>0, Kept, Zenon DEF TypeQueues
      <4>2. Len(queue') <= QueueLimit
        BY <1>0, <4>1, Bounds, SMT DEF TypeQueues
      <4> QED
        BY <4>0, <4>1, <4>2, Zenon
    <3> QED
      BY <3>1, <3>2
  <2>3. FenceTypeOK'
    <3>1. TypeSweep'
      BY <2>1, Bounds, SMT DEF TypeSweep, SweepAt
    <3>2. TypeQueues'
      BY <1>0, <2>1, <2>2, Zenon DEF TypeQueues
    <3> QED
      BY <1>0, <2>1, <3>1, <3>2, Types, Zenon DEF TypeFence, TypeWorker, TypeFencing,
         TypeRest
  <2>4. LaddersUnnumbered' /\ WorkerRuns'
    BY <2>1, <2>2, SMT DEF IInv, LaddersUnnumbered, WorkerRuns
  <2>5. RecheckOwned'
    BY <2>1, Zenon DEF IInv, RecheckOwned
  <2>6. RecheckServed'
    <3>1. ASSUME NEW n \in DOMAIN queue, fence # None, fence.recheck # "Idle",
                 queue[n].attempt = fence.attempts
          PROVE  n \in kept
      BY <3>1, SMT DEF IInv, RecheckOwned, LaddersUnnumbered
    <3>2. ASSUME fence # None, fence.recheck # "Idle",
                 \E n \in DOMAIN queue : queue[n].attempt = fence.attempts
          PROVE  \E i \in DOMAIN queue' : queue'[i].attempt = fence.attempts
      <4>1. PICK n \in kept : queue[n].attempt = fence.attempts
        BY <3>1, <3>2, Zenon
      <4>2. PICK i \in DOMAIN queue' : queue'[i] = queue[n]
        BY <2>2, Zenon
      <4> QED
        BY <4>1, <4>2, Zenon
    <3>3. sweep.at \notin {"queue", "refused"}
      BY <2>1, Zenon
    <3> QED
      BY <2>1, <3>2, <3>3, ZenonT(60) DEF IInv, RecheckServed
  <2> QED
    BY <2>3, <2>4, <2>5, <2>6 DEF IInv
<1> QED
  BY <1>1, <1>2, <1>3, <1>4, <1>5, <1>6, <1>7, <1>8, <1>9, <1>10, <1>11, <1>12, Zenon
     DEF Sweep

\* It is kept by every step.
LEMMA NextInv == ASSUME IInv, [Next]_vars PROVE IInv'
<1>1. ASSUME UNCHANGED vars PROVE IInv'
  BY <1>1, SMT DEF vars, IInv, FenceTypeOK, LaddersUnnumbered, WorkerRuns, RecheckOwned,
     RecheckServed
<1> QED
  BY <1>1, KeyInv, WorkerInv, SweepInv, Zenon DEF Next

\* The types hold, and a fence has a wait for a person only in the stage that has one,
\* whatever the sweep, the worker, the pump and the holder interleave
\* (ResourceFence::await_person, set_resource_fence_stage).
THEOREM FenceTyped == Spec => []FenceTypeOK
<1>1. Spec => []IInv
  BY InitInv, NextInv, PTL DEF Spec
<1>2. IInv => FenceTypeOK
  BY DEF IInv
<1> QED
  BY <1>1, <1>2, PTL

\* A recheck that is queued or prepares always has someone who will settle it: no order
\* of refusals, lifted fences, lapsed keys, blackouts and new fences loses the wait's
\* periodic self-check (recheck_resource_fences, queue_fence_recheck, run_fence_recheck,
\* settle_fence_recheck).
THEOREM RecheckIsServed == Spec => []RecheckServed
<1>1. Spec => []IInv
  BY InitInv, NextInv, PTL DEF Spec
<1>2. IInv => RecheckServed
  BY DEF IInv
<1> QED
  BY <1>1, <1>2, PTL
=============================================================================
