----------------------------- MODULE HostSafety -----------------------------
(***************************************************************************)
(* The invariant of the books of queued requests and the invariant of the  *)
(* lease; what a call does to the scheduler; and that the pump, the        *)
(* cleanups, the sweep, the clock and the calls on a held lease keep the   *)
(* lease's.                                                                *)
(*                                                                         *)
(* A step is sorted by what it does to the lease (KeptLease, Requeued,     *)
(* Replaced, Renewed, Opened, Closed); each kind keeps the invariant of    *)
(* the lease and of every other thread, so that an action is left to show  *)
(* its kind and where it leaves its own thread.                            *)
(***************************************************************************)
EXTENDS HostLease, TLAPS

-----------------------------------------------------------------------------
\* The places and the operations of a thread.

\* Where a thread holds the order lock.
Ordered == {"pumpPrepare", "pumpGrant", "transfer", "end", "grant", "visible"}

\* Where a thread holds no order lock and has asked for nothing: between or after
\* operations, and in an operation that is not an acquisition; where it has asked.
Plain == {"idle", "pump", "gone", "dead", "rest", "tokens", "pumping", "renew",
          "renewing"}

Acting == {"guard", "input", "boundary", "preempt", "begin", "write", "promote",
           "promoting", "lapse", "scan", "lookup", "try"}

Asking == {"enter", "expire", "request", "acquire", "hostClaim", "cleanup", "prepare"}

Loose == Plain \cup Acting \cup Asking \cup {"poll", "cancel"}

Place == Loose \cup Ordered

Op == {"none", "queue", "acquire", "claim", "promote", "poll", "cancel", "release",
       "renew", "input", "finish", "failure", "leaving", "part", "sweep", "dying"}

-----------------------------------------------------------------------------
\* Types of what the scheduler and the threads carry.

GrantType == [type : {"acquire"}, token : TokenType, claim : Claim,
              closeOnly : BOOLEAN, fromQueue : BOOLEAN]

TransferType == [type : {"transfer"}, from : LeaseType, entry : EntryType,
                 token : TokenType, release : Nat \cup {None}, handOff : BOOLEAN]

WitnessType == [token : TokenType, holder : Holder, step : StepType]

JobType == [op : Op, claim : Claim \cup {None}, token : TokenType \cup {None},
            prep : GrantType \cup TransferType \cup {None},
            step : WitnessType \cup {None}, flag : BOOLEAN]

SchedTypes ==
    /\ now \in Nat /\ epoch \in Nat
    /\ lease \in [Instance -> LeaseType \cup {None}]
    /\ cooldown = [i \in Instance |-> 0]
    /\ queue \in [Instance -> SUBSET EntryType]
    /\ locations \subseteq Nat \X Instance
    /\ nextLease \in Nat /\ nextArrival \in Nat /\ nextStep \in Nat

ThreadTypes ==
    /\ pc \in [Thread -> Place]
    /\ job \in [Thread -> JobType]

-----------------------------------------------------------------------------
\* The invariant of the books.

\* A place where nothing is asked for, and an operation that fits it.
Bare(p, j) == \/ p \in Plain
              \/ p \in Acting /\ j.op \notin {"queue", "acquire"}

\* Where a thread has asked for a claim and the claim does not wait yet.
Asks(p, j) ==
    \/ p \in {"enter", "expire", "request", "acquire", "hostClaim", "visible"}
    \/ p \in {"cleanup", "prepare", "end", "transfer"} /\ j.op \in {"queue", "acquire"}

\* The claim is th's own, and its wait has neither a context nor a record.
Unwaited(th, c) ==
    /\ c \in asked /\ c.holder = th
    /\ c \notin contexts
    /\ settled[c] = 0

\* A thread at p with the job j.
Placed(th, p, j) ==
    /\ p \in Ordered <=> order = th
    /\ Asks(p, j) => Unwaited(th, j.claim)
    /\ p \in Acting => j.op \notin {"queue", "acquire"}
    /\ p \in {"poll", "cancel"} =>
          /\ j.claim \in asked /\ j.claim.holder = th
          /\ ~j.flag => j.claim \notin contexts
    /\ p = "visible" => \E e \in queue[inst] : e.claim = j.claim
    /\ p = "pumpGrant" => j.prep \in GrantType /\ j.prep.fromQueue
    /\ p = "grant" => j.prep \in GrantType /\ ~j.prep.fromQueue
    /\ p = "transfer" => j.prep \in TransferType /\ ~j.prep.handOff

Waiting == {e.claim : e \in queue[inst]}

\* The entry at "visible" has no context yet, every other has one.
Unshown == {job[th].claim : th \in {u \in Thread : pc[u] = "visible"}}

Books ==
    /\ contexts = Waiting \ Unshown
    /\ contexts \subseteq asked
    /\ asked \subseteq setting.claims
    /\ setting \in Setting
    /\ order \in Thread \cup {None}
    /\ admission \in Thread \cup {None}
    /\ settled \in [Claim -> Nat]
    /\ \A c \in Claim : /\ settled[c] <= 1
                        /\ c \in contexts \/ c \notin asked => settled[c] = 0

\* One entry for a claim, no more than fit.
QueueFits ==
    /\ \A e, f \in queue[inst] : e.claim = f.claim => e = f
    /\ IsFiniteSet(queue[inst])
    /\ Cardinality(queue[inst]) <= MaxDepth

\* The inductive invariant.
BookInv ==
    /\ SchedTypes
    /\ ThreadTypes
    /\ Books
    /\ QueueFits
    /\ \A th \in Thread : Placed(th, pc[th], job[th])

-----------------------------------------------------------------------------
\* What a step of th does to the books, by kind.

\* The step leaves th at p with the job j.
Moved(th, p, j) ==
    pc' = [pc EXCEPT ![th] = p] /\ job' = [job EXCEPT ![th] = j]

\* th takes a free order lock, lets its own go, or leaves the lock alone.
Handed(th) ==
    \/ order' = order
    \/ order \in {th, None} /\ order' \in {th, None}

\* Nothing changes.
KeptBooks == UNCHANGED <<queue, contexts, settled, asked>>

\* A claim is asked for.
AskedFor(c) ==
    /\ c \in setting.claims \ asked
    /\ asked' = asked \cup {c}
    /\ UNCHANGED <<queue, contexts, settled>>

\* Entries leave the queue, each with a record.
Removed(out) ==
    /\ Unshown = {}
    /\ out \subseteq queue[inst]
    /\ queue' = [queue EXCEPT ![inst] = queue[inst] \ out]
    /\ Settle({e.claim : e \in out})
    /\ asked' = asked

\* Entries leave and th's claim comes in; its context is to follow.
Inserted(th, out, e) ==
    /\ order = None
    /\ out \subseteq queue[inst]
    /\ e.claim = job[th].claim
    /\ \A f \in queue[inst] : f.claim # e.claim
    /\ Cardinality(queue[inst] \ out) < MaxDepth
    /\ queue' = [queue EXCEPT ![inst] = (queue[inst] \ out) \cup {e}]
    /\ Settle({f.claim : f \in out})
    /\ asked' = asked

\* The context of th's claim follows.
Shown(th) ==
    /\ contexts' = contexts \cup {job[th].claim}
    /\ UNCHANGED <<queue, settled, asked>>

Tame ==
    \/ KeptBooks
    \/ \E c \in Claim : AskedFor(c)
    \/ \E out \in SUBSET queue[inst] : Removed(out)

BookStep(th, p, j) ==
    \/ pc[th] # "visible" /\ p # "visible" /\ Tame
    \/ /\ pc[th] # "visible" /\ p = "visible" /\ j.claim = job[th].claim
       /\ \E out \in SUBSET queue[inst] : \E e \in EntryType : Inserted(th, out, e)
    \/ pc[th] = "visible" /\ p # "visible" /\ Shown(th)

\* What a thread's step leaves of the books of the others.
Spares(th) ==
    /\ asked \subseteq asked'
    /\ \A c \in Claim : c \notin contexts => settled'[c] = settled[c]
    /\ \A c \in contexts' : c \in contexts \/ c.holder = th
    /\ \A u \in Thread : u # th /\ pc[u] = "visible" => queue' = queue

-----------------------------------------------------------------------------
\* What becomes of the queue.

\* The head of the queue q asks the lease l to give way.
Wanted(q, l) == \E e \in q : IsFirst(e, q) /\ Preempts(e, l)

\* What may become of the queue: entries leave it, and one may come that fits.
QueueKept ==
    \/ queue' = queue
    \/ \E out \in SUBSET queue[inst] :
          queue' = [queue EXCEPT ![inst] = queue[inst] \ out]
    \/ \E out \in SUBSET queue[inst] : \E e \in EntryType :
          /\ \A f \in queue[inst] : f.claim # e.claim
          /\ Cardinality(queue[inst] \ out) < MaxDepth
          /\ queue' = [queue EXCEPT ![inst] = (queue[inst] \ out) \cup {e}]

\* What every step shows of the invariant's next state; FitsNext draws QueueFits'
\* from it.
BookNext ==
    /\ SchedTypes'
    /\ ThreadTypes'
    /\ Books'
    /\ QueueKept
    /\ \A th \in Thread : Placed(th, pc[th], job[th])'

\* No part of the queue is full but the whole.
Brim == \A q \in SUBSET queue[inst] : Cardinality(q) >= MaxDepth => q = queue[inst]

-----------------------------------------------------------------------------
\* What the lease needs of the settings and of numbers.

\* Every setting is prudent.
Prudent == \A s \in Setting : PrudentSetting(s)

\* Of several numbers one is the least.
WellOrdered == \A T \in SUBSET Nat : T # {} => \E n \in T : \A l \in T : n <= l

-----------------------------------------------------------------------------
\* The invariant of the lease.

held == lease[inst]

\* Where a thread holds the admission guard.
Guarded == {"pumping", "pumpPrepare", "pumpGrant", "expire", "cleanup", "prepare",
            "end", "transfer", "acquire", "grant", "promoting", "boundary",
            "preempt", "renewing"}

\* The operations that end a lapsed lease, and those of a lease's own holder.
ExpireOps == {"queue", "acquire", "sweep"}

OwnOps == {"release", "renew", "input", "finish", "failure", "part"}

\* What a thread runs where its place leaves more than one operation.
Runs(p) == CASE p \in {"cleanup", "prepare", "end"} -> ExpireOps \cup (OwnOps \ {"renew"})
             [] p = "transfer" -> ExpireOps \cup OwnOps \cup {"promote"}
             [] p = "guard" -> {"release", "finish", "failure", "part"}
             [] p \in {"boundary", "preempt"} -> {"input", "finish"}
             [] p = "input" -> {"input"}
             [] p = "expire" -> {"queue", "acquire"}
             [] p = "enter" -> {"acquire"}
             [] p \in {"lapse", "scan", "lookup", "try"} -> {"sweep"}
             [] p \in {"promote", "promoting"} -> {"promote"}
             [] OTHER -> Op

LeaseSound ==
    held # None =>
        /\ held.token.epoch = epoch
        /\ <<held.token.id, inst>> \in locations
        /\ held.claim.holder = held.token.holder
        /\ held.claim \in asked
        /\ held.preempt <=> \E e \in queue[inst] : /\ IsFirst(e, queue[inst])
                                                   /\ Preempts(e, held)
        /\ held.step # None => pc[held.token.holder] = "write"

\* Arrival numbers are issued once.
ArrivalsSound ==
    /\ \A e \in queue[inst] : e.arrival < nextArrival
    /\ \A e, f \in queue[inst] : e.arrival = f.arrival => e = f

\* Nobody opens a step of the lease l while th transfers it.
Unwritable(th, l) == l.token.holder = th \/ l.token.expires <= now \/ l.preempt

\* An operation of a lease's holder has a token of the holder's.
Owns(th, j) == j.op \in OwnOps => j.token \in TokenType /\ j.token.holder = th

Safe(th, p, j) ==
    /\ p \in Guarded => admission = th
    /\ j.op \in Runs(p)
    /\ Owns(th, j)
    /\ p \in {"lookup", "try", "cleanup", "prepare", "end", "transfer"}
             /\ j.op \in ExpireOps =>
          /\ j.token \in TokenType /\ j.token.expires <= now
          /\ p = "end" /\ held # None /\ held.token = j.token => held.step = None
    /\ p \in {"cleanup", "prepare", "end"} /\ j.op = "release" =>
          held # None /\ held.token = j.token
    /\ p \in {"pumpGrant", "grant"} =>
          /\ held = None
          /\ j.prep.claim \in asked
          /\ j.prep.token.epoch = epoch
          /\ j.prep.token.holder = j.prep.claim.holder
          /\ j.prep.token.expires > now
    /\ p = "pumpGrant" => \E e \in queue[inst] : e.claim = j.prep.claim
    /\ p = "transfer" =>
          /\ held = j.prep.from
          /\ held.step = None
          /\ Unwritable(th, held)
          /\ j.prep.entry \in queue[inst]
          /\ j.prep.token.epoch = epoch
          /\ j.prep.token.holder = j.prep.entry.claim.holder
          /\ j.prep.token.expires > now
    /\ p = "hostClaim" => ~j.flag
    /\ p = "visible" /\ j.flag => held # None /\ held.preempt
    /\ p = "write" =>
          /\ held # None /\ held.token = j.token /\ j.token.holder = th
          /\ held.step # None
          /\ j.step = [token |-> j.token, holder |-> th, step |-> held.step]

\* The inductive invariant.
HaltInv ==
    /\ BookInv
    /\ fault = None
    /\ LeaseSound
    /\ ArrivalsSound
    /\ \A th \in Thread : Safe(th, pc[th], job[th])

-----------------------------------------------------------------------------
\* What a step of th does to the lease, by kind.

\* th takes a free guard, lets its own go, or leaves the guard alone.
GuardHanded(th) ==
    \/ admission' = admission
    \/ admission \in {th, None} /\ admission' \in {th, None}

\* Nothing changes.
KeptLease == held' = held /\ queue'[inst] = queue[inst] /\ locations' = locations

\* The queue changes under the order lock, and the lease's preemption with it.
Requeued(th) ==
    /\ order \in {th, None}
    /\ held' = Refreshed(held, queue'[inst])
    /\ locations' = locations

\* Under both locks a lease without a step ends, or a new one begins.
Replaced(th) ==
    /\ order = th /\ admission = th
    /\ held # None => held.step = None
    /\ held' # None =>
          /\ held'.token.epoch = epoch
          /\ <<held'.token.id, inst>> \in locations'
          /\ held'.claim.holder = held'.token.holder
          /\ held'.claim \in asked'
          /\ held'.preempt = Wanted(queue'[inst], held')
          /\ held'.step = None

\* The holder renews the lease under the guard.
Renewed(th) ==
    /\ admission = th
    /\ held # None /\ held.token.holder = th
    /\ held' # None
    /\ held'.token.epoch = held.token.epoch /\ held'.token.id = held.token.id
    /\ held'.token.holder = th
    /\ held'.claim = held.claim /\ held'.step = held.step
    /\ held'.preempt = held.preempt
    /\ queue'[inst] = queue[inst] /\ locations' = locations

\* The holder opens a step, or closes it, under no lock.
Opened(th) ==
    /\ held # None /\ held.token.holder = th
    /\ held.token.expires > now /\ ~held.preempt
    /\ held' # None
    /\ held'.token = held.token /\ held'.claim = held.claim
    /\ held'.preempt = held.preempt
    /\ queue'[inst] = queue[inst] /\ locations' = locations
    /\ pc'[th] = "write"

Closed(th) ==
    /\ held # None /\ held.token.holder = th /\ held.step # None
    /\ held' # None
    /\ held'.token = held.token /\ held'.claim = held.claim
    /\ held'.preempt = held.preempt /\ held'.step = None
    /\ queue'[inst] = queue[inst] /\ locations' = locations

LeaseStep(th) ==
    \/ pc[th] # "write" /\ KeptLease
    \/ pc[th] # "write" /\ Requeued(th)
    \/ Replaced(th)
    \/ pc[th] # "write" /\ Renewed(th)
    \/ Opened(th)
    \/ Closed(th)

\* Entries leave, or they leave and one comes in with the next arrival number.
QueueStep ==
    \/ queue'[inst] \subseteq queue[inst] /\ nextArrival' = nextArrival
    \/ \E q \in SUBSET queue[inst] : \E e :
          /\ queue'[inst] = q \cup {e}
          /\ e.arrival = nextArrival
          /\ nextArrival' = nextArrival + 1

\* The places of which Safe asks no more than a guard, an operation and its token.
Bland == Place \ {"lookup", "try", "cleanup", "prepare", "end", "transfer",
                  "pumpGrant", "grant", "hostClaim", "visible", "write"}

\* The places where any operation may be.
Any == {"idle", "pump", "gone", "dead", "rest", "tokens", "pumping", "renew",
        "renewing", "begin", "write", "request", "acquire", "hostClaim", "poll",
        "cancel", "pumpPrepare", "pumpGrant", "grant", "visible"}

-----------------------------------------------------------------------------
\* Facts about the constants.

LEMMA OneInstance ==
    /\ inst \in Instance
    /\ Instance = {inst}
    /\ \A c \in Claim : c.instance = inst
    /\ \A t \in TokenType : t.instance = inst
<1>1. PICK i \in Instance : Instance = {i}
  BY HostAssumption
<1>2. inst = i
  BY <1>1 DEF inst
<1>3. \A c \in Claim : c.instance \in Instance
  BY ConfigAssumption DEF ClaimType
<1> QED
  BY <1>1, <1>2, <1>3, Zenon DEF TokenType

LEMMA Threads ==
    /\ None \notin Thread /\ Sweep \in Thread /\ Holder \subseteq Thread
    /\ \A c \in Claim : c.holder \in Holder
<1>1. \A c \in Claim : c.holder \in Holder
  BY ConfigAssumption DEF ClaimType
<1> QED
  BY <1>1, HostAssumption, Zenon DEF Thread

\* The claims that may be asked for are claims.
LEMMA SettingClaims ==
    ASSUME Books
    PROVE  asked \subseteq Claim /\ contexts \subseteq Claim
<1>1. setting.claims \subseteq Claim
  BY HostAssumption DEF Books
<1> QED
  BY <1>1, Zenon DEF Books

-----------------------------------------------------------------------------
\* What the invariant says of the entry whose context is to come.

\* Only the thread that holds the order lock has an entry without its context.
LEMMA UnshownFacts ==
    ASSUME BookInv
    PROVE  /\ order = None => Unshown = {}
           /\ \A th \in Thread : order = th /\ pc[th] # "visible" => Unshown = {}
           /\ \A th \in Thread : pc[th] = "visible" => Unshown = {job[th].claim}
<1>1. \A u \in Thread : pc[u] = "visible" => order = u
  BY Zenon DEF BookInv, Placed, Ordered
<1>2. order = None => Unshown = {}
  BY <1>1, Threads, Zenon DEF Unshown
<1>3. \A th \in Thread : order = th /\ pc[th] # "visible" => Unshown = {}
  BY <1>1, Zenon DEF Unshown
<1>4. \A th \in Thread : pc[th] = "visible" => Unshown = {job[th].claim}
  BY <1>1, Zenon DEF Unshown
<1> QED
  BY <1>2, <1>3, <1>4

-----------------------------------------------------------------------------
\* The scheduler's calls keep the scheduler's types.

LEMMA ConfigFacts ==
    /\ \A c \in Claim : c.holder \in Holder /\ c.kind \in ClaimKind
                           /\ c.ttl \in Nat /\ c.timeout \in Nat /\ c.priority \in 0..1
    /\ LeaseTtl \in Nat /\ MaxDepth \in Nat /\ MaxTime \in Nat /\ NoDeadline \in Nat
<1>1. \A c \in Claim : c.holder \in Holder /\ c.kind \in ClaimKind
                          /\ c.ttl \in Nat /\ c.timeout \in Nat /\ c.priority \in 0..1
  BY ConfigAssumption DEF ClaimType
<1>2. LeaseTtl \in Nat /\ MaxDepth \in Nat /\ MaxTime \in Nat
  BY ConfigAssumption
<1> QED
  BY <1>1, <1>2 DEF NoDeadline

\* Every entry waits for a claim.
LEMMA Entries ==
    ASSUME SchedTypes, NEW e \in queue[inst]
    PROVE  e \in EntryType /\ e.claim \in Claim
<1>1. e \in EntryType
  BY OneInstance, Zenon DEF SchedTypes
<1> QED
  BY <1>1, Zenon DEF EntryType

LEMMA Minted ==
    ASSUME SchedTypes, NEW c \in Claim, NEW ttl \in Nat
    PROVE  /\ MintedToken(c, ttl) \in TokenType
           /\ MintedToken(c, ttl).epoch = epoch
           /\ MintedToken(c, ttl).holder = c.holder
           /\ MintedToken(c, ttl).expires = now + ttl
<1>1. now + ttl \in Nat /\ epoch \in Nat /\ nextLease \in Nat
  BY DEF SchedTypes
<1>2. c.instance \in Instance /\ c.holder \in Holder
  BY OneInstance, ConfigFacts, Zenon
<1> QED
  BY <1>1, <1>2, Zenon DEF MintedToken, TokenType

\* A prepared grant, and a prepared transfer.
LEMMA PreparedGrants ==
    ASSUME SchedTypes, NEW c \in Claim, NEW ttl \in Nat, NEW fromQueue \in BOOLEAN
    PROVE  /\ PreparedLease(c, ttl, FALSE, fromQueue) \in GrantType
           /\ PreparedLease(c, ttl, FALSE, fromQueue).fromQueue = fromQueue
           /\ PreparedLease(c, ttl, FALSE, fromQueue).claim = c
           /\ PreparedLease(c, ttl, FALSE, fromQueue).token = MintedToken(c, ttl)
  BY Minted, Zenon DEF PreparedLease, GrantType

LEMMA PreparedTransfers ==
    ASSUME SchedTypes, NEW t, lease[t.instance] \in LeaseType, NEW e \in EntryType,
           NEW release \in Nat \cup {None}
    PROVE  LET p == PreparedTransfer(t, e, release, FALSE) IN
           /\ p \in TransferType
           /\ ~p.handOff
           /\ p.from = lease[t.instance]
           /\ p.entry = e
           /\ p.token = MintedToken(e.claim, e.claim.ttl)
<1>1. e.claim \in Claim /\ e.claim.ttl \in Nat
  BY ConfigFacts, Zenon DEF EntryType
<1> QED
  BY <1>1, Minted, Zenon DEF PreparedTransfer, TransferType

\* refresh_preempt_requested changes nothing but the flag.
LEMMA Refreshes ==
    ASSUME NEW l \in LeaseType \cup {None}, NEW q
    PROVE  /\ Refreshed(l, q) \in LeaseType \cup {None}
           /\ Refreshed(l, q) = None <=> l = None
           /\ l # None =>
                 /\ Refreshed(l, q).token = l.token
                 /\ Refreshed(l, q).claim = l.claim
                 /\ Refreshed(l, q).step = l.step
                 /\ Refreshed(l, q).preempt = Wanted(q, l)
<1>1. CASE l = None
  BY <1>1, Zenon DEF Refreshed
<1>2. ASSUME l # None
      PROVE  /\ Refreshed(l, q) \in LeaseType
             /\ Refreshed(l, q).token = l.token
             /\ Refreshed(l, q).claim = l.claim
             /\ Refreshed(l, q).step = l.step
             /\ Refreshed(l, q).preempt = Wanted(q, l)
  <2> DEFINE b == Wanted(q, l)
  <2>1. Refreshed(l, q) = [l EXCEPT !.preempt = b]
    BY <1>2, Zenon DEF Refreshed, Wanted
  <2>2. l \in LeaseType /\ b \in BOOLEAN
    BY <1>2, Zenon DEF Wanted
  <2> HIDE DEF b
  <2>3. /\ [l EXCEPT !.preempt = b] \in LeaseType
        /\ [l EXCEPT !.preempt = b].token = l.token
        /\ [l EXCEPT !.preempt = b].claim = l.claim
        /\ [l EXCEPT !.preempt = b].step = l.step
        /\ [l EXCEPT !.preempt = b].preempt = b
    BY <2>2, Zenon DEF LeaseType
  <2> QED
    BY <2>1, <2>3, Zenon DEF b
<1>3. None \notin LeaseType
  BY NoneAssumption
<1> QED
  BY <1>1, <1>2, <1>3, Zenon

LEMMA SetQueueTypes ==
    ASSUME SchedTypes, NEW i \in Instance, NEW q \in SUBSET EntryType, SetQueue(i, q)
    PROVE  /\ i = inst
           /\ lease' \in [Instance -> LeaseType \cup {None}]
           /\ queue' \in [Instance -> SUBSET EntryType]
           /\ queue' = [queue EXCEPT ![inst] = q]
           /\ queue'[inst] = q
           /\ lease'[inst] = Refreshed(lease[inst], q)
<1>1. i = inst /\ inst \in Instance
  BY OneInstance, Zenon
<1>2. lease[inst] \in LeaseType \cup {None}
  BY <1>1, Zenon DEF SchedTypes
<1>3. Refreshed(lease[inst], q) \in LeaseType \cup {None}
  BY <1>2, Refreshes, Zenon
<1>4. /\ lease' = [lease EXCEPT ![inst] = Refreshed(lease[inst], q)]
      /\ queue' = [queue EXCEPT ![inst] = q]
  BY <1>1, Zenon DEF SetQueue
<1> QED
  BY <1>1, <1>3, <1>4, Zenon DEF SchedTypes

LEMMA IdleCall ==
    ASSUME SchedTypes, UNCHANGED schedVars
    PROVE  /\ SchedTypes'
           /\ UNCHANGED <<now, epoch, lease, queue, locations, nextArrival>>
  BY Zenon DEF SchedTypes, schedVars

\* The calls that prepare a grant or a transfer issue a lease id.
LEMMA PrepareCall ==
    ASSUME SchedTypes,
           \/ PrepareToken
           \/ \E e : PrepareQueuedGrant(inst, Open, e)
           \/ \E c \in Claim : PrepareAcquire(c, Open)
    PROVE  /\ SchedTypes'
           /\ UNCHANGED <<now, epoch, lease, queue, locations, nextArrival>>
<1>1. /\ UNCHANGED <<now, epoch, lease, queue, locations, nextArrival, nextStep>>
      /\ nextLease' = nextLease + 1
      /\ cooldown' = cooldown \/ \E c : cooldown' = [cooldown EXCEPT ![c] = 0]
  BY Zenon DEF PrepareToken, PrepareQueuedGrant, PrepareAcquire
<1>2. cooldown' = cooldown
  BY <1>1 DEF SchedTypes
<1>3. nextLease' \in Nat
  BY <1>1 DEF SchedTypes
<1> QED
  BY <1>1, <1>2, <1>3, Zenon DEF SchedTypes

\* Entries leave the queue.
LEMMA RemoveCall ==
    ASSUME SchedTypes, NEW out, RemoveQueued(inst, out)
    PROVE  /\ SchedTypes'
           /\ queue' = [queue EXCEPT ![inst] = queue[inst] \ out]
           /\ queue'[inst] = queue[inst] \ out
           /\ lease'[inst] = Refreshed(lease[inst], queue'[inst])
           /\ UNCHANGED <<now, epoch, locations, nextArrival>>
<1>1. inst \in Instance /\ queue[inst] \ out \in SUBSET EntryType
  BY OneInstance, Zenon DEF SchedTypes
<1>2. /\ SetQueue(inst, queue[inst] \ out)
      /\ UNCHANGED <<now, epoch, cooldown, locations, nextLease, nextArrival, nextStep>>
  BY Zenon DEF RemoveQueued
<1>3. /\ lease' \in [Instance -> LeaseType \cup {None}]
      /\ queue' \in [Instance -> SUBSET EntryType]
      /\ queue' = [queue EXCEPT ![inst] = queue[inst] \ out]
      /\ queue'[inst] = queue[inst] \ out
      /\ lease'[inst] = Refreshed(lease[inst], queue[inst] \ out)
  BY <1>1, <1>2, SetQueueTypes, Zenon
<1> QED
  BY <1>2, <1>3, Zenon DEF SchedTypes

\* A request goes into the queue.
LEMMA InsertCall ==
    ASSUME SchedTypes, NEW c \in Claim, NEW q \in SUBSET queue[inst], NEW d \in Nat,
           Insert(c, q, d),
           UNCHANGED <<now, epoch, cooldown, locations, nextLease, nextStep>>
    PROVE  LET e == [claim |-> c, arrival |-> nextArrival, deadline |-> d] IN
           /\ SchedTypes'
           /\ Cardinality(q) < MaxDepth
           /\ e \in EntryType
           /\ queue' = [queue EXCEPT ![inst] = q \cup {e}]
           /\ queue'[inst] = q \cup {e}
           /\ lease'[inst] = Refreshed(lease[inst], queue'[inst])
           /\ nextArrival' = nextArrival + 1
<1> DEFINE e == [claim |-> c, arrival |-> nextArrival, deadline |-> d]
<1>1. e \in EntryType
  BY Zenon DEF SchedTypes, EntryType
<1>2. q \cup {e} \in SUBSET EntryType /\ inst \in Instance /\ c.instance = inst
  BY <1>1, OneInstance, Zenon DEF SchedTypes
<1>3. /\ SetQueue(c.instance, q \cup {e})
      /\ Cardinality(q) < MaxDepth
      /\ nextArrival' = nextArrival + 1
  BY Zenon DEF Insert
<1> DEFINE r == q \cup {e}
<1>a. r \in SUBSET EntryType /\ SetQueue(inst, r)
  BY <1>2, <1>3, Zenon
<1> HIDE DEF r
<1>4. /\ lease' \in [Instance -> LeaseType \cup {None}]
      /\ queue' \in [Instance -> SUBSET EntryType]
      /\ queue' = [queue EXCEPT ![inst] = r]
      /\ queue'[inst] = r
      /\ lease'[inst] = Refreshed(lease[inst], r)
  BY <1>2, <1>a, SetQueueTypes, Zenon
<1>5. nextArrival' \in Nat
  BY <1>3 DEF SchedTypes
<1>6. SchedTypes'
  BY <1>4, <1>5, Zenon DEF SchedTypes
<1> QED
  BY <1>1, <1>3, <1>4, <1>6, Zenon DEF r

\* request_queued_gated grants at once: expired entries go, a lease id is issued.
LEMMA RequestLeaseCall ==
    ASSUME SchedTypes, NEW c \in Claim, NEW immediate,
           RequestQueuedLease(c, Open, immediate)
    PROVE  /\ SchedTypes'
           /\ queue' = [queue EXCEPT ![inst] = LiveQueue(inst)]
           /\ queue'[inst] = LiveQueue(inst)
           /\ lease[inst] = None /\ lease'[inst] = None
           /\ UNCHANGED <<now, epoch, locations, nextArrival>>
<1>1. inst \in Instance /\ c.instance = inst
  BY OneInstance, Zenon
<1>2. LiveQueue(inst) \in SUBSET EntryType
  BY <1>1, Zenon DEF SchedTypes, LiveQueue
<1>3. /\ SetQueue(inst, LiveQueue(inst))
      /\ lease[inst] = None
      /\ nextLease' = nextLease + 1
      /\ cooldown' = [cooldown EXCEPT ![inst] = 0]
      /\ UNCHANGED <<now, epoch, locations, nextArrival, nextStep>>
  BY <1>1, Zenon DEF RequestQueuedLease, ImmediateGrant
<1>4. /\ lease' \in [Instance -> LeaseType \cup {None}]
      /\ queue' \in [Instance -> SUBSET EntryType]
      /\ queue' = [queue EXCEPT ![inst] = LiveQueue(inst)]
      /\ queue'[inst] = LiveQueue(inst)
      /\ lease'[inst] = Refreshed(lease[inst], LiveQueue(inst))
  BY <1>1, <1>2, <1>3, SetQueueTypes, Zenon
<1>5. cooldown' = cooldown
  BY <1>3 DEF SchedTypes
<1>6. nextLease' \in Nat
  BY <1>3 DEF SchedTypes
<1>7. lease'[inst] = None
  BY <1>3, <1>4, Zenon DEF Refreshed
<1> QED
  BY <1>3, <1>4, <1>5, <1>6, <1>7, Zenon DEF SchedTypes

\* The clock.
LEMMA TickCall ==
    ASSUME SchedTypes, Tick
    PROVE  /\ SchedTypes'
           /\ now' = now + 1
           /\ UNCHANGED <<epoch, lease, queue, locations, nextArrival>>
<1>1. now' \in Nat
  BY DEF SchedTypes, Tick
<1> QED
  BY <1>1, Zenon DEF SchedTypes, Tick

\* A token that is current is the one of the instance's lease.
LEMMA CurrentFacts ==
    ASSUME SchedTypes, NEW t, Current(t)
    PROVE  /\ t.instance = inst
           /\ lease[inst] \in LeaseType /\ lease[inst] # None
           /\ lease[inst].token = t /\ t \in TokenType
           /\ t.epoch = epoch /\ <<t.id, inst>> \in locations
<1>1. /\ t.epoch = epoch
      /\ <<t.id, t.instance>> \in locations
      /\ lease[t.instance] # None
      /\ lease[t.instance].token = t
  BY Zenon DEF Current
<1>2. t.instance \in Instance
  BY <1>1 DEF SchedTypes
<1>3. t.instance = inst
  BY <1>2, OneInstance, Zenon
<1>4. lease[inst] \in LeaseType
  BY <1>1, <1>2, <1>3, Zenon DEF SchedTypes
<1>5. lease[inst].token \in TokenType
  BY <1>4, Zenon DEF LeaseType
<1> QED
  BY <1>1, <1>3, <1>4, <1>5, Zenon

\* The lease a commit puts in place.
LEMMA Granted ==
    ASSUME NEW t \in TokenType, NEW c \in Claim, NEW kind \in ClaimKind,
           NEW closeOnly \in BOOLEAN, NEW q
    PROVE  LET l == Refreshed(GrantedLease(t, c, kind, closeOnly), q) IN
           /\ l \in LeaseType /\ l # None
           /\ l.token = t /\ l.claim = c /\ l.step = None
           /\ l.preempt = Wanted(q, l)
<1> DEFINE g == GrantedLease(t, c, kind, closeOnly)
<1>1. g \in LeaseType
  BY Zenon DEF GrantedLease, LeaseType
<1>2. g.token = t /\ g.claim = c /\ g.step = None
  BY Zenon DEF GrantedLease
<1>3. g # None
  BY <1>1, NoneAssumption, Zenon
<1> HIDE DEF g
<1>4. /\ Refreshed(g, q) \in LeaseType \cup {None}
      /\ Refreshed(g, q) = None <=> g = None
      /\ Refreshed(g, q).token = g.token
      /\ Refreshed(g, q).claim = g.claim
      /\ Refreshed(g, q).step = g.step
      /\ Refreshed(g, q).preempt = Wanted(q, g)
  BY <1>1, <1>3, Refreshes
<1>5. Wanted(q, Refreshed(g, q)) = Wanted(q, g)
  BY <1>4, Zenon DEF Preempts, Wanted
<1> QED
  BY <1>2, <1>3, <1>4, <1>5, Zenon DEF g

\* commit_acquire
LEMMA AcquireCall ==
    ASSUME SchedTypes, NEW p \in GrantType, CommitAcquire(p)
    PROVE  LET q == IF p.fromQueue THEN {e \in queue[inst] : e.claim # p.claim}
                                   ELSE queue[inst]
               l == lease'[inst]
           IN
           /\ SchedTypes'
           /\ lease[inst] = None
           /\ queue' = [queue EXCEPT ![inst] = q]
           /\ queue'[inst] = q
           /\ l \in LeaseType /\ l # None
           /\ l.token = p.token /\ l.claim = p.claim /\ l.step = None
           /\ l.preempt = Wanted(q, l)
           /\ <<p.token.id, inst>> \in locations'
           /\ UNCHANGED <<now, epoch, nextArrival>>
<1> DEFINE q == IF p.fromQueue THEN {e \in queue[inst] : e.claim # p.claim}
                               ELSE queue[inst]
<1>1. p.token \in TokenType /\ p.claim \in Claim /\ p.closeOnly \in BOOLEAN
  BY Zenon DEF GrantType
<1>2. p.token.instance = inst /\ inst \in Instance /\ p.token.id \in Nat
  BY <1>1, OneInstance, Zenon DEF TokenType
<1>3. p.claim.kind \in ClaimKind
  BY <1>1, ConfigFacts, Zenon
<1> DEFINE l == Refreshed(GrantedLease(p.token, p.claim, p.claim.kind, p.closeOnly), q)
<1>4. /\ lease[inst] = None
      /\ queue' = [queue EXCEPT ![inst] = q]
      /\ lease' = [lease EXCEPT ![inst] = l]
      /\ locations' = Located(p.token.id, inst)
      /\ UNCHANGED <<now, epoch, cooldown, nextLease, nextArrival, nextStep>>
  BY <1>2, Zenon DEF CommitAcquire, AcquireCommittable
<1>5. /\ l \in LeaseType /\ l # None
      /\ l.token = p.token /\ l.claim = p.claim /\ l.step = None
      /\ l.preempt = Wanted(q, l)
  BY <1>1, <1>3, Granted
<1>6. q \in SUBSET EntryType
  BY <1>2, Zenon DEF SchedTypes
<1> HIDE DEF q, l
<1>7. lease' \in [Instance -> LeaseType \cup {None}] /\ lease'[inst] = l
  BY <1>2, <1>4, <1>5, Zenon DEF SchedTypes
<1>8. queue' \in [Instance -> SUBSET EntryType] /\ queue'[inst] = q
  BY <1>2, <1>4, <1>6, Zenon DEF SchedTypes
<1>9. locations' \subseteq Nat \X Instance /\ <<p.token.id, inst>> \in locations'
  BY <1>2, <1>4 DEF SchedTypes, Located, Unlocated
<1>10. SchedTypes'
  BY <1>4, <1>7, <1>8, <1>9, Zenon DEF SchedTypes
<1> QED
  BY <1>4, <1>5, <1>7, <1>8, <1>9, <1>10, Zenon DEF q

\* commit_transfer
LEMMA TransferCall ==
    ASSUME SchedTypes, NEW p \in TransferType, ~p.handOff, CommitTransfer(p)
    PROVE  LET q == queue[inst] \ {p.entry}
               l == lease'[inst]
           IN
           /\ SchedTypes'
           /\ lease[inst] = p.from /\ p.entry \in queue[inst]
           /\ queue' = [queue EXCEPT ![inst] = q]
           /\ queue'[inst] = q
           /\ l \in LeaseType /\ l # None
           /\ l.token = p.token /\ l.claim = p.entry.claim /\ l.step = None
           /\ l.preempt = Wanted(q, l)
           /\ <<p.token.id, inst>> \in locations'
           /\ UNCHANGED <<now, epoch, nextArrival>>
<1> DEFINE q == queue[inst] \ {p.entry}
           c == p.entry.claim
<1>1. /\ p.token \in TokenType /\ p.from \in LeaseType /\ p.entry \in EntryType
  BY Zenon DEF TransferType
<1>2. p.from.token \in TokenType /\ c \in Claim
  BY <1>1, Zenon DEF LeaseType, EntryType
<1>3. p.from.token.instance = inst /\ inst \in Instance /\ p.token.id \in Nat
  BY <1>1, <1>2, OneInstance, Zenon DEF TokenType
<1> DEFINE k == TransferredKind(c.kind)
<1>4. k \in ClaimKind
  BY <1>2, ConfigFacts DEF TransferredKind, ClaimKind, Routine
<1> HIDE DEF c, k
<1> DEFINE l == Refreshed(GrantedLease(p.token, c, k, FALSE), q)
<1>5. /\ lease[inst] = p.from /\ p.entry \in queue[inst]
      /\ queue' = [queue EXCEPT ![inst] = q]
      /\ lease' = [lease EXCEPT ![inst] = l]
      /\ locations' = {l2 \in locations : l2[1] \notin {p.from.token.id, p.token.id}}
                            \cup {<<p.token.id, inst>>}
      /\ UNCHANGED <<now, epoch, cooldown, nextLease, nextArrival, nextStep>>
  BY <1>3, Zenon DEF CommitTransfer, TransferCommittable, c, k
<1>6. /\ l \in LeaseType /\ l # None
      /\ l.token = p.token /\ l.claim = c /\ l.step = None
      /\ l.preempt = Wanted(q, l)
  <2>1. \A b \in BOOLEAN : LET m == Refreshed(GrantedLease(p.token, c, k, b), q) IN
            /\ m \in LeaseType /\ m # None
            /\ m.token = p.token /\ m.claim = c /\ m.step = None
            /\ m.preempt = Wanted(q, m)
    BY <1>1, <1>2, <1>4, Granted
  <2> QED
    BY <2>1, Zenon
<1>7. q \in SUBSET EntryType
  BY <1>3, Zenon DEF SchedTypes
<1> HIDE DEF q, l
<1>8. lease' \in [Instance -> LeaseType \cup {None}] /\ lease'[inst] = l
  BY <1>3, <1>5, <1>6, Zenon DEF SchedTypes
<1>9. queue' \in [Instance -> SUBSET EntryType] /\ queue'[inst] = q
  BY <1>3, <1>5, <1>7, Zenon DEF SchedTypes
<1>10. locations' \subseteq Nat \X Instance /\ <<p.token.id, inst>> \in locations'
  BY <1>3, <1>5 DEF SchedTypes
<1>11. SchedTypes'
  BY <1>5, <1>8, <1>9, <1>10, Zenon DEF SchedTypes
<1> QED
  BY <1>5, <1>6, <1>8, <1>9, <1>10, <1>11, Zenon DEF q, c

\* begin_destructive_step
LEMMA BeginCall ==
    ASSUME SchedTypes, NEW t, NEW h, BeginDestructiveStep(t, h)
    PROVE  LET s == [id |-> nextStep, purpose |-> "Business"] IN
           /\ SchedTypes'
           /\ ValidWrite(t, h) /\ ~lease[inst].preempt
           /\ s \in StepType
           /\ lease'[inst] = [lease[inst] EXCEPT !.step = s]
           /\ UNCHANGED <<now, epoch, queue, locations, nextArrival>>
<1> DEFINE s == [id |-> nextStep, purpose |-> "Business"]
<1>1. Current(t)
  BY Zenon DEF BeginDestructiveStep, ValidWrite, ValidLease, ActiveLease, HeldBy
<1>2. t.instance = inst /\ inst \in Instance /\ lease[inst] \in LeaseType
  BY <1>1, CurrentFacts, OneInstance, Zenon
<1>3. s \in StepType
  BY Zenon DEF SchedTypes, StepType
<1>4. /\ ValidWrite(t, h) /\ ~lease[inst].preempt
      /\ lease' = [lease EXCEPT ![inst].step = s]
      /\ nextStep' = nextStep + 1
      /\ UNCHANGED <<now, epoch, cooldown, queue, locations, nextLease, nextArrival>>
  BY <1>2, Zenon DEF BeginDestructiveStep, OpenStep
<1> HIDE DEF s
<1>5. [lease[inst] EXCEPT !.step = s] \in LeaseType
  BY <1>2, <1>3, Zenon DEF LeaseType
<1>6. /\ lease' \in [Instance -> LeaseType \cup {None}]
      /\ lease'[inst] = [lease[inst] EXCEPT !.step = s]
  BY <1>2, <1>4, <1>5, Zenon DEF SchedTypes
<1>7. nextStep' \in Nat
  BY <1>4 DEF SchedTypes
<1>8. SchedTypes'
  BY <1>4, <1>6, <1>7, Zenon DEF SchedTypes
<1> QED
  BY <1>3, <1>4, <1>6, <1>8, Zenon DEF s

\* finish_destructive_step
LEMMA FinishCall ==
    ASSUME SchedTypes, NEW w, FinishDestructiveStep(w)
    PROVE  /\ SchedTypes'
           /\ Current(w.token)
           /\ lease'[inst] = [lease[inst] EXCEPT !.step = None]
           /\ UNCHANGED <<now, epoch, queue, locations, nextArrival>>
<1>1. Current(w.token)
  BY Zenon DEF FinishDestructiveStep, HeldBy
<1>2. w.token.instance = inst /\ inst \in Instance /\ lease[inst] \in LeaseType
  BY <1>1, CurrentFacts, OneInstance, Zenon
<1>3. /\ lease' = [lease EXCEPT ![inst].step = None]
      /\ UNCHANGED <<now, epoch, cooldown, queue, locations, nextLease, nextArrival,
                     nextStep>>
  BY <1>2, Zenon DEF FinishDestructiveStep
<1>4. [lease[inst] EXCEPT !.step = None] \in LeaseType
  BY <1>2, Zenon DEF LeaseType
<1>5. /\ lease' \in [Instance -> LeaseType \cup {None}]
      /\ lease'[inst] = [lease[inst] EXCEPT !.step = None]
  BY <1>2, <1>3, <1>4, Zenon DEF SchedTypes
<1> QED
  BY <1>1, <1>3, <1>5, Zenon DEF SchedTypes

\* renew
LEMMA RenewCall ==
    ASSUME SchedTypes, NEW t, NEW h, Renew(t, h, 0)
    PROVE  /\ SchedTypes'
           /\ ActiveLease(t, h)
           /\ lease'[inst] \in LeaseType
           /\ lease'[inst].token = RenewedToken(t, LeaseTtl)
           /\ RenewedToken(t, LeaseTtl) \in TokenType
           /\ RenewedToken(t, LeaseTtl).id = t.id
           /\ RenewedToken(t, LeaseTtl).epoch = t.epoch
           /\ RenewedToken(t, LeaseTtl).holder = t.holder
           /\ lease'[inst].claim = lease[inst].claim
           /\ lease'[inst].step = lease[inst].step
           /\ lease'[inst].preempt = lease[inst].preempt
           /\ UNCHANGED <<now, epoch, queue, locations, nextArrival>>
<1>1. Current(t) /\ ActiveLease(t, h)
  BY Zenon DEF Renew, ActiveLease, HeldBy
<1>2. /\ t.instance = inst /\ inst \in Instance
      /\ lease[inst] \in LeaseType /\ t \in TokenType
  BY <1>1, CurrentFacts, OneInstance, Zenon
<1> DEFINE n == RenewedToken(t, LeaseTtl)
           r == [request |-> 0, submitted |-> t, renewed |-> n]
<1>3. now + LeaseTtl \in Nat
  BY ConfigFacts DEF SchedTypes
<1>4. n \in TokenType /\ n.id = t.id /\ n.epoch = t.epoch /\ n.holder = t.holder
  BY <1>2, <1>3, Zenon DEF RenewedToken, TokenType
<1>5. 0 \in Nat
  OBVIOUS
<1> HIDE DEF n
<1>6. r \in RenewType
  BY <1>2, <1>4, <1>5, Zenon DEF RenewType
<1>7. /\ lease' = [lease EXCEPT ![inst] = [@ EXCEPT !.token = n, !.renew = r]]
      /\ UNCHANGED <<now, epoch, cooldown, queue, locations, nextLease, nextArrival,
                     nextStep>>
  BY <1>2, Zenon DEF Renew, n
<1> HIDE DEF r
<1> DEFINE l == [lease[inst] EXCEPT !.token = n, !.renew = r]
<1>8. /\ l \in LeaseType /\ l.token = n /\ l.claim = lease[inst].claim
      /\ l.step = lease[inst].step /\ l.preempt = lease[inst].preempt
  BY <1>2, <1>4, <1>6, Zenon DEF LeaseType
<1>9. lease' = [lease EXCEPT ![inst] = l]
  BY <1>7, Zenon
<1> HIDE DEF l
<1>10. lease' \in [Instance -> LeaseType \cup {None}] /\ lease'[inst] = l
  BY <1>2, <1>8, <1>9, Zenon DEF SchedTypes
<1>11. SchedTypes'
  BY <1>7, <1>10, Zenon DEF SchedTypes
<1> QED
  BY <1>1, <1>4, <1>7, <1>8, <1>10, <1>11, Zenon DEF n

\* expire_token, release and release_owned.
LEMMA EndCall ==
    ASSUME SchedTypes, NEW t, NEW h, NEW r,
           ExpireToken(t) \/ Release(t, h, r) \/ ReleaseOwned(t, h)
    PROVE  /\ SchedTypes'
           /\ Current(t)
           /\ lease'[inst] = None
           /\ UNCHANGED <<now, epoch, queue, nextArrival>>
<1>1. Current(t) /\ \E record : EndLease(t, record)
  BY Zenon DEF ExpireToken, Release, ReleaseOwned, ActiveLease, HeldBy
<1>2. t.instance = inst /\ inst \in Instance
  BY <1>1, CurrentFacts, OneInstance, Zenon
<1>3. /\ lease' = [lease EXCEPT ![inst] = None]
      /\ locations' = Unlocated(t.id)
      /\ UNCHANGED <<now, epoch, cooldown, queue, nextLease, nextArrival, nextStep>>
  BY <1>1, <1>2, Zenon DEF EndLease
<1>4. lease' \in [Instance -> LeaseType \cup {None}] /\ lease'[inst] = None
  BY <1>2, <1>3, Zenon DEF SchedTypes
<1>5. locations' \subseteq Nat \X Instance
  BY <1>3, Zenon DEF SchedTypes, Unlocated
<1> QED
  BY <1>1, <1>3, <1>4, <1>5, Zenon DEF SchedTypes

-----------------------------------------------------------------------------
\* Jobs.

LEMMA JobFields ==
    ASSUME NEW j \in JobType
    PROVE  /\ j.op \in Op
           /\ j.claim \in Claim \cup {None}
           /\ j.token \in TokenType \cup {None}
           /\ j.prep \in GrantType \cup TransferType \cup {None}
           /\ j.step \in WitnessType \cup {None}
           /\ j.flag \in BOOLEAN
  BY Zenon DEF JobType

LEMMA NoJobType == NoJob \in JobType
<1>1. "none" \in Op
  BY Zenon DEF Op
<1> QED
  BY <1>1, Zenon DEF NoJob, JobType

\* What an edited job is.
LEMMA PrepEdit ==
    ASSUME NEW j \in JobType, NEW prep \in GrantType \cup TransferType \cup {None}
    PROVE  LET k == [j EXCEPT !.prep = prep] IN
           /\ k \in JobType
           /\ k.op = j.op /\ k.claim = j.claim /\ k.token = j.token
           /\ k.step = j.step /\ k.flag = j.flag /\ k.prep = prep
  BY Zenon DEF JobType

LEMMA TokenEdit ==
    ASSUME NEW j \in JobType, NEW t \in TokenType
    PROVE  LET k == [j EXCEPT !.token = t] IN
           /\ k \in JobType
           /\ k.op = j.op /\ k.claim = j.claim /\ k.prep = j.prep
           /\ k.step = j.step /\ k.flag = j.flag /\ k.token = t
  BY Zenon DEF JobType

LEMMA ReturnEdit ==
    ASSUME NEW j \in JobType
    PROVE  LET k == [j EXCEPT !.token = None, !.prep = None] IN
           /\ k \in JobType
           /\ k.op = j.op /\ k.claim = j.claim
  BY Zenon DEF JobType

LEMMA OpEdit ==
    ASSUME NEW j \in JobType, NEW op \in Op
    PROVE  LET k == [j EXCEPT !.op = op] IN
           /\ k \in JobType
           /\ k.op = op /\ k.claim = j.claim /\ k.token = j.token
           /\ k.prep = j.prep /\ k.step = j.step /\ k.flag = j.flag
  BY Zenon DEF JobType

LEMMA FlagEdit ==
    ASSUME NEW j \in JobType, NEW flag \in BOOLEAN
    PROVE  LET k == [j EXCEPT !.flag = flag] IN
           /\ k \in JobType
           /\ k.op = j.op /\ k.claim = j.claim /\ k.token = j.token
           /\ k.prep = j.prep /\ k.step = j.step /\ k.flag = flag
  BY Zenon DEF JobType

LEMMA FlagPrepEdit ==
    ASSUME NEW j \in JobType, NEW prep \in GrantType
    PROVE  LET k == [j EXCEPT !.flag = TRUE, !.prep = prep] IN
           /\ k \in JobType
           /\ k.op = j.op /\ k.claim = j.claim /\ k.token = j.token /\ k.prep = prep
  BY Zenon DEF JobType

LEMMA StepEdit ==
    ASSUME NEW j \in JobType, NEW w \in WitnessType
    PROVE  LET k == [j EXCEPT !.step = w] IN
           /\ k \in JobType
           /\ k.op = j.op /\ k.claim = j.claim /\ k.token = j.token
           /\ k.step = w
  BY Zenon DEF JobType

LEMMA FinishEdit ==
    ASSUME NEW j \in JobType, NEW op \in Op
    PROVE  LET k == [j EXCEPT !.step = None, !.op = op] IN
           /\ k \in JobType
           /\ k.op = op /\ k.claim = j.claim /\ k.token = j.token
  BY Zenon DEF JobType

LEMMA NewJob ==
    ASSUME NEW op \in Op
    PROVE  /\ [NoJob EXCEPT !.op = op] \in JobType
           /\ [NoJob EXCEPT !.op = op].op = op
           /\ \A t \in TokenType : LET k == [NoJob EXCEPT !.op = op, !.token = t] IN
                 k \in JobType /\ k.op = op /\ k.token = t
  BY NoJobType, Zenon DEF JobType

LEMMA ClaimJob ==
    ASSUME NEW op \in Op, NEW c \in Claim
    PROVE  LET k == [NoJob EXCEPT !.op = op, !.claim = c] IN
           k \in JobType /\ k.op = op /\ k.claim = c
  BY NoJobType, Zenon DEF JobType

LEMMA Landing ==
    ASSUME BookInv, NEW th \in Thread, NEW p, NEW j, Moved(th, p, j)
    PROVE  pc'[th] = p /\ job'[th] = j
  BY Zenon DEF BookInv, ThreadTypes, Moved

\* A thread's moves.
LEMMA Moves ==
    ASSUME BookInv, NEW th \in Thread
    PROVE  /\ pc[th] \in Place /\ job[th] \in JobType
           /\ \A p, j : Go(th, p) /\ Carry(th, j) => Moved(th, p, j)
           /\ \A p : Go(th, p) /\ job' = job => Moved(th, p, job[th])
<1>1. pc[th] \in Place /\ job[th] \in JobType
  BY Zenon DEF BookInv, ThreadTypes
<1>2. job = [job EXCEPT ![th] = job[th]]
  BY DEF BookInv, ThreadTypes
<1> QED
  BY <1>1, <1>2, Zenon DEF Moved, Go, Carry

-----------------------------------------------------------------------------
\* Lapsed entries and lapsed leases.

\* expire_queued_while_ordered takes the lapsed entries and settles them.
LEMMA ExpireCall ==
    ASSUME BookInv, Unshown = {}, ExpireQueued, asked' = asked
    PROVE  /\ SchedTypes' /\ Tame
           /\ \E out : queue'[inst] = queue[inst] \ out
           /\ \/ lease'[inst] = lease[inst] /\ queue'[inst] = queue[inst]
              \/ lease'[inst] = Refreshed(lease[inst], queue'[inst])
           /\ UNCHANGED <<now, epoch, locations, nextArrival>>
<1>1. SchedTypes /\ queue \in [Instance -> SUBSET EntryType] /\ inst \in Instance
  BY OneInstance, Zenon DEF BookInv, SchedTypes
<1> DEFINE out == queue[inst] \ LiveQueue(inst)
<1>2. Lapsed = {e.claim : e \in out} /\ out \in SUBSET queue[inst]
  BY Zenon DEF Lapsed
<1>3. CASE Lapsed = {}
  <2>1. UNCHANGED schedVars /\ Settle(Lapsed)
    BY <1>3, Zenon DEF ExpireQueued
  <2>2. SchedTypes' /\ UNCHANGED <<now, epoch, lease, queue, locations, nextArrival>>
    BY <1>1, <2>1, IdleCall, Zenon
  <2>3. queue' = [queue EXCEPT ![inst] = queue[inst] \ {}]
    BY <1>1, <2>2
  <2>4. {} = {e.claim : e \in {}}
    OBVIOUS
  <2>5. Removed({})
    BY <1>3, <2>1, <2>3, <2>4, Zenon DEF Removed
  <2>6. queue'[inst] = queue[inst] \ {}
    BY <2>2
  <2> QED
    BY <2>2, <2>5, <2>6, Zenon DEF Tame
<1>4. CASE Lapsed # {}
  <2>1. RemoveQueued(inst, out) /\ Settle({e.claim : e \in out})
    BY <1>2, <1>4, Zenon DEF ExpireQueued, TakeExpired
  <2> HIDE DEF out
  <2>2. /\ SchedTypes'
        /\ queue' = [queue EXCEPT ![inst] = queue[inst] \ out]
        /\ queue'[inst] = queue[inst] \ out
        /\ lease'[inst] = Refreshed(lease[inst], queue'[inst])
        /\ UNCHANGED <<now, epoch, locations, nextArrival>>
    BY <1>1, <2>1, RemoveCall, Zenon
  <2>3. Removed(out)
    BY <1>2, <2>1, <2>2, Zenon DEF Removed
  <2> QED
    BY <1>2, <2>2, <2>3, Zenon DEF Tame
<1> QED
  BY <1>3, <1>4

\* The token of a lapsed lease is the current lease's.
LEMMA DueFacts ==
    ASSUME SchedTypes, NEW t \in Due
    PROVE  /\ t \in TokenType /\ lease[inst] # None /\ lease[inst] \in LeaseType
           /\ lease[inst].token = t /\ t.expires <= now
<1>1. PICK i \in Instance : /\ lease[i] # None /\ t = lease[i].token
                            /\ lease[i].token.expires <= now
  BY Zenon DEF Due
<1>2. i = inst
  BY OneInstance, Zenon
<1>3. lease[inst] \in LeaseType
  BY <1>1, <1>2, Zenon DEF SchedTypes
<1>4. lease[inst].token \in TokenType
  BY <1>3, Zenon DEF LeaseType
<1> QED
  BY <1>1, <1>2, <1>3, <1>4, Zenon

\* The claim a thread asks for.
LEMMA AskedClaim ==
    ASSUME BookInv, NEW th \in Thread, Asks(pc[th], job[th])
    PROVE  LET c == job[th].claim IN
           /\ c \in Claim /\ c \in asked /\ c.holder = th
           /\ c \notin contexts /\ settled[c] = 0 /\ c.instance = inst
<1>1. Unwaited(th, job[th].claim) /\ Books
  BY Zenon DEF BookInv, Placed
<1> QED
  BY <1>1, SettingClaims, OneInstance, Zenon DEF Unwaited

-----------------------------------------------------------------------------
\* Facts about the invariant.

\* What the invariant says of a lease.
LEMMA HeldFacts ==
    ASSUME HaltInv
    PROVE  /\ held \in LeaseType \cup {None}
           /\ held # None =>
                 /\ held \in LeaseType /\ held.token \in TokenType
                 /\ held.claim \in Claim /\ held.token.holder \in Thread
                 /\ held.token.instance = inst
                 /\ held.step \in StepType \cup {None} /\ held.preempt \in BOOLEAN
                 /\ Current(held.token)
                 /\ HeldBy(held.token, held.token.holder)
<1>1. SchedTypes /\ LeaseSound
  BY Zenon DEF HaltInv, BookInv
<1>2. held \in LeaseType \cup {None}
  BY <1>1, OneInstance, Zenon DEF SchedTypes, held
<1>3. ASSUME held # None
      PROVE  /\ held \in LeaseType /\ held.token \in TokenType
             /\ held.claim \in Claim /\ held.token.holder \in Thread
             /\ held.token.instance = inst
             /\ held.step \in StepType \cup {None} /\ held.preempt \in BOOLEAN
             /\ Current(held.token)
             /\ HeldBy(held.token, held.token.holder)
  <2>1. held \in LeaseType
    BY <1>2, <1>3, Zenon
  <2>2. /\ held.token \in TokenType /\ held.claim \in Claim
        /\ held.step \in StepType \cup {None} /\ held.preempt \in BOOLEAN
    BY <2>1, Zenon DEF LeaseType
  <2>3. held.token.holder \in Thread /\ held.token.instance = inst
    BY <1>1, <1>3, <2>2, Threads, OneInstance, Zenon DEF LeaseSound
  <2>4. Current(held.token)
    BY <1>1, <1>3, <2>3, Zenon DEF LeaseSound, Current, held
  <2>5. HeldBy(held.token, held.token.holder)
    BY <1>1, <1>3, <2>3, <2>4, Zenon DEF HeldBy, LeaseSound, held
  <2> QED
    BY <2>1, <2>2, <2>3, <2>4, <2>5
<1> QED
  BY <1>2, <1>3, Zenon

\* A current token is that of the lease.
LEMMA CurrentHeld ==
    ASSUME HaltInv, NEW t, Current(t)
    PROVE  /\ held # None /\ held.token = t /\ t \in TokenType /\ t.instance = inst
           /\ held.claim.holder = t.holder
<1>1. SchedTypes /\ LeaseSound
  BY Zenon DEF HaltInv, BookInv
<1>2. held # None /\ held.token = t /\ t \in TokenType /\ t.instance = inst
  BY <1>1, CurrentFacts, Zenon DEF held
<1> QED
  BY <1>1, <1>2, Zenon DEF LeaseSound

LEMMA SafeAt ==
    ASSUME HaltInv, NEW th \in Thread
    PROVE  Safe(th, pc[th], job[th]) /\ Owns(th, job[th])
<1>1. Safe(th, pc[th], job[th])
  BY Zenon DEF HaltInv
<1> QED
  BY <1>1, Zenon DEF Safe

\* A thread at "write" holds the lease and its step; no other thread does.
LEMMA Writing ==
    ASSUME HaltInv, NEW th \in Thread
    PROVE  /\ pc[th] = "write" => held # None /\ held.token.holder = th /\ held.step # None
           /\ held # None /\ held.step # None => pc[held.token.holder] = "write"
<1>1. LeaseSound
  BY Zenon DEF HaltInv
<1> QED
  BY <1>1, SafeAt, Zenon DEF Safe, LeaseSound

\* The claims that wait are asked for.
LEMMA WaitingAsked ==
    ASSUME HaltInv, NEW e \in queue[inst]
    PROVE  e.claim \in asked
<1>1. BookInv
  BY Zenon DEF HaltInv
<1>2. e.claim \in Waiting
  BY Zenon DEF Waiting
<1>3. CASE e.claim \in contexts
  BY <1>1, <1>3, Zenon DEF BookInv, Books
<1>4. CASE e.claim \in Unshown
  <2>1. PICK th \in Thread : pc[th] = "visible" /\ e.claim = job[th].claim
    BY <1>4, Zenon DEF Unshown
  <2>2. Asks(pc[th], job[th])
    BY <2>1, Zenon DEF Asks
  <2> QED
    BY <1>1, <2>1, <2>2, AskedClaim, Zenon
<1> QED
  BY <1>1, <1>2, <1>3, <1>4, Zenon DEF BookInv, Books

-----------------------------------------------------------------------------
\* Every kind of step keeps the lease's invariant, and that of every other thread.

LEMMA LeaseKeeps ==
    ASSUME HaltInv, NEW th \in Thread, LeaseStep(th), epoch' = epoch,
           asked \subseteq asked',
           \A u \in Thread : u # th => pc'[u] = pc[u]
    PROVE  LeaseSound'
<1>0. LeaseSound
  BY Zenon DEF HaltInv
<1>w. \A l, m, q : l.claim = m.claim => Wanted(q, l) = Wanted(q, m)
  BY Zenon DEF Wanted, Preempts
<1>s. LeaseSound' <=> (held' # None =>
        /\ held'.token.epoch = epoch'
        /\ <<held'.token.id, inst>> \in locations'
        /\ held'.claim.holder = held'.token.holder
        /\ held'.claim \in asked'
        /\ held'.preempt <=> Wanted(queue'[inst], held')
        /\ held'.step # None => pc'[held'.token.holder] = "write")
  BY Zenon DEF LeaseSound, Wanted
<1>h. held # None =>
        /\ held.token.epoch = epoch
        /\ <<held.token.id, inst>> \in locations
        /\ held.claim.holder = held.token.holder
        /\ held.claim \in asked
        /\ held.preempt <=> Wanted(queue[inst], held)
        /\ held.step # None => pc[held.token.holder] = "write"
        /\ held.token.holder \in Thread
  BY <1>0, HeldFacts, Zenon DEF LeaseSound, Wanted
<1>o. held # None /\ pc[th] # "write" /\ held.step # None => pc'[held.token.holder] = "write"
  BY <1>h, Zenon
<1>1. CASE pc[th] # "write" /\ KeptLease
  BY <1>1, <1>s, <1>h, <1>o, Zenon DEF KeptLease
<1>2. CASE pc[th] # "write" /\ Requeued(th)
  <2>1. ASSUME held # None
        PROVE  /\ held'.token = held.token /\ held'.claim = held.claim
               /\ held'.step = held.step /\ held'.preempt = Wanted(queue'[inst], held)
    BY <1>2, <2>1, HeldFacts, Refreshes, Zenon DEF Requeued
  <2>2. held' # None => held # None
    BY <1>2, HeldFacts, Refreshes, Zenon DEF Requeued
  <2>3. locations' = locations
    BY <1>2, Zenon DEF Requeued
  <2>4. held # None => Wanted(queue'[inst], held) = Wanted(queue'[inst], held')
    BY <1>w, <2>1, Zenon
  <2> QED
    BY <1>2, <1>s, <1>h, <1>o, <2>1, <2>2, <2>3, <2>4, Zenon
<1>3. CASE Replaced(th)
  BY <1>3, <1>s, Zenon DEF Replaced
<1>4. CASE pc[th] # "write" /\ Renewed(th)
  <2>0. queue'[inst] = queue[inst] /\ held'.claim = held.claim
    BY <1>4, Zenon DEF Renewed
  <2>1. Wanted(queue'[inst], held') = Wanted(queue[inst], held)
    BY <1>w, <2>0, SMT
  <2> QED
    BY <1>4, <1>s, <1>h, <1>o, <2>1, Zenon DEF Renewed
<1>5. CASE Opened(th)
  <2>0. queue'[inst] = queue[inst] /\ held'.claim = held.claim
    BY <1>5, Zenon DEF Opened
  <2>1. Wanted(queue'[inst], held') = Wanted(queue[inst], held)
    BY <1>w, <2>0, SMT
  <2> QED
    BY <1>5, <1>s, <1>h, <2>1, Zenon DEF Opened
<1>6. CASE Closed(th)
  <2>0. queue'[inst] = queue[inst] /\ held'.claim = held.claim
    BY <1>6, Zenon DEF Closed
  <2>1. Wanted(queue'[inst], held') = Wanted(queue[inst], held)
    BY <1>w, <2>0, SMT
  <2> QED
    BY <1>6, <1>s, <1>h, <2>1, Zenon DEF Closed
<1> QED
  BY <1>1, <1>2, <1>3, <1>4, <1>5, <1>6, Zenon DEF LeaseStep

LEMMA ArrivalsKeep ==
    ASSUME HaltInv, QueueStep
    PROVE  ArrivalsSound'
<1>1. /\ \A e \in queue[inst] : e.arrival < nextArrival
      /\ \A e, f \in queue[inst] : e.arrival = f.arrival => e = f
  BY Zenon DEF HaltInv, ArrivalsSound
<1>2. nextArrival \in Nat /\ \A e \in queue[inst] : e.arrival \in Nat
  <2>1. nextArrival \in Nat /\ SchedTypes
    BY Zenon DEF HaltInv, BookInv, SchedTypes
  <2>2. \A e \in queue[inst] : e \in EntryType
    BY <2>1, Entries, Zenon
  <2> QED
    BY <2>1, <2>2, Zenon DEF EntryType
<1>3. CASE queue'[inst] \subseteq queue[inst] /\ nextArrival' = nextArrival
  BY <1>1, <1>3, Zenon DEF ArrivalsSound
<1>4. ASSUME NEW q \in SUBSET queue[inst], NEW e, queue'[inst] = q \cup {e},
             e.arrival = nextArrival, nextArrival' = nextArrival + 1
      PROVE  ArrivalsSound'
  <2>1. \A f \in queue'[inst] : f.arrival < nextArrival'
    BY <1>1, <1>2, <1>4
  <2>2. \A f \in q : f.arrival # e.arrival
    BY <1>1, <1>2, <1>4
  <2>3. \A f, g \in queue'[inst] : f.arrival = g.arrival => f = g
    BY <1>1, <1>4, <2>2, Zenon
  <2> QED
    BY <2>1, <2>3, Zenon DEF ArrivalsSound
<1> QED
  BY <1>3, <1>4, Zenon DEF QueueStep

\* What a thread with both locks, or one of them, sees of another thread's step.
LEMMA Undisturbed ==
    ASSUME HaltInv, NEW th \in Thread, NEW u \in Thread, u # th, LeaseStep(th)
    PROVE  /\ order = u /\ admission = u =>
                 \/ KeptLease
                 \/ Opened(th)
                 \/ Closed(th)
           /\ order = u => ~Requeued(th) /\ ~Replaced(th)
           /\ admission = u => ~Replaced(th) /\ ~Renewed(th)
<1>1. u # None
  BY Threads, Zenon
<1>2. order = u => ~Requeued(th) /\ ~Replaced(th)
  BY <1>1, Zenon DEF Requeued, Replaced
<1>3. admission = u => ~Replaced(th) /\ ~Renewed(th)
  BY <1>1, Zenon DEF Renewed, Replaced
<1> QED
  BY <1>2, <1>3, Zenon DEF LeaseStep

\* The lease is the same lease after the step of another thread.
LEMMA SameLease ==
    ASSUME HaltInv, NEW th \in Thread, LeaseStep(th), held # None, ~Replaced(th),
           held.token.holder # th
    PROVE  held' # None /\ held'.token = held.token /\ held'.step = held.step
<1>1. CASE KeptLease
  BY <1>1, Zenon DEF KeptLease
<1>2. CASE Requeued(th)
  BY <1>2, HeldFacts, Refreshes, Zenon DEF Requeued
<1> QED
  BY <1>1, <1>2, Zenon DEF LeaseStep, Renewed, Opened, Closed

LEMMA OthersSafe ==
    ASSUME HaltInv, NEW th \in Thread, NEW u \in Thread, u # th, LeaseStep(th),
           GuardHanded(th), asked \subseteq asked', now' = now, epoch' = epoch,
           pc'[u] = pc[u], job'[u] = job[u]
    PROVE  Safe(u, pc[u], job[u])'
<1> DEFINE p == pc[u]  j == job[u]
<1>0. Safe(u, p, j) /\ u # None
  BY SafeAt, Threads, Zenon
<1>o. p \in Ordered => order = u
  BY Zenon DEF HaltInv, BookInv, Placed
<1>g. p \in Guarded => admission = u
  BY <1>0, Zenon DEF Safe
<1>b. p \in {"end", "pumpGrant", "grant", "transfer"} => order = u /\ admission = u
  BY <1>o, <1>g, SMT DEF Ordered, Guarded
<1>c. p \in {"cleanup", "prepare", "end"} => admission = u
  BY <1>g, SMT DEF Guarded
<1>1. p \in Guarded => admission' = u
  BY <1>0, <1>g, Zenon DEF GuardHanded
<1>2. j.op \in Runs(p) /\ Owns(u, j) /\ (p = "hostClaim" => ~j.flag)
  BY <1>0, Zenon DEF Safe
<1>3. ASSUME p \in {"lookup", "try", "cleanup", "prepare", "end", "transfer"},
             j.op \in ExpireOps
      PROVE  /\ j.token \in TokenType /\ j.token.expires <= now'
             /\ p = "end" /\ held' # None /\ held'.token = j.token => held'.step = None
  <2>1. /\ j.token \in TokenType /\ j.token.expires <= now
        /\ p = "end" /\ held # None /\ held.token = j.token => held.step = None
    BY <1>0, <1>3, Zenon DEF Safe
  <2>2. j.token.expires \in Nat /\ now \in Nat
    BY <2>1, Zenon DEF TokenType, HaltInv, BookInv, SchedTypes
  <2>3. ~(j.token.expires > now)
    BY <2>1, <2>2, SMT
  <2>4. p = "end" => KeptLease \/ Opened(th) \/ Closed(th)
    BY <1>b, Undisturbed, Zenon
  <2>5. Opened(th) => held'.token # j.token
    BY <2>3, Zenon DEF Opened
  <2> QED
    BY <2>1, <2>4, <2>5, Zenon DEF KeptLease, Closed
<1>4. ASSUME p \in {"cleanup", "prepare", "end"}, j.op = "release"
      PROVE  held' # None /\ held'.token = j.token
  <2>1. held # None /\ held.token = j.token
    BY <1>0, <1>4, Zenon DEF Safe
  <2>2. j.op \in OwnOps
    BY <1>4, SMT DEF OwnOps
  <2>3. held.token.holder # th
    BY <1>2, <2>1, <2>2, Zenon DEF Owns
  <2> QED
    BY <1>c, <1>4, <2>1, <2>3, Undisturbed, SameLease, Zenon
<1>5. ASSUME p \in {"pumpGrant", "grant"}
      PROVE  /\ held' = None
             /\ j.prep.claim \in asked'
             /\ j.prep.token.epoch = epoch'
             /\ j.prep.token.holder = j.prep.claim.holder
             /\ j.prep.token.expires > now'
             /\ queue'[inst] = queue[inst]
  <2>1. /\ held = None
        /\ j.prep.claim \in asked
        /\ j.prep.token.epoch = epoch
        /\ j.prep.token.holder = j.prep.claim.holder
        /\ j.prep.token.expires > now
    BY <1>0, <1>5, Zenon DEF Safe
  <2>2. KeptLease
    BY <1>b, <1>5, <2>1, Undisturbed, Zenon DEF Opened, Closed
  <2> QED
    BY <2>1, <2>2, Zenon DEF KeptLease
<1>6. ASSUME p = "pumpGrant"
      PROVE  \E e \in queue'[inst] : e.claim = j.prep.claim
  BY <1>0, <1>5, <1>6, Zenon DEF Safe
<1>7. ASSUME p = "transfer"
      PROVE  /\ held' = j.prep.from
             /\ held'.step = None
             /\ held'.token.holder = u \/ held'.token.expires <= now' \/ held'.preempt
             /\ j.prep.entry \in queue'[inst]
             /\ j.prep.token.epoch = epoch'
             /\ j.prep.token.holder = j.prep.entry.claim.holder
             /\ j.prep.token.expires > now'
  <2>1. /\ held = j.prep.from
        /\ held.step = None
        /\ Unwritable(u, held)
        /\ j.prep.entry \in queue[inst]
        /\ j.prep.token.epoch = epoch
        /\ j.prep.token.holder = j.prep.entry.claim.holder
        /\ j.prep.token.expires > now
    BY <1>0, <1>7, Zenon DEF Safe
  <2>2. held # None => held.token.expires \in Nat /\ now \in Nat
    BY HeldFacts, Zenon DEF TokenType, HaltInv, BookInv, SchedTypes
  <2>3. held # None /\ held.token.expires > now => ~(held.token.expires <= now)
    BY <2>2, SMT
  <2>4. ~Opened(th)
    BY <2>1, <2>3, Zenon DEF Opened, Unwritable
  <2>5. KeptLease
    BY <1>b, <1>7, <2>1, <2>4, Undisturbed, Zenon DEF Closed
  <2> QED
    BY <2>1, <2>5, Zenon DEF KeptLease, Unwritable
<1>8. ASSUME p = "visible", j.flag
      PROVE  held' # None /\ held'.preempt
  <2>1. held # None /\ held.preempt
    BY <1>0, <1>8, Zenon DEF Safe
  <2>2. order = u
    BY <1>o, <1>8, SMT DEF Ordered
  <2> QED
    BY <2>1, <2>2, Undisturbed, Zenon DEF LeaseStep, KeptLease, Renewed, Opened, Closed
<1>9. ASSUME p = "write"
      PROVE  /\ held' # None /\ held'.token = j.token /\ j.token.holder = u
             /\ held'.step # None
             /\ j.step = [token |-> j.token, holder |-> u, step |-> held'.step]
  <2>1. /\ held # None /\ held.token = j.token /\ j.token.holder = u
        /\ held.step # None
        /\ j.step = [token |-> j.token, holder |-> u, step |-> held.step]
    BY <1>0, <1>9, Zenon DEF Safe
  <2>2. ~Replaced(th) /\ held.token.holder # th
    BY <2>1, Zenon DEF Replaced
  <2>3. held' # None /\ held'.token = held.token /\ held'.step = held.step
    BY <2>1, <2>2, SameLease, Zenon
  <2> QED
    BY <2>1, <2>3, Zenon
<1> HIDE DEF p, j
<1>p. pc'[u] = p /\ job'[u] = j
  BY DEF p, j
<1> QED
  BY <1>p, <1>1, <1>2, <1>3, <1>4, <1>5, <1>6, <1>7, <1>8, <1>9, Zenon
  DEF Safe, Unwritable, Owns

\* A step of a thread keeps the invariant when its lease step has a kind and it
\* leaves its own thread safe.
LEMMA HaltStep ==
    ASSUME HaltInv, BookInv', fault' = None, NEW th \in Thread, NEW p, NEW j,
           Moved(th, p, j), LeaseStep(th), QueueStep, GuardHanded(th),
           asked \subseteq asked', now' = now, epoch' = epoch,
           Safe(th, pc[th], job[th])'
    PROVE  HaltInv'
<1>1. \A u \in Thread : u # th => pc'[u] = pc[u] /\ job'[u] = job[u]
  BY Zenon DEF HaltInv, BookInv, ThreadTypes, Moved
<1>2. LeaseSound'
  BY <1>1, LeaseKeeps, Zenon
<1>3. ArrivalsSound'
  BY ArrivalsKeep, Zenon
<1>4. \A u \in Thread : Safe(u, pc[u], job[u])'
  BY <1>1, OthersSafe, Zenon
<1> QED
  BY <1>2, <1>3, <1>4, Zenon DEF HaltInv

LEMMA RunsFacts ==
    /\ \A p \in Any : Runs(p) = Op
    /\ \A p \in {"cleanup", "prepare", "end"} : Runs(p) = ExpireOps \cup (OwnOps \ {"renew"})
    /\ Runs("transfer") = ExpireOps \cup OwnOps \cup {"promote"}
    /\ Runs("guard") = {"release", "finish", "failure", "part"}
    /\ Runs("boundary") = {"input", "finish"} /\ Runs("preempt") = {"input", "finish"}
    /\ Runs("input") = {"input"} /\ Runs("expire") = {"queue", "acquire"}
    /\ Runs("enter") = {"acquire"}
    /\ \A p \in {"lapse", "scan", "lookup", "try"} : Runs(p) = {"sweep"}
    /\ Runs("promote") = {"promote"} /\ Runs("promoting") = {"promote"}
<1>1. \A p \in Any : Runs(p) = Op
  BY SMT DEF Runs, Any
<1>2. \A p \in {"cleanup", "prepare", "end"} :
         Runs(p) = ExpireOps \cup (OwnOps \ {"renew"})
  BY SMT DEF Runs
<1>3. \A p \in {"lapse", "scan", "lookup", "try"} : Runs(p) = {"sweep"}
  BY SMT DEF Runs
<1>4. /\ Runs("transfer") = ExpireOps \cup OwnOps \cup {"promote"}
      /\ Runs("guard") = {"release", "finish", "failure", "part"}
  BY SMT DEF Runs
<1>5. /\ Runs("boundary") = {"input", "finish"} /\ Runs("preempt") = {"input", "finish"}
      /\ Runs("input") = {"input"} /\ Runs("expire") = {"queue", "acquire"}
  BY SMT DEF Runs
<1>6. /\ Runs("enter") = {"acquire"}
      /\ Runs("promote") = {"promote"} /\ Runs("promoting") = {"promote"}
  BY SMT DEF Runs
<1> QED
  BY <1>1, <1>2, <1>3, <1>4, <1>5, <1>6

\* The places by name.
LEMMA BlandPlaces ==
    /\ {"idle", "pump", "gone", "dead", "rest", "tokens", "renew", "begin", "request",
        "poll", "cancel"} \subseteq (Bland \cap Any) \ Guarded
    /\ {"pumping", "renewing", "acquire", "pumpPrepare"}
           \subseteq (Bland \cap Any) \cap Guarded
    /\ {"guard", "input", "enter", "lapse", "scan", "promote"} \subseteq Bland \ Guarded
    /\ {"expire", "boundary", "preempt", "promoting"} \subseteq Bland \cap Guarded
  BY SMT DEF Bland, Any, Guarded, Place, Loose, Plain, Acting, Asking, Ordered

LEMMA Resuming ==
    \A p \in {"request", "acquire"} : p \in Bland /\ Runs(p) = Op
<1>1. "request" \in Bland /\ "request" \in Any
  BY BlandPlaces, Zenon
<1>2. "acquire" \in Bland /\ "acquire" \in Any
  BY BlandPlaces, Zenon
<1> QED
  BY <1>1, <1>2, RunsFacts, Zenon

LEMMA OpSets ==
    /\ OwnOps \subseteq Op /\ ExpireOps \subseteq Op /\ OwnOps \cap ExpireOps = {}
    /\ \A op \in {"none", "claim", "promote", "poll", "cancel", "leaving", "dying"} :
          op \in Op /\ op \notin OwnOps /\ op \notin ExpireOps
  BY SMT DEF OwnOps, ExpireOps, Op

\* A job without an own operation owns nothing.
LEMMA OwnsNothing ==
    ASSUME NEW th, NEW j, j.op \notin OwnOps
    PROVE  Owns(th, j)
  BY Zenon DEF Owns

LEMMA BlandSafe ==
    ASSUME NEW th, NEW p \in Bland, NEW j, pc'[th] = p, job'[th] = j,
           p \in Guarded => admission' = th, j.op \in Runs(p), Owns(th, j)
    PROVE  Safe(th, pc[th], job[th])'
<1>1. p \notin {"lookup", "try", "cleanup", "prepare", "end", "transfer",
                "pumpGrant", "grant", "hostClaim", "visible", "write"}
  BY Zenon DEF Bland
<1>2. Owns(th, job'[th])
  BY Zenon
<1>3. Owns(th, job[th])'
  BY <1>2, Zenon DEF Owns
<1> QED
  BY <1>1, <1>3, Zenon DEF Safe

\* A step to such a place.
LEMMA BlandStep ==
    ASSUME HaltInv, BookInv', fault' = None, NEW th \in Thread, NEW p \in Bland, NEW j,
           Moved(th, p, j), LeaseStep(th), QueueStep, GuardHanded(th),
           asked \subseteq asked', now' = now, epoch' = epoch,
           p \in Guarded => admission' = th, j.op \in Runs(p), Owns(th, j)
    PROVE  HaltInv'
<1>1. pc'[th] = p /\ job'[th] = j
  BY Landing, Zenon DEF HaltInv
<1>2. Safe(th, pc[th], job[th])'
  BY <1>1, BlandSafe, Zenon
<1> QED
  BY <1>2, HaltStep, Zenon

\* A call that leaves the scheduler alone, or only issues a lease id.
LEMMA KeptCall ==
    ASSUME UNCHANGED <<lease, queue, locations, nextArrival>>
    PROVE  KeptLease /\ QueueStep
  BY Zenon DEF KeptLease, QueueStep, held

LEMMA IdleSched ==
    ASSUME UNCHANGED schedVars
    PROVE  KeptLease /\ QueueStep /\ now' = now /\ epoch' = epoch
  BY KeptCall, Zenon DEF schedVars

-----------------------------------------------------------------------------
\* Steps that several operations share.

LEMMA QuietBland ==
    ASSUME HaltInv, BookInv', NEW th \in Thread, NEW p \in Bland, NEW j,
           Moved(th, p, j), pc[th] # "write", UNCHANGED schedVars, fault' = fault,
           asked \subseteq asked', GuardHanded(th),
           p \in Guarded => admission' = th, j.op \in Runs(p), Owns(th, j)
    PROVE  HaltInv'
<1>1. KeptLease /\ QueueStep /\ now' = now /\ epoch' = epoch
  BY IdleSched, Zenon
<1>2. LeaseStep(th) /\ fault' = None
  BY <1>1, Zenon DEF LeaseStep, HaltInv
<1> QED
  BY <1>1, <1>2, BlandStep, Zenon

LEMMA UnlockHands ==
    ASSUME NEW th, Unlock(th)
    PROVE  GuardHanded(th)
  BY Zenon DEF Unlock, GuardHanded

\* What a thread is left with after a pump.
LEMMA PumpedSafe ==
    ASSUME HaltInv, NEW th \in Thread
    PROVE  LET p == AfterPump(job[th].op)  j == AfterJob(th)
               k == [AfterJob(th) EXCEPT !.prep = None]
           IN /\ p \in Bland /\ p \notin Guarded
              /\ j.op \in Runs(p) /\ Owns(th, j)
              /\ k.op \in Runs(p) /\ Owns(th, k)
<1> DEFINE p == AfterPump(job[th].op)  j == AfterJob(th)
           k == [AfterJob(th) EXCEPT !.prep = None]
<1>1. p \in {"tokens", "gone", "dead", "rest", "idle"}
  BY SMT DEF AfterPump
<1>2. p \in Bland /\ p \in Any /\ p \notin Guarded
  BY <1>1, BlandPlaces, Zenon
<1>3. job[th] \in JobType /\ Owns(th, job[th])
  BY SafeAt, Moves, Zenon DEF HaltInv
<1>4. NoJob.op \notin OwnOps
  BY OpSets, Zenon DEF NoJob
<1>5. j \in JobType /\ Owns(th, j)
  BY <1>3, <1>4, NoJobType, OwnsNothing, Zenon DEF AfterJob
<1>6. k \in JobType /\ k.op = j.op /\ k.token = j.token
  BY <1>5, PrepEdit, Zenon
<1> HIDE DEF p, j, k
<1>7. Owns(th, k)
  BY <1>5, <1>6, Zenon DEF Owns
<1>8. j.op \in Op /\ k.op \in Op
  BY <1>5, <1>6, JobFields, Zenon
<1>9. Runs(p) = Op
  BY <1>2, RunsFacts, Zenon
<1> QED
  BY <1>2, <1>5, <1>7, <1>8, <1>9, Zenon DEF p, j, k

\* The lapsed entries go under a free order lock.
LEMMA ExpireSteps ==
    ASSUME HaltInv, NEW th \in Thread, pc[th] # "write", order = None, ExpireQueued,
           asked' = asked
    PROVE  /\ LeaseStep(th) /\ QueueStep /\ now' = now /\ epoch' = epoch
           /\ asked \subseteq asked'
<1>1. Unshown = {} /\ BookInv
  BY UnshownFacts, Zenon DEF HaltInv
<1>2. /\ \E out : queue'[inst] = queue[inst] \ out
      /\ \/ lease'[inst] = lease[inst] /\ queue'[inst] = queue[inst]
         \/ lease'[inst] = Refreshed(lease[inst], queue'[inst])
      /\ UNCHANGED <<now, epoch, locations, nextArrival>>
  BY <1>1, ExpireCall, Zenon
<1>3. KeptLease \/ Requeued(th)
  BY <1>2, Zenon DEF KeptLease, Requeued, held
<1>4. queue'[inst] \subseteq queue[inst]
  BY <1>2, Zenon
<1> QED
  BY <1>2, <1>3, <1>4, Zenon DEF LeaseStep, QueueStep

\* An entry goes, under the order lock.
LEMMA RemoveSteps ==
    ASSUME HaltInv, NEW th \in Thread, pc[th] # "write", order \in {th, None}, NEW out,
           RemoveQueued(inst, out)
    PROVE  LeaseStep(th) /\ QueueStep /\ now' = now /\ epoch' = epoch
<1>1. SchedTypes
  BY Zenon DEF HaltInv, BookInv
<1>2. /\ queue'[inst] = queue[inst] \ out
      /\ lease'[inst] = Refreshed(lease[inst], queue'[inst])
      /\ UNCHANGED <<now, epoch, locations, nextArrival>>
  BY <1>1, RemoveCall, Zenon
<1>3. Requeued(th)
  BY <1>2, Zenon DEF Requeued, held
<1>4. queue'[inst] \subseteq queue[inst]
  BY <1>2, Zenon
<1> QED
  BY <1>2, <1>3, <1>4, Zenon DEF LeaseStep, QueueStep

\* A grant prepared for the claim c.
LEMMA GrantSafe ==
    ASSUME HaltInv, NEW th \in Thread, NEW c \in Claim, NEW ttl \in Nat \ {0},
           NEW fromQueue \in BOOLEAN, NEW p \in {"pumpGrant", "grant"}, NEW j \in JobType,
           pc'[th] = p, job'[th] = j, j.prep = PreparedLease(c, ttl, FALSE, fromQueue),
           admission' = th, Owns(th, j), held' = None, c \in asked', now' = now,
           epoch' = epoch,
           p = "pumpGrant" => \E e \in queue'[inst] : e.claim = c
    PROVE  Safe(th, pc[th], job[th])'
<1>1. SchedTypes /\ ttl \in Nat /\ now \in Nat
  BY Zenon DEF HaltInv, BookInv, SchedTypes
<1> DEFINE prep == PreparedLease(c, ttl, FALSE, fromQueue)
           tok == MintedToken(c, ttl)
<1>2. prep.claim = c /\ prep.token = tok
  BY Zenon DEF PreparedLease
<1>3. tok.epoch = epoch /\ tok.holder = c.holder /\ tok.expires = now + ttl
  BY <1>1, Minted, Zenon
<1>d. j.prep = prep
  OBVIOUS
<1> HIDE DEF prep, tok
<1>4. tok.expires > now
  <2>1. now + ttl > now
    BY <1>1, SMT
  <2> QED
    BY <1>3, <2>1, Zenon
<1>e. /\ j.prep.claim = c /\ j.prep.token.epoch = epoch'
      /\ j.prep.token.holder = c.holder /\ j.prep.token.expires > now'
  BY <1>d, <1>2, <1>3, <1>4, Zenon
<1>5. p \notin {"lookup", "try", "cleanup", "prepare", "end", "transfer", "hostClaim",
                "visible", "write"}
  BY SMT
<1>6. j.op \in Runs(p)
  <2>1. p \in Any
    BY SMT DEF Any
  <2> QED
    BY <2>1, RunsFacts, JobFields, Zenon
<1>7. Owns(th, job[th])'
  BY Zenon DEF Owns
<1> QED
  BY <1>e, <1>5, <1>6, <1>7, Zenon DEF Safe

\* TTLs are positive (validate_claim_ttl, SchedulerConfig::validate).
LEMMA Ttls == LeaseTtl \in Nat \ {0} /\ \A c \in Claim : c.ttl \in Nat \ {0}
<1>1. \A c \in Claim : c.ttl \in Nat \ {0}
  BY ConfigAssumption DEF ClaimType
<1> QED
  BY <1>1, ConfigAssumption

\* A prepared grant can be committed.
LEMMA GrantReady ==
    ASSUME HaltInv, NEW th \in Thread, pc[th] \in {"pumpGrant", "grant"}
    PROVE  LET p == job[th].prep IN
           /\ p \in GrantType /\ AcquireCommittable(p)
           /\ p.fromQueue <=> pc[th] = "pumpGrant"
           /\ order = th /\ admission = th
           /\ pc[th] = "pumpGrant" => p.claim \in contexts
<1> DEFINE p == job[th].prep
<1>1. SchedTypes /\ BookInv /\ Books
  BY Zenon DEF HaltInv, BookInv
<1>2. Safe(th, pc[th], job[th])
  BY SafeAt, Zenon
<1>3. Placed(th, pc[th], job[th])
  BY <1>1, Zenon DEF BookInv
<1>4. "pumpGrant" # "grant" /\ pc[th] # "visible" /\ pc[th] \in Ordered /\ pc[th] \in Guarded
  BY SMT DEF Ordered, Guarded
<1>5. p \in GrantType /\ (p.fromQueue <=> pc[th] = "pumpGrant")
  BY <1>3, <1>4, Zenon DEF Placed
<1>6. order = th /\ admission = th
  BY <1>2, <1>3, <1>4, Zenon DEF Placed, Safe
<1>7. /\ held = None /\ p.token.epoch = epoch /\ p.token.expires > now
      /\ pc[th] = "pumpGrant" => \E e \in queue[inst] : e.claim = p.claim
  BY <1>2, Zenon DEF Safe
<1>8. p.token.instance = inst
  BY <1>5, OneInstance, Zenon DEF GrantType
<1>9. cooldown[inst] <= now
  BY <1>1, OneInstance, SMT DEF SchedTypes
<1>10. AcquireCommittable(p)
  BY <1>5, <1>7, <1>8, <1>9, Zenon DEF AcquireCommittable, held
<1>11. pc[th] = "pumpGrant" => p.claim \in contexts
  <2>1. Unshown = {}
    BY <1>1, <1>4, <1>6, UnshownFacts, Zenon
  <2> QED
    BY <1>1, <1>7, <2>1, Zenon DEF Books, Waiting
<1> QED
  BY <1>5, <1>6, <1>10, <1>11, Zenon

\* The commit of a grant begins a lease.
LEMMA GrantSteps ==
    ASSUME HaltInv, NEW th \in Thread, pc[th] \in {"pumpGrant", "grant"},
           CommitAcquire(job[th].prep), asked' = asked
    PROVE  /\ LeaseStep(th) /\ QueueStep /\ now' = now /\ epoch' = epoch
           /\ asked \subseteq asked'
<1> DEFINE p == job[th].prep
<1>1. SchedTypes /\ p \in GrantType /\ order = th /\ admission = th
  BY GrantReady, Zenon DEF HaltInv, BookInv
<1>2. /\ held = None /\ p.claim \in asked /\ p.token.epoch = epoch
      /\ p.token.holder = p.claim.holder
  BY SafeAt, Zenon DEF Safe
<1> HIDE DEF p
<1>3. CommitAcquire(p)
  BY DEF p
<1> DEFINE q == IF p.fromQueue THEN {e \in queue[inst] : e.claim # p.claim} ELSE queue[inst]
<1>4. /\ queue'[inst] = q /\ held' # None
      /\ held'.token = p.token /\ held'.claim = p.claim /\ held'.step = None
      /\ held'.preempt = Wanted(q, held')
      /\ <<p.token.id, inst>> \in locations'
      /\ UNCHANGED <<now, epoch, nextArrival>>
  BY <1>1, <1>3, AcquireCall, Zenon DEF held
<1>5. q \subseteq queue[inst]
  BY Zenon
<1> HIDE DEF q
<1>6. Replaced(th)
  BY <1>1, <1>2, <1>4, Zenon DEF Replaced
<1> QED
  BY <1>4, <1>5, <1>6, Zenon DEF LeaseStep, QueueStep

LEMMA PumpSafe ==
    ASSUME HaltInv, BookInv', NEW th \in Thread, Pump(th)
    PROVE  HaltInv'
<1>0. BookInv /\ SchedTypes /\ BookInv' /\ fault = None /\ th # None
  BY Threads, Zenon DEF HaltInv, BookInv
<1>o. job[th].op \in Op /\ Owns(th, job[th])
  BY <1>0, SafeAt, Moves, JobFields, Zenon
<1> DEFINE p == AfterPump(job[th].op)
<1>1. CASE PumpSkip(th)
  <2>1. Moved(th, p, AfterJob(th)) /\ pc[th] # "write"
    BY <1>0, <1>1, Moves DEF PumpSkip, At
  <2>2. UNCHANGED schedVars /\ fault' = fault /\ asked' = asked /\ GuardHanded(th)
    BY <1>1, Zenon DEF PumpSkip, Fine, lockVars, GuardHanded
  <2> QED
    BY <1>0, <2>1, <2>2, PumpedSafe, QuietBland, Zenon
<1>2. CASE PumpEnter(th)
  <2>1. Moved(th, "pumping", job[th]) /\ pc[th] # "write"
    BY <1>0, <1>2, Moves DEF PumpEnter, At
  <2>2. /\ UNCHANGED schedVars /\ fault' = fault /\ asked' = asked
        /\ GuardHanded(th) /\ admission' = th
    BY <1>2, Zenon DEF PumpEnter, Fine, GuardHanded
  <2>3. "pumping" \in Bland /\ job[th].op \in Runs("pumping")
    BY <1>o, BlandPlaces, RunsFacts, Zenon
  <2> QED
    BY <1>0, <1>o, <2>1, <2>2, <2>3, QuietBland, Zenon
<1>3. CASE PumpExpire(th)
  <2>1. Moved(th, "pumpPrepare", job[th]) /\ pc[th] # "write" /\ pc[th] \in Guarded
    BY <1>0, <1>3, Moves DEF PumpExpire, At, Guarded
  <2>2. /\ order = None /\ ExpireQueued /\ fault' = None /\ asked' = asked
        /\ admission' = admission
    BY <1>0, <1>3, Zenon DEF PumpExpire, Fine
  <2>3. "pumpPrepare" \in Bland /\ job[th].op \in Runs("pumpPrepare")
    BY <1>o, BlandPlaces, RunsFacts, Zenon
  <2>4. admission' = th /\ GuardHanded(th)
    BY <2>1, <2>2, SafeAt, Zenon DEF Safe, GuardHanded
  <2>5. /\ LeaseStep(th) /\ QueueStep /\ now' = now /\ epoch' = epoch
        /\ asked \subseteq asked'
    BY <2>1, <2>2, ExpireSteps, Zenon
  <2> QED
    BY <1>0, <1>o, <2>1, <2>2, <2>3, <2>4, <2>5, BlandStep, Zenon
<1>4. ASSUME At(th, "pumpPrepare"), NEW e \in queue[inst],
             PrepareQueuedGrant(inst, Open, e),
             Carry(th, [job[th] EXCEPT !.prep =
                          PreparedLease(e.claim, e.claim.ttl, FALSE, TRUE)]),
             Go(th, "pumpGrant"), UNCHANGED <<lockVars, bookVars>>, Fine
      PROVE  HaltInv'
  <2> DEFINE prep == PreparedLease(e.claim, e.claim.ttl, FALSE, TRUE)
             j == [job[th] EXCEPT !.prep = prep]
  <2>1. e.claim \in Claim /\ e.claim.ttl \in Nat \ {0} /\ e.claim.ttl \in Nat
    BY <1>0, Entries, Ttls, Zenon
  <2>2. prep \in GrantType
    BY <1>0, <2>1, PreparedGrants, Zenon
  <2>3. Moved(th, "pumpGrant", j)
    BY <1>0, <1>4, Moves, Zenon
  <2> HIDE DEF prep
  <2>4. /\ j \in JobType /\ j.prep = prep
        /\ j.op = job[th].op /\ j.token = job[th].token
    BY <1>0, <2>2, Moves, PrepEdit, Zenon
  <2> HIDE DEF j
  <2>5. pc'[th] = "pumpGrant" /\ job'[th] = j
    BY <1>0, <2>3, Landing, Zenon
  <2>6. UNCHANGED <<now, epoch, lease, queue, locations, nextArrival>>
    BY <1>0, <1>4, PrepareCall, Zenon
  <2>7. admission' = admission /\ asked' = asked /\ fault' = None
    BY <1>0, <1>4, Zenon DEF lockVars, Fine
  <2>8. pc[th] # "write" /\ pc[th] \in Guarded
    BY <1>4, SMT DEF At, Guarded
  <2>9. admission = th
    BY <2>8, SafeAt, Zenon DEF Safe
  <2>10. held = None /\ held' = None
    BY <1>4, <2>6, Zenon DEF PrepareQueuedGrant, QueuedGrantable, held
  <2>11. e.claim \in asked
    BY WaitingAsked, Zenon
  <2>12. Owns(th, j)
    BY <1>o, <2>4, Zenon DEF Owns
  <2>13. j.prep = PreparedLease(e.claim, e.claim.ttl, FALSE, TRUE)
    BY <2>4 DEF prep
  <2>14. Safe(th, pc[th], job[th])'
    BY <2>1, <2>4, <2>5, <2>6, <2>7, <2>9, <2>10, <2>11, <2>12, <2>13, GrantSafe, Zenon
  <2>15. KeptLease /\ QueueStep /\ GuardHanded(th) /\ asked \subseteq asked'
    BY <2>6, <2>7, KeptCall, Zenon DEF GuardHanded
  <2>16. LeaseStep(th)
    BY <2>8, <2>15, Zenon DEF LeaseStep
  <2> QED
    BY <1>0, <2>3, <2>6, <2>7, <2>14, <2>15, <2>16, HaltStep, Zenon
<1>5. ASSUME At(th, "pumpPrepare"), Unlock(th), Go(th, AfterPump(job[th].op)),
             Carry(th, AfterJob(th)), UNCHANGED schedVars, Fine
      PROVE  HaltInv'
  <2>1. Moved(th, p, AfterJob(th)) /\ pc[th] # "write"
    BY <1>0, <1>5, Moves DEF At
  <2>2. GuardHanded(th) /\ fault' = fault /\ asked' = asked
    BY <1>5, UnlockHands, Zenon DEF Fine
  <2> QED
    BY <1>0, <1>5, <2>1, <2>2, PumpedSafe, QuietBland, Zenon
<1>6. CASE PumpPrepare(th)
  BY <1>4, <1>5, <1>6, Zenon DEF PumpPrepare
<1>7. CASE PumpGrant(th)
  <2>1. pc[th] = "pumpGrant"
    BY <1>7, Zenon DEF PumpGrant, At
  <2>2. AcquireCommittable(job[th].prep) /\ job[th].prep.claim \in contexts
    BY <2>1, GrantReady, Zenon
  <2>3. /\ CommitAcquire(job[th].prep) /\ Unlock(th) /\ Go(th, p)
        /\ Carry(th, [AfterJob(th) EXCEPT !.prep = None])
        /\ asked' = asked /\ fault' = None
    BY <1>0, <1>7, <2>2, Zenon DEF PumpGrant, Fine
  <2>4. Moved(th, p, [AfterJob(th) EXCEPT !.prep = None])
    BY <1>0, <2>3, Moves, Zenon
  <2>5. /\ LeaseStep(th) /\ QueueStep /\ now' = now /\ epoch' = epoch
        /\ asked \subseteq asked'
    BY <2>1, <2>3, GrantSteps, Zenon
  <2>6. GuardHanded(th)
    BY <2>3, UnlockHands, Zenon
  <2> QED
    BY <1>0, <2>3, <2>4, <2>5, <2>6, PumpedSafe, BlandStep, Zenon
<1> QED
  BY <1>1, <1>2, <1>3, <1>6, <1>7, Zenon DEF Pump

-----------------------------------------------------------------------------
\* Lease ends.

\* The open step of a holder's own lease is the one the holder writes under.
LEMMA NoOwnStep ==
    ASSUME HaltInv, NEW th \in Thread, job[th].op \in OwnOps, pc[th] # "write"
    PROVE  ~StepActive(job[th].token)
<1>1. job[th].token.holder = th
  BY SafeAt, Zenon DEF Owns
<1>2. ASSUME StepActive(job[th].token)
      PROVE  FALSE
  <2>1. held # None /\ held.token = job[th].token /\ held.step # None
    BY <1>2, CurrentHeld, Zenon DEF StepActive, held
  <2> QED
    BY <1>1, <2>1, Writing, Zenon
<1> QED
  BY <1>2, Zenon

\* The operation of a cleanup, by its reason.
LEMMA Reasons ==
    ASSUME NEW op \in ExpireOps \cup (OwnOps \ {"renew"})
    PROVE  /\ Reason(op) = "Expired" <=> op \in ExpireOps
           /\ Reason(op) # "Expired" <=> op \in OwnOps
           /\ Reason(op) = "Explicit" <=> op = "release"
           /\ Reason(op) = "Preempted" => op \in OwnOps
           /\ Reason(op) = "BackendFailure" => op \in OwnOps
  BY SMT DEF Reason, ExpireOps, OwnOps

LEMMA CleanupSafe ==
    ASSUME NEW th, NEW p \in {"cleanup", "prepare", "end"}, NEW j,
           pc'[th] = p, job'[th] = j, admission' = th,
           j.op \in ExpireOps \cup (OwnOps \ {"renew"}), Owns(th, j),
           j.op \in ExpireOps => j.token \in TokenType /\ j.token.expires <= now',
           j.op \in ExpireOps /\ p = "end" /\ held' # None /\ held'.token = j.token =>
               held'.step = None,
           j.op = "release" => held' # None /\ held'.token = j.token
    PROVE  Safe(th, pc[th], job[th])'
<1>1. p \notin {"transfer", "pumpGrant", "grant", "hostClaim", "visible", "write"}
  BY SMT
<1>2. j.op \in Runs(p)
  BY RunsFacts, Zenon
<1>3. Owns(th, job[th])'
  BY Zenon DEF Owns
<1> QED
  BY <1>1, <1>2, <1>3, Zenon DEF Safe

\* What a thread knows in a cleanup.
LEMMA CleanupFacts ==
    ASSUME HaltInv, NEW th \in Thread, pc[th] \in {"cleanup", "prepare", "end"}
    PROVE  LET j == job[th] IN
           /\ admission = th /\ pc[th] # "write" /\ pc[th] \in Place
           /\ j \in JobType /\ j.op \in ExpireOps \cup (OwnOps \ {"renew"}) /\ Owns(th, j)
           /\ j.op \in ExpireOps => j.token \in TokenType /\ j.token.expires <= now
           /\ j.op \in OwnOps => j.token \in TokenType /\ j.token.holder = th
           /\ j.op \in OwnOps => ~StepActive(j.token)
           /\ j.op = "release" => held # None /\ held.token = j.token
<1> DEFINE j == job[th]
<1>1. Safe(th, pc[th], j) /\ Owns(th, j)
  BY SafeAt, Zenon
<1>2. pc[th] # "write" /\ pc[th] \in Guarded
  BY SMT DEF Guarded
<1>3. admission = th /\ j.op \in ExpireOps \cup (OwnOps \ {"renew"})
  BY <1>1, <1>2, RunsFacts, Zenon DEF Safe
<1>4. j.op \in ExpireOps => j.token \in TokenType /\ j.token.expires <= now
  BY <1>1, Zenon DEF Safe
<1>5. j.op = "release" => held # None /\ held.token = j.token
  BY <1>1, Zenon DEF Safe
<1>6. j.op \in OwnOps => ~StepActive(j.token)
  BY <1>2, NoOwnStep, Zenon
<1>7. j \in JobType /\ pc[th] \in Place
  BY Moves, Zenon DEF HaltInv
<1> QED
  BY <1>1, <1>2, <1>3, <1>4, <1>5, <1>6, <1>7, Zenon DEF Owns

\* A cleanup is over.
LEMMA ReturnSafe ==
    ASSUME HaltInv, BookInv', NEW th \in Thread, pc[th] \in {"prepare", "end", "transfer"},
           Return(th), LeaseStep(th), QueueStep, now' = now, epoch' = epoch,
           asked' = asked, fault' = None
    PROVE  HaltInv'
<1>0. BookInv /\ job[th] \in JobType /\ Owns(th, job[th]) /\ asked \subseteq asked'
  BY SafeAt, Moves, Zenon DEF HaltInv
<1>g. admission = th
  <2>1. pc[th] \in Guarded
    BY SMT DEF Guarded
  <2> QED
    BY <2>1, SafeAt, Zenon DEF Safe
<1>1. CASE job[th].op \in {"queue", "acquire"}
  <2> DEFINE p == Resumed(job[th].op)
             j == [job[th] EXCEPT !.token = None, !.prep = None]
  <2>1. admission' = admission /\ Go(th, p) /\ Carry(th, j)
    BY <1>1, Zenon DEF Return
  <2>2. Moved(th, p, j)
    BY <1>0, <2>1, Moves, Zenon
  <2>3. j \in JobType /\ j.op = job[th].op
    BY <1>0, ReturnEdit, Zenon
  <2>4. p \in {"request", "acquire"}
    BY Zenon DEF Resumed
  <2> HIDE DEF p, j
  <2>5. j.op \notin OwnOps
    BY <1>1, <2>3, SMT DEF OwnOps
  <2>6. p \in Bland /\ Runs(p) = Op
    BY <2>4, Resuming, Zenon
  <2>7. j.op \in Runs(p) /\ Owns(th, j)
    BY <2>3, <2>5, <2>6, JobFields, OwnsNothing, Zenon
  <2>8. GuardHanded(th) /\ admission' = th
    BY <1>g, <2>1, Zenon DEF GuardHanded
  <2> QED
    BY <1>0, <2>2, <2>6, <2>7, <2>8, BlandStep, Zenon
<1>2. CASE job[th].op = "input"
  <2>1. LeavePlain(th)
    BY <1>2, SMT DEF Return
  <2>2. Unlock(th) /\ Moved(th, "idle", NoJob)
    BY <1>0, <2>1, Moves, Zenon DEF LeavePlain
  <2>3. "idle" \in Bland /\ "idle" \notin Guarded /\ Runs("idle") = Op
    BY BlandPlaces, RunsFacts, Zenon
  <2>4. NoJob.op \in Op /\ NoJob.op \notin OwnOps
    BY OpSets, Zenon DEF NoJob
  <2>5. GuardHanded(th) /\ Owns(th, NoJob)
    BY <2>2, <2>4, UnlockHands, OwnsNothing, Zenon
  <2> QED
    BY <1>0, <2>2, <2>3, <2>4, <2>5, BlandStep, Zenon
<1>3. CASE job[th].op \notin {"queue", "acquire"} /\ job[th].op # "input"
  <2> DEFINE j == [job[th] EXCEPT !.prep = None]
  <2>1. Unlock(th) /\ Go(th, "pump") /\ Carry(th, j)
    BY <1>3, Zenon DEF Return
  <2>2. Moved(th, "pump", j)
    BY <1>0, <2>1, Moves, Zenon
  <2>3. j \in JobType /\ j.op = job[th].op /\ j.token = job[th].token
    BY <1>0, PrepEdit, Zenon
  <2> HIDE DEF j
  <2>4. "pump" \in Bland /\ "pump" \notin Guarded /\ Runs("pump") = Op
    BY BlandPlaces, RunsFacts, Zenon
  <2>5. j.op \in Op /\ Owns(th, j)
    BY <1>0, <2>3, JobFields, Zenon DEF Owns
  <2>6. GuardHanded(th)
    BY <2>1, UnlockHands, Zenon
  <2> QED
    BY <1>0, <2>2, <2>4, <2>5, <2>6, BlandStep, Zenon
<1> QED
  BY <1>1, <1>2, <1>3, Zenon

\* A transfer prepared under the order lock, from the lease to the entry e.
LEMMA TransferSafe ==
    ASSUME HaltInv, NEW th \in Thread, NEW t, Current(t), held.step = None,
           Unwritable(th, held), NEW e \in queue[inst], NEW rel \in Nat \cup {None},
           NEW j \in JobType, pc'[th] = "transfer", job'[th] = j,
           j.prep = PreparedTransfer(t, e, rel, FALSE), admission' = th,
           j.op \in ExpireOps \cup OwnOps \cup {"promote"}, Owns(th, j),
           j.op \in ExpireOps => j.token \in TokenType /\ j.token.expires <= now,
           UNCHANGED <<now, epoch, lease, queue>>
    PROVE  Safe(th, pc[th], job[th])'
<1>1. SchedTypes /\ now \in Nat
  BY Zenon DEF HaltInv, BookInv, SchedTypes
<1>2. t.instance = inst /\ lease[t.instance] \in LeaseType
  BY <1>1, CurrentFacts, Zenon
<1>3. e \in EntryType /\ e.claim \in Claim /\ e.claim.ttl \in Nat \ {0}
  BY <1>1, Entries, Ttls, Zenon
<1> DEFINE prep == PreparedTransfer(t, e, rel, FALSE)
           tok == MintedToken(e.claim, e.claim.ttl)
<1>4. prep.from = lease[t.instance] /\ prep.entry = e /\ prep.token = tok
  BY Zenon DEF PreparedTransfer
<1>5. tok.epoch = epoch /\ tok.holder = e.claim.holder /\ tok.expires = now + e.claim.ttl
  BY <1>1, <1>3, Minted, Zenon
<1>6. j.prep = prep
  OBVIOUS
<1> HIDE DEF prep, tok
<1>7. tok.expires > now
  <2>1. now + e.claim.ttl > now
    BY <1>1, <1>3, SMT
  <2> QED
    BY <1>5, <2>1, Zenon
<1>8. held' = held /\ held = j.prep.from
  BY <1>2, <1>4, <1>6, Zenon DEF held
<1>9. Unwritable(th, held)'
  BY <1>8, Zenon DEF Unwritable
<1>10. "transfer" \notin {"cleanup", "prepare", "end", "pumpGrant", "grant", "hostClaim",
                          "visible", "write"}
  BY SMT
<1>11. j.op \in Runs("transfer")
  BY RunsFacts, Zenon
<1>12. Owns(th, job[th])'
  BY Zenon DEF Owns
<1>13. /\ j.prep.entry \in queue'[inst] /\ j.prep.token.epoch = epoch'
       /\ j.prep.token.holder = j.prep.entry.claim.holder
       /\ j.prep.token.expires > now'
  BY <1>4, <1>5, <1>6, <1>7, Zenon
<1> QED
  BY <1>8, <1>9, <1>10, <1>11, <1>12, <1>13, Zenon DEF Safe

\* cleanup_token_guarded up to the end of the lease.
LEMMA CleanupHeadSafe ==
    ASSUME HaltInv, BookInv', NEW th \in Thread,
           CleanupBegin(th) \/ CleanupPrepare(th) \/ CleanupAlone(th)
    PROVE  HaltInv'
<1>0. BookInv /\ SchedTypes /\ fault = None /\ th # None
  BY Threads, Zenon DEF HaltInv, BookInv
<1> DEFINE j == job[th]  t == j.token  r == Reason(j.op)
<1>1. CASE CleanupBegin(th)
  <2>1. pc[th] = "cleanup" /\ order = None
    BY <1>1, Zenon DEF CleanupBegin, At
  <2>2. /\ admission = th /\ pc[th] # "write"
        /\ j.op \in ExpireOps \cup (OwnOps \ {"renew"}) /\ Owns(th, j)
        /\ j.op \in ExpireOps => t \in TokenType /\ t.expires <= now
        /\ j.op \in OwnOps => ~StepActive(t)
        /\ j.op = "release" => held # None /\ held.token = t
    BY <2>1, CleanupFacts, Zenon
  <2>3. ~(StepActive(t) /\ r # "Expired")
    BY <2>2, Reasons, Zenon
  <2>4. /\ ExpireQueued /\ Go(th, "prepare") /\ job' = job /\ admission' = admission
        /\ asked' = asked /\ fault' = None
    BY <1>0, <1>1, <2>3, Zenon DEF CleanupBegin, lockVars, Fine
  <2>5. Moved(th, "prepare", j)
    BY <1>0, <2>4, Moves, Zenon
  <2>6. /\ LeaseStep(th) /\ QueueStep /\ now' = now /\ epoch' = epoch
        /\ asked \subseteq asked'
    BY <2>1, <2>2, <2>4, ExpireSteps, Zenon
  <2>7. held # None => held' # None /\ held'.token = held.token
    <3>1. Unshown = {}
      BY <1>0, <2>1, UnshownFacts, Zenon
    <3>2. held' = held \/ held' = Refreshed(held, queue'[inst])
      BY <1>0, <2>4, <3>1, ExpireCall, Zenon DEF held
    <3>3. ASSUME held # None, held' = Refreshed(held, queue'[inst])
          PROVE  held' # None /\ held'.token = held.token
      BY <3>3, HeldFacts, Refreshes, Zenon
    <3> QED
      BY <3>2, <3>3, Zenon
  <2>8. pc'[th] = "prepare" /\ job'[th] = j
    BY <1>0, <2>5, Landing, Zenon
  <2> HIDE DEF j
  <2>9. Safe(th, pc[th], job[th])'
    BY <2>2, <2>4, <2>6, <2>7, <2>8, CleanupSafe
  <2>10. GuardHanded(th)
    BY <2>4, Zenon DEF GuardHanded
  <2> QED
    BY <1>0, <2>4, <2>5, <2>6, <2>9, <2>10, HaltStep, Zenon
<1>2. ASSUME pc[th] = "prepare", NEW k \in JobType, k = j,
             Moved(th, "end", k), UNCHANGED <<now, epoch, lease, queue, locations, nextArrival>>,
             admission' = admission, Fine, j.op \in ExpireOps => Transferable(t, t.holder)
      PROVE  HaltInv'
  <2>1. /\ admission = th /\ pc[th] # "write"
        /\ j.op \in ExpireOps \cup (OwnOps \ {"renew"}) /\ Owns(th, j)
        /\ j.op \in ExpireOps => t \in TokenType /\ t.expires <= now
        /\ j.op = "release" => held # None /\ held.token = t
    BY <1>2, CleanupFacts, Zenon
  <2>2. held' = held /\ asked \subseteq asked' /\ fault' = None /\ GuardHanded(th)
    BY <1>0, <1>2, Zenon DEF held, Fine, GuardHanded
  <2>3. j.op \in ExpireOps => held.step = None
    <3>1. ASSUME Transferable(t, t.holder)
          PROVE  held.step = None
      <4>1. t.instance = inst
        BY <1>0, <3>1, CurrentFacts, Zenon DEF Transferable, HeldBy
      <4> QED
        BY <3>1, <4>1, Zenon DEF Transferable, held
    <3> QED
      BY <1>2, <3>1, Zenon
  <2>4. pc'[th] = "end" /\ job'[th] = j
    BY <1>0, <1>2, Landing, Zenon
  <2> HIDE DEF j
  <2>5. Safe(th, pc[th], job[th])'
    BY <1>2, <2>1, <2>2, <2>3, <2>4, CleanupSafe
  <2>6. KeptLease /\ QueueStep
    BY <1>2, KeptCall, Zenon
  <2>7. LeaseStep(th)
    BY <2>1, <2>6, Zenon DEF LeaseStep
  <2> QED
    BY <1>0, <1>2, <2>2, <2>5, <2>6, <2>7, HaltStep, Zenon
<1>3. CASE CleanupPrepare(th)
  <2>1. PICK e \in queue[inst], capacity \in Capacity :
             /\ PrepareTransfer(t, t.holder, Open, e, FALSE)
             /\ order' = th
             /\ IF capacity
                THEN /\ Go(th, "transfer")
                     /\ Carry(th, [j EXCEPT !.prep = PreparedTransfer(t, e,
                              IF r = "Explicit" THEN t.id ELSE None, FALSE)])
                ELSE Go(th, "end") /\ UNCHANGED job
    BY <1>3, Zenon DEF CleanupPrepare
  <2>2. pc[th] = "prepare" /\ admission' = admission /\ Fine
    BY <1>3, Zenon DEF CleanupPrepare, At
  <2>3. Transferable(t, t.holder) /\ Current(t) /\ PrepareToken
    BY <2>1, Zenon DEF PrepareTransfer, TransferCandidate, Transferable, HeldBy
  <2>4. UNCHANGED <<now, epoch, lease, queue, locations, nextArrival>>
    BY <1>0, <2>3, PrepareCall, Zenon
  <2>5. CASE ~capacity
    <3>1. Moved(th, "end", j) /\ j \in JobType
      BY <1>0, <2>1, <2>5, Moves, Zenon
    <3> QED
      BY <1>2, <2>2, <2>3, <2>4, <3>1, Zenon
  <2>6. CASE capacity
    <3> DEFINE rel == IF r = "Explicit" THEN t.id ELSE None
               prep == PreparedTransfer(t, e, rel, FALSE)
               k == [j EXCEPT !.prep = prep]
    <3>1. /\ admission = th /\ pc[th] # "write" /\ j \in JobType
          /\ j.op \in ExpireOps \cup (OwnOps \ {"renew"}) /\ Owns(th, j)
          /\ j.op \in ExpireOps => t \in TokenType /\ t.expires <= now
          /\ j.op \in OwnOps => t \in TokenType /\ t.holder = th
      BY <2>2, CleanupFacts, Zenon
    <3>2. t \in TokenType /\ t.instance = inst /\ lease[inst] \in LeaseType /\ held.token = t
      BY <1>0, <2>3, CurrentFacts, Zenon DEF held
    <3>3. t.id \in Nat
      BY <3>2, Zenon DEF TokenType
    <3>4. rel \in Nat \cup {None}
      BY <3>3, Zenon
    <3> HIDE DEF rel
    <3>5. prep \in TransferType
      BY <1>0, <3>2, <3>4, Entries, PreparedTransfers, Zenon
    <3>6. Moved(th, "transfer", k)
      BY <1>0, <2>1, <2>6, Moves, Zenon DEF rel
    <3> HIDE DEF prep
    <3>7. k \in JobType /\ k.prep = prep /\ k.op = j.op /\ k.token = t
      BY <1>0, <3>5, Moves, PrepEdit, Zenon
    <3> HIDE DEF k
    <3>8. pc'[th] = "transfer" /\ job'[th] = k
      BY <1>0, <3>6, Landing, Zenon
    <3>9. k.prep = PreparedTransfer(t, e, rel, FALSE)
      BY <3>7 DEF prep
    <3>10. held.step = None /\ Unwritable(th, held)
      BY <2>3, <3>1, <3>2, Zenon DEF Transferable, Unwritable, held
    <3>11. /\ k.op \in ExpireOps \cup OwnOps \cup {"promote"} /\ Owns(th, k)
           /\ k.op \in ExpireOps => k.token \in TokenType /\ k.token.expires <= now
      BY <3>1, <3>7, Zenon DEF Owns
    <3>12. admission' = th /\ GuardHanded(th) /\ asked \subseteq asked' /\ fault' = None
      BY <1>0, <2>2, <3>1, Zenon DEF GuardHanded, Fine
    <3>u. UNCHANGED <<now, epoch, lease, queue>> /\ Current(t) /\ k \in JobType /\ admission' = th
      BY <2>3, <2>4, <3>7, <3>12, Zenon
    <3>13. Safe(th, pc[th], job[th])'
      BY <3>u, <3>4, <3>8, <3>9, <3>10, <3>11, TransferSafe, Zenon
    <3>14. KeptLease /\ QueueStep
      BY <2>4, KeptCall, Zenon
    <3>15. LeaseStep(th)
      BY <3>1, <3>14, Zenon DEF LeaseStep
    <3> QED
      BY <1>0, <2>4, <3>6, <3>12, <3>13, <3>14, <3>15, HaltStep, Zenon
  <2> QED
    BY <2>5, <2>6
<1>4. CASE CleanupAlone(th)
  <2>1. pc[th] = "prepare" /\ admission' = admission /\ Fine /\ job' = job
    BY <1>4, Zenon DEF CleanupAlone, At
  <2>2. UNCHANGED <<now, epoch, lease, queue, locations, nextArrival>>
    BY <1>4, Zenon DEF CleanupAlone, schedVars
  <2>3. Moved(th, "end", j) /\ j \in JobType
    BY <1>0, <1>4, <2>1, Moves, Zenon DEF CleanupAlone
  <2>4. j.op \in ExpireOps => Transferable(t, t.holder)
    <3>1. j.op \in ExpireOps \cup (OwnOps \ {"renew"})
      BY <2>1, CleanupFacts, Zenon
    <3>2. j.op \in ExpireOps => r # "Preempted" /\ r # "BackendFailure"
      BY <3>1, Reasons, OpSets, Zenon
    <3> QED
      BY <1>4, <3>2, Zenon DEF CleanupAlone
  <2> QED
    BY <1>2, <2>1, <2>2, <2>3, <2>4, Zenon
<1> QED
  BY <1>1, <1>3, <1>4

\* cleanup_token_guarded: a lease that is gone, a step that is open, the end.
LEMMA CleanupTailSafe ==
    ASSUME HaltInv, BookInv', NEW th \in Thread,
           CleanupStale(th) \/ CleanupDeferred(th) \/ CleanupEnd(th)
    PROVE  HaltInv'
<1>0. BookInv /\ SchedTypes /\ fault = None /\ th # None
  BY Threads, Zenon DEF HaltInv, BookInv
<1> DEFINE j == job[th]  t == j.token  r == Reason(j.op)
<1>1. CASE CleanupStale(th)
  <2>1. pc[th] = "prepare" /\ ~HeldBy(t, t.holder)
    BY <1>1, Zenon DEF CleanupStale, At
  <2>2. /\ pc[th] # "write" /\ j \in JobType
        /\ j.op \in ExpireOps \cup (OwnOps \ {"renew"}) /\ Owns(th, j)
        /\ j.op = "release" => held # None /\ held.token = t
    BY <2>1, CleanupFacts, Zenon
  <2>3. r # "Explicit"
    BY <2>1, <2>2, HeldFacts, Reasons, Zenon
  <2>4. Refused(th) /\ UNCHANGED schedVars /\ fault' = fault /\ asked' = asked
    BY <1>1, <2>3, Zenon DEF CleanupStale, Fine
  <2> DEFINE k == IF th = Sweep THEN [NoJob EXCEPT !.op = "dying"] ELSE job[th]
  <2>5. Unlock(th) /\ Moved(th, "pump", k)
    BY <1>0, <2>4, Moves, Zenon DEF Refused
  <2>6. k.op \in Op /\ Owns(th, k)
    <3>1. CASE th = Sweep
      <4>1. [NoJob EXCEPT !.op = "dying"].op = "dying"
        BY Zenon DEF NoJob
      <4>2. k.op = "dying"
        BY <3>1, <4>1, Zenon
      <4> HIDE DEF k
      <4> QED
        BY <4>2, OpSets, OwnsNothing, Zenon
    <3>2. CASE th # Sweep
      BY <2>2, <3>2, JobFields, Zenon
    <3> QED
      BY <3>1, <3>2
  <2> HIDE DEF k
  <2>7. "pump" \in Bland /\ "pump" \notin Guarded /\ Runs("pump") = Op
    BY BlandPlaces, RunsFacts, Zenon
  <2>8. GuardHanded(th)
    BY <2>5, UnlockHands, Zenon
  <2> QED
    BY <1>0, <2>2, <2>4, <2>5, <2>6, <2>7, <2>8, QuietBland, Zenon
<1>2. CASE CleanupDeferred(th)
  <2>1. pc[th] = "prepare" /\ StepActive(t)
    BY <1>2, Zenon DEF CleanupDeferred, At
  <2>2. /\ pc[th] # "write" /\ j.op \in ExpireOps \cup (OwnOps \ {"renew"})
        /\ j.op \in OwnOps => ~StepActive(t)
    BY <2>1, CleanupFacts, Zenon
  <2>3. r = "Expired"
    BY <2>1, <2>2, Reasons, Zenon
  <2>4. Return(th) /\ UNCHANGED schedVars /\ fault' = None /\ asked' = asked
    BY <1>0, <1>2, <2>3, Zenon DEF CleanupDeferred, Fine
  <2>5. KeptLease /\ QueueStep /\ now' = now /\ epoch' = epoch
    BY <2>4, IdleSched, Zenon
  <2>6. LeaseStep(th)
    BY <2>2, <2>5, Zenon DEF LeaseStep
  <2> QED
    BY <2>1, <2>4, <2>5, <2>6, ReturnSafe, Zenon
<1>3. CASE CleanupEnd(th)
  <2>1. /\ pc[th] = "end" /\ Return(th) /\ fault' = None /\ asked' = asked
    BY <1>0, <1>3, Zenon DEF CleanupEnd, At, Fine
  <2>2. /\ admission = th /\ pc[th] # "write"
        /\ j.op \in ExpireOps \cup (OwnOps \ {"renew"})
        /\ j.op \in OwnOps => ~StepActive(t)
    BY <2>1, CleanupFacts, Zenon
  <2>3. order = th
    <3>1. pc[th] \in Ordered
      BY <2>1, SMT DEF Ordered
    <3> QED
      BY <1>0, <3>1, Zenon DEF BookInv, Placed
  <2>4. CASE UNCHANGED schedVars
    <3>1. KeptLease /\ QueueStep /\ now' = now /\ epoch' = epoch
      BY <2>4, IdleSched, Zenon
    <3>2. LeaseStep(th)
      BY <2>2, <3>1, Zenon DEF LeaseStep
    <3> QED
      BY <2>1, <3>1, <3>2, ReturnSafe, Zenon
  <2>5. CASE ExpireToken(t) \/ Release(t, t.holder, t.id) \/ ReleaseOwned(t, t.holder)
    <3>1. /\ Current(t) /\ held' = None
          /\ UNCHANGED <<now, epoch, queue, nextArrival>>
      BY <1>0, <2>5, EndCall, Zenon DEF held
    <3>2. held # None /\ held.token = t
      BY <3>1, CurrentHeld, Zenon
    <3>3. held.step = None
      <4>1. CASE j.op \in OwnOps
        BY <2>2, <3>1, <4>1, Zenon DEF StepActive, held
      <4>2. CASE j.op \in ExpireOps
        BY <2>1, <3>2, <4>2, SafeAt, Zenon DEF Safe
      <4> QED
        BY <2>2, <4>1, <4>2, Zenon
    <3>4. Replaced(th)
      BY <2>2, <2>3, <3>1, <3>3, Zenon DEF Replaced
    <3>5. QueueStep /\ now' = now /\ epoch' = epoch
      BY <3>1, Zenon DEF QueueStep
    <3>6. LeaseStep(th)
      BY <3>4, Zenon DEF LeaseStep
    <3> QED
      BY <2>1, <3>5, <3>6, ReturnSafe, Zenon
  <2>6. r = "Expired" \/ r = "Explicit" \/ (r # "Expired" /\ r # "Explicit")
    BY Zenon
  <2> QED
    BY <1>3, <2>4, <2>5, SMT DEF CleanupEnd
<1> QED
  BY <1>1, <1>2, <1>3

\* perform_transfer: what was prepared is still so.
LEMMA TransferReady ==
    ASSUME HaltInv, NEW th \in Thread, pc[th] = "transfer"
    PROVE  LET p == job[th].prep IN
           /\ p \in TransferType /\ ~p.handOff
           /\ order = th /\ admission = th
           /\ p.entry.claim \in contexts
           /\ ~StepActive(p.from.token)
           /\ TransferCommittable(p)
           /\ held # None /\ held.step = None
<1> DEFINE p == job[th].prep
<1>1. SchedTypes /\ BookInv /\ Books
  BY Zenon DEF HaltInv, BookInv
<1>2. Safe(th, pc[th], job[th])
  BY SafeAt, Zenon
<1>3. pc[th] # "visible" /\ pc[th] \in Ordered /\ pc[th] \in Guarded
  BY SMT DEF Ordered, Guarded
<1>4. p \in TransferType /\ ~p.handOff /\ order = th
  BY <1>1, <1>3, Zenon DEF BookInv, Placed
<1>5. admission = th
  BY <1>2, <1>3, Zenon DEF Safe
<1>6. /\ held = p.from /\ held.step = None /\ p.entry \in queue[inst]
      /\ p.token.epoch = epoch /\ p.token.expires > now
  BY <1>2, Zenon DEF Safe
<1>7. p.from \in LeaseType
  BY <1>4, Zenon DEF TransferType
<1>8. held # None
  BY <1>6, <1>7, NoneAssumption, Zenon
<1>9. held.token.instance = inst /\ held.token.epoch = epoch
  BY <1>8, HeldFacts, Zenon DEF HaltInv, LeaseSound
<1>10. TransferCommittable(p)
  BY <1>4, <1>6, <1>9, Zenon DEF TransferCommittable, held
<1>11. ~StepActive(p.from.token)
  BY <1>6, Zenon DEF StepActive, held
<1>12. Unshown = {}
  BY <1>1, <1>3, <1>4, UnshownFacts, Zenon
<1>13. p.entry.claim \in contexts
  BY <1>1, <1>6, <1>12, Zenon DEF Books, Waiting
<1> QED
  BY <1>4, <1>5, <1>6, <1>8, <1>10, <1>11, <1>13

LEMMA CommitSafe ==
    ASSUME HaltInv, BookInv', NEW th \in Thread, Transfer(th)
    PROVE  HaltInv'
<1> DEFINE p == job[th].prep
<1>1. pc[th] = "transfer" /\ fault = None /\ SchedTypes
  BY Zenon DEF Transfer, At, HaltInv, BookInv
<1>2. /\ p \in TransferType /\ ~p.handOff /\ order = th /\ admission = th
      /\ p.entry.claim \in contexts /\ ~StepActive(p.from.token)
      /\ TransferCommittable(p) /\ held # None /\ held.step = None
  BY <1>1, TransferReady, Zenon
<1>3. CommitTransfer(p) /\ Return(th) /\ fault' = None /\ asked' = asked
  BY <1>1, <1>2, Zenon DEF Transfer, Fine
<1>4. p.token.epoch = epoch /\ p.token.holder = p.entry.claim.holder
  BY <1>1, SafeAt, Zenon DEF Safe
<1> HIDE DEF p
<1>5. LET q == queue[inst] \ {p.entry} IN
      /\ p.entry \in queue[inst] /\ queue'[inst] = q
      /\ held' # None /\ held'.token = p.token /\ held'.claim = p.entry.claim
      /\ held'.step = None /\ held'.preempt = Wanted(q, held')
      /\ <<p.token.id, inst>> \in locations'
      /\ UNCHANGED <<now, epoch, nextArrival>>
  BY <1>1, <1>2, <1>3, TransferCall, Zenon DEF held
<1>6. p.entry.claim \in asked'
  BY <1>3, <1>5, WaitingAsked, Zenon
<1>7. Replaced(th)
  BY <1>2, <1>4, <1>5, <1>6, Zenon DEF Replaced
<1>8. QueueStep /\ LeaseStep(th)
  BY <1>5, <1>7, Zenon DEF QueueStep, LeaseStep
<1> QED
  BY <1>1, <1>3, <1>5, <1>8, ReturnSafe, Zenon

LEMMA CleanupsSafe ==
    ASSUME HaltInv, BookInv', NEW th \in Thread, Cleanup(th)
    PROVE  HaltInv'
  BY CleanupHeadSafe, CleanupTailSafe, CommitSafe, Zenon DEF Cleanup

-----------------------------------------------------------------------------
\* Ends of operations.

\* An operation ends.
LEMMA LeftSafe ==
    ASSUME HaltInv, BookInv', NEW th \in Thread, Leave(th), pc[th] # "write",
           LeaseStep(th), QueueStep, now' = now, epoch' = epoch, asked' = asked,
           fault' = None
    PROVE  HaltInv'
<1>1. Unlock(th) /\ Moved(th, "pump", job[th]) /\ job[th] \in JobType
  BY Moves, Zenon DEF Leave, HaltInv
<1>2. "pump" \in Bland /\ "pump" \notin Guarded /\ Runs("pump") = Op
  BY BlandPlaces, RunsFacts, Zenon
<1>3. job[th].op \in Op /\ Owns(th, job[th]) /\ GuardHanded(th)
  BY <1>1, SafeAt, JobFields, UnlockHands, Zenon
<1> QED
  BY <1>1, <1>2, <1>3, BlandStep, Zenon

LEMMA Nothing ==
    ASSUME NEW th, NEW p \in {"idle", "gone", "dead"}
    PROVE  p \in Bland /\ p \notin Guarded /\ NoJob.op \in Runs(p) /\ Owns(th, NoJob)
<1>1. p \in Bland /\ p \in Any /\ p \notin Guarded
  BY BlandPlaces, Zenon
<1>2. NoJob.op \in Op /\ NoJob.op \notin OwnOps
  BY OpSets, Zenon DEF NoJob
<1> QED
  BY <1>1, <1>2, RunsFacts, OwnsNothing, Zenon

\* A call is refused.
LEMMA RefusedSafe ==
    ASSUME HaltInv, BookInv', NEW th \in Thread, NEW p \in {"idle", "gone", "dead"},
           pc[th] # "write", Go(th, p), Carry(th, NoJob), UNCHANGED schedVars,
           admission' = admission, Fine
    PROVE  HaltInv'
<1>1. Moved(th, p, NoJob) /\ GuardHanded(th) /\ asked \subseteq asked' /\ fault' = fault
  BY Moves, Zenon DEF HaltInv, GuardHanded, Fine
<1> QED
  BY <1>1, Nothing, QuietBland, Zenon

-----------------------------------------------------------------------------
\* New operations, the sweep and the clock.

\* An operation begins.
LEMMA BegunSafe ==
    ASSUME HaltInv, BookInv', NEW th \in Thread, pc[th] = "idle", NEW op \in Op,
           op \notin OwnOps, NEW p \in Bland, op \in Runs(p), NEW j, j.op = op,
           Moved(th, p, j), UNCHANGED schedVars, fault' = fault, asked \subseteq asked',
           GuardHanded(th), p \in Guarded => admission' = th
    PROVE  HaltInv'
<1>1. Owns(th, j) /\ pc[th] # "write"
  BY OwnsNothing, Zenon
<1> QED
  BY <1>1, QuietBland, Zenon

LEMMA AsksSafe ==
    ASSUME HaltInv, BookInv', NEW th \in Thread, NEW c \in Claim,
           QueueLease(th, c) \/ AcquireLease(th, c) \/ HostClaim(th, c)
    PROVE  HaltInv'
<1>0. BookInv /\ fault = None
  BY Zenon DEF HaltInv
<1>1. /\ {"queue", "acquire", "claim"} \subseteq Op
      /\ "queue" \notin OwnOps /\ "acquire" \notin OwnOps /\ "claim" \notin OwnOps
  BY SMT DEF Op, OwnOps
<1>2. Ask(th, c) /\ UNCHANGED schedVars
  BY Zenon DEF QueueLease, AcquireLease, HostClaim
<1>3. pc[th] = "idle" /\ fault' = fault /\ asked \subseteq asked'
  BY <1>2, Zenon DEF Ask, At
<1>4. CASE QueueLease(th, c)
  <2> DEFINE j == [NoJob EXCEPT !.op = "queue", !.claim = c]
  <2>1. j.op = "queue"
    BY <1>1, ClaimJob, Zenon
  <2>2. \/ Moved(th, "expire", j) /\ admission = None /\ admission' = th
        \/ Moved(th, "request", j) /\ admission' = admission
    BY <1>0, <1>4, Moves, Zenon DEF QueueLease
  <2> HIDE DEF j
  <2>3. CASE Moved(th, "expire", j) /\ admission = None /\ admission' = th
    <3>1. "expire" \in Bland /\ "queue" \in Runs("expire")
      BY BlandPlaces, RunsFacts, Zenon
    <3>2. GuardHanded(th)
      BY <2>3, Zenon DEF GuardHanded
    <3> QED
      BY <1>1, <1>2, <1>3, <2>1, <2>3, <3>1, <3>2, BegunSafe, Zenon
  <2>4. CASE Moved(th, "request", j) /\ admission' = admission
    <3>a. "request" \in Bland /\ "request" \notin Guarded /\ Runs("request") = Op
      BY BlandPlaces, RunsFacts, Zenon
    <3>1. "request" \in Bland /\ "request" \notin Guarded /\ "queue" \in Runs("request")
      BY <1>1, <3>a, Zenon
    <3>2. GuardHanded(th)
      BY <2>4, Zenon DEF GuardHanded
    <3> QED
      BY <1>1, <1>2, <1>3, <2>1, <2>4, <3>1, <3>2, BegunSafe, Zenon
  <2> QED
    BY <2>2, <2>3, <2>4, Zenon
<1>5. CASE AcquireLease(th, c)
  <2> DEFINE j == [NoJob EXCEPT !.op = "acquire", !.claim = c]
  <2>1. j.op = "acquire"
    BY <1>1, ClaimJob, Zenon
  <2>2. Moved(th, "enter", j) /\ GuardHanded(th)
    BY <1>0, <1>5, Moves, Zenon DEF AcquireLease, lockVars, GuardHanded
  <2> HIDE DEF j
  <2>3. "enter" \in Bland /\ "enter" \notin Guarded /\ "acquire" \in Runs("enter")
    BY BlandPlaces, RunsFacts, Zenon
  <2> QED
    BY <1>1, <1>2, <1>3, <2>1, <2>2, <2>3, BegunSafe, Zenon
<1>6. CASE HostClaim(th, c)
  <2> DEFINE j == [NoJob EXCEPT !.op = "claim", !.claim = c]
  <2>1. j.op = "claim"
    BY <1>1, ClaimJob, Zenon
  <2>2. ~j.flag
    BY SMT DEF NoJob
  <2>3. Moved(th, "hostClaim", j) /\ GuardHanded(th)
    BY <1>0, <1>6, Moves, Zenon DEF HostClaim, GuardHanded
  <2> HIDE DEF j
  <2>4. /\ "hostClaim" \notin Guarded /\ "hostClaim" \in Any
        /\ "hostClaim" \notin {"lookup", "try", "cleanup", "prepare", "end", "transfer",
                               "pumpGrant", "grant", "visible", "write"}
    BY SMT DEF Guarded, Any
  <2>5. pc'[th] = "hostClaim" /\ job'[th] = j
    BY <1>0, <2>3, Landing, Zenon
  <2>r. Runs("hostClaim") = Op
    BY <2>4, RunsFacts, Zenon
  <2>6. Owns(th, job[th])' /\ j.op \in Runs("hostClaim")
    BY <1>1, <2>1, <2>5, <2>r, Zenon DEF Owns
  <2>7. Safe(th, pc[th], job[th])'
    BY <2>2, <2>4, <2>5, <2>6, Zenon DEF Safe
  <2>8. KeptLease /\ QueueStep /\ now' = now /\ epoch' = epoch
    BY <1>2, IdleSched, Zenon
  <2>9. LeaseStep(th)
    BY <1>3, <2>8, Zenon DEF LeaseStep
  <2> QED
    BY <1>0, <1>3, <2>3, <2>7, <2>8, <2>9, HaltStep, Zenon
<1> QED
  BY <1>4, <1>5, <1>6

\* Entries leave the queue before a pump.
LEMMA CancelledSafe ==
    ASSUME HaltInv, BookInv', NEW th \in Thread, pc[th] = "idle", order = None,
           NEW op \in {"claim", "leaving"}, Moved(th, "pump", [NoJob EXCEPT !.op = op]),
           (\E out : RemoveQueued(inst, out)) \/ UNCHANGED schedVars,
           admission' = admission, Fine
    PROVE  HaltInv'
<1> DEFINE j == [NoJob EXCEPT !.op = op]
<1>0. fault' = None /\ asked \subseteq asked' /\ GuardHanded(th) /\ pc[th] # "write"
  BY Zenon DEF HaltInv, Fine, GuardHanded
<1>1. op \in Op /\ op \notin OwnOps
  BY SMT DEF Op, OwnOps
<1>2. j.op = op
  BY <1>1, NewJob, Zenon
<1> HIDE DEF j
<1>3. LeaseStep(th) /\ QueueStep /\ now' = now /\ epoch' = epoch
  <2>1. CASE \E out : RemoveQueued(inst, out)
    BY <1>0, <2>1, RemoveSteps, Zenon
  <2>2. CASE UNCHANGED schedVars
    BY <1>0, <2>2, IdleSched, Zenon DEF LeaseStep
  <2> QED
    BY <2>1, <2>2, Zenon
<1>p. "pump" \in Bland /\ "pump" \notin Guarded /\ Runs("pump") = Op
  BY BlandPlaces, RunsFacts, Zenon
<1>4. j.op \in Runs("pump") /\ Owns(th, j)
  BY <1>1, <1>2, <1>p, OwnsNothing, Zenon
<1>5. Moved(th, "pump", j)
  BY DEF j
<1> QED
  BY <1>0, <1>3, <1>4, <1>5, <1>p, BlandStep, Zenon

\* A call on the lease a connection holds carries the lease's token.
LEMMA UsedSafe ==
    ASSUME HaltInv, BookInv', NEW th \in Thread, NEW op \in OwnOps, NEW p \in Bland,
           p \notin Guarded, op \in Runs(p), Use(th, op, p)
    PROVE  HaltInv'
<1> DEFINE t == held.token
           j == [NoJob EXCEPT !.op = op, !.token = t]
<1>1. /\ pc[th] = "idle" /\ held # None /\ t.holder = th /\ Moved(th, p, j)
      /\ UNCHANGED schedVars /\ admission' = admission /\ Fine
  BY Moves, Zenon DEF HaltInv, Use, At, lockVars, held
<1>2. t \in TokenType /\ op \in Op
  BY <1>1, HeldFacts, OpSets, Zenon
<1> HIDE DEF t
<1>3. j.op = op /\ j.token = t
  BY <1>2, NewJob, Zenon
<1> HIDE DEF j
<1>4. /\ Owns(th, j) /\ pc[th] # "write" /\ GuardHanded(th)
      /\ fault' = fault /\ asked \subseteq asked'
  BY <1>1, <1>2, <1>3, Zenon DEF Owns, GuardHanded, Fine
<1> QED
  BY <1>1, <1>3, <1>4, QuietBland, Zenon

LEMMA StartSafe ==
    ASSUME HaltInv, BookInv', NEW th \in Thread, Start(th)
    PROVE  HaltInv'
<1>0. BookInv /\ BookInv'
  BY Zenon DEF HaltInv
<1>1. ASSUME NEW c \in Claim, AwaitOperatorClaim(th, c)
      PROVE  HaltInv'
  <2>1. /\ pc[th] = "idle" /\ order = None /\ admission' = admission /\ Fine
        /\ CancelQueued(c) /\ Moved(th, "pump", [NoJob EXCEPT !.op = "claim"])
    BY <1>0, <1>1, Moves, Zenon DEF AwaitOperatorClaim, At, lockVars
  <2>2. \E out : RemoveQueued(inst, out)
    BY <2>1, OneInstance, Zenon DEF CancelQueued
  <2>3. "claim" \in {"claim", "leaving"}
    OBVIOUS
  <2> QED
    BY <1>0, <2>1, <2>2, <2>3, CancelledSafe, Zenon
<1>2. ASSUME NEW c \in Claim, NEW p \in {"poll", "cancel"}, PollOrCancel(th, c, p)
      PROVE  HaltInv'
  <2> DEFINE flag == c \in contexts
             j == [NoJob EXCEPT !.op = p, !.claim = c, !.flag = flag]
  <2>1. /\ pc[th] = "idle" /\ Moved(th, p, j) /\ UNCHANGED schedVars
        /\ GuardHanded(th) /\ fault' = fault /\ asked \subseteq asked'
    BY <1>0, <1>2, Moves, Zenon DEF PollOrCancel, At, lockVars, Fine, GuardHanded
  <2>2. p \in Op /\ p \notin OwnOps
    BY <1>2, OpSets, Zenon
  <2> HIDE DEF flag
  <2>3. j.op = p
    BY SMT DEF NoJob
  <2> HIDE DEF j
  <2>4. p \in Bland /\ p \notin Guarded /\ p \in Any
    BY <1>2, BlandPlaces, Zenon
  <2>5. p \in Runs(p)
    BY <2>2, <2>4, RunsFacts, Zenon
  <2> QED
    BY <1>0, <2>1, <2>2, <2>3, <2>4, <2>5, BegunSafe, Zenon
<1>3. CASE Use(th, "release", "guard") \/ Use(th, "renew", "renew")
           \/ Use(th, "input", "input")
  <2>1. {"release", "renew", "input"} \subseteq OwnOps /\ OwnOps \subseteq Op
    BY OpSets, Zenon DEF OwnOps
  <2>2. "guard" \in Bland /\ "guard" \notin Guarded /\ "release" \in Runs("guard")
    BY BlandPlaces, RunsFacts, Zenon
  <2>r. "renew" \in Bland /\ "renew" \notin Guarded /\ Runs("renew") = Op
    BY BlandPlaces, RunsFacts, Zenon
  <2>3. "renew" \in Bland /\ "renew" \notin Guarded /\ "renew" \in Runs("renew")
    BY <2>1, <2>r, Zenon
  <2>4. "input" \in Bland /\ "input" \notin Guarded /\ "input" \in Runs("input")
    BY BlandPlaces, RunsFacts, Zenon
  <2> QED
    BY <1>0, <1>3, <2>1, <2>2, <2>3, <2>4, UsedSafe, Zenon
<1>4. CASE Disconnect(th)
  <2>1. /\ pc[th] = "idle" /\ order = None /\ admission' = admission /\ Fine
        /\ Moved(th, "pump", [NoJob EXCEPT !.op = "leaving"])
    BY <1>0, <1>4, Moves, Zenon DEF Disconnect, At, lockVars
  <2>2. (\E out : RemoveQueued(inst, out)) \/ UNCHANGED schedVars
    BY <1>4, Zenon DEF Disconnect, RemoveForConnection
  <2>3. "leaving" \in {"claim", "leaving"}
    OBVIOUS
  <2> QED
    BY <1>0, <2>1, <2>2, <2>3, CancelledSafe, Zenon
<1> QED
  BY <1>0, <1>1, <1>2, <1>3, <1>4, AsksSafe, Zenon DEF Start

\* The sweep looks a due token up and tries the guard for it.
LEMMA LookingSafe ==
    ASSUME NEW th, NEW p \in {"lookup", "try"}, NEW j, pc'[th] = p, job'[th] = j,
           j.op = "sweep", j.token \in TokenType, j.token.expires <= now'
    PROVE  Safe(th, pc[th], job[th])'
<1>1. p \notin Guarded /\ p # "end"
      /\ p \notin {"cleanup", "prepare", "end", "transfer", "pumpGrant", "grant",
                   "hostClaim", "visible", "write"}
  BY SMT DEF Guarded
<1>2. "sweep" \notin OwnOps /\ "sweep" # "release"
  BY SMT DEF OwnOps
<1>3. j.op \in Runs(p)
  BY RunsFacts, Zenon
<1>4. Owns(th, job[th])'
  BY <1>2, Zenon DEF Owns
<1> QED
  BY <1>1, <1>3, <1>4, Zenon DEF Safe

LEMMA SweepSafe ==
    ASSUME HaltInv, BookInv', SweepStart \/ SweepStep
    PROVE  HaltInv'
<1> DEFINE j == job[Sweep]
<1>0. /\ BookInv /\ BookInv' /\ Sweep \in Thread /\ SchedTypes /\ fault = None
      /\ Sweep # None
  BY Threads, Zenon DEF HaltInv, BookInv
<1>o. /\ j.op \in Op /\ Owns(Sweep, j) /\ j \in JobType /\ j.op \in Runs(pc[Sweep])
  BY <1>0, SafeAt, Moves, JobFields, Zenon DEF Safe
<1>1. "sweep" \in Op /\ "sweep" \notin OwnOps /\ "sweep" \in ExpireOps /\ "sweep" # "release"
  BY SMT DEF Op, OwnOps, ExpireOps
<1>p. "pump" \in Bland /\ "pump" \notin Guarded /\ Runs("pump") = Op
  BY BlandPlaces, RunsFacts, Zenon
<1>s. \A p \in {"lapse", "scan", "lookup", "try"} : pc[Sweep] = p => j.op = "sweep"
  <2>1. \A p \in {"lapse", "scan", "lookup", "try"} : Runs(p) = {"sweep"}
    BY RunsFacts, Zenon
  <2> QED
    BY <1>o, <2>1
<1>u. ASSUME pc[Sweep] \in {"rest", "lapse", "scan", "lookup", "try"},
             UNCHANGED schedVars, Fine
      PROVE  /\ pc[Sweep] # "write" /\ fault' = None /\ fault' = fault
             /\ asked \subseteq asked'
             /\ KeptLease /\ QueueStep /\ now' = now /\ epoch' = epoch /\ LeaseStep(Sweep)
  <2>1. pc[Sweep] # "write"
    BY <1>u, SMT
  <2> QED
    BY <1>0, <1>u, <2>1, IdleSched, Zenon DEF Fine, LeaseStep
<1>2. CASE SweepStart
  <2> DEFINE k == [NoJob EXCEPT !.op = "sweep"]
  <2>1. /\ pc[Sweep] = "rest" /\ Moved(Sweep, "lapse", k) /\ Fine /\ UNCHANGED schedVars
        /\ GuardHanded(Sweep)
    BY <1>0, <1>2, Moves, Zenon DEF SweepStart, At, lockVars, GuardHanded
  <2>2. k.op = "sweep"
    BY <1>1, NewJob, Zenon
  <2> HIDE DEF k
  <2>3. "lapse" \in Bland /\ "lapse" \notin Guarded /\ Runs("lapse") = {"sweep"}
    BY BlandPlaces, RunsFacts, Zenon
  <2>4. k.op \in Runs("lapse") /\ Owns(Sweep, k)
    BY <1>1, <2>2, <2>3, OwnsNothing, Zenon
  <2> QED
    BY <1>0, <1>u, <2>1, <2>3, <2>4, QuietBland, Zenon
<1>3. CASE SweepExpire
  <2>1. /\ pc[Sweep] = "lapse" /\ order = None /\ ExpireQueued /\ Moved(Sweep, "scan", j)
        /\ GuardHanded(Sweep) /\ asked' = asked /\ fault' = None
    BY <1>0, <1>3, Moves, Zenon DEF SweepExpire, At, lockVars, Fine, GuardHanded
  <2>2. pc[Sweep] # "write"
    BY <2>1, SMT
  <2>3. /\ LeaseStep(Sweep) /\ QueueStep /\ now' = now /\ epoch' = epoch
        /\ asked \subseteq asked'
    BY <1>0, <2>1, <2>2, ExpireSteps, Zenon
  <2>4. "scan" \in Bland /\ "scan" \notin Guarded /\ Runs("scan") = {"sweep"}
    BY BlandPlaces, RunsFacts, Zenon
  <2>5. j.op \in Runs("scan")
    BY <1>s, <2>1, <2>4, Zenon
  <2> QED
    BY <1>0, <1>o, <2>1, <2>3, <2>4, <2>5, BlandStep, Zenon
<1>4. CASE SweepScan
  <2>1. /\ pc[Sweep] = "scan" /\ UNCHANGED schedVars /\ Fine /\ GuardHanded(Sweep)
    BY <1>4, Zenon DEF SweepScan, At, lockVars, GuardHanded
  <2>2. ASSUME NEW t \in Due, Go(Sweep, "lookup"), Carry(Sweep, [j EXCEPT !.token = t])
        PROVE  HaltInv'
    <3> DEFINE k == [j EXCEPT !.token = t]
    <3>1. t \in TokenType /\ t.expires <= now
      BY <1>0, DueFacts, Zenon
    <3>2. Moved(Sweep, "lookup", k)
      BY <1>0, <2>2, Moves, Zenon
    <3>3. k.op = j.op /\ k.token = t
      BY <1>o, <3>1, TokenEdit, Zenon
    <3> HIDE DEF k
    <3>4. pc'[Sweep] = "lookup" /\ job'[Sweep] = k
      BY <1>0, <3>2, Landing, Zenon
    <3>5. k.op = "sweep" /\ k.token.expires <= now' /\ k.token \in TokenType
      BY <1>s, <1>u, <2>1, <3>1, <3>3, Zenon
    <3>6. Safe(Sweep, pc[Sweep], job[Sweep])'
      BY <3>4, <3>5, LookingSafe, Zenon
    <3> QED
      BY <1>0, <1>u, <2>1, <3>2, <3>6, HaltStep, Zenon
  <2>3. ASSUME Go(Sweep, "pump"), job' = job
        PROVE  HaltInv'
    <3>1. Moved(Sweep, "pump", j)
      BY <1>0, <2>3, Moves, Zenon
    <3> QED
      BY <1>0, <1>o, <1>p, <1>u, <2>1, <3>1, QuietBland, Zenon
  <2> QED
    BY <1>4, <2>2, <2>3, Zenon DEF SweepScan
<1>5. CASE SweepLookup
  <2>1. /\ pc[Sweep] = "lookup" /\ UNCHANGED schedVars /\ Fine /\ GuardHanded(Sweep)
        /\ admission' = admission
    BY <1>5, Zenon DEF SweepLookup, At, lockVars, GuardHanded
  <2>2. ASSUME Go(Sweep, "try"), job' = job
        PROVE  HaltInv'
    <3>1. Moved(Sweep, "try", j)
      BY <1>0, <2>2, Moves, Zenon
    <3>2. j.op = "sweep" /\ pc'[Sweep] = "try" /\ job'[Sweep] = j
      BY <1>0, <1>s, <2>1, <3>1, Landing, Zenon
    <3>3. j.token \in TokenType /\ j.token.expires <= now'
      BY <1>0, <1>1, <1>u, <2>1, <3>2, SafeAt, Zenon DEF Safe
    <3>4. Safe(Sweep, pc[Sweep], job[Sweep])'
      BY <3>2, <3>3, LookingSafe, Zenon
    <3> QED
      BY <1>0, <1>u, <2>1, <3>1, <3>4, HaltStep, Zenon
  <2>3. ASSUME Go(Sweep, "dead"), Carry(Sweep, NoJob)
        PROVE  HaltInv'
    BY <1>0, <1>u, <2>1, <2>3, RefusedSafe, Zenon
  <2> QED
    BY <1>5, <2>2, <2>3, Zenon DEF SweepLookup
<1>6. CASE SweepTry
  <2>1. pc[Sweep] = "try" /\ UNCHANGED schedVars /\ Fine /\ job' = job
    BY <1>6, Zenon DEF SweepTry, At
  <2>2. ASSUME Go(Sweep, "pump"), admission' = admission
        PROVE  HaltInv'
    <3>1. Moved(Sweep, "pump", j) /\ GuardHanded(Sweep)
      BY <1>0, <2>1, <2>2, Moves, Zenon DEF GuardHanded
    <3> QED
      BY <1>0, <1>o, <1>p, <1>u, <2>1, <3>1, QuietBland, Zenon
  <2>3. ASSUME Go(Sweep, "cleanup"), admission = None, admission' = Sweep
        PROVE  HaltInv'
    <3>1. Moved(Sweep, "cleanup", j) /\ GuardHanded(Sweep)
      BY <1>0, <2>1, <2>3, Moves, Zenon DEF GuardHanded
    <3>2. j.op = "sweep" /\ pc'[Sweep] = "cleanup" /\ job'[Sweep] = j
      BY <1>0, <1>s, <2>1, <3>1, Landing, Zenon
    <3>3. j.token \in TokenType /\ j.token.expires <= now'
      BY <1>0, <1>1, <1>u, <2>1, <3>2, SafeAt, Zenon DEF Safe
    <3>4. "cleanup" # "end" /\ j.op # "release" /\ j.op \in ExpireOps \cup (OwnOps \ {"renew"})
      BY <1>1, <3>2, Zenon
    <3>5. Safe(Sweep, pc[Sweep], job[Sweep])'
      BY <1>o, <2>3, <3>2, <3>3, <3>4, CleanupSafe, Zenon
    <3> QED
      BY <1>0, <1>u, <2>1, <3>1, <3>5, HaltStep, Zenon
  <2> QED
    BY <1>6, <2>2, <2>3, Zenon DEF SweepTry
<1> QED
  BY <1>2, <1>3, <1>4, <1>5, <1>6, Zenon DEF SweepStep

\* The clock leaves what is due due, and waits for a prepared grant or transfer.
LEMMA TimeSafe ==
    ASSUME HaltInv, BookInv', now' \in {now, now + 1},
           UNCHANGED <<epoch, lease, queue, locations, nextArrival>>,
           UNCHANGED <<admission, pc, job, asked, fault>>,
           \A th \in Thread : pc[th] \in {"pumpGrant", "grant", "transfer"} =>
               job[th].prep.token.expires > now'
    PROVE  HaltInv'
<1>0. BookInv /\ SchedTypes /\ fault' = None
  BY Zenon DEF HaltInv, BookInv
<1>1. /\ now' \in {now, now + 1}
      /\ UNCHANGED <<epoch, lease, queue, locations, nextArrival>>
      /\ UNCHANGED <<admission, pc, job, asked>>
  BY Zenon
<1>2. held' = held /\ queue'[inst] = queue[inst]
  BY <1>1, Zenon DEF held
<1>3. LeaseSound' /\ ArrivalsSound'
  <2>1. LeaseSound /\ ArrivalsSound
    BY Zenon DEF HaltInv
  <2>2. LeaseSound'
    <3>2. \A e : Preempts(e, held)' <=> Preempts(e, held)
      BY <1>1, <1>2, Zenon DEF Preempts, MayPreempt
    <3> QED
      BY <1>1, <1>2, <2>1, <3>2, Zenon DEF LeaseSound
  <2> QED
    BY <1>1, <2>1, <2>2, Zenon DEF ArrivalsSound
<1>4. now \in Nat /\ \A n \in Nat : n <= now => n <= now'
  BY <1>0, <1>1, SMT DEF SchedTypes
<1>5. ASSUME NEW th \in Thread
      PROVE  Safe(th, pc[th], job[th])'
  <2> DEFINE p == pc[th]  j == job[th]
  <2>0. Safe(th, p, j)
    BY SafeAt, Zenon
  <2>a. Owns(th, j)
    BY SafeAt, Zenon
  <2>1. /\ p \in Guarded => admission' = th
        /\ j.op \in Runs(p)
        /\ p \in {"cleanup", "prepare", "end"} /\ j.op = "release" =>
              held' # None /\ held'.token = j.token
        /\ p = "hostClaim" => ~j.flag
        /\ p = "visible" /\ j.flag => held' # None /\ held'.preempt
    BY <1>1, <1>2, <2>0, Zenon DEF Safe
  <2>2. ASSUME p \in {"lookup", "try", "cleanup", "prepare", "end", "transfer"},
               j.op \in ExpireOps
        PROVE  /\ j.token \in TokenType /\ j.token.expires <= now'
               /\ p = "end" /\ held' # None /\ held'.token = j.token => held'.step = None
    <3>1. /\ j.token \in TokenType /\ j.token.expires <= now
          /\ p = "end" /\ held # None /\ held.token = j.token => held.step = None
      BY <2>0, <2>2, Zenon DEF Safe
    <3>2. j.token.expires \in Nat
      BY <3>1, Zenon DEF TokenType
    <3> QED
      BY <1>2, <1>4, <3>1, <3>2, Zenon
  <2>3. ASSUME p \in {"pumpGrant", "grant", "transfer"}
        PROVE  j.prep.token.expires > now'
    BY <1>1, <2>3, Zenon
  <2>4. ASSUME p \in {"pumpGrant", "grant"}
        PROVE  /\ held' = None
               /\ j.prep.claim \in asked'
               /\ j.prep.token.epoch = epoch'
               /\ j.prep.token.holder = j.prep.claim.holder
               /\ j.prep.token.expires > now'
    <3>1. /\ held = None
          /\ j.prep.claim \in asked
          /\ j.prep.token.epoch = epoch
          /\ j.prep.token.holder = j.prep.claim.holder
      BY <2>0, <2>4, Zenon DEF Safe
    <3> QED
      BY <1>1, <1>2, <2>3, <2>4, <3>1, Zenon
  <2>5. ASSUME p = "pumpGrant"
        PROVE  \E e \in queue'[inst] : e.claim = j.prep.claim
    BY <1>2, <2>0, <2>5, Zenon DEF Safe
  <2>6. ASSUME p = "transfer"
        PROVE  /\ held' = j.prep.from
               /\ held'.step = None
               /\ held'.token.holder = th \/ held'.token.expires <= now' \/ held'.preempt
               /\ j.prep.entry \in queue'[inst]
               /\ j.prep.token.epoch = epoch'
               /\ j.prep.token.holder = j.prep.entry.claim.holder
               /\ j.prep.token.expires > now'
    <3>1. /\ held = j.prep.from
          /\ held.step = None
          /\ held.token.holder = th \/ held.token.expires <= now \/ held.preempt
          /\ j.prep.entry \in queue[inst]
          /\ j.prep.token.epoch = epoch
          /\ j.prep.token.holder = j.prep.entry.claim.holder
      BY <2>0, <2>6, Zenon DEF Safe, Unwritable
    <3>2. held \in LeaseType
      <4>1. j.prep \in TransferType
        BY <1>0, <2>6, Zenon DEF BookInv, Placed
      <4>2. j.prep.from \in LeaseType
        BY <4>1, Zenon DEF TransferType
      <4> QED
        BY <3>1, <4>2, Zenon
    <3>3. held.token.expires \in Nat
      BY <3>2, Zenon DEF LeaseType, TokenType
    <3>4. held.token.expires <= now => held.token.expires <= now'
      BY <1>4, <3>3, Zenon
    <3> QED
      BY <1>1, <1>2, <2>3, <2>6, <3>1, <3>4, Zenon
  <2>7. ASSUME p = "write"
        PROVE  /\ held' # None /\ held'.token = j.token /\ j.token.holder = th
               /\ held'.step # None
               /\ j.step = [token |-> j.token, holder |-> th, step |-> held'.step]
    BY <1>2, <2>0, <2>7, Zenon DEF Safe
  <2>8. pc'[th] = p /\ job'[th] = j
    BY <1>1, Zenon
  <2> HIDE DEF p, j
  <2> QED
    BY <2>a, <2>1, <2>2, <2>4, <2>5, <2>6, <2>7, <2>8, Zenon DEF Safe, Unwritable, Owns
<1> QED
  BY <1>0, <1>3, <1>5, Zenon DEF HaltInv

LEMMA TickSafe ==
    ASSUME HaltInv, BookInv', HostTick
    PROVE  HaltInv'
<1>0. BookInv' /\ SchedTypes
  BY Zenon DEF HaltInv, BookInv
<1>1. now' = now + 1 /\ UNCHANGED <<epoch, lease, queue, locations, nextArrival>>
  BY <1>0, TickCall, Zenon DEF HostTick
<1>2. /\ UNCHANGED <<admission, pc, job, asked, fault>>
      /\ \A th \in Thread : pc[th] \in {"pumpGrant", "grant", "transfer"} =>
            job[th].prep.token.expires > now + 1
  BY Zenon DEF HostTick, lockVars, threadVars
<1> QED
  BY <1>0, <1>1, <1>2, TimeSafe, Zenon

LEMMA StillSafe ==
    ASSUME HaltInv, BookInv', UNCHANGED vars
    PROVE  HaltInv'
<1>1. /\ UNCHANGED <<now, epoch, lease, queue, locations, nextArrival>>
      /\ UNCHANGED <<admission, pc, job, asked, fault>>
  BY Zenon DEF vars, schedVars, lockVars, threadVars
<1>2. \A th \in Thread : pc[th] \in {"pumpGrant", "grant", "transfer"} =>
          job[th].prep.token.expires > now'
  <2>1. now' = now
    BY <1>1, Zenon
  <2> QED
    BY <2>1, SafeAt, Zenon DEF Safe
<1> QED
  BY <1>1, <1>2, TimeSafe, Zenon

-----------------------------------------------------------------------------
\* The head of the queue.

\* The claims of a prudent setting.
LEMMA PrudentClaims ==
    ASSUME HaltInv, Prudent, NEW c \in asked
    PROVE  /\ c \in Claim /\ c.priority \in 0..1
           /\ c.priority = 1 => c.kind = "ClientLease"
           /\ c.kind \notin HolderOwned
           /\ \A d \in asked : FALSE \in Capacity /\ c.kind = "ClientLease" =>
                 c.priority <= d.priority
<1>1. Books /\ asked \subseteq Claim
  BY SettingClaims, Zenon DEF HaltInv, BookInv
<1>2. asked \subseteq setting.claims /\ setting \in Setting
  BY <1>1, Zenon DEF Books
<1>3. /\ c.kind # "ClientLease" => c.priority = 0 /\ c.kind \notin HolderOwned
      /\ \A d \in asked : FALSE \in Capacity /\ c.kind = "ClientLease" =>
            c.priority <= d.priority
  BY <1>2, Zenon DEF Prudent, PrudentSetting, Capacity
<1>4. c \in Claim /\ c.priority \in 0..1
  BY <1>1, ConfigFacts, Zenon
<1>5. "ClientLease" \notin HolderOwned /\ 0 # 1
  BY SMT DEF HolderOwned
<1> QED
  BY <1>3, <1>4, <1>5, Zenon

\* A client of high priority in the queue of a lease of normal priority is behind
\* clients of high priority only, and so the head of the queue preempts.
LEMMA HeadPreempts ==
    ASSUME HaltInv, Prudent, WellOrdered, NEW q, NEW l,
           \A e \in q : e.claim \in asked /\ e.arrival \in Nat,
           \A e, f \in q : e.arrival = f.arrival => e = f,
           NEW g \in q, g.claim.priority = 1, l.claim.priority = 0
    PROVE  Wanted(q, l)
<1> DEFINE High == {e \in q : e.claim.priority = 1}
           T == {e.arrival : e \in High}
<1>1. T \in SUBSET Nat /\ T # {}
  BY Zenon
<1>2. PICK n \in T : \A k \in T : n <= k
  BY <1>1, Zenon DEF WellOrdered
<1>3. PICK e \in High : e.arrival = n
  BY <1>2, Zenon
<1>4. \A f \in High : e.arrival <= f.arrival
  BY <1>2, <1>3, Zenon
<1>5. \A f \in q : f.claim.kind \notin HolderOwned /\ f.claim.priority \in 0..1
  BY PrudentClaims, Zenon
<1>6. \A f \in q : Rank(f) = 1
  BY <1>5, Zenon DEF Rank
<1>7. ASSUME NEW f \in q \ {e}
      PROVE  Before(e, f)
  <2>1. e \in q /\ e.claim.priority = 1 /\ Rank(e) = Rank(f)
    BY <1>6, Zenon
  <2>2. CASE f.claim.priority = 1
    <3>1. e.arrival <= f.arrival /\ e.arrival # f.arrival
      BY <1>4, <2>1, <2>2, Zenon
    <3>2. e.arrival \in Nat /\ f.arrival \in Nat
      BY <2>1, Zenon
    <3>3. e.arrival < f.arrival
      BY <3>1, <3>2, SMT
    <3> QED
      BY <2>1, <2>2, <3>3, Zenon DEF Before
  <2>3. CASE f.claim.priority = 0
    <3>1. e.claim.priority > f.claim.priority
      BY <2>1, <2>3, SMT
    <3> QED
      BY <2>1, <3>1, Zenon DEF Before
  <2>4. f.claim.priority \in 0..1
    BY <1>5, Zenon
  <2>5. f.claim.priority = 0 \/ f.claim.priority = 1
    BY <2>4, SMT
  <2> QED
    BY <2>2, <2>3, <2>5, Zenon
<1>8. IsFirst(e, q)
  BY <1>7, Zenon DEF IsFirst
<1>9. e \in q /\ e.claim.kind = "ClientLease"
  BY PrudentClaims, Zenon
<1>10. e.claim.priority > l.claim.priority
  <2>1. e.claim.priority = 1
    BY Zenon
  <2> QED
    BY <2>1, SMT
<1>11. Preempts(e, l)
  BY <1>9, <1>10, Zenon DEF Preempts, MayPreempt
<1> QED
  BY <1>8, <1>9, <1>11, Zenon DEF Wanted

\* A preemption is prepared.
LEMMA PreemptPrepared ==
    ASSUME HaltInv, BookInv', NEW th \in Thread, pc[th] # "write", NEW t, Current(t),
           held.step = None, Unwritable(th, held), NEW e \in queue[inst], PrepareToken,
           Go(th, "transfer"),
           Carry(th, [job[th] EXCEPT !.prep = PreparedTransfer(t, e, None, FALSE)]),
           admission = th, admission' = admission, asked' = asked, fault' = None,
           job[th].op \in OwnOps \cup {"promote"}
    PROVE  HaltInv'
<1>0. BookInv /\ SchedTypes /\ job[th] \in JobType /\ Owns(th, job[th])
  BY SafeAt, Moves, Zenon DEF HaltInv, BookInv
<1> DEFINE prep == PreparedTransfer(t, e, None, FALSE)
           k == [job[th] EXCEPT !.prep = prep]
<1>1. t.instance = inst /\ lease[t.instance] \in LeaseType /\ None \in Nat \cup {None}
  BY <1>0, CurrentFacts, Zenon
<1>2. prep \in TransferType
  BY <1>0, <1>1, Entries, PreparedTransfers, Zenon
<1>3. Moved(th, "transfer", k)
  BY <1>0, Moves, Zenon
<1> HIDE DEF prep
<1>p. prep \in GrantType \cup TransferType \cup {None}
  BY <1>2, Zenon
<1>4. k \in JobType /\ k.prep = prep /\ k.op = job[th].op /\ k.token = job[th].token
  BY <1>0, <1>p, PrepEdit, Zenon
<1> HIDE DEF k
<1>5. pc'[th] = "transfer" /\ job'[th] = k
  BY <1>0, <1>3, Landing, Zenon
<1>6. k.prep = PreparedTransfer(t, e, None, FALSE)
  BY <1>4 DEF prep
<1>7. UNCHANGED <<now, epoch, lease, queue, locations, nextArrival>>
  BY <1>0, PrepareCall, Zenon
<1>8. k.op \in ExpireOps \cup OwnOps \cup {"promote"} /\ k.op \notin ExpireOps
  BY <1>4, OpSets, Zenon
<1>9. Owns(th, k) /\ admission' = th /\ GuardHanded(th)
  BY <1>0, <1>4, Zenon DEF Owns, GuardHanded
<1>10. UNCHANGED <<now, epoch, lease, queue>>
  BY <1>7, Zenon
<1>11. Safe(th, pc[th], job[th])'
  BY <1>1, <1>4, <1>5, <1>6, <1>8, <1>9, <1>10, TransferSafe, Zenon
<1>12. KeptLease /\ QueueStep
  BY <1>7, KeptCall, Zenon
<1>13. LeaseStep(th)
  BY <1>12, Zenon DEF LeaseStep
<1> QED
  BY <1>3, <1>7, <1>9, <1>11, <1>12, <1>13, HaltStep, Zenon

-----------------------------------------------------------------------------
\* Calls on a held lease.

\* The caller of a valid write holds the lease.
LEMMA ValidHolds ==
    ASSUME HaltInv, NEW th, NEW t, ActiveLease(t, th)
    PROVE  /\ held # None /\ held.token = t /\ held.token.holder = th
           /\ t.holder = th /\ t \in TokenType /\ t.instance = inst
<1>1. HeldBy(t, th) /\ Current(t)
  BY Zenon DEF ActiveLease, HeldBy
<1>2. /\ held # None /\ held.token = t /\ t \in TokenType /\ t.instance = inst
      /\ held.claim.holder = t.holder
  BY <1>1, CurrentHeld, Zenon
<1> QED
  BY <1>1, <1>2, Zenon DEF HeldBy, held

LEMMA GuardSafe ==
    ASSUME HaltInv, BookInv', NEW th \in Thread,
           EnterGuard(th) \/ RenewEnter(th) \/ RenewCommit(th) \/ InputEnter(th)
    PROVE  HaltInv'
<1>0. BookInv /\ SchedTypes /\ fault = None
  BY Zenon DEF HaltInv, BookInv
<1>o. /\ job[th].op \in Op /\ Owns(th, job[th]) /\ job[th] \in JobType
      /\ job[th].op \in Runs(pc[th]) /\ (pc[th] \in Guarded => admission = th)
  BY <1>0, SafeAt, Moves, JobFields, Zenon DEF Safe
<1>1. CASE EnterGuard(th)
  <2> DEFINE j == job[th]
  <2>1. /\ pc[th] = "guard" /\ admission = None /\ UNCHANGED schedVars /\ job' = job
        /\ asked' = asked /\ fault' = fault
    BY <1>1, Zenon DEF EnterGuard, At, Fine
  <2>2. j.op \in {"release", "finish", "failure", "part"} /\ pc[th] # "write"
    BY <1>o, <2>1, RunsFacts, Zenon
  <2>3. ASSUME Go(th, "pump"), admission' = admission
        PROVE  HaltInv'
    <3>1. Moved(th, "pump", j) /\ GuardHanded(th)
      BY <1>0, <2>1, <2>3, Moves, Zenon DEF GuardHanded
    <3>2. "pump" \in Bland /\ "pump" \notin Guarded /\ j.op \in Runs("pump")
      BY <1>o, BlandPlaces, RunsFacts, Zenon
    <3> QED
      BY <1>o, <2>1, <2>2, <3>1, <3>2, QuietBland, Zenon
  <2>4. ASSUME j.op = "finish", Go(th, "boundary"), admission' = th
        PROVE  HaltInv'
    <3>1. Moved(th, "boundary", j) /\ GuardHanded(th)
      BY <1>0, <2>1, <2>4, Moves, Zenon DEF GuardHanded
    <3>2. "boundary" \in Bland /\ j.op \in Runs("boundary")
      BY <2>4, BlandPlaces, RunsFacts, Zenon
    <3> QED
      BY <1>o, <2>1, <2>2, <2>4, <3>1, <3>2, QuietBland, Zenon
  <2>5. ASSUME j.op = "release" => ValidWrite(j.token, th),
               Go(th, "cleanup"), admission' = th
        PROVE  HaltInv'
    <3>1. Moved(th, "cleanup", j) /\ GuardHanded(th)
      BY <1>0, <2>1, <2>5, Moves, Zenon DEF GuardHanded
    <3>2. KeptLease /\ QueueStep /\ now' = now /\ epoch' = epoch
      BY <2>1, IdleSched, Zenon
    <3>3. LeaseStep(th) /\ held' = held /\ asked \subseteq asked'
      BY <2>1, <2>2, <3>2, Zenon DEF LeaseStep, KeptLease
    <3>4. j.op = "release" => held' # None /\ held'.token = j.token
      BY <2>5, <3>3, ValidHolds, Zenon DEF ValidWrite, ValidLease
    <3>5. j.op \in ExpireOps \cup (OwnOps \ {"renew"}) /\ j.op \notin ExpireOps
      BY <2>2, SMT DEF ExpireOps, OwnOps
    <3>6. pc'[th] = "cleanup" /\ job'[th] = j
      BY <1>0, <3>1, Landing, Zenon
    <3>7. Safe(th, pc[th], job[th])'
      BY <1>o, <2>5, <3>4, <3>5, <3>6, CleanupSafe, Zenon
    <3> QED
      BY <1>0, <2>1, <3>1, <3>2, <3>3, <3>7, HaltStep, Zenon
  <2> QED
    BY <1>1, <2>3, <2>4, <2>5, Zenon DEF EnterGuard
<1>2. CASE RenewEnter(th)
  <2>1. /\ pc[th] = "renew" /\ UNCHANGED schedVars /\ GuardHanded(th) /\ admission' = th
        /\ fault' = fault /\ asked' = asked /\ Moved(th, "renewing", job[th])
    BY <1>0, <1>2, Moves, Zenon DEF RenewEnter, At, Fine, GuardHanded
  <2>2. "renewing" \in Bland /\ job[th].op \in Runs("renewing") /\ "renew" # "write"
    BY <1>o, BlandPlaces, RunsFacts, Zenon
  <2> QED
    BY <1>o, <2>1, <2>2, QuietBland, Zenon
<1>3. CASE RenewCommit(th)
  <2> DEFINE t == job[th].token
  <2>1. pc[th] = "renewing" /\ LeavePlain(th) /\ fault' = None /\ asked' = asked
    BY <1>0, <1>3, Zenon DEF RenewCommit, At, Fine
  <2>2. Unlock(th) /\ Moved(th, "idle", NoJob) /\ GuardHanded(th)
    BY <1>0, <2>1, Moves, UnlockHands, Zenon DEF LeavePlain
  <2>3. pc[th] # "write" /\ admission = th
    <3>1. "renewing" # "write" /\ "renewing" \in Guarded
      BY SMT DEF Guarded
    <3> QED
      BY <1>o, <2>1, <3>1, Zenon
  <2>4. ASSUME Renew(t, th, 0)
        PROVE  LeaseStep(th) /\ QueueStep /\ now' = now /\ epoch' = epoch
    <3>1. /\ ActiveLease(t, th)
          /\ lease'[inst] \in LeaseType
          /\ lease'[inst].token = RenewedToken(t, LeaseTtl)
          /\ RenewedToken(t, LeaseTtl).id = t.id
          /\ RenewedToken(t, LeaseTtl).epoch = t.epoch
          /\ RenewedToken(t, LeaseTtl).holder = t.holder
          /\ lease'[inst].claim = lease[inst].claim
          /\ lease'[inst].step = lease[inst].step
          /\ lease'[inst].preempt = lease[inst].preempt
          /\ UNCHANGED <<now, epoch, queue, locations, nextArrival>>
      BY <1>0, <2>4, RenewCall, Zenon
    <3>2. held # None /\ held.token = t /\ held.token.holder = th
      BY <3>1, ValidHolds, Zenon
    <3>3. held' # None
      <4>1. None \notin LeaseType
        BY NoneAssumption
      <4> QED
        BY <3>1, <4>1, Zenon DEF held
    <3>4. /\ held'.token.epoch = held.token.epoch /\ held'.token.id = held.token.id
          /\ held'.token.holder = th
      BY <3>1, <3>2, Zenon DEF held
    <3>5. Renewed(th)
      BY <2>3, <3>1, <3>2, <3>3, <3>4, Zenon DEF Renewed, held
    <3> QED
      BY <2>3, <3>1, <3>5, Zenon DEF LeaseStep, QueueStep
  <2>5. ASSUME UNCHANGED schedVars
        PROVE  LeaseStep(th) /\ QueueStep /\ now' = now /\ epoch' = epoch
    BY <2>3, <2>5, IdleSched, Zenon DEF LeaseStep
  <2>6. LeaseStep(th) /\ QueueStep /\ now' = now /\ epoch' = epoch
    BY <1>3, <2>4, <2>5, Zenon DEF RenewCommit
  <2>7. "idle" \in Bland /\ "idle" \notin Guarded /\ NoJob.op \in Runs("idle")
        /\ Owns(th, NoJob) /\ asked \subseteq asked'
    BY <2>1, Nothing, Zenon
  <2> QED
    BY <2>1, <2>2, <2>6, <2>7, BlandStep, Zenon
<1>4. CASE InputEnter(th)
  <2>1. pc[th] = "input" /\ admission = None /\ UNCHANGED schedVars /\ Fine
    BY <1>4, Zenon DEF InputEnter, At
  <2>2. job[th].op = "input" /\ pc[th] # "write"
    BY <1>o, <2>1, RunsFacts, Zenon
  <2>3. ASSUME admission' = th, Go(th, "boundary"), job' = job
        PROVE  HaltInv'
    <3>1. /\ Moved(th, "boundary", job[th]) /\ GuardHanded(th)
          /\ fault' = fault /\ asked' = asked
      BY <1>0, <2>1, <2>3, Moves, Zenon DEF GuardHanded, Fine
    <3>2. "boundary" \in Bland /\ job[th].op \in Runs("boundary")
      BY <2>2, BlandPlaces, RunsFacts, Zenon
    <3> QED
      BY <1>o, <2>1, <2>2, <2>3, <3>1, <3>2, QuietBland, Zenon
  <2>4. ASSUME admission' = admission, Go(th, "idle"), Carry(th, NoJob)
        PROVE  HaltInv'
    BY <2>1, <2>2, <2>4, RefusedSafe, Zenon
  <2> QED
    BY <1>4, <2>3, <2>4, Zenon DEF InputEnter
<1> QED
  BY <1>1, <1>2, <1>3, <1>4

LEMMA PreemptSafe ==
    ASSUME HaltInv, BookInv', NEW th \in Thread, Boundary(th) \/ Preempt(th)
    PROVE  HaltInv'
<1>0. BookInv /\ SchedTypes /\ fault = None
  BY Zenon DEF HaltInv, BookInv
<1>o. /\ job[th].op \in Op /\ Owns(th, job[th]) /\ job[th] \in JobType
      /\ job[th].op \in Runs(pc[th]) /\ (pc[th] \in Guarded => admission = th)
  BY <1>0, SafeAt, Moves, JobFields, Zenon DEF Safe
<1>p. ASSUME pc[th] \in {"boundary", "preempt"}
      PROVE  /\ job[th].op \in {"input", "finish"} /\ pc[th] # "write"
             /\ admission = th /\ job[th].op \in OwnOps
  <2>1. pc[th] \in Guarded /\ pc[th] # "write"
    BY <1>p, SMT DEF Guarded
  <2>2. job[th].op \in {"input", "finish"}
    BY <1>o, <1>p, RunsFacts, Zenon
  <2>3. job[th].op \in OwnOps
    BY <2>2, SMT DEF OwnOps
  <2> QED
    BY <1>o, <2>1, <2>2, <2>3, Zenon
<1>1. CASE Boundary(th)
  <2>1. /\ pc[th] = "boundary" /\ order = None /\ ExpireQueued /\ fault' = None
        /\ asked' = asked /\ admission' = admission /\ Moved(th, "preempt", job[th])
    BY <1>0, <1>1, Moves, Zenon DEF Boundary, At, lockVars, Fine
  <2>2. /\ job[th].op \in {"input", "finish"} /\ pc[th] # "write" /\ admission = th
        /\ GuardHanded(th) /\ admission' = th
    BY <1>p, <2>1, Zenon DEF GuardHanded
  <2>3. /\ LeaseStep(th) /\ QueueStep /\ now' = now /\ epoch' = epoch
        /\ asked \subseteq asked'
    BY <2>1, <2>2, ExpireSteps, Zenon
  <2>4. "preempt" \in Bland /\ job[th].op \in Runs("preempt")
    BY <2>2, BlandPlaces, RunsFacts, Zenon
  <2> QED
    BY <1>o, <2>1, <2>2, <2>3, <2>4, BlandStep, Zenon
<1>2. CASE Preempt(th)
  <2> DEFINE j == job[th]
             t == j.token
             ready == {e \in queue[inst] : TransferCandidate(t, th, Open, e, TRUE)}
  <2>1. pc[th] = "preempt" /\ order = None
    BY <1>2, Zenon DEF Preempt, At
  <2>2. /\ j.op \in {"input", "finish"} /\ pc[th] # "write" /\ admission = th
        /\ j.op \in OwnOps /\ t.holder = th
    BY <1>o, <1>p, <2>1, Zenon DEF Owns
  <2>3. ASSUME NEW e \in ready, NEW capacity \in Capacity, PrepareToken,
               IF capacity
               THEN /\ order' = th
                    /\ Go(th, "transfer")
                    /\ Carry(th, [j EXCEPT !.prep =
                                      PreparedTransfer(t, e, None, FALSE)])
               ELSE Go(th, "cleanup") /\ UNCHANGED <<order, job>>,
               admission' = admission, Fine
        PROVE  HaltInv'
    <3>1. Current(t) /\ e \in queue[inst] /\ fault' = None /\ asked' = asked
      BY <1>0, <2>3, Zenon DEF TransferCandidate, Transferable, HeldBy, Fine
    <3>2. held # None /\ held.token = t
      BY <3>1, CurrentHeld, Zenon
    <3>3. held.step = None /\ Unwritable(th, held)
      BY <2>2, <3>2, Writing, Zenon DEF Unwritable
    <3>4. CASE capacity
      <4>1. /\ Go(th, "transfer")
            /\ Carry(th, [job[th] EXCEPT !.prep = PreparedTransfer(t, e, None, FALSE)])
            /\ job[th].op \in OwnOps \cup {"promote"}
        BY <2>2, <2>3, <3>4, Zenon
      <4> QED
        BY <2>2, <2>3, <3>1, <3>3, <4>1, PreemptPrepared, Zenon
    <3>5. CASE ~capacity
      <4>1. Moved(th, "cleanup", j) /\ GuardHanded(th) /\ admission' = th
        BY <1>0, <2>2, <2>3, <3>5, Moves, Zenon DEF GuardHanded
      <4>2. UNCHANGED <<now, epoch, lease, queue, locations, nextArrival>>
        BY <1>0, <2>3, PrepareCall, Zenon
      <4>3. KeptLease /\ QueueStep /\ asked \subseteq asked'
        BY <3>1, <4>2, KeptCall, Zenon
      <4>4. LeaseStep(th) /\ pc'[th] = "cleanup" /\ job'[th] = j
        BY <1>0, <2>2, <4>1, <4>3, Landing, Zenon DEF LeaseStep
      <4>5. /\ j.op \in ExpireOps \cup (OwnOps \ {"renew"})
            /\ j.op \notin ExpireOps /\ j.op # "release"
        BY <2>2, SMT DEF ExpireOps, OwnOps
      <4>6. Safe(th, pc[th], job[th])'
        BY <1>o, <4>1, <4>4, <4>5, CleanupSafe, Zenon
      <4> QED
        BY <3>1, <4>1, <4>2, <4>3, <4>4, <4>6, HaltStep, Zenon
    <3> QED
      BY <3>4, <3>5, Zenon
  <2>4. ASSUME admission' = None, Go(th, "begin"), job' = job, UNCHANGED schedVars, Fine
        PROVE  HaltInv'
    <3>1. /\ Moved(th, "begin", j) /\ GuardHanded(th)
          /\ fault' = fault /\ asked' = asked
      BY <1>0, <2>2, <2>4, Moves, Zenon DEF GuardHanded, Fine
    <3>2. "begin" \in Bland /\ "begin" \notin Guarded /\ j.op \in Runs("begin")
      BY <1>o, BlandPlaces, RunsFacts, Zenon
    <3> QED
      BY <1>o, <2>2, <2>4, <3>1, <3>2, QuietBland, Zenon
  <2>5. ASSUME Leave(th), UNCHANGED schedVars, Fine
        PROVE  HaltInv'
    <3>1. KeptLease /\ QueueStep /\ now' = now /\ epoch' = epoch
      BY <2>5, IdleSched, Zenon
    <3>2. LeaseStep(th) /\ asked' = asked /\ fault' = None
      BY <1>0, <2>2, <2>5, <3>1, Zenon DEF LeaseStep, Fine
    <3> QED
      BY <2>2, <2>5, <3>1, <3>2, LeftSafe, Zenon
  <2>6. ~StepActive(t)
    BY <2>2, NoOwnStep, Zenon
  <2> QED
    BY <1>2, <2>3, <2>4, <2>5, <2>6, Zenon DEF Preempt
<1> QED
  BY <1>1, <1>2

\* begin_destructive_step opens a step of the caller's own lease, and
\* finish_destructive_step finds it open.
LEMMA StepsSafe ==
    ASSUME HaltInv, BookInv', NEW th \in Thread,
           Begin(th) \/ \E failed \in BOOLEAN : WriteReturns(th, failed)
    PROVE  HaltInv'
<1>0. BookInv /\ SchedTypes /\ fault = None /\ job[th] \in JobType
  BY Moves, Zenon DEF HaltInv, BookInv
<1>1. /\ {"finish", "failure"} \subseteq Op
      /\ "finish" \in Runs("guard") /\ "failure" \in Runs("guard")
      /\ "guard" \in Bland /\ "guard" \notin Guarded
  <2>1. {"finish", "failure"} \subseteq Op
    BY Zenon DEF Op
  <2> QED
    BY <2>1, RunsFacts, BlandPlaces, Zenon
<1>2. CASE Begin(th)
  <2> DEFINE t == job[th].token
  <2>1. /\ pc[th] = "begin" /\ admission' = admission /\ Fine /\ fault' = None
        /\ asked \subseteq asked'
    BY <1>0, <1>2, Zenon DEF Begin, At, lockVars, Fine
  <2>2. pc[th] # "write" /\ GuardHanded(th)
    BY <2>1, Zenon DEF GuardHanded
  <2>3. ASSUME BeginDestructiveStep(t, th), Go(th, "write"),
               Carry(th, [job[th] EXCEPT !.step = Witness(t, th, "Business")])
        PROVE  HaltInv'
    <3> DEFINE w == Witness(t, th, "Business")
               k == [job[th] EXCEPT !.step = w]
               s == [id |-> nextStep, purpose |-> "Business"]
    <3>1. /\ ValidWrite(t, th) /\ ~lease[inst].preempt /\ s \in StepType
          /\ lease'[inst] = [lease[inst] EXCEPT !.step = s]
          /\ UNCHANGED <<now, epoch, queue, locations, nextArrival>>
      BY <1>0, <2>3, BeginCall, Zenon
    <3>a. ActiveLease(t, th) /\ t.expires > now
      BY <3>1, Zenon DEF ValidWrite, ValidLease, ActiveLease
    <3>2. /\ held # None /\ held.token = t /\ held.token.holder = th
          /\ t \in TokenType /\ t.instance = inst
      BY <3>a, ValidHolds, SMT
    <3>3. held.token.expires > now /\ ~held.preempt /\ held \in LeaseType
      <4>1. ~held.preempt
        BY <3>1, Zenon DEF held
      <4> QED
        BY <3>a, <3>2, <4>1, HeldFacts, Zenon
    <3>4. w = [token |-> t, holder |-> th, step |-> s]
      BY Zenon DEF Witness
    <3>5. held' = [held EXCEPT !.step = s]
      BY <3>1, Zenon DEF held
    <3>6. th \in Holder
      <4>1. held.claim.holder = held.token.holder
        BY <3>2, Zenon DEF HaltInv, LeaseSound
      <4> QED
        BY <3>2, <4>1, HeldFacts, Threads, Zenon
    <3>8. Moved(th, "write", k)
      BY <1>0, <2>3, Moves, Zenon
    <3> HIDE DEF w, s
    <3>7. w \in WitnessType
      BY <3>1, <3>2, <3>4, <3>6, SMT DEF WitnessType
    <3>9. k \in JobType /\ k.op = job[th].op /\ k.token = t /\ k.step = w
      BY <1>0, <3>7, StepEdit, Zenon
    <3> HIDE DEF k
    <3>10. /\ held'.step = s /\ held'.token = held.token /\ held'.claim = held.claim
           /\ held'.preempt = held.preempt /\ held' \in LeaseType
      BY <3>1, <3>3, <3>5, Zenon DEF LeaseType
    <3>11. held' # None /\ s # None
      <4>1. None \notin LeaseType /\ None \notin StepType
        BY NoneAssumption
      <4> QED
        BY <3>1, <3>10, <4>1, Zenon
    <3>12. pc'[th] = "write" /\ job'[th] = k
      BY <1>0, <3>8, Landing, Zenon
    <3>13. Opened(th) /\ QueueStep
      <4>1. queue'[inst] = queue[inst] /\ locations' = locations /\ nextArrival' = nextArrival
        BY <3>1, Zenon
      <4> QED
        BY <3>2, <3>3, <3>10, <3>11, <3>12, <4>1, Zenon DEF Opened, QueueStep
    <3>14. /\ "write" \notin Guarded /\ "write" \in Any
           /\ "write" \notin {"lookup", "try", "cleanup", "prepare", "end", "transfer",
                              "pumpGrant", "grant", "hostClaim", "visible"}
      BY SMT DEF Guarded, Any
    <3>15. k.op \in Runs("write") /\ Owns(th, job[th])'
      <4>1. k.op \in Op
        BY <3>9, JobFields, Zenon
      <4> QED
        BY <3>2, <3>9, <3>12, <3>14, <4>1, RunsFacts, Zenon DEF Owns
    <3>16. k.step = [token |-> k.token, holder |-> th, step |-> held'.step]
      BY <3>4, <3>9, <3>10, Zenon
    <3>17. Safe(th, pc[th], job[th])'
      BY <3>2, <3>9, <3>10, <3>11, <3>12, <3>14, <3>15, <3>16, Zenon DEF Safe
    <3>18. LeaseStep(th) /\ now' = now /\ epoch' = epoch
      BY <3>1, <3>13, Zenon DEF LeaseStep
    <3> QED
      BY <2>1, <2>2, <3>8, <3>13, <3>17, <3>18, HaltStep, Zenon
  <2>4. ASSUME ValidWrite(t, th), Go(th, "guard"),
               Carry(th, [job[th] EXCEPT !.op = "finish"]), UNCHANGED schedVars
        PROVE  HaltInv'
    <3> DEFINE k == [job[th] EXCEPT !.op = "finish"]
    <3>1. k.op = "finish" /\ k.token = t
      BY <1>0, <1>1, OpEdit, Zenon
    <3>2. Moved(th, "guard", k)
      BY <1>0, <2>4, Moves, Zenon
    <3> HIDE DEF k
    <3>a. ActiveLease(t, th)
      BY <2>4, Zenon DEF ValidWrite, ValidLease
    <3>3. held.token = t /\ t.holder = th /\ t \in TokenType
      BY <3>a, ValidHolds, SMT
    <3>4. Owns(th, k) /\ k.op \in Runs("guard") /\ fault' = fault
      BY <1>0, <1>1, <2>1, <3>1, <3>3, Zenon DEF Owns
    <3> QED
      BY <1>1, <2>1, <2>2, <2>4, <3>2, <3>4, QuietBland, Zenon
  <2>5. ASSUME Go(th, "idle"), Carry(th, NoJob), UNCHANGED schedVars
        PROVE  HaltInv'
    BY <2>1, <2>2, <2>5, RefusedSafe, Zenon
  <2> QED
    BY <1>2, <2>3, <2>4, <2>5, Zenon DEF Begin
<1>3. ASSUME NEW failed \in BOOLEAN, WriteReturns(th, failed)
      PROVE  HaltInv'
  <2> DEFINE j == job[th]
             w == j.step
             op == IF failed THEN "failure" ELSE "finish"
             k == [j EXCEPT !.step = None, !.op = op]
  <2>1. pc[th] = "write"
    BY <1>3, Zenon DEF WriteReturns, At
  <2>2. /\ held # None /\ held.token = j.token /\ j.token.holder = th
        /\ held.step # None
        /\ w = [token |-> j.token, holder |-> th, step |-> held.step]
    BY <2>1, SafeAt, Zenon DEF Safe
  <2>3. w.token = held.token /\ w.holder = held.token.holder /\ w.step = held.step
    BY <2>2, SMT
  <2>4. HeldBy(w.token, w.holder) /\ lease[inst].step = w.step
    BY <2>2, <2>3, HeldFacts, Zenon DEF held
  <2>5. /\ FinishDestructiveStep(w) /\ Go(th, "guard") /\ Carry(th, k)
        /\ UNCHANGED <<lockVars, bookVars>> /\ Fine
    BY <1>3, <2>4, Zenon DEF WriteReturns
  <2>6. /\ lease'[inst] = [lease[inst] EXCEPT !.step = None]
        /\ UNCHANGED <<now, epoch, queue, locations, nextArrival>>
    BY <1>0, <2>5, FinishCall, Zenon
  <2>7. op \in Op /\ op \in Runs("guard")
    BY <1>1, Zenon
  <2>8. Moved(th, "guard", k)
    BY <1>0, <2>5, Moves, Zenon
  <2> HIDE DEF op
  <2>9. k.op = op /\ k.token = j.token
    BY <1>0, <2>7, FinishEdit, Zenon
  <2> HIDE DEF k
  <2>10. held' = [held EXCEPT !.step = None]
    BY <2>6, Zenon DEF held
  <2>11. /\ held'.step = None /\ held'.token = held.token /\ held'.claim = held.claim
         /\ held'.preempt = held.preempt /\ held' \in LeaseType
    BY <2>2, <2>10, HeldFacts, Zenon DEF LeaseType
  <2>12. held' # None
    <3>1. None \notin LeaseType
      BY NoneAssumption
    <3> QED
      BY <2>11, <3>1, Zenon
  <2>13. Closed(th) /\ QueueStep
    <3>1. queue'[inst] = queue[inst] /\ locations' = locations /\ nextArrival' = nextArrival
      BY <2>6, Zenon
    <3> QED
      BY <2>2, <2>11, <2>12, <3>1, Zenon DEF Closed, QueueStep
  <2>14. LeaseStep(th) /\ now' = now /\ epoch' = epoch
    BY <2>6, <2>13, Zenon DEF LeaseStep
  <2>15. Owns(th, k) /\ k.op \in Runs("guard")
    BY <2>2, <2>7, <2>9, HeldFacts, Zenon DEF Owns
  <2>16. GuardHanded(th) /\ fault' = None /\ asked \subseteq asked'
    BY <1>0, <2>5, Zenon DEF GuardHanded, lockVars, Fine
  <2> QED
    BY <1>1, <2>8, <2>13, <2>14, <2>15, <2>16, BlandStep, Zenon
<1> QED
  BY <1>2, <1>3, Zenon

\* The request a connection polls or cancels has a context while it waits: only the
\* connection's own thread could leave it without one.
LEMMA OwnShown ==
    ASSUME HaltInv, NEW th \in Thread, pc[th] \in {"poll", "cancel"},
           job[th].claim \in Waiting
    PROVE  job[th].claim \in contexts
<1>0. BookInv
  BY Zenon DEF HaltInv
<1>1. job[th].claim.holder = th
  BY <1>0, Zenon DEF BookInv, Placed
<1>2. pc[th] # "visible"
  BY SMT
<1>3. ASSUME job[th].claim \in Unshown
      PROVE  FALSE
  <2>1. PICK u \in Thread : pc[u] = "visible" /\ job[th].claim = job[u].claim
    BY <1>3, Zenon DEF Unshown
  <2>2. Asks(pc[u], job[u])
    BY <2>1, Zenon DEF Asks
  <2>3. job[u].claim.holder = u
    BY <1>0, <2>2, Zenon DEF BookInv, Placed, Unwaited
  <2>4. u = th
    BY <1>1, <2>1, <2>3, Zenon
  <2> QED
    BY <1>2, <2>1, <2>4, Zenon
<1> QED
  BY <1>0, <1>3, Zenon DEF BookInv, Books

LEMMA RequestsSafe ==
    ASSUME HaltInv, BookInv', NEW th \in Thread,
           DisconnectLease(th) \/ Poll(th) \/ Cancel(th)
    PROVE  HaltInv'
<1>0. BookInv /\ SchedTypes /\ fault = None
  BY Zenon DEF HaltInv, BookInv
<1>o. job[th].op \in Op /\ Owns(th, job[th]) /\ job[th] \in JobType
  BY <1>0, SafeAt, Moves, JobFields, Zenon
<1>1. CASE DisconnectLease(th)
  <2>1. /\ pc[th] = "tokens" /\ UNCHANGED schedVars /\ Fine /\ admission' = admission
        /\ fault' = fault /\ asked \subseteq asked'
    BY <1>1, Zenon DEF DisconnectLease, At, lockVars, Fine
  <2>2. pc[th] # "write" /\ GuardHanded(th)
    BY <2>1, Zenon DEF GuardHanded
  <2>3. ASSUME held # None, held.token.holder = th, Go(th, "guard"),
               Carry(th, [NoJob EXCEPT !.op = "part", !.token = held.token])
        PROVE  HaltInv'
    <3> DEFINE t == held.token
               j == [NoJob EXCEPT !.op = "part", !.token = t]
    <3>1. t \in TokenType /\ t.holder = th
      BY <2>3, HeldFacts, Zenon
    <3>2. Moved(th, "guard", j)
      BY <1>0, <2>3, Moves, Zenon
    <3>3. "part" \in Op
      BY Zenon DEF Op
    <3> HIDE DEF t
    <3>4. j.op = "part" /\ j.token = t
      BY <3>1, <3>3, NewJob, Zenon
    <3> HIDE DEF j
    <3>5. Owns(th, j) /\ j.op \in Runs("guard") /\ "guard" \in Bland /\ "guard" \notin Guarded
      BY <3>1, <3>4, RunsFacts, BlandPlaces, Zenon DEF Owns
    <3> QED
      BY <2>1, <2>2, <3>2, <3>5, QuietBland, Zenon
  <2>4. ASSUME Go(th, "gone"), Carry(th, NoJob)
        PROVE  HaltInv'
    BY <2>1, <2>2, <2>4, RefusedSafe, Zenon
  <2> QED
    BY <1>1, <2>3, <2>4, Zenon DEF DisconnectLease, held
<1>5. ASSUME pc[th] \in {"poll", "cancel"}
      PROVE  LET c == job[th].claim IN
             /\ c \in Claim /\ c.instance = inst /\ pc[th] # "write"
             /\ ~job[th].flag => c \notin contexts
             /\ c \in Waiting => c \in contexts
  <2>1. pc[th] # "write"
    BY <1>5, SMT
  <2>2. job[th].claim \in asked /\ (~job[th].flag => job[th].claim \notin contexts)
    BY <1>0, <1>5, Zenon DEF BookInv, Placed
  <2>3. job[th].claim \in Claim /\ job[th].claim.instance = inst
    BY <1>0, <2>2, SettingClaims, OneInstance, Zenon DEF BookInv
  <2>4. job[th].claim \in Waiting => job[th].claim \in contexts
    BY <1>5, OwnShown, Zenon
  <2> QED
    BY <2>1, <2>2, <2>3, <2>4, Zenon
<1>6. CASE Poll(th)
  <2> DEFINE j == job[th]
  <2>1. pc[th] \in {"poll", "cancel"} /\ (j.flag => order = None)
    BY <1>6, Zenon DEF Poll, At
  <2>2. ASSUME j.flag, PollQueuedExpired(j.claim), Go(th, "idle"), Carry(th, NoJob),
               UNCHANGED lockVars, Fine
        PROVE  HaltInv'
    <3>1. PICK e \in queue[inst] : RemoveQueued(inst, {e})
      BY <1>5, <2>1, <2>2, Zenon DEF PollQueuedExpired
    <3>2. /\ Moved(th, "idle", NoJob) /\ GuardHanded(th) /\ asked \subseteq asked'
          /\ fault' = None
      BY <1>0, <2>2, Moves, Zenon DEF lockVars, Fine, GuardHanded
    <3>3. order \in {th, None} /\ pc[th] # "write"
      BY <1>5, <2>1, <2>2, Zenon
    <3>4. LeaseStep(th) /\ QueueStep /\ now' = now /\ epoch' = epoch
      BY <3>1, <3>3, RemoveSteps, Zenon
    <3>5. /\ "idle" \in Bland /\ "idle" \notin Guarded /\ NoJob.op \in Runs("idle")
          /\ Owns(th, NoJob)
      BY Nothing, Zenon
    <3> QED
      BY <3>2, <3>4, <3>5, BlandStep, Zenon
  <2>3. ASSUME Go(th, "idle"), Carry(th, NoJob), UNCHANGED <<schedVars, lockVars>>, Fine
        PROVE  HaltInv'
    BY <1>5, <2>1, <2>3, RefusedSafe, Zenon DEF lockVars
  <2>4. j.claim \in Lapsed => j.flag
    <3>1. j.claim \in Lapsed => j.claim \in Waiting
      BY Zenon DEF Lapsed, Waiting
    <3> QED
      BY <1>5, <2>1, <3>1, Zenon
  <2> QED
    BY <1>6, <2>2, <2>3, <2>4, Zenon DEF Poll
<1>7. CASE Cancel(th)
  <2> DEFINE j == job[th]
  <2>1. pc[th] \in {"poll", "cancel"} /\ (j.flag => order = None)
    BY <1>7, Zenon DEF Cancel, At
  <2>2. ASSUME j.claim \in contexts, CancelQueued(j.claim), Go(th, "pump"), job' = job,
               UNCHANGED lockVars, Fine
        PROVE  HaltInv'
    <3>1. PICK e \in queue[inst] : RemoveQueued(inst, {e})
      BY <1>5, <2>1, <2>2, Zenon DEF CancelQueued
    <3>2. /\ Moved(th, "pump", j) /\ GuardHanded(th) /\ asked \subseteq asked'
          /\ fault' = None
      BY <1>0, <2>2, Moves, Zenon DEF lockVars, Fine, GuardHanded
    <3>3. order \in {th, None} /\ pc[th] # "write"
      BY <1>5, <2>1, <2>2, Zenon
    <3>4. LeaseStep(th) /\ QueueStep /\ now' = now /\ epoch' = epoch
      BY <3>1, <3>3, RemoveSteps, Zenon
    <3>5. "pump" \in Bland /\ "pump" \notin Guarded /\ j.op \in Runs("pump")
      BY <1>o, BlandPlaces, RunsFacts, Zenon
    <3> QED
      BY <1>o, <3>2, <3>4, <3>5, BlandStep, Zenon
  <2>3. ASSUME Go(th, "idle"), Carry(th, NoJob), UNCHANGED <<schedVars, lockVars>>, Fine
        PROVE  HaltInv'
    BY <1>5, <2>1, <2>3, RefusedSafe, Zenon DEF lockVars
  <2>4. (\E e \in queue[inst] : e.claim = j.claim) => j.claim \in contexts
    <3>1. (\E e \in queue[inst] : e.claim = j.claim) => j.claim \in Waiting
      BY Zenon DEF Waiting
    <3> QED
      BY <1>5, <2>1, <3>1, Zenon
  <2> QED
    BY <1>7, <2>2, <2>3, <2>4, Zenon DEF Cancel
<1> QED
  BY <1>1, <1>6, <1>7

LEMMA HeldSafe ==
    ASSUME HaltInv, BookInv', NEW th \in Thread, Held(th)
    PROVE  HaltInv'
  BY GuardSafe, PreemptSafe, StepsSafe, RequestsSafe, Zenon DEF Held

=============================================================================
