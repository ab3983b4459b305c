----------------------------- MODULE HostProofs -----------------------------
(***************************************************************************)
(* New operations, the sweep and the clock keep the books; an acquisition  *)
(* keeps the invariant of the lease; and the theorems of HostLease.  The   *)
(* books are exact in every setting: whatever operations, sweeps and pumps *)
(* come together, the contexts are those of the waiting entries, and a     *)
(* wait gets at most one terminal record.  In every prudent setting no     *)
(* interleaving halts the Runtime, and the device is written by the holder *)
(* of the current lease only.                                              *)
(***************************************************************************)
EXTENDS HostBooks

-----------------------------------------------------------------------------
\* New operations, the sweep and the clock keep the books.

\* A claim is asked for.
LEMMA AskStep ==
    ASSUME BookInv, NEW th \in Thread, NEW c \in Claim, Ask(th, c),
           NEW p \in Asking, NEW j \in JobType, j.claim = c, Moved(th, p, j),
           UNCHANGED <<schedVars, order, bookVars>>, admission' \in Thread \cup {None}
    PROVE  BookNext
<1>1. /\ pc[th] = "idle" /\ c.holder = th /\ c \in setting.claims \ asked
      /\ asked' = asked \cup {c} /\ setting' = setting
  BY Zenon DEF Ask, At
<1>2. pc[th] \in Loose
  BY <1>1, Zenon DEF Loose, Plain
<1>3. order # th /\ pc[th] # "visible"
  BY <1>2, Unordered, Zenon
<1>4. SchedTypes' /\ queue' = queue
  BY IdleCall, Zenon DEF BookInv
<1>5. contexts' = contexts /\ settled' = settled
  BY Zenon DEF bookVars
<1>6. AskedFor(c)
  BY <1>1, <1>4, <1>5, Zenon DEF AskedFor
<1>7. /\ p \in Place /\ p # "visible" /\ p \notin Ordered /\ p \notin Acting
      /\ p \notin {"poll", "cancel", "visible", "transfer", "pumpGrant", "grant"}
  BY Places, Zenon DEF Loose
<1>8. BookStep(th, p, j)
  BY <1>3, <1>6, <1>7, Zenon DEF BookStep, Tame
<1>9. c \in asked' /\ c \notin contexts' /\ settled'[c] = 0
  BY <1>1, <1>5, Zenon DEF BookInv, Books
<1>10. pc'[th] = p /\ job'[th] = j
  BY Landing, Zenon
<1>11. Placed(th, pc[th], job[th])'
  BY <1>1, <1>3, <1>7, <1>9, <1>10, Zenon DEF Placed, Unwaited
<1>12. Handed(th)
  BY Zenon DEF Handed
<1> QED
  BY <1>1, <1>4, <1>7, <1>8, <1>11, <1>12, Step, Zenon

\* The books are read and the request to be polled or cancelled carried along.
LEMMA LookStep ==
    ASSUME BookInv, NEW th \in Thread, NEW c \in Claim, NEW p \in {"poll", "cancel"},
           PollOrCancel(th, c, p)
    PROVE  BookNext
<1> DEFINE flag == c \in contexts
           j == [NoJob EXCEPT !.op = p, !.claim = c, !.flag = flag]
<1>1. /\ pc[th] = "idle" /\ c.holder = th /\ c \in asked /\ Moved(th, p, j)
      /\ UNCHANGED <<schedVars, order, bookVars>> /\ admission' = admission /\ Fine
  BY Moves, Zenon DEF PollOrCancel, At, lockVars
<1>2. p \in Op
  BY SMT DEF Op
<1>3. flag \in BOOLEAN
  OBVIOUS
<1>4. ~flag => c \notin contexts
  OBVIOUS
<1> HIDE DEF flag
<1>5. j \in JobType /\ j.claim = c /\ j.flag = flag
  <2>1. \A b \in BOOLEAN : LET k == [NoJob EXCEPT !.op = p, !.claim = c, !.flag = b] IN
            k \in JobType /\ k.claim = c /\ k.flag = b
    BY <1>2, NoJobType, Zenon DEF JobType
  <2> QED
    BY <1>3, <2>1, Zenon
<1> HIDE DEF j
<1>6. pc[th] \in Loose
  BY <1>1, Zenon DEF Loose, Plain
<1>7. order # th /\ pc[th] # "visible"
  BY <1>6, Unordered, Zenon
<1>8. SchedTypes' /\ queue' = queue
  BY <1>1, IdleCall, Zenon DEF BookInv
<1>9. Tame /\ setting' = setting /\ asked' = asked /\ contexts' = contexts
  BY <1>1, <1>8, KeptTame, Zenon DEF bookVars
<1>10. /\ p \in Place /\ p # "visible" /\ p \notin Ordered
       /\ p \notin {"transfer", "pumpGrant", "grant"}
  BY SMT DEF Place, Loose, Ordered
<1>11. ~Asks(p, j) /\ p \notin Acting
  BY SMT DEF Asks, Acting
<1>12. BookStep(th, p, j)
  BY <1>7, <1>9, <1>10, Zenon DEF BookStep
<1>13. pc'[th] = p /\ job'[th] = j
  BY <1>1, <1>5, Landing, Zenon
<1>14. Placed(th, pc[th], job[th])'
  BY <1>1, <1>4, <1>5, <1>7, <1>9, <1>10, <1>11, <1>13, Zenon DEF Placed, Asks
<1>15. Handed(th) /\ admission' \in Thread \cup {None}
  BY <1>1, Zenon DEF Handed, BookInv, Books
<1> QED
  BY <1>1, <1>5, <1>8, <1>9, <1>10, <1>12, <1>14, <1>15, Step, Zenon

\* A call on the current lease.
LEMMA UseStep ==
    ASSUME BookInv, NEW th \in Thread, NEW op \in Op, op \notin {"queue", "acquire"},
           NEW p \in Plain \cup Acting, Use(th, op, p)
    PROVE  BookNext
<1> DEFINE t == lease[inst].token
           j == [NoJob EXCEPT !.op = op, !.token = t]
<1>1. /\ pc[th] \in Loose /\ lease[inst] # None /\ Moved(th, p, j)
      /\ UNCHANGED <<schedVars, order, bookVars>> /\ admission' = admission /\ Fine
  BY Moves, Zenon DEF Use, At, lockVars, Loose, Plain
<1>2. lease[inst] \in LeaseType
  BY <1>1, OneInstance, Zenon DEF BookInv, SchedTypes
<1>3. t \in TokenType
  BY <1>2, Zenon DEF LeaseType
<1> HIDE DEF t
<1>4. j \in JobType /\ j.op = op
  BY <1>3, NewJob, Zenon
<1> HIDE DEF j
<1>5. Bare(p, j) /\ admission' \in Thread \cup {None}
  BY <1>1, <1>4, Zenon DEF Bare, BookInv, Books
<1> QED
  BY <1>1, <1>4, <1>5, QuietStep, Zenon

LEMMA DisconnectKeeps ==
    ASSUME BookInv, NEW th \in Thread, Disconnect(th)
    PROVE  BookNext
<1> DEFINE out == {f \in queue[inst] : f.claim.holder = th}
           cs == {e.claim : e \in out}
           j == [NoJob EXCEPT !.op = "leaving"]
<1>1. /\ pc[th] = "idle" /\ order = None
      /\ IF cs = {} THEN UNCHANGED schedVars ELSE RemoveForConnection(inst, th)
      /\ Settle(cs) /\ Moved(th, "pump", j)
      /\ order' = order /\ admission' = admission /\ setting' = setting /\ asked' = asked
  BY Moves, Zenon DEF Disconnect, At, lockVars, Fine
<1>2. SchedTypes /\ admission \in Thread \cup {None} /\ queue \in [Instance -> SUBSET EntryType]
  BY Zenon DEF BookInv, Books, SchedTypes
<1>3. "leaving" \in Op /\ "pump" \in Plain /\ pc[th] \in Loose
  BY <1>1, Zenon DEF Op, Plain, Loose
<1>4. SchedTypes' /\ queue' = [queue EXCEPT ![inst] = queue[inst] \ out]
  <2>1. CASE cs = {}
    <3>1. SchedTypes' /\ queue' = queue
      BY <1>1, <1>2, <2>1, IdleCall, Zenon
    <3>2. queue[inst] \ out = queue[inst]
      BY <2>1, Zenon
    <3> HIDE DEF out
    <3> QED
      BY <1>2, <3>1, <3>2, OneInstance, Zenon
  <2>2. CASE cs # {}
    <3>1. RemoveQueued(inst, out)
      BY <1>1, <2>2, Zenon DEF RemoveForConnection
    <3> QED
      BY <1>2, <3>1, RemoveCall, Zenon
  <2> QED
    BY <2>1, <2>2
<1>5. out \in SUBSET queue[inst]
  BY Zenon
<1>6. Unshown = {} /\ order # th /\ pc[th] # "visible"
  BY <1>1, <1>3, UnshownFacts, Unordered, Zenon
<1> HIDE DEF out
<1>7. Removed(out)
  BY <1>1, <1>4, <1>5, <1>6, Zenon DEF Removed
<1>8. Tame /\ Handed(th) /\ order' # th
  BY <1>1, <1>5, <1>6, <1>7, Zenon DEF Tame, Handed
<1>9. j \in JobType /\ Bare("pump", j)
  BY <1>3, NewJob, Zenon DEF Bare
<1> HIDE DEF j
<1> QED
  BY <1>1, <1>2, <1>4, <1>6, <1>8, <1>9, PlainStep, Zenon

LEMMA StartKeeps ==
    ASSUME BookInv, NEW th \in Thread, Start(th)
    PROVE  BookNext
<1>0. admission \in Thread \cup {None} /\ job[th] \in JobType
  BY Moves, Zenon DEF BookInv, Books
<1>1. /\ {"expire", "request", "enter", "hostClaim"} \subseteq Asking
      /\ {"queue", "acquire", "claim", "release", "renew", "input"} \subseteq Op
      /\ {"guard", "input"} \subseteq Acting /\ "renew" \in Plain /\ "pump" \in Plain
  BY Zenon DEF Asking, Op, Acting, Plain
<1>2. ASSUME NEW c \in Claim, QueueLease(th, c)
      PROVE  BookNext
  <2> DEFINE j == [NoJob EXCEPT !.op = "queue", !.claim = c]
  <2>1. Ask(th, c) /\ Carry(th, j) /\ UNCHANGED <<schedVars, order, bookVars>>
    BY <1>2, Zenon DEF QueueLease
  <2>2. j \in JobType /\ j.claim = c
    BY <1>1, ClaimJob, Zenon
  <2>3. \/ Moved(th, "expire", j) /\ admission' = th
        \/ Moved(th, "request", j) /\ admission' = admission
    BY <1>2, <2>1, Moves, Zenon DEF QueueLease
  <2> HIDE DEF j
  <2> QED
    BY <1>0, <1>1, <2>1, <2>2, <2>3, AskStep, Zenon
<1>3. ASSUME NEW c \in Claim, AcquireLease(th, c)
      PROVE  BookNext
  <2> DEFINE j == [NoJob EXCEPT !.op = "acquire", !.claim = c]
  <2>1. /\ Ask(th, c) /\ Moved(th, "enter", j) /\ UNCHANGED <<schedVars, order, bookVars>>
        /\ admission' = admission
    BY <1>3, Moves, Zenon DEF AcquireLease, lockVars
  <2>2. j \in JobType /\ j.claim = c
    BY <1>1, ClaimJob, Zenon
  <2> HIDE DEF j
  <2> QED
    BY <1>0, <1>1, <2>1, <2>2, AskStep, Zenon
<1>4. ASSUME NEW c \in Claim, HostClaim(th, c)
      PROVE  BookNext
  <2> DEFINE j == [NoJob EXCEPT !.op = "claim", !.claim = c]
  <2>1. /\ Ask(th, c) /\ Moved(th, "hostClaim", j)
        /\ UNCHANGED <<schedVars, order, bookVars>>
        /\ admission' \in Thread \cup {None}
    BY <1>0, <1>4, Moves, Zenon DEF HostClaim
  <2>2. j \in JobType /\ j.claim = c
    BY <1>1, ClaimJob, Zenon
  <2> HIDE DEF j
  <2> QED
    BY <1>1, <2>1, <2>2, AskStep, Zenon
<1>5. ASSUME NEW c \in Claim, AwaitOperatorClaim(th, c)
      PROVE  BookNext
  <2> DEFINE j == [NoJob EXCEPT !.op = "claim"]
  <2>1. /\ pc[th] \in Loose /\ order = None /\ order' = order /\ admission' = admission
        /\ CancelQueued(c) /\ Settle({c}) /\ Moved(th, "pump", j)
        /\ setting' = setting /\ asked' = asked
    BY <1>5, Moves, Zenon DEF AwaitOperatorClaim, At, lockVars, Fine, Loose, Plain
  <2>2. j \in JobType
    BY <1>1, NewJob, Zenon
  <2> HIDE DEF j
  <2>3. Bare("pump", j)
    BY <1>1, Zenon DEF Bare
  <2>4. PICK e \in queue[inst] : e.claim = c /\ RemoveQueued(inst, {e})
    BY <2>1, OneInstance, Zenon DEF CancelQueued
  <2> QED
    BY <2>1, <2>2, <2>3, <2>4, OneLeaves, Zenon
<1>6. ASSUME NEW c \in Claim, NEW p \in {"poll", "cancel"}, PollOrCancel(th, c, p)
      PROVE  BookNext
  BY <1>6, LookStep, Zenon
<1>7. CASE Use(th, "release", "guard") \/ Use(th, "renew", "renew")
           \/ Use(th, "input", "input")
  <2>1. {"release", "renew", "input"} \cap {"queue", "acquire"} = {}
    BY SMT
  <2> QED
    BY <1>1, <1>7, <2>1, UseStep, Zenon
<1> QED
  BY <1>2, <1>3, <1>4, <1>5, <1>6, <1>7, DisconnectKeeps, Zenon DEF Start

LEMMA SweepKeeps ==
    ASSUME BookInv, SweepStart \/ SweepStep
    PROVE  BookNext
<1> DEFINE j == job[Sweep]
<1>0. /\ Sweep \in Thread /\ SchedTypes /\ admission \in Thread \cup {None}
      /\ j \in JobType
  BY Threads, Moves, Zenon DEF BookInv, Books
<1>1. /\ {"lapse", "scan", "lookup", "try"} \subseteq Acting /\ "sweep" \in Op
      /\ "pump" \in Plain /\ "dead" \in Plain /\ "rest" \in Loose
  BY Zenon DEF Acting, Op, Plain, Loose
<1>2. "sweep" \notin {"queue", "acquire"}
  BY SMT
<1>3. ASSUME pc[Sweep] \in Acting, UNCHANGED <<schedVars, order, bookVars>>, Fine,
             admission' \in Thread \cup {None}, NEW p, NEW k \in JobType,
             k.op = j.op, p \in Plain \cup Acting, Moved(Sweep, p, k)
      PROVE  BookNext
  BY <1>0, <1>3, Acts, QuietStep, Zenon DEF Bare
<1>4. CASE SweepStart
  <2> DEFINE k == [NoJob EXCEPT !.op = "sweep"]
  <2>1. /\ pc[Sweep] = "rest" /\ Moved(Sweep, "lapse", k) /\ Fine
        /\ UNCHANGED <<schedVars, order, bookVars>> /\ admission' = admission
    BY <1>0, <1>4, Moves, Zenon DEF SweepStart, At, lockVars
  <2>2. k \in JobType /\ k.op = "sweep"
    BY <1>1, NewJob, Zenon
  <2> HIDE DEF k
  <2>3. Bare("lapse", k)
    BY <1>1, <1>2, <2>2, Zenon DEF Bare
  <2> QED
    BY <1>0, <1>1, <2>1, <2>2, <2>3, QuietStep, Zenon
<1>5. CASE SweepExpire
  <2>1. /\ pc[Sweep] \in Acting /\ order = None /\ ExpireQueued
        /\ Moved(Sweep, "scan", j) /\ order' = order /\ admission' = admission
        /\ setting' = setting /\ asked' = asked
    BY <1>0, <1>1, <1>5, Moves, Zenon DEF SweepExpire, At, lockVars, Fine
  <2>2. SchedTypes' /\ Tame
    BY <2>1, UnshownFacts, ExpireCall, Zenon
  <2>3. Handed(Sweep) /\ order' # Sweep
    BY <1>0, <2>1, Acts, Zenon DEF Handed
  <2> QED
    BY <1>0, <1>1, <2>1, <2>2, <2>3, Acts, PlainStep, Zenon DEF Bare
<1>6. CASE SweepScan
  <2>1. /\ pc[Sweep] \in Acting /\ UNCHANGED <<schedVars, order, bookVars>> /\ Fine
        /\ admission' = admission
    BY <1>1, <1>6, Zenon DEF SweepScan, At, lockVars
  <2>2. ASSUME NEW t \in Due, Go(Sweep, "lookup"), Carry(Sweep, [j EXCEPT !.token = t])
        PROVE  BookNext
    <3> DEFINE k == [j EXCEPT !.token = t]
    <3>1. k \in JobType /\ k.op = j.op
      BY <1>0, DueFacts, TokenEdit, Zenon
    <3>2. Moved(Sweep, "lookup", k)
      BY <1>0, <2>2, Moves, Zenon
    <3> HIDE DEF k
    <3> QED
      BY <1>0, <1>1, <1>3, <2>1, <3>1, <3>2, Zenon
  <2>3. ASSUME Go(Sweep, "pump"), job' = job
        PROVE  BookNext
    <3>1. Moved(Sweep, "pump", j)
      BY <1>0, <2>3, Moves, Zenon
    <3> QED
      BY <1>0, <1>1, <1>3, <2>1, <3>1, Zenon
  <2> QED
    BY <1>6, <2>2, <2>3, Zenon DEF SweepScan
<1>7. CASE SweepLookup
  <2>1. /\ pc[Sweep] \in Acting /\ UNCHANGED <<schedVars, order, bookVars>> /\ Fine
        /\ admission' = admission
    BY <1>1, <1>7, Zenon DEF SweepLookup, At, lockVars
  <2>2. ASSUME Go(Sweep, "try"), job' = job
        PROVE  BookNext
    <3>1. Moved(Sweep, "try", j)
      BY <1>0, <2>2, Moves, Zenon
    <3> QED
      BY <1>0, <1>1, <1>3, <2>1, <3>1, Zenon
  <2>3. ASSUME Go(Sweep, "dead"), Carry(Sweep, NoJob)
        PROVE  BookNext
    <3>1. Moved(Sweep, "dead", NoJob)
      BY <1>0, <2>3, Moves, Zenon
    <3> QED
      BY <1>0, <1>1, <2>1, <3>1, Acts, NoJobType, QuietStep, Zenon DEF Bare
  <2> QED
    BY <1>7, <2>2, <2>3, Zenon DEF SweepLookup
<1>8. CASE SweepTry
  <2>1. /\ pc[Sweep] \in Acting /\ UNCHANGED <<schedVars, order, bookVars>> /\ Fine
        /\ job' = job
    BY <1>1, <1>8, Zenon DEF SweepTry, At
  <2>2. ASSUME Go(Sweep, "pump"), admission' = admission
        PROVE  BookNext
    <3>1. Moved(Sweep, "pump", j)
      BY <1>0, <2>1, <2>2, Moves, Zenon
    <3> QED
      BY <1>0, <1>1, <1>3, <2>1, <2>2, <3>1, Zenon
  <2>3. ASSUME Go(Sweep, "cleanup"), admission' = Sweep
        PROVE  BookNext
    <3>1. Moved(Sweep, "cleanup", j)
      BY <1>0, <2>1, <2>3, Moves, Zenon
    <3>2. SchedTypes' /\ queue' = queue
      BY <1>0, <2>1, IdleCall, Zenon
    <3> QED
      BY <1>0, <2>1, <2>3, <3>1, <3>2, ActingCleanup, Zenon
  <2> QED
    BY <1>8, <2>2, <2>3, Zenon DEF SweepTry
<1> QED
  BY <1>4, <1>5, <1>6, <1>7, <1>8, Zenon DEF SweepStep

LEMMA TickKeeps ==
    ASSUME BookInv, HostTick
    PROVE  BookNext
<1>1. SchedTypes' /\ queue' = queue
  BY TickCall, Zenon DEF BookInv, HostTick
<1> QED
  BY <1>1, StillStep, Zenon DEF HostTick

-----------------------------------------------------------------------------
\* Every step keeps the books.

LEMMA NextBooks ==
    ASSUME BookInv, Brim, [Next]_vars
    PROVE  BookNext
<1>1. CASE UNCHANGED vars
  <2>1. UNCHANGED <<schedVars, lockVars, threadVars, bookVars, setting, asked>>
    BY <1>1, Zenon DEF vars
  <2>2. SchedTypes' /\ queue' = queue
    BY <2>1, IdleCall, Zenon DEF BookInv
  <2> QED
    BY <2>1, <2>2, StillStep, Zenon
<1>2. CASE \E th \in Holder : Start(th)
  BY <1>2, Threads, StartKeeps, Zenon
<1>3. CASE \E th \in Thread : Continue(th)
  BY <1>3, PumpKeeps, CleanupKeeps, AcquisitionKeeps, HeldKeeps, Zenon DEF Continue
<1>4. CASE SweepStart \/ SweepStep
  BY <1>4, SweepKeeps, Zenon
<1>5. CASE HostTick
  BY <1>5, TickKeeps, Zenon
<1> QED
  BY <1>1, <1>2, <1>3, <1>4, <1>5, Zenon DEF Next

-----------------------------------------------------------------------------
\* Acquisitions.

\* A grant is prepared for the claim a thread asks for.
LEMMA GrantPreparedSafe ==
    ASSUME HaltInv, BookInv', NEW th \in Thread, pc[th] # "write", LeaseStep(th), QueueStep,
           now' = now, epoch' = epoch, asked' = asked, fault' = None,
           Asks(pc[th], job[th]), NEW ttl \in Nat \ {0}, NEW j \in JobType,
           j.op = job[th].op, j.token = job[th].token,
           j.prep = PreparedLease(job[th].claim, ttl, FALSE, FALSE),
           Moved(th, "grant", j), admission = th, admission' = admission, held' = None
    PROVE  HaltInv'
<1>1. BookInv /\ job[th].claim \in Claim /\ job[th].claim \in asked'
  BY AskedClaim, Zenon DEF HaltInv
<1>2. pc'[th] = "grant" /\ job'[th] = j
  BY <1>1, Landing, Zenon
<1>3. Owns(th, j) /\ GuardHanded(th) /\ admission' = th
  BY SafeAt, Zenon DEF GuardHanded, Owns
<1>4. "grant" # "pumpGrant"
  OBVIOUS
<1>5. Safe(th, pc[th], job[th])'
  BY <1>1, <1>2, <1>3, <1>4, GrantSafe, Zenon
<1> QED
  BY <1>3, <1>5, HaltStep, Zenon

LEMMA EntrySafe ==
    ASSUME HaltInv, BookInv', NEW th \in Thread,
           AcquireEnter(th) \/ ExpireInstanceIfDue(th) \/ AcquirePrepare(th)
    PROVE  HaltInv'
<1>0. BookInv /\ SchedTypes /\ fault = None /\ th # None
  BY Threads, Zenon DEF HaltInv, BookInv
<1>o. /\ job[th].op \in Op /\ Owns(th, job[th]) /\ job[th] \in JobType
      /\ job[th].op \in Runs(pc[th]) /\ (pc[th] \in Guarded => admission = th)
  BY <1>0, SafeAt, Moves, JobFields, Zenon DEF Safe
<1>1. CASE AcquireEnter(th)
  <2>1. pc[th] = "enter" /\ Moved(th, "expire", job[th])
    BY <1>0, <1>1, Moves, Zenon DEF AcquireEnter, At
  <2>2. /\ UNCHANGED schedVars /\ fault' = fault /\ asked' = asked
        /\ GuardHanded(th) /\ admission' = th
    BY <1>1, Zenon DEF AcquireEnter, Fine, GuardHanded
  <2>3. job[th].op = "acquire" /\ pc[th] # "write"
    BY <1>o, <2>1, RunsFacts, Zenon
  <2>4. "expire" \in Bland /\ job[th].op \in Runs("expire")
    BY <2>3, BlandPlaces, RunsFacts, Zenon
  <2> QED
    BY <1>0, <1>o, <2>1, <2>2, <2>3, <2>4, QuietBland, Zenon
<1>2. CASE ExpireInstanceIfDue(th)
  <2>1. /\ pc[th] = "expire" /\ UNCHANGED schedVars /\ admission' = admission
        /\ fault' = fault /\ asked' = asked
    BY <1>2, Zenon DEF ExpireInstanceIfDue, At, Fine, lockVars
  <2>2. /\ pc[th] # "write" /\ admission = th /\ job[th].op \in {"queue", "acquire"}
        /\ pc[th] \in Guarded
    <3>1. "expire" \in Guarded /\ "expire" # "write"
      BY SMT DEF Guarded
    <3> QED
      BY <1>o, <2>1, <3>1, RunsFacts, Zenon
  <2>3. job[th].op \in ExpireOps /\ job[th].op \notin OwnOps /\ job[th].op # "release"
    BY <2>2, SMT DEF ExpireOps, OwnOps
  <2>4. GuardHanded(th) /\ admission' = th
    BY <2>1, <2>2, Zenon DEF GuardHanded
  <2>5. ASSUME NEW t \in Due, Go(th, "cleanup"), Carry(th, [job[th] EXCEPT !.token = t])
        PROVE  HaltInv'
    <3> DEFINE j == [job[th] EXCEPT !.token = t]
    <3>1. t \in TokenType /\ t.expires <= now
      BY <1>0, DueFacts, Zenon
    <3>2. Moved(th, "cleanup", j)
      BY <1>0, <2>5, Moves, Zenon
    <3>3. j.op = job[th].op /\ j.token = t
      BY <1>o, <3>1, TokenEdit, Zenon
    <3> HIDE DEF j
    <3>4. pc'[th] = "cleanup" /\ job'[th] = j
      BY <1>0, <3>2, Landing, Zenon
    <3>5. KeptLease /\ QueueStep /\ now' = now /\ epoch' = epoch
      BY <2>1, IdleSched, Zenon
    <3>6. LeaseStep(th) /\ Owns(th, j)
      BY <2>2, <2>3, <3>3, <3>5, OwnsNothing, Zenon DEF LeaseStep
    <3>7. "cleanup" # "end"
      OBVIOUS
    <3>8. /\ j.op \in ExpireOps \cup (OwnOps \ {"renew"}) /\ j.op # "release"
          /\ j.token \in TokenType /\ j.token.expires <= now'
      BY <2>3, <3>1, <3>3, <3>5, Zenon
    <3>9. Safe(th, pc[th], job[th])'
      BY <2>4, <3>4, <3>6, <3>7, <3>8, CleanupSafe, Zenon
    <3> QED
      BY <1>0, <2>1, <2>4, <3>2, <3>5, <3>6, <3>9, HaltStep, Zenon
  <2>6. ASSUME Go(th, Resumed(job[th].op)), job' = job
        PROVE  HaltInv'
    <3> DEFINE p == Resumed(job[th].op)
    <3>1. p \in {"request", "acquire"} /\ Moved(th, p, job[th])
      BY <1>0, <2>6, Moves, Zenon DEF Resumed
    <3> HIDE DEF p
    <3>2. p \in Bland /\ job[th].op \in Runs(p)
      BY <1>o, <3>1, Resuming, Zenon
    <3> QED
      BY <1>o, <2>1, <2>2, <2>4, <3>1, <3>2, QuietBland, Zenon
  <2> QED
    BY <1>2, <2>5, <2>6, Zenon DEF ExpireInstanceIfDue
<1>3. CASE AcquirePrepare(th)
  <2> DEFINE c == job[th].claim
  <2>1. pc[th] = "acquire" /\ order = None /\ fault' = None /\ asked' = asked
    BY <1>0, <1>3, Zenon DEF AcquirePrepare, At, Fine
  <2>2. pc[th] # "write" /\ pc[th] \in Guarded /\ Asks(pc[th], job[th])
    BY <2>1, SMT DEF Guarded, Asks
  <2>3. admission = th /\ c \in Claim /\ c.instance = inst /\ c.ttl \in Nat \ {0}
    BY <1>0, <1>o, <2>2, AskedClaim, Ttls, Zenon
  <2>4. ASSUME PrepareAcquire(c, Open), Go(th, "grant"),
               Carry(th, [job[th] EXCEPT !.prep = PreparedLease(c, c.ttl, FALSE, FALSE)]),
               admission' = admission
        PROVE  HaltInv'
    <3> DEFINE prep == PreparedLease(c, c.ttl, FALSE, FALSE)
               j == [job[th] EXCEPT !.prep = prep]
    <3>1. prep \in GrantType
      BY <1>0, <2>3, PreparedGrants, Zenon
    <3>2. Moved(th, "grant", j)
      BY <1>0, <2>4, Moves, Zenon
    <3> HIDE DEF prep
    <3>3. /\ j \in JobType /\ j.prep = prep
          /\ j.op = job[th].op /\ j.token = job[th].token
      BY <1>o, <3>1, PrepEdit, Zenon
    <3> HIDE DEF j
    <3>4. UNCHANGED <<now, epoch, lease, queue, locations, nextArrival>>
      BY <1>0, <2>3, <2>4, PrepareCall, Zenon
    <3>5. KeptLease /\ QueueStep
      BY <3>4, KeptCall, Zenon
    <3>6. LeaseStep(th) /\ held' = None
      BY <2>2, <2>3, <2>4, <3>5, Zenon DEF LeaseStep, KeptLease, PrepareAcquire, Acquirable, held
    <3>7. j.prep = PreparedLease(c, c.ttl, FALSE, FALSE)
      BY <3>3 DEF prep
    <3> QED
      BY <2>1, <2>2, <2>3, <2>4, <3>2, <3>3, <3>4, <3>5, <3>6, <3>7, GrantPreparedSafe, Zenon
  <2>5. ASSUME Leave(th), UNCHANGED schedVars
        PROVE  HaltInv'
    <3>1. KeptLease /\ QueueStep /\ now' = now /\ epoch' = epoch
      BY <2>5, IdleSched, Zenon
    <3>2. LeaseStep(th)
      BY <2>2, <3>1, Zenon DEF LeaseStep
    <3> QED
      BY <2>1, <2>2, <2>5, <3>1, <3>2, LeftSafe, Zenon
  <2> QED
    BY <1>3, <2>4, <2>5, Zenon DEF AcquirePrepare
<1> QED
  BY <1>1, <1>2, <1>3

\* A claim goes into the queue.  What queue_lease reports of its preemption is what
\* the lease says.
LEMMA WaitSafe ==
    ASSUME HaltInv, Prudent, WellOrdered, BookInv', NEW th \in Thread, pc[th] # "write", order = None,
           Asks(pc[th], job[th]), NEW j \in JobType, Moved(th, "visible", j), Owns(th, j),
           NEW q \in SUBSET queue[inst], NEW d \in Nat, Insert(job[th].claim, q, d),
           UNCHANGED <<now, epoch, cooldown, locations, nextLease, nextStep>>,
           asked' = asked, fault' = None, admission' = admission,
           j.flag => held # None /\ job[th].claim.priority > held.claim.priority
    PROVE  HaltInv'
<1> DEFINE c == job[th].claim
           e == [claim |-> c, arrival |-> nextArrival, deadline |-> d]
<1>1. BookInv /\ SchedTypes /\ c \in Claim /\ c \in asked
  BY AskedClaim, Zenon DEF HaltInv, BookInv
<1>2. /\ e \in EntryType /\ queue'[inst] = q \cup {e}
      /\ held' = Refreshed(held, queue'[inst])
      /\ nextArrival' = nextArrival + 1
  BY <1>1, InsertCall, Zenon DEF held
<1>3. e.claim = c /\ e.arrival = nextArrival
  OBVIOUS
<1> HIDE DEF e
<1>4. QueueStep
  BY <1>2, <1>3, Zenon DEF QueueStep
<1>5. LeaseStep(th)
  BY <1>2, Zenon DEF LeaseStep, Requeued
<1>6. ArrivalsSound'
  BY <1>4, ArrivalsKeep, Zenon
<1>7. \A f \in queue'[inst] : f.claim \in asked /\ f.arrival \in Nat
  <2>1. \A f \in q : f.claim \in asked /\ f \in EntryType
    BY <1>1, WaitingAsked, Entries, Zenon
  <2>2. \A f \in queue'[inst] : f.claim \in asked /\ f \in EntryType
    BY <1>1, <1>2, <1>3, <2>1, Zenon
  <2> QED
    BY <2>2, Zenon DEF EntryType
<1>8. ASSUME j.flag
      PROVE  held' # None /\ held'.preempt
  <2>1. held # None /\ c.priority > held.claim.priority /\ held.claim \in asked
    BY <1>8, Zenon DEF HaltInv, LeaseSound
  <2>2. c.priority \in 0..1 /\ held.claim.priority \in 0..1
    BY <1>1, <2>1, PrudentClaims, Zenon
  <2>3. c.priority = 1 /\ held.claim.priority = 0
    BY <2>1, <2>2, SMT
  <2>4. \A f, g \in queue'[inst] : f.arrival = g.arrival => f = g
    BY <1>6, Zenon DEF ArrivalsSound
  <2>5. e \in queue'[inst] /\ e.claim.priority = 1
    BY <1>2, <1>3, <2>3, Zenon
  <2>6. Wanted(queue'[inst], held)
    BY <1>7, <2>3, <2>4, <2>5, HeadPreempts, Zenon
  <2>7. held' # None /\ held'.preempt = Wanted(queue'[inst], held)
    BY <1>2, <2>1, HeldFacts, Refreshes, Zenon
  <2> QED
    BY <2>6, <2>7
<1>9. pc'[th] = "visible" /\ job'[th] = j
  BY <1>1, Landing, Zenon
<1>10. /\ "visible" \notin Guarded
       /\ "visible" \notin {"lookup", "try", "cleanup", "prepare", "end", "transfer",
                            "pumpGrant", "grant", "hostClaim", "write"}
       /\ "visible" \in Any
  BY SMT DEF Guarded, Any
<1>11. j.op \in Runs("visible") /\ Owns(th, job[th])'
  BY <1>9, <1>10, RunsFacts, JobFields, Zenon DEF Owns
<1>12. Safe(th, pc[th], job[th])'
  BY <1>8, <1>9, <1>10, <1>11, Zenon DEF Safe
<1>13. GuardHanded(th) /\ asked \subseteq asked'
  BY Zenon DEF GuardHanded
<1> QED
  BY <1>4, <1>5, <1>12, <1>13, HaltStep, Zenon

LEMMA QueueRequestSafe ==
    ASSUME HaltInv, Prudent, WellOrdered, BookInv', NEW th \in Thread, QueueRequest(th)
    PROVE  HaltInv'
<1> DEFINE c == job[th].claim
           immediate == admission = th
<1>0. BookInv /\ SchedTypes /\ job[th] \in JobType /\ Owns(th, job[th]) /\ fault = None
  BY SafeAt, Moves, Zenon DEF HaltInv, BookInv
<1>1. pc[th] = "request" /\ order = None /\ asked' = asked /\ fault' = None
  BY <1>0, Zenon DEF QueueRequest, At, Fine
<1>2. Asks(pc[th], job[th]) /\ pc[th] # "write"
  BY <1>1, SMT DEF Asks
<1>3. /\ c \in Claim /\ c.timeout \in Nat /\ LeaseTtl \in Nat \ {0} /\ LeaseTtl \in Nat
      /\ c.instance = inst
  BY <1>0, <1>2, AskedClaim, ConfigFacts, Ttls, Zenon
<1>4. LiveQueue(inst) \in SUBSET queue[inst]
  BY Zenon DEF LiveQueue
<1>5. ASSUME RequestQueuedLease(c, Open, immediate), Go(th, "grant"),
             Carry(th, [job[th] EXCEPT !.prep = PreparedLease(c, LeaseTtl, FALSE, FALSE)]),
             admission' = admission
      PROVE  HaltInv'
  <2> DEFINE prep == PreparedLease(c, LeaseTtl, FALSE, FALSE)
             j == [job[th] EXCEPT !.prep = prep]
  <2>1. prep \in GrantType
    BY <1>0, <1>3, PreparedGrants, Zenon
  <2>2. Moved(th, "grant", j)
    BY <1>0, <1>5, Moves, Zenon
  <2> HIDE DEF prep
  <2>3. /\ j \in JobType /\ j.prep = prep
        /\ j.op = job[th].op /\ j.token = job[th].token
    BY <1>0, <2>1, PrepEdit, Zenon
  <2> HIDE DEF j
  <2>4. j.prep = PreparedLease(c, LeaseTtl, FALSE, FALSE)
    BY <2>3 DEF prep
  <2>5. /\ queue'[inst] = LiveQueue(inst) /\ held = None /\ held' = None
        /\ UNCHANGED <<now, epoch, locations, nextArrival>>
    BY <1>0, <1>3, <1>5, RequestLeaseCall, Zenon DEF held
  <2>6. Requeued(th) /\ QueueStep
    BY <1>1, <1>4, <2>5, Zenon DEF Requeued, QueueStep, Refreshed
  <2>7. LeaseStep(th) /\ admission = th
    BY <1>2, <1>5, <2>6, Zenon DEF LeaseStep, RequestQueuedLease, ImmediateGrant
  <2> QED
    BY <1>1, <1>2, <1>3, <1>5, <2>2, <2>3, <2>4, <2>5, <2>6, <2>7, GrantPreparedSafe, Zenon
<1>6. ASSUME RequestQueuedEntry(c, Open, immediate), Go(th, "visible"),
             Carry(th, [job[th] EXCEPT !.flag =
                 lease[inst] # None /\ c.priority > lease[inst].claim.priority]),
             admission' = admission
      PROVE  HaltInv'
  <2> DEFINE flag == lease[inst] # None /\ c.priority > lease[inst].claim.priority
             j == [job[th] EXCEPT !.flag = flag]
  <2>1. Moved(th, "visible", j)
    BY <1>0, <1>6, Moves, Zenon
  <2>2. flag \in BOOLEAN
    OBVIOUS
  <2> HIDE DEF flag
  <2>3. /\ j \in JobType /\ j.op = job[th].op /\ j.token = job[th].token
        /\ j.flag = flag
    BY <1>0, <2>2, FlagEdit, Zenon
  <2> HIDE DEF j
  <2>4. /\ Insert(c, LiveQueue(inst), now + c.timeout)
        /\ UNCHANGED <<now, epoch, cooldown, locations, nextLease, nextStep>>
    BY <1>3, <1>6, Zenon DEF RequestQueuedEntry
  <2>5. now + c.timeout \in Nat
    BY <1>0, <1>3, SMT DEF SchedTypes
  <2>6. Owns(th, j) /\ (j.flag => held # None /\ c.priority > held.claim.priority)
    BY <1>0, <2>3, Zenon DEF Owns, flag, held
  <2> QED
    BY <1>1, <1>2, <1>4, <1>6, <2>1, <2>3, <2>4, <2>5, <2>6, WaitSafe, Zenon
<1>7. ASSUME RequestQueuedRefused(c, Open, immediate), Leave(th)
      PROVE  HaltInv'
  <2>1. /\ SetQueue(inst, LiveQueue(inst))
        /\ UNCHANGED <<now, epoch, locations, nextArrival>>
    BY <1>3, <1>7, Zenon DEF RequestQueuedRefused
  <2>2. LiveQueue(inst) \in SUBSET EntryType
    BY <1>0, <1>4, OneInstance, Zenon DEF SchedTypes
  <2>3. queue'[inst] = LiveQueue(inst) /\ held' = Refreshed(held, LiveQueue(inst))
    BY <1>0, <2>1, <2>2, OneInstance, SetQueueTypes, Zenon DEF held
  <2>4. Requeued(th) /\ QueueStep
    BY <1>1, <1>4, <2>1, <2>3, Zenon DEF Requeued, QueueStep
  <2>5. LeaseStep(th)
    BY <1>2, <2>4, Zenon DEF LeaseStep
  <2> QED
    BY <1>1, <1>2, <1>7, <2>1, <2>4, <2>5, LeftSafe, Zenon
<1> QED
  BY <1>5, <1>6, <1>7, Zenon DEF QueueRequest

LEMMA HostRequestSafe ==
    ASSUME HaltInv, Prudent, WellOrdered, BookInv', NEW th \in Thread, HostRequest(th)
    PROVE  HaltInv'
<1> DEFINE c == job[th].claim
<1>0. BookInv /\ SchedTypes /\ job[th] \in JobType /\ Owns(th, job[th]) /\ fault = None
  BY SafeAt, Moves, Zenon DEF HaltInv, BookInv
<1>1. pc[th] = "hostClaim" /\ order = None /\ asked' = asked /\ fault' = None
  BY <1>0, Zenon DEF HostRequest, At, Fine
<1>2. Asks(pc[th], job[th]) /\ pc[th] # "write"
  BY <1>1, SMT DEF Asks
<1>3. /\ c \in Claim /\ c.ttl \in Nat \ {0} /\ c.ttl \in Nat /\ NoDeadline \in Nat
      /\ c.instance = inst
  BY <1>0, <1>2, AskedClaim, ConfigFacts, Ttls, Zenon
<1>4. ASSUME admission = th, PrepareAcquire(c, Open), Go(th, "grant"),
             Carry(th, [job[th] EXCEPT !.flag = TRUE,
                              !.prep = PreparedLease(c, c.ttl, FALSE, FALSE)]),
             admission' = admission
      PROVE  HaltInv'
  <2> DEFINE prep == PreparedLease(c, c.ttl, FALSE, FALSE)
             j == [job[th] EXCEPT !.flag = TRUE, !.prep = prep]
  <2>1. prep \in GrantType
    BY <1>0, <1>3, PreparedGrants, Zenon
  <2>2. Moved(th, "grant", j)
    BY <1>0, <1>4, Moves, Zenon
  <2> HIDE DEF prep
  <2>3. /\ j \in JobType /\ j.prep = prep
        /\ j.op = job[th].op /\ j.token = job[th].token
    BY <1>0, <2>1, FlagPrepEdit, Zenon
  <2> HIDE DEF j
  <2>4. j.prep = PreparedLease(c, c.ttl, FALSE, FALSE)
    BY <2>3 DEF prep
  <2>5. UNCHANGED <<now, epoch, lease, queue, locations, nextArrival>>
    BY <1>0, <1>3, <1>4, PrepareCall, Zenon
  <2>6. KeptLease /\ QueueStep
    BY <2>5, KeptCall, Zenon
  <2>7. LeaseStep(th) /\ held' = None
    BY <1>2, <1>3, <1>4, <2>6, Zenon DEF LeaseStep, KeptLease, PrepareAcquire, Acquirable, held
  <2> QED
    BY <1>1, <1>2, <1>3, <1>4, <2>2, <2>3, <2>4, <2>5, <2>6, <2>7, GrantPreparedSafe, Zenon
<1>5. ASSUME EnqueueClaim(c), Go(th, "visible"), UNCHANGED <<admission, job>>
      PROVE  HaltInv'
  <2>1. Moved(th, "visible", job[th])
    BY <1>0, <1>5, Moves, Zenon
  <2>2. /\ Insert(c, queue[inst], NoDeadline)
        /\ UNCHANGED <<now, epoch, cooldown, locations, nextLease, nextStep>>
    BY <1>3, <1>5, Zenon DEF EnqueueClaim
  <2>3. ~job[th].flag /\ admission' = admission
    BY <1>1, <1>5, SafeAt, Zenon DEF Safe
  <2>4. queue[inst] \in SUBSET queue[inst]
    BY Zenon
  <2> QED
    BY <1>0, <1>1, <1>2, <1>3, <2>1, <2>2, <2>3, <2>4, WaitSafe, Zenon
<1>6. ASSUME Leave(th), UNCHANGED schedVars
      PROVE  HaltInv'
  <2>1. KeptLease /\ QueueStep /\ now' = now /\ epoch' = epoch
    BY <1>6, IdleSched, Zenon
  <2>2. LeaseStep(th)
    BY <1>2, <2>1, Zenon DEF LeaseStep
  <2> QED
    BY <1>1, <1>2, <1>6, <2>1, <2>2, LeftSafe, Zenon
<1> QED
  BY <1>4, <1>5, <1>6, Zenon DEF HostRequest

LEMMA GrantsSafe ==
    ASSUME HaltInv, BookInv', NEW th \in Thread, Grant(th)
    PROVE  HaltInv'
<1> DEFINE j == [job[th] EXCEPT !.prep = None]
<1>0. BookInv /\ job[th] \in JobType /\ Owns(th, job[th]) /\ fault = None
  BY SafeAt, Moves, Zenon DEF HaltInv
<1>1. pc[th] = "grant" /\ pc[th] # "write"
  BY DEF Grant, At
<1>2. j \in JobType /\ j.op = job[th].op /\ j.token = job[th].token
  BY <1>0, PrepEdit, Zenon
<1>3. AcquireCommittable(job[th].prep)
  BY <1>1, GrantReady, Zenon
<1>4. /\ Unlock(th) /\ Go(th, "pump") /\ Carry(th, j) /\ asked' = asked /\ fault' = fault
      /\ UNCHANGED schedVars \/ CommitAcquire(job[th].prep)
  BY <1>3, Zenon DEF Grant, Fine
<1>5. Moved(th, "pump", j)
  BY <1>0, <1>4, Moves, Zenon
<1> HIDE DEF j
<1>6. "pump" \in Bland /\ "pump" \notin Guarded /\ Runs("pump") = Op
  BY BlandPlaces, RunsFacts, Zenon
<1>7. j.op \in Op /\ Owns(th, j)
  BY <1>0, <1>2, JobFields, Zenon DEF Owns
<1>8. GuardHanded(th) /\ asked \subseteq asked'
  BY <1>4, UnlockHands, Zenon
<1>9. CASE UNCHANGED schedVars
  BY <1>1, <1>4, <1>5, <1>6, <1>7, <1>8, <1>9, QuietBland, Zenon
<1>10. CASE CommitAcquire(job[th].prep)
  <2>1. LeaseStep(th) /\ QueueStep /\ now' = now /\ epoch' = epoch
    BY <1>1, <1>4, <1>10, GrantSteps, Zenon
  <2> QED
    BY <1>0, <1>4, <1>5, <1>6, <1>7, <1>8, <2>1, BlandStep, Zenon
<1> QED
  BY <1>4, <1>9, <1>10, Zenon

LEMMA VisibleSafe ==
    ASSUME HaltInv, BookInv', NEW th \in Thread, Visible(th)
    PROVE  HaltInv'
<1> DEFINE j == job[th]
<1>0. BookInv /\ j \in JobType /\ Owns(th, j) /\ fault = None
  BY SafeAt, Moves, Zenon DEF HaltInv
<1>1. pc[th] = "visible" /\ pc[th] # "write"
  BY DEF Visible, At
<1>2. j.flag => lease[inst] # None /\ lease[inst].preempt
  BY <1>1, SafeAt, Zenon DEF Safe, held
<1>3. /\ IF j.flag
         THEN /\ Go(th, "promote")
              /\ Carry(th, [j EXCEPT !.op = "promote"])
              /\ UNCHANGED admission
         ELSE /\ admission' = IF admission = th THEN None ELSE admission
              /\ Go(th, "pump")
              /\ UNCHANGED job
      /\ UNCHANGED schedVars /\ asked' = asked /\ fault' = fault
  BY <1>2, Zenon DEF Visible, Fine
<1>4. CASE j.flag
  <2> DEFINE k == [j EXCEPT !.op = "promote"]
  <2>1. Moved(th, "promote", k) /\ GuardHanded(th)
    BY <1>0, <1>3, <1>4, Moves, Zenon DEF GuardHanded
  <2>2. k.op = "promote"
    BY <1>0, OpSets, OpEdit, Zenon
  <2> HIDE DEF k
  <2>3. "promote" \in Bland /\ "promote" \notin Guarded /\ k.op \in Runs("promote")
    BY <2>2, BlandPlaces, RunsFacts, Zenon
  <2>4. Owns(th, k)
    BY <2>2, OpSets, OwnsNothing, Zenon
  <2> QED
    BY <1>1, <1>3, <2>1, <2>3, <2>4, QuietBland, Zenon
<1>5. CASE ~j.flag
  <2>1. Moved(th, "pump", j) /\ GuardHanded(th)
    BY <1>0, <1>3, <1>5, Moves, Zenon DEF GuardHanded
  <2>2. "pump" \in Bland /\ "pump" \notin Guarded /\ Runs("pump") = Op
    BY BlandPlaces, RunsFacts, Zenon
  <2>3. j.op \in Op
    BY <1>0, JobFields, Zenon
  <2> QED
    BY <1>0, <1>1, <1>3, <2>1, <2>2, <2>3, QuietBland, Zenon
<1> QED
  BY <1>4, <1>5

\* promote_idle_preemption: the lease it transfers has been asked to give way, so
\* its holder opens no step; and a preemption finds capacity.
LEMMA PromoteSafe ==
    ASSUME HaltInv, Prudent, WellOrdered, BookInv', NEW th \in Thread, PromoteEnter(th) \/ Promote(th)
    PROVE  HaltInv'
<1>0. BookInv /\ SchedTypes /\ job[th] \in JobType /\ Owns(th, job[th]) /\ fault = None
  BY SafeAt, Moves, Zenon DEF HaltInv, BookInv
<1>r. job[th].op \in Runs(pc[th]) /\ (pc[th] \in Guarded => admission = th)
  BY SafeAt, Zenon DEF Safe
<1>1. CASE PromoteEnter(th)
  <2>1. pc[th] = "promote" /\ pc[th] # "write" /\ Moved(th, "promoting", job[th])
    BY <1>0, <1>1, Moves DEF PromoteEnter, At
  <2>2. /\ UNCHANGED schedVars /\ fault' = fault /\ asked' = asked
        /\ GuardHanded(th) /\ admission' = th
    BY <1>1, Zenon DEF PromoteEnter, Fine, GuardHanded
  <2>3. "promoting" \in Bland /\ job[th].op \in Runs("promoting")
    BY <1>r, <2>1, BlandPlaces, RunsFacts, Zenon
  <2> QED
    BY <1>0, <2>1, <2>2, <2>3, QuietBland, Zenon
<1>2. CASE Promote(th)
  <2> DEFINE j == job[th]
             l == lease[inst]
             ready == {e \in queue[inst] : /\ l # None
                                           /\ e.claim = j.claim
                                           /\ TransferCandidate(l.token, l.token.holder,
                                                                Open, e, TRUE)}
  <2>1. pc[th] = "promoting" /\ order = None /\ fault' = None /\ asked' = asked
    BY <1>0, <1>2, Zenon DEF Promote, At, Fine
  <2>2. pc[th] # "write" /\ admission = th /\ job[th].op = "promote"
    <3>1. "promoting" \in Guarded /\ "promoting" # "write"
      BY SMT DEF Guarded
    <3> QED
      BY <1>r, <2>1, <3>1, RunsFacts, Zenon
  <2>3. ASSUME NEW e \in ready, NEW capacity \in Capacity, PrepareToken,
               IF capacity
               THEN /\ Go(th, "transfer")
                    /\ Carry(th, [j EXCEPT !.prep =
                                     PreparedTransfer(l.token, e, None, FALSE)])
               ELSE /\ Go(th, "cleanup")
                    /\ Carry(th, [j EXCEPT !.token = l.token]),
               admission' = admission
        PROVE  HaltInv'
    <3>1. /\ e \in queue[inst] /\ held # None
          /\ Transferable(held.token, held.token.holder)
          /\ Preempts(e, lease[held.token.instance])
      BY <2>3, Zenon DEF TransferCandidate, held
    <3>2. Current(held.token) /\ held.step = None /\ held.token.instance = inst
      BY <3>1, HeldFacts, Zenon DEF Transferable, HeldBy, held
    <3>3. e.claim.kind = "ClientLease" /\ e.claim.priority > held.claim.priority
      BY <3>1, <3>2, Zenon DEF Preempts, MayPreempt, held
    <3>4. e.claim \in asked /\ held.claim \in asked
      BY <3>1, WaitingAsked, Zenon DEF HaltInv, LeaseSound
    <3>5. e.claim.priority \in 0..1 /\ held.claim.priority \in 0..1
      BY <3>4, PrudentClaims, Zenon
    <3>6. /\ e.claim.priority = 1 /\ held.claim.priority = 0
          /\ ~(e.claim.priority <= held.claim.priority)
      BY <3>3, <3>5, SMT
    <3>7. FALSE \notin Capacity
      BY <3>3, <3>4, <3>6, PrudentClaims, Zenon
    <3>8. \A f \in queue[inst] : f.claim \in asked /\ f.arrival \in Nat
      <4>1. \A f \in queue[inst] : f.claim \in asked /\ f \in EntryType
        BY <1>0, WaitingAsked, Entries, Zenon
      <4> QED
        BY <4>1, Zenon DEF EntryType
    <3>9. \A f, g \in queue[inst] : f.arrival = g.arrival => f = g
      BY Zenon DEF HaltInv, ArrivalsSound
    <3>10. Wanted(queue[inst], held)
      BY <3>1, <3>6, <3>8, <3>9, HeadPreempts, Zenon
    <3>11. Unwritable(th, held)
      BY <3>1, <3>10, Zenon DEF HaltInv, LeaseSound, Wanted, Unwritable
    <3>12. capacity
      <4>1. capacity = TRUE \/ capacity = FALSE
        BY <1>0, HostAssumption DEF BookInv, Books, Capacity
      <4> QED
        BY <3>7, <4>1, Zenon
    <3>13. /\ Go(th, "transfer")
           /\ Carry(th, [job[th] EXCEPT !.prep =
                            PreparedTransfer(held.token, e, None, FALSE)])
      BY <2>3, <3>12, Zenon DEF held
    <3> QED
      BY <2>1, <2>2, <2>3, <3>1, <3>2, <3>11, <3>13, PreemptPrepared, Zenon
  <2>4. ASSUME Leave(th), UNCHANGED schedVars
        PROVE  HaltInv'
    <3>1. KeptLease /\ QueueStep /\ now' = now /\ epoch' = epoch
      BY <2>4, IdleSched, Zenon
    <3>2. LeaseStep(th)
      BY <2>2, <3>1, Zenon DEF LeaseStep
    <3> QED
      BY <2>1, <2>2, <2>4, <3>1, <3>2, LeftSafe, Zenon
  <2> QED
    BY <1>2, <2>3, <2>4, Zenon DEF Promote
<1> QED
  BY <1>1, <1>2

LEMMA AcquisitionSafe ==
    ASSUME HaltInv, Prudent, WellOrdered, BookInv', NEW th \in Thread, Acquisition(th)
    PROVE  HaltInv'
  BY EntrySafe, QueueRequestSafe, HostRequestSafe, GrantsSafe, VisibleSafe,
     PromoteSafe, Zenon DEF Acquisition

-----------------------------------------------------------------------------
\* Every step keeps the lease's invariant.

LEMMA InitSafe ==
    ASSUME Init, BookInv
    PROVE  HaltInv
<1>0. BookInv /\ fault = None
  BY Zenon DEF Init
<1>1. held = None /\ queue[inst] = {}
  <2>1. lease = [i \in Instance |-> None] /\ queue = [i \in Instance |-> {}]
    BY Zenon DEF Init, New
  <2> QED
    BY <2>1, OneInstance, Zenon DEF held
<1>2. LeaseSound /\ ArrivalsSound
  BY <1>1, Zenon DEF LeaseSound, ArrivalsSound
<1>3. ASSUME NEW th \in Thread
      PROVE  Safe(th, pc[th], job[th])
  <2>1. pc[th] \in {"rest", "idle"} /\ job[th] = NoJob
    BY Zenon DEF Init
  <2>2. pc[th] \in Bland /\ pc[th] \in Any /\ pc[th] \notin Guarded
    BY <2>1, BlandPlaces, Zenon
  <2>3. /\ pc[th] \notin {"lookup", "try", "cleanup", "prepare", "end", "transfer",
                          "pumpGrant", "grant", "hostClaim", "visible", "write"}
    BY <2>2, Zenon DEF Bland
  <2>4. NoJob.op \in Op /\ NoJob.op \notin OwnOps
    BY OpSets, Zenon DEF NoJob
  <2>5. job[th].op \in Runs(pc[th]) /\ Owns(th, job[th])
    <3>1. Runs(pc[th]) = Op
      BY <2>2, RunsFacts, Zenon
    <3> QED
      BY <2>1, <2>4, <3>1, OwnsNothing, Zenon
  <2> QED
    BY <2>2, <2>3, <2>5, Zenon DEF Safe
<1> QED
  BY <1>0, <1>2, <1>3, Zenon DEF HaltInv

LEMMA NextSafe ==
    ASSUME HaltInv, Prudent, WellOrdered, BookInv', [Next]_vars
    PROVE  HaltInv'
<1>1. CASE UNCHANGED vars
  BY <1>1, StillSafe, Zenon
<1>2. CASE \E th \in Holder : Start(th)
  BY <1>2, Threads, StartSafe, Zenon
<1>3. CASE \E th \in Thread : Continue(th)
  BY <1>3, PumpSafe, CleanupsSafe, AcquisitionSafe, HeldSafe, Zenon DEF Continue
<1>4. CASE SweepStart \/ SweepStep
  BY <1>4, SweepSafe, Zenon
<1>5. CASE HostTick
  BY <1>5, TickSafe, Zenon
<1> QED
  BY <1>1, <1>2, <1>3, <1>4, <1>5, Zenon DEF Next

-----------------------------------------------------------------------------
\* The books of queued requests.  Counting a queue needs the laws of finite sets.

INSTANCE FiniteSetTheorems

\* Entries that leave a queue leave one that fits.
LEMMA ShrunkFits ==
    ASSUME BookInv, NEW out
    PROVE  /\ IsFiniteSet(queue[inst] \ out)
           /\ Cardinality(queue[inst] \ out) \in Nat
           /\ Cardinality(queue[inst] \ out) <= MaxDepth
<1>1. IsFiniteSet(queue[inst]) /\ Cardinality(queue[inst]) <= MaxDepth
  BY Zenon DEF BookInv, QueueFits
<1>2. queue[inst] \ out \subseteq queue[inst]
  OBVIOUS
<1>3. /\ IsFiniteSet(queue[inst] \ out)
      /\ Cardinality(queue[inst] \ out) <= Cardinality(queue[inst])
  BY <1>1, <1>2, FS_Subset, Zenon
<1>4. Cardinality(queue[inst] \ out) \in Nat /\ Cardinality(queue[inst]) \in Nat
  BY <1>1, <1>3, FS_CardinalityType, Zenon
<1>5. MaxDepth \in Nat
  BY ConfigAssumption
<1> QED
  BY <1>1, <1>3, <1>4, <1>5

\* The queue fits after every step.
LEMMA FitsNext ==
    ASSUME BookInv, BookNext
    PROVE  BookInv'
<1>0. /\ queue \in [Instance -> SUBSET EntryType]
      /\ inst \in Instance
      /\ \A e, f \in queue[inst] : e.claim = f.claim => e = f
  BY OneInstance, Zenon DEF BookInv, SchedTypes, QueueFits
<1>1. ASSUME queue' = queue
      PROVE  QueueFits'
  BY <1>1, Zenon DEF BookInv, QueueFits
<1>2. ASSUME NEW out \in SUBSET queue[inst],
             queue' = [queue EXCEPT ![inst] = queue[inst] \ out]
      PROVE  QueueFits'
  <2>1. queue'[inst] = queue[inst] \ out
    BY <1>0, <1>2, Zenon
  <2> QED
    BY <1>0, <2>1, ShrunkFits, Zenon DEF QueueFits
<1>3. ASSUME NEW out \in SUBSET queue[inst], NEW e \in EntryType,
             \A f \in queue[inst] : f.claim # e.claim,
             Cardinality(queue[inst] \ out) < MaxDepth,
             queue' = [queue EXCEPT ![inst] = (queue[inst] \ out) \cup {e}]
      PROVE  QueueFits'
  <2> DEFINE q == queue[inst] \ out
  <2>1. queue'[inst] = q \cup {e}
    BY <1>0, <1>3, Zenon
  <2>2. \A f \in q : f.claim # e.claim
    BY <1>3, Zenon
  <2>3. IsFiniteSet(q) /\ Cardinality(q) \in Nat
    BY ShrunkFits, Zenon
  <2>4. e \notin q
    BY <2>2, Zenon
  <2>5. IsFiniteSet(q \cup {e}) /\ Cardinality(q \cup {e}) = Cardinality(q) + 1
    BY <2>3, <2>4, FS_AddElement, Zenon
  <2>6. Cardinality(q) < MaxDepth /\ MaxDepth \in Nat
    BY <1>3, ConfigAssumption
  <2>7. Cardinality(q \cup {e}) <= MaxDepth
    BY <2>3, <2>5, <2>6
  <2>8. \A f, g \in q \cup {e} : f.claim = g.claim => f = g
    BY <1>0, <2>2, Zenon
  <2> QED
    BY <2>1, <2>5, <2>7, <2>8, Zenon DEF QueueFits
<1>4. QueueFits'
  BY <1>1, <1>2, <1>3, Zenon DEF BookNext, QueueKept
<1> QED
  BY <1>4, Zenon DEF BookNext, BookInv

\* A queue that is full after the lapsed entries went has no lapsed entries.
LEMMA FullLive ==
    ASSUME BookInv
    PROVE  Brim
<1>1. IsFiniteSet(queue[inst]) /\ Cardinality(queue[inst]) <= MaxDepth
  BY Zenon DEF BookInv, QueueFits
<1>2. ASSUME NEW q \in SUBSET queue[inst], Cardinality(q) >= MaxDepth
      PROVE  q = queue[inst]
  <2>1. /\ IsFiniteSet(q) /\ Cardinality(q) <= Cardinality(queue[inst])
        /\ Cardinality(q) = Cardinality(queue[inst]) => q = queue[inst]
    BY <1>1, FS_Subset, Zenon
  <2>2. /\ Cardinality(q) \in Nat /\ Cardinality(queue[inst]) \in Nat
        /\ MaxDepth \in Nat
    BY <1>1, <2>1, FS_CardinalityType, ConfigFacts, Zenon
  <2>3. Cardinality(q) = Cardinality(queue[inst])
    BY <1>1, <1>2, <2>1, <2>2, SMT
  <2> QED
    BY <2>1, <2>3, Zenon
<1> QED
  BY <1>2, Zenon DEF Brim

LEMMA InitBooks ==
    ASSUME Init
    PROVE  BookInv
<1>1. inst \in Instance /\ None \notin Thread
  BY OneInstance, Threads, Zenon
<1>2. /\ now = 0 /\ epoch = 1 /\ lease = [i \in Instance |-> None]
      /\ cooldown = [i \in Instance |-> 0] /\ queue = [i \in Instance |-> {}]
      /\ locations = {} /\ nextLease = 1 /\ nextArrival = 1 /\ nextStep = 1
  BY Zenon DEF Init, New
<1>3. SchedTypes
  <2>1. 0 \in Nat /\ 1 \in Nat
    OBVIOUS
  <2> QED
    BY <1>2, <2>1, Zenon DEF SchedTypes
<1>4. \A th \in Thread : /\ pc[th] \in {"rest", "idle"} /\ job[th] = NoJob
  BY Zenon DEF Init
<1>5. {"rest", "idle"} \subseteq Plain /\ "visible" \notin Plain
  BY SMT DEF Plain
<1>6. ThreadTypes
  <2>1. "rest" \in Place /\ "idle" \in Place
    BY <1>5, Zenon DEF Place, Loose
  <2> QED
    BY <2>1, NoJobType, Zenon DEF Init, ThreadTypes
<1>7. queue[inst] = {} /\ Unshown = {}
  BY <1>1, <1>2, <1>4, <1>5, Zenon DEF Unshown
<1>8. Books
  <2>1. 0 \in Nat /\ 0 <= 1
    OBVIOUS
  <2>2. contexts = {} /\ asked = {} /\ settled = [c \in Claim |-> 0]
        /\ setting \in Setting /\ order = None /\ admission = None
    BY Zenon DEF Init
  <2> QED
    BY <1>7, <2>1, <2>2, Zenon DEF Books, Waiting
<1>9. QueueFits
  <2>1. IsFiniteSet({}) /\ Cardinality({}) = 0
    BY FS_EmptySet
  <2>2. 0 <= MaxDepth
    BY ConfigFacts
  <2> QED
    BY <1>7, <2>1, <2>2, Zenon DEF QueueFits
<1>10. ASSUME NEW th \in Thread
       PROVE  Placed(th, pc[th], job[th])
  <2>1. pc[th] \in Plain /\ order # th
    BY <1>1, <1>4, <1>5, Zenon DEF Init
  <2>2. /\ pc[th] \notin Ordered /\ pc[th] # "visible" /\ pc[th] \notin Acting
        /\ pc[th] \notin {"poll", "cancel", "end", "transfer", "pumpGrant", "grant"}
        /\ ~Asks(pc[th], job[th])
    BY <2>1, Places, Zenon DEF Loose
  <2> QED
    BY <2>1, <2>2, Zenon DEF Placed
<1> QED
  BY <1>3, <1>6, <1>8, <1>9, <1>10, Zenon DEF BookInv

LEMMA StepBooks ==
    ASSUME BookInv, [Next]_vars
    PROVE  BookInv'
  BY NextBooks, FullLive, FitsNext, Zenon

LEMMA BooksKept == Spec => []BookInv
<1>1. Init => BookInv
  BY InitBooks, Zenon
<1>2. BookInv /\ [Next]_vars => BookInv'
  BY StepBooks, Zenon
<1> QED
  BY <1>1, <1>2, PTL DEF Spec

\* Whatever is asked for and however the threads come together, the locks are held
\* by threads, and the contexts, the claims asked for and the records have their
\* types.
THEOREM HostTyped == Spec => []HostTypeOK
<1>1. ASSUME BookInv
      PROVE  HostTypeOK
  <2>1. /\ admission \in Thread \cup {None} /\ order \in Thread \cup {None}
        /\ contexts \subseteq asked /\ asked \subseteq setting.claims
        /\ settled \in [Claim -> Nat]
    BY <1>1, Zenon DEF BookInv, Books
  <2>2. \A th \in Thread : job[th].claim \in Claim \cup {None}
    BY <1>1, Moves, JobFields, Zenon
  <2> QED
    BY <2>1, <2>2, Zenon DEF HostTypeOK
<1>2. BookInv => HostTypeOK
  BY <1>1
<1> QED
  BY <1>2, BooksKept, PTL

\* Outside the queue-order lock the queued contexts (queued_requests) are those of
\* the waiting entries, for every setting of claims and capacity: no path that takes
\* an entry out of the queue leaves its context behind, and none that puts one in
\* lets another thread see it without.
THEOREM ContextsAreExact == Spec => []ContextsExact
<1>1. ASSUME BookInv, order = None
      PROVE  contexts = {e.claim : e \in queue[inst]}
  BY <1>1, UnshownFacts, Zenon DEF BookInv, Books, Waiting
<1>2. BookInv => ContextsExact
  BY <1>1, Zenon DEF ContextsExact
<1> QED
  BY <1>2, BooksKept, PTL

\* The wait of a queued request gets at most one terminal record, and none while it
\* waits, whichever of grant, expiry, cancellation, transfer and disconnect come
\* together.
THEOREM WaitsSettledOnce == Spec => []SettledOnce
<1>1. BookInv => SettledOnce
  BY Zenon DEF BookInv, Books, SettledOnce
<1> QED
  BY <1>1, BooksKept, PTL

-----------------------------------------------------------------------------
\* The lease.

LEMMA Least == WellOrdered
<1>1. ASSUME NEW T \in SUBSET Nat, T # {}
      PROVE  \E n \in T : \A l \in T : n <= l
  <2>1. PICK n \in T : \A l \in T : ~(<<l, n>> \in OpToRel(<, Nat))
    BY <1>1, NatLessThanWellFounded, WFMin, Zenon
  <2>2. \A l \in T : <<l, n>> \in OpToRel(<, Nat) <=> l < n
    BY DEF OpToRel
  <2>3. \A l \in T : ~(l < n)
    BY <2>1, <2>2, Zenon
  <2>4. \A l \in T : n <= l
    BY <2>3, SMT
  <2> QED
    BY <2>4, Zenon
<1> QED
  BY <1>1, Zenon DEF WellOrdered

LEMMA HaltKept ==
    ASSUME Prudent
    PROVE  Spec => []HaltInv
<1>1. Init => HaltInv
  BY InitBooks, InitSafe, Zenon
<1>2. HaltInv /\ [Next]_vars => HaltInv'
  <2>1. HaltInv => BookInv
    BY Zenon DEF HaltInv
  <2> QED
    BY <2>1, StepBooks, Least, NextSafe, Zenon
<1> QED
  BY <1>1, <1>2, PTL DEF Spec

\* In every prudent setting no interleaving of requests, sweeps, pumps, expiries,
\* preemptions, disconnects and device writes reaches one of the invariant errors
\* that halt the Runtime.
THEOREM RuntimeNeverHalts ==
    ASSUME Prudent
    PROVE  Spec => []NeverHalts
<1>1. HaltInv => NeverHalts
  BY Zenon DEF HaltInv, NeverHalts
<1> QED
  BY <1>1, HaltKept, PTL

\* In every prudent setting a device write in flight is its holder's, under the
\* current lease and the step open in it: no sweep, pump, preemption, release or
\* renewal ends or passes on a lease under a write.
THEOREM WritesAreFenced ==
    ASSUME Prudent
    PROVE  Spec => []WritesFenced
<1>1. ASSUME HaltInv, NEW th \in Thread, pc[th] = "write"
      PROVE  Current(job[th].token) /\ lease[inst].step = job[th].step.step
  <2>1. /\ held # None /\ held.token = job[th].token
        /\ job[th].step = [token |-> job[th].token, holder |-> th, step |-> held.step]
    BY <1>1, SafeAt, Zenon DEF Safe
  <2>2. job[th].step.step = held.step
    BY <2>1, SMT
  <2>3. Current(held.token)
    BY <1>1, <2>1, HeldFacts, Zenon
  <2> QED
    BY <2>1, <2>2, <2>3, Zenon DEF held
<1>2. HaltInv => WritesFenced
  BY <1>1, Zenon DEF WritesFenced
<1> QED
  BY <1>2, HaltKept, PTL

=============================================================================
