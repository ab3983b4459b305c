----------------------------- MODULE HostBooks ------------------------------
(***************************************************************************)
(* The pump, the cleanups, acquisitions and the calls on a held lease keep *)
(* the books of queued requests.                                           *)
(*                                                                         *)
(* The argument is about the queue-order lock.  Between the lock's takings *)
(* every entry has its context; the thread that holds it at "visible" has  *)
(* an entry whose context is still to come, and the claim is its own.  A   *)
(* step is sorted by what it does to the books (KeptBooks, AskedFor,       *)
(* Removed, Inserted, Shown); each kind keeps the invariant of the books   *)
(* and of every other thread, so that an action is left to show its kind   *)
(* and where it leaves its own thread.                                     *)
(***************************************************************************)
EXTENDS HostSafety

-----------------------------------------------------------------------------
\* Every kind of step keeps the books, and the place of every other thread.

\* The entries that leave had their contexts.
LEMMA OutWaits ==
    ASSUME BookInv, Unshown = {}, NEW out, out \subseteq queue[inst]
    PROVE  {e.claim : e \in out} \subseteq contexts
<1>1. contexts = Waiting
  BY Zenon DEF BookInv, Books
<1> QED
  BY <1>1, Zenon DEF Waiting

\* A record goes only to a claim that had a context.
LEMMA SettleFacts ==
    ASSUME BookInv, NEW cs, cs \subseteq contexts, Settle(cs)
    PROVE  /\ contexts' = contexts \ cs
           /\ settled' \in [Claim -> Nat]
           /\ \A c \in Claim : c \notin contexts => settled'[c] = settled[c]
           /\ \A c \in Claim : settled'[c] <= 1
           /\ \A c \in contexts' : settled'[c] = 0
           /\ \A c \in Claim : c \notin asked => settled'[c] = 0
<1>1. settled \in [Claim -> Nat] /\ contexts \subseteq Claim
  BY SettingClaims, Zenon DEF BookInv, Books
<1>2. \A c \in Claim : /\ settled[c] <= 1
                       /\ c \in contexts \/ c \notin asked => settled[c] = 0
  BY Zenon DEF BookInv, Books
<1>3. contexts \subseteq asked
  BY Zenon DEF BookInv, Books
<1>4. contexts' = contexts \ cs
  BY Zenon DEF Settle
<1>5. settled' = [c \in Claim |-> IF c \in cs THEN settled[c] + 1 ELSE settled[c]]
  BY Zenon DEF Settle
<1>6. settled' \in [Claim -> Nat]
  BY <1>1, <1>5
<1>7. \A c \in Claim : settled'[c] = IF c \in cs THEN settled[c] + 1 ELSE settled[c]
  BY <1>5, Zenon
<1>8. \A c \in Claim : settled[c] \in Nat
  BY <1>1
<1>9. \A c \in Claim : settled'[c] <= 1
  BY <1>2, <1>7, <1>8
<1> QED
  BY <1>1, <1>2, <1>3, <1>4, <1>6, <1>7, <1>9, Zenon

LEMMA Sparing ==
    ASSUME BookInv, NEW th \in Thread, NEW p, NEW j, BookStep(th, p, j)
    PROVE  /\ Spares(th)
           /\ pc[th] # "visible" => contexts' \subseteq contexts
<1>1. CASE KeptBooks
  BY <1>1, Zenon DEF KeptBooks, Spares
<1>2. CASE \E c \in Claim : AskedFor(c)
  BY <1>2, Zenon DEF AskedFor, Spares
<1>3. ASSUME NEW out \in SUBSET queue[inst], Removed(out)
      PROVE  Spares(th) /\ contexts' \subseteq contexts
  <2>1. {e.claim : e \in out} \subseteq contexts
    BY <1>3, OutWaits, Zenon DEF Removed
  <2>2. \A u \in Thread : pc[u] # "visible"
    BY <1>3, Zenon DEF Removed, Unshown
  <2> QED
    BY <1>3, <2>1, <2>2, SettleFacts, Zenon DEF Removed, Spares
<1>4. ASSUME NEW out \in SUBSET queue[inst], NEW e \in EntryType, Inserted(th, out, e)
      PROVE  Spares(th) /\ contexts' \subseteq contexts
  <2>0. Unshown = {}
    BY <1>4, UnshownFacts, Zenon DEF Inserted
  <2>1. {f.claim : f \in out} \subseteq contexts
    BY <1>4, <2>0, OutWaits, Zenon
  <2>2. \A u \in Thread : pc[u] # "visible"
    BY <2>0, Zenon DEF Unshown
  <2> QED
    BY <1>4, <2>1, <2>2, SettleFacts, Zenon DEF Inserted, Spares
<1>5. ASSUME pc[th] = "visible", Shown(th)
      PROVE  Spares(th)
  <2>1. job[th].claim.holder = th
    BY <1>5, Zenon DEF BookInv, Placed, Asks, Unwaited
  <2> QED
    BY <1>5, <2>1, Zenon DEF Shown, Spares
<1> QED
  BY <1>1, <1>2, <1>3, <1>4, <1>5, Zenon DEF BookStep, Tame

LEMMA Others ==
    ASSUME BookInv, NEW th \in Thread, NEW u \in Thread, u # th, NEW p, NEW j,
           Moved(th, p, j), Handed(th), Spares(th)
    PROVE  Placed(u, pc[u], job[u])'
<1>1. pc'[u] = pc[u] /\ job'[u] = job[u]
  BY Zenon DEF BookInv, ThreadTypes, Moved
<1>2. Placed(u, pc[u], job[u])
  BY Zenon DEF BookInv
<1>3. order' = u <=> order = u
  BY Threads DEF Handed
<1>4. \A c \in asked : c \in asked' /\ c \in Claim
  BY SettingClaims, Zenon DEF BookInv, Spares
<1>5. \A c \in asked : c.holder = u /\ c \notin contexts => c \notin contexts'
  BY Zenon DEF Spares
<1>6. \A c \in asked : Unwaited(u, c) => Unwaited(u, c)'
  BY <1>4, <1>5, Zenon DEF Unwaited, Spares
<1>7. Asks(pc[u], job[u]) => Unwaited(u, job[u].claim)'
  BY <1>1, <1>2, <1>6, Zenon DEF Placed, Unwaited
<1>8. pc[u] = "visible" => \E e \in queue'[inst] : e.claim = job[u].claim
  BY <1>2, Zenon DEF Spares, Placed
<1>9. pc[u] \in {"poll", "cancel"} =>
          /\ job[u].claim \in asked' /\ job[u].claim.holder = u
          /\ ~job[u].flag => job[u].claim \notin contexts'
  BY <1>2, <1>4, <1>5, Zenon DEF Placed
<1> QED
  BY <1>1, <1>2, <1>3, <1>7, <1>8, <1>9, Zenon DEF Placed, Unwaited, Asks

\* The claims whose contexts are to come, after a step.
LEMMA UnshownNext ==
    ASSUME BookInv, NEW th \in Thread, NEW p, NEW j, Moved(th, p, j)
    PROVE  /\ pc[th] # "visible" /\ p # "visible" => Unshown' = Unshown
           /\ Unshown = {} /\ p = "visible" => Unshown' = {j.claim}
           /\ pc[th] = "visible" /\ p # "visible" => Unshown' = {}
<1>1. /\ pc'[th] = p /\ job'[th] = j
      /\ \A u \in Thread : u # th => pc'[u] = pc[u] /\ job'[u] = job[u]
  BY Zenon DEF BookInv, ThreadTypes, Moved
<1>2. pc[th] # "visible" /\ p # "visible" => Unshown' = Unshown
  BY <1>1, Zenon DEF Unshown
<1>3. ASSUME Unshown = {}, p = "visible"
      PROVE  Unshown' = {j.claim}
  <2>1. \A u \in Thread : pc[u] # "visible"
    BY <1>3, Zenon DEF Unshown
  <2> QED
    BY <1>1, <1>3, <2>1, Zenon DEF Unshown
<1>4. ASSUME pc[th] = "visible", p # "visible"
      PROVE  Unshown' = {}
  <2>1. \A u \in Thread : pc[u] = "visible" => u = th
    BY <1>4, Zenon DEF BookInv, Placed, Ordered
  <2> QED
    BY <1>1, <1>4, <2>1, Zenon DEF Unshown
<1> QED
  BY <1>2, <1>3, <1>4

LEMMA ContextsStep ==
    ASSUME BookInv, NEW th \in Thread, NEW p, NEW j, Moved(th, p, j),
           BookStep(th, p, j)
    PROVE  (contexts = Waiting \ Unshown)'
<1>0. /\ queue \in [Instance -> SUBSET EntryType]
      /\ inst \in Instance
      /\ \A e, f \in queue[inst] : e.claim = f.claim => e = f
      /\ contexts = Waiting \ Unshown
  BY OneInstance, Zenon DEF BookInv, SchedTypes, QueueFits, Books
<1>1. ASSUME pc[th] # "visible", p # "visible", queue' = queue, contexts' = contexts
      PROVE  (contexts = Waiting \ Unshown)'
  BY <1>0, <1>1, UnshownNext, Zenon DEF Waiting
<1>2. ASSUME pc[th] # "visible", p # "visible",
             NEW out \in SUBSET queue[inst], Removed(out)
      PROVE  (contexts = Waiting \ Unshown)'
  <2>1. queue'[inst] = queue[inst] \ out
    BY <1>0, <1>2, Zenon DEF Removed
  <2>2. contexts' = Waiting \ {e.claim : e \in out}
    BY <1>0, <1>2, Zenon DEF Removed, Settle
  <2>3. Waiting' = Waiting \ {e.claim : e \in out}
    BY <1>0, <1>2, <2>1, Zenon DEF Waiting
  <2> QED
    BY <1>2, <2>2, <2>3, UnshownNext, Zenon DEF Removed
<1>3. ASSUME p = "visible", j.claim = job[th].claim,
             NEW out \in SUBSET queue[inst], NEW e \in EntryType, Inserted(th, out, e)
      PROVE  (contexts = Waiting \ Unshown)'
  <2>0. Unshown = {}
    BY <1>3, UnshownFacts, Zenon DEF Inserted
  <2>1. queue'[inst] = (queue[inst] \ out) \cup {e}
    BY <1>0, <1>3, Zenon DEF Inserted
  <2>2. contexts' = Waiting \ {f.claim : f \in out}
    BY <1>0, <1>3, <2>0, Zenon DEF Inserted, Settle
  <2>3. Waiting' = (Waiting \ {f.claim : f \in out}) \cup {e.claim}
    <3>1. {f.claim : f \in queue[inst] \ out} = Waiting \ {f.claim : f \in out}
      <4>1. \A f \in queue[inst] \ out, g \in out : f.claim # g.claim
        BY <1>0, <1>3, Zenon
      <4> QED
        BY <4>1, Zenon DEF Waiting
    <3>2. Waiting' = {f.claim : f \in queue[inst] \ out} \cup {e.claim}
      BY <2>1, Zenon DEF Waiting
    <3> QED
      BY <3>1, <3>2
  <2>4. e.claim \notin Waiting
    BY <1>3, Zenon DEF Inserted, Waiting
  <2>5. Unshown' = {e.claim}
    BY <1>3, <2>0, UnshownNext, Zenon DEF Inserted
  <2> QED
    BY <2>2, <2>3, <2>4, <2>5, Zenon
<1>4. ASSUME pc[th] = "visible", p # "visible", Shown(th)
      PROVE  (contexts = Waiting \ Unshown)'
  <2>1. Unshown = {job[th].claim} /\ Unshown' = {}
    BY <1>4, UnshownFacts, UnshownNext, Zenon
  <2>2. Waiting' = Waiting /\ contexts' = contexts \cup {job[th].claim}
    BY <1>4, Zenon DEF Shown, Waiting
  <2>3. PICK e \in queue[inst] : e.claim = job[th].claim
    BY <1>4, Zenon DEF BookInv, Placed
  <2>4. job[th].claim \in Waiting
    BY <2>3, Zenon DEF Waiting
  <2> QED
    BY <1>0, <2>1, <2>2, <2>4, Zenon
<1> QED
  BY <1>1, <1>2, <1>3, <1>4, Zenon DEF BookStep, Tame, KeptBooks, AskedFor

LEMMA BooksStep ==
    ASSUME BookInv, NEW th \in Thread, NEW p, NEW j, Moved(th, p, j),
           BookStep(th, p, j), Handed(th), setting' = setting,
           admission' \in Thread \cup {None}
    PROVE  Books'
<1>0. /\ contexts \subseteq asked /\ asked \subseteq setting.claims
      /\ setting \in Setting
      /\ order \in Thread \cup {None}
      /\ settled \in [Claim -> Nat]
      /\ \A c \in Claim : /\ settled[c] <= 1
                          /\ c \in contexts \/ c \notin asked => settled[c] = 0
  BY Zenon DEF BookInv, Books
<1>1. (contexts = Waiting \ Unshown)'
  BY ContextsStep, Zenon
<1>2. order' \in Thread \cup {None}
  BY <1>0, Zenon DEF Handed
<1> DEFINE Rest == /\ contexts' \subseteq asked' /\ asked' \subseteq setting.claims
                   /\ settled' \in [Claim -> Nat]
                   /\ \A c \in Claim : /\ settled'[c] <= 1
                                       /\ c \in contexts' \/ c \notin asked' =>
                                             settled'[c] = 0
<1>3. ASSUME KeptBooks
      PROVE  Rest
  BY <1>0, <1>3, Zenon DEF KeptBooks
<1>4. ASSUME NEW c \in Claim, AskedFor(c)
      PROVE  Rest
  BY <1>0, <1>4, Zenon DEF AskedFor
<1>5. ASSUME NEW out \in SUBSET queue[inst], Unshown = {}, asked' = asked,
             Settle({e.claim : e \in out})
      PROVE  Rest
  <2>1. {e.claim : e \in out} \subseteq contexts
    BY <1>5, OutWaits, Zenon
  <2> QED
    BY <1>0, <1>5, <2>1, SettleFacts, Zenon
<1>6. ASSUME NEW out \in SUBSET queue[inst], NEW e \in EntryType, Inserted(th, out, e)
      PROVE  Rest
  <2>1. Unshown = {}
    BY <1>6, UnshownFacts, Zenon DEF Inserted
  <2> QED
    BY <1>5, <1>6, <2>1, Zenon DEF Inserted
<1>7. ASSUME pc[th] = "visible", Shown(th)
      PROVE  Rest
  <2>1. Unwaited(th, job[th].claim)
    BY <1>7, Zenon DEF BookInv, Placed, Asks
  <2>2. contexts' = contexts \cup {job[th].claim} /\ settled' = settled /\ asked' = asked
    BY <1>7, Zenon DEF Shown
  <2>3. contexts' \subseteq asked'
    BY <1>0, <2>1, <2>2, Zenon DEF Unwaited
  <2>4. \A c \in contexts' : settled'[c] = 0 \/ c \notin Claim
    BY <1>0, <2>1, <2>2, Zenon DEF Unwaited
  <2> QED
    BY <1>0, <2>2, <2>3, <2>4, Zenon
<1>8. Rest
  <2>1. CASE Tame
    BY <2>1, <1>3, <1>4, <1>5, Zenon DEF Tame, Removed
  <2> QED
    BY <2>1, <1>6, <1>7, Zenon DEF BookStep
<1> QED
  BY <1>0, <1>1, <1>2, <1>8, Zenon DEF Books

\* A step of one of the kinds that leaves its own thread well placed keeps the
\* invariant.
LEMMA Step ==
    ASSUME BookInv, NEW th \in Thread, NEW p \in Place, NEW j \in JobType,
           Moved(th, p, j), BookStep(th, p, j), Handed(th), setting' = setting,
           admission' \in Thread \cup {None}, SchedTypes',
           Placed(th, pc[th], job[th])'
    PROVE  BookNext
<1>1. Books'
  BY BooksStep, Zenon
<1>2. \A u \in Thread : Placed(u, pc[u], job[u])'
  BY Sparing, Others, Zenon
<1>3. ThreadTypes'
  BY Zenon DEF BookInv, ThreadTypes, Moved
<1>4. QueueKept
  BY Zenon DEF BookStep, Tame, KeptBooks, AskedFor, Removed, Inserted, Shown, QueueKept
<1> QED
  BY <1>1, <1>2, <1>3, <1>4, Zenon DEF BookNext

\* A Runtime that halts, and the clock, leave the books alone.
LEMMA StillStep ==
    ASSUME BookInv, SchedTypes', queue' = queue,
           UNCHANGED <<lockVars, threadVars, bookVars, setting, asked>>
    PROVE  BookNext
<1>1. /\ order' = order /\ admission' = admission /\ pc' = pc /\ job' = job
      /\ contexts' = contexts /\ settled' = settled /\ setting' = setting
      /\ asked' = asked
  BY Zenon DEF lockVars, threadVars, bookVars
<1>2. Books' /\ QueueKept /\ ThreadTypes'
  BY <1>1, Zenon DEF BookInv, Books, QueueKept, ThreadTypes, Waiting, Unshown
<1>3. ASSUME NEW th \in Thread
      PROVE  Placed(th, pc[th], job[th])'
  <2>1. Placed(th, pc[th], job[th])
    BY Zenon DEF BookInv
  <2> QED
    BY <1>1, <2>1, Zenon DEF Placed, Asks, Unwaited
<1> QED
  BY <1>2, <1>3, Zenon DEF BookNext

-----------------------------------------------------------------------------
\* Places.

LEMMA Places ==
    /\ \A p \in Loose : p \in Place /\ p \notin Ordered /\ p # "visible"
    /\ \A p \in Plain \cup Acting :
          p \notin {"poll", "cancel", "end", "transfer", "pumpGrant", "grant"}
    /\ \A p \in Asking \cup Ordered : p \notin Acting \cup {"poll", "cancel"}
    /\ \A p \in Asking \cup {"end"} : p \notin {"visible", "transfer", "pumpGrant", "grant"}
    /\ \A p \in Plain : p \notin Acting
    /\ \A p \in Plain \cup Acting : \A j : ~Asks(p, j)
<1>1. \A p \in Loose : p \in Place
  BY Zenon DEF Place
<1>2. \A p \in Loose : p \notin Ordered /\ p # "visible"
  BY SMT DEF Loose, Plain, Acting, Asking, Ordered
<1>3. \A p \in Plain \cup Acting :
          p \notin {"poll", "cancel", "end", "transfer", "pumpGrant", "grant"}
  BY SMT DEF Plain, Acting
<1>4. \A p \in Asking \cup Ordered : p \notin Acting \cup {"poll", "cancel"}
  BY SMT DEF Asking, Acting, Ordered
<1>5. \A p \in Asking \cup {"end"} : p \notin {"visible", "transfer", "pumpGrant", "grant"}
  BY SMT DEF Asking
<1>6. \A p \in Plain : p \notin Asking \cup Acting \cup {"visible"}
  BY SMT DEF Asking, Acting, Plain
<1>7. \A p \in Acting : p \notin Asking /\ p # "visible"
  BY SMT DEF Asking, Acting
<1>8. \A p, j : Asks(p, j) => p \in Asking \cup {"visible", "end", "transfer"}
  BY Zenon DEF Asks, Asking
<1>9. \A p \in Plain \cup Acting : \A j : ~Asks(p, j)
  BY <1>3, <1>6, <1>7, <1>8, Zenon
<1> QED
  BY <1>1, <1>2, <1>3, <1>4, <1>5, <1>6, <1>9, Zenon

LEMMA Unordered ==
    ASSUME BookInv, NEW th \in Thread, pc[th] \in Loose
    PROVE  order # th /\ pc[th] # "visible"
  BY Places, Zenon DEF BookInv, Placed

LEMMA Unlocks ==
    ASSUME BookInv, NEW th \in Thread, Unlock(th)
    PROVE  /\ Handed(th) /\ order' # th /\ admission' # th
           /\ admission' \in Thread \cup {None}
<1>1. admission \in Thread \cup {None} /\ None \notin Thread
  BY Threads, Zenon DEF BookInv, Books
<1>2. order' # th /\ order' \in {order, None} /\ (order' # order => order = th)
  BY <1>1, Zenon DEF Unlock
<1>3. admission' # th /\ admission' \in {admission, None}
  BY <1>1, Zenon DEF Unlock
<1> QED
  BY <1>1, <1>2, <1>3 DEF Handed

-----------------------------------------------------------------------------
\* Steps that leave their thread at a plain place, and those that keep its claim.

LEMMA PlainStep ==
    ASSUME BookInv, NEW th \in Thread, NEW p, NEW j \in JobType, Bare(p, j),
           Moved(th, p, j), pc[th] # "visible", Tame, Handed(th), order' # th,
           setting' = setting, admission' \in Thread \cup {None}, SchedTypes'
    PROVE  BookNext
<1>1. pc'[th] = p /\ job'[th] = j
  BY Landing, Zenon
<1>2. /\ p \in Place /\ p \notin Ordered /\ p # "visible"
      /\ p \notin {"poll", "cancel", "end", "transfer", "pumpGrant", "grant"}
      /\ ~Asks(p, j)
      /\ p \in Acting => j.op \notin {"queue", "acquire"}
  BY Places, Zenon DEF Bare, Loose
<1>4. Placed(th, pc[th], job[th])'
  BY <1>1, <1>2, Zenon DEF Placed, Asks
<1>5. BookStep(th, p, j)
  BY <1>2, Zenon DEF BookStep
<1> QED
  BY <1>2, <1>4, <1>5, Step, Zenon

\* A claim that does not wait yet still does not after a step of its own thread.
LEMMA StillUnwaited ==
    ASSUME BookInv, NEW th \in Thread, NEW p, NEW j, pc[th] # "visible",
           BookStep(th, p, j), Asks(pc[th], job[th])
    PROVE  LET c == job[th].claim IN
           /\ c \in asked' /\ c.holder = th
           /\ c \notin contexts' /\ settled'[c] = 0
<1>1. Unwaited(th, job[th].claim) /\ job[th].claim \in Claim
  BY SettingClaims, Zenon DEF BookInv, Placed, Unwaited
<1>2. Spares(th) /\ contexts' \subseteq contexts
  BY Sparing, Zenon
<1> QED
  BY <1>1, <1>2, Zenon DEF Unwaited, Spares

LEMMA AskingStep ==
    ASSUME BookInv, NEW th \in Thread, NEW p \in Asking \cup {"end"}, NEW j \in JobType,
           Moved(th, p, j), pc[th] # "visible", Tame, Handed(th),
           order' = th <=> p = "end",
           Asks(p, j) => Asks(pc[th], job[th]) /\ j.claim = job[th].claim,
           setting' = setting, admission' \in Thread \cup {None}, SchedTypes'
    PROVE  BookNext
<1>1. pc'[th] = p /\ job'[th] = j
  BY Landing, Zenon
<1>2. /\ p \in Place /\ p # "visible"
      /\ p \in Ordered <=> p = "end"
      /\ p \notin {"poll", "cancel", "visible", "transfer", "pumpGrant", "grant"}
      /\ p \notin Acting
  BY Places, Zenon DEF Ordered, Place, Loose
<1>3. BookStep(th, p, j)
  BY <1>2, Zenon DEF BookStep
<1>4. Asks(p, j) => /\ j.claim \in asked' /\ j.claim.holder = th
                    /\ j.claim \notin contexts' /\ settled'[j.claim] = 0
  BY <1>3, StillUnwaited, Zenon
<1>5. Placed(th, pc[th], job[th])'
  BY <1>1, <1>2, <1>4, Zenon DEF Placed, Asks, Unwaited
<1> QED
  BY <1>2, <1>3, <1>5, Step, Zenon

\* A step that leaves its thread with the order lock and what it prepared.
LEMMA OrderedStep ==
    ASSUME BookInv, NEW th \in Thread,
           NEW p \in {"pumpPrepare", "pumpGrant", "grant", "transfer"},
           NEW j \in JobType, Moved(th, p, j), pc[th] # "visible", Tame, Handed(th),
           order' = th,
           p = "pumpGrant" => j.prep \in GrantType /\ j.prep.fromQueue,
           p = "grant" => j.prep \in GrantType /\ ~j.prep.fromQueue,
           p = "transfer" => j.prep \in TransferType /\ ~j.prep.handOff,
           Asks(p, j) => Asks(pc[th], job[th]) /\ j.claim = job[th].claim,
           setting' = setting, admission' \in Thread \cup {None}, SchedTypes'
    PROVE  BookNext
<1>1. pc'[th] = p /\ job'[th] = j
  BY Landing, Zenon
<1>2. p \in Ordered /\ p # "visible"
  BY SMT DEF Ordered
<1>6. p \in Place /\ p \notin {"poll", "cancel"} /\ p \notin Acting
  BY <1>2, Places, Zenon DEF Place
<1>3. BookStep(th, p, j)
  BY <1>2, Zenon DEF BookStep
<1>4. Asks(p, j) => /\ j.claim \in asked' /\ j.claim.holder = th
                    /\ j.claim \notin contexts' /\ settled'[j.claim] = 0
  BY <1>3, StillUnwaited, Zenon
<1>5. Placed(th, pc[th], job[th])'
  BY <1>1, <1>2, <1>4, <1>6, Zenon DEF Placed, Asks, Unwaited
<1> QED
  BY <1>6, <1>3, <1>5, Step, Zenon

\* A step that changes nothing but where its thread is and the guard.
LEMMA QuietStep ==
    ASSUME BookInv, NEW th \in Thread, NEW p, NEW j \in JobType, Bare(p, j),
           Moved(th, p, j), pc[th] \in Loose,
           UNCHANGED <<schedVars, order, bookVars>>, Fine,
           admission' \in Thread \cup {None}
    PROVE  BookNext
<1>1. order # th /\ pc[th] # "visible"
  BY Unordered, Zenon
<1>2. SchedTypes' /\ queue' = queue
  BY IdleCall, Zenon DEF BookInv
<1>3. Tame /\ Handed(th) /\ order' # th /\ setting' = setting
  BY <1>1, <1>2, Zenon DEF Tame, KeptBooks, Handed, Fine, bookVars
<1> QED
  BY <1>1, <1>2, <1>3, PlainStep, Zenon

\* A Runtime that halts.
LEMMA FailStep ==
    ASSUME BookInv, NEW name, Fail(name)
    PROVE  BookNext
<1>1. SchedTypes' /\ queue' = queue
  BY IdleCall, Zenon DEF BookInv, Fail
<1> QED
  BY <1>1, StillStep, Zenon DEF Fail

-----------------------------------------------------------------------------
\* The actions: pumps.

LEMMA Pumped ==
    ASSUME BookInv, NEW th \in Thread
    PROVE  /\ \A op : AfterPump(op) \in Plain
           /\ AfterJob(th) \in JobType
           /\ [AfterJob(th) EXCEPT !.prep = None] \in JobType
<1>1. \A op : AfterPump(op) \in {"tokens", "gone", "dead", "rest", "idle"}
  BY SMT DEF AfterPump
<1>2. {"tokens", "gone", "dead", "rest", "idle"} \subseteq Plain
  BY Zenon DEF Plain
<1>3. AfterJob(th) \in JobType
  BY Moves, NoJobType, Zenon DEF AfterJob
<1>4. [AfterJob(th) EXCEPT !.prep = None] \in JobType
  BY <1>3, PrepEdit, Zenon
<1> QED
  BY <1>1, <1>2, <1>3, <1>4, Zenon

LEMMA PumpKeeps ==
    ASSUME BookInv, NEW th \in Thread, Pump(th)
    PROVE  BookNext
<1>0. /\ SchedTypes /\ order \in Thread \cup {None} /\ admission \in Thread \cup {None}
      /\ inst \in Instance /\ None \notin Thread
  BY OneInstance, Threads, Zenon DEF BookInv, Books
<1>1. CASE PumpSkip(th)
  <2>1. pc[th] \in Loose
    BY <1>1, Zenon DEF PumpSkip, At, Plain, Loose
  <2>2. Moved(th, AfterPump(job[th].op), AfterJob(th))
    BY <1>1, Moves, Zenon DEF PumpSkip
  <2>3. UNCHANGED <<schedVars, order, bookVars>> /\ Fine /\ admission' = admission
    BY <1>1, Zenon DEF PumpSkip, lockVars
  <2> QED
    BY <1>0, <2>1, <2>2, <2>3, Pumped, QuietStep, Zenon DEF Bare
<1>2. CASE PumpEnter(th)
  <2>1. pc[th] \in Loose /\ "pumping" \in Plain
    BY <1>2, Zenon DEF PumpEnter, At, Plain, Loose
  <2>2. Moved(th, "pumping", job[th]) /\ job[th] \in JobType
    BY <1>2, Moves, Zenon DEF PumpEnter
  <2>3. UNCHANGED <<schedVars, order, bookVars>> /\ Fine /\ admission' = th
    BY <1>2, Zenon DEF PumpEnter
  <2> QED
    BY <2>1, <2>2, <2>3, QuietStep, Zenon DEF Bare
<1>3. CASE PumpExpire(th)
  <2>1. pc[th] # "visible" /\ order = None /\ order' = th
    BY <1>3, SMT DEF PumpExpire, At
  <2>2. Moved(th, "pumpPrepare", job[th]) /\ job[th] \in JobType
    BY <1>3, Moves, Zenon DEF PumpExpire
  <2>3. /\ asked' = asked /\ setting' = setting /\ admission' = admission
        /\ ExpireQueued
    BY <1>3, Zenon DEF PumpExpire, Fine
  <2>4. SchedTypes' /\ Tame
    BY <2>1, <2>3, UnshownFacts, ExpireCall, Zenon
  <2>5. Handed(th)
    BY <2>1, Zenon DEF Handed
  <2>6. ~Asks("pumpPrepare", job[th]) /\ "pumpPrepare" \notin {"pumpGrant", "grant", "transfer"}
    BY SMT DEF Asks
  <2> QED
    BY <1>0, <2>1, <2>2, <2>3, <2>4, <2>5, <2>6, OrderedStep, Zenon
<1>4. ASSUME NEW e \in queue[inst], At(th, "pumpPrepare"),
             PrepareQueuedGrant(inst, Open, e), Go(th, "pumpGrant"),
             Carry(th, [job[th] EXCEPT !.prep =
                    PreparedLease(e.claim, e.claim.ttl, FALSE, TRUE)]),
             UNCHANGED <<lockVars, bookVars>>, Fine
      PROVE  BookNext
  <2> DEFINE prep == PreparedLease(e.claim, e.claim.ttl, FALSE, TRUE)
             j == [job[th] EXCEPT !.prep = prep]
  <2>1. e.claim \in Claim /\ e.claim.ttl \in Nat
    BY <1>0, Entries, ConfigFacts, Zenon
  <2>2. prep \in GrantType /\ prep.fromQueue
    BY <1>0, <2>1, PreparedGrants, Zenon
  <2> HIDE DEF prep
  <2>3. j \in JobType /\ j.prep = prep
    BY <2>2, Moves, PrepEdit, Zenon
  <2>4. Moved(th, "pumpGrant", j)
    BY <1>4, Moves, Zenon DEF prep
  <2> HIDE DEF j
  <2>5. SchedTypes' /\ queue' = queue
    BY <1>0, <1>4, PrepareCall, Zenon
  <2>6. Tame /\ setting' = setting /\ order' = order /\ admission' = admission
    BY <1>4, <2>5, Zenon DEF Tame, KeptBooks, bookVars, Fine, lockVars
  <2>7. pc[th] # "visible" /\ pc[th] \in Ordered
    BY <1>4, SMT DEF At, Ordered
  <2>8. order' = th /\ Handed(th)
    BY <2>6, <2>7, Zenon DEF BookInv, Placed, Handed
  <2>9. ~Asks("pumpGrant", j) /\ "pumpGrant" \notin {"pumpPrepare", "grant", "transfer"}
    BY SMT DEF Asks
  <2> QED
    BY <1>0, <2>2, <2>3, <2>4, <2>5, <2>6, <2>7, <2>8, <2>9, OrderedStep, Zenon
<1>5. ASSUME At(th, "pumpPrepare"), Unlock(th), Go(th, AfterPump(job[th].op)),
             Carry(th, AfterJob(th)), UNCHANGED <<schedVars, bookVars>>, Fine
      PROVE  BookNext
  <2>1. SchedTypes' /\ queue' = queue
    BY <1>0, <1>5, IdleCall, Zenon
  <2>2. Tame /\ setting' = setting
    BY <1>5, <2>1, Zenon DEF Tame, KeptBooks, bookVars, Fine
  <2>3. pc[th] # "visible"
    BY <1>5, SMT DEF At
  <2>4. Moved(th, AfterPump(job[th].op), AfterJob(th))
    BY <1>5, Moves, Zenon
  <2> QED
    BY <1>5, <2>1, <2>2, <2>3, <2>4, Unlocks, Pumped, PlainStep, Zenon DEF Bare
<1>6. CASE PumpPrepare(th)
  BY <1>4, <1>5, <1>6, Zenon DEF PumpPrepare
<1>7. CASE PumpGrant(th)
  <2> DEFINE prep == job[th].prep
             out == {e \in queue[inst] : e.claim = prep.claim}
  <2>1. prep \in GrantType /\ prep.fromQueue /\ order = th
    BY <1>7, Zenon DEF PumpGrant, At, BookInv, Placed, Ordered
  <2>2. CASE ~(AcquireCommittable(prep) /\ prep.claim \in contexts)
    BY <1>7, <2>2, FailStep, Zenon DEF PumpGrant
  <2>3. CASE AcquireCommittable(prep) /\ prep.claim \in contexts
    <3>1. /\ CommitAcquire(prep) /\ Settle({prep.claim})
          /\ Unlock(th) /\ Go(th, AfterPump(job[th].op))
          /\ Carry(th, [AfterJob(th) EXCEPT !.prep = None])
          /\ asked' = asked /\ setting' = setting
      BY <1>7, <2>3, Zenon DEF PumpGrant, Fine
    <3>2. pc[th] # "visible"
      BY <1>7, SMT DEF PumpGrant, At
    <3>3. Unshown = {} /\ contexts = Waiting
      BY <2>1, <3>2, UnshownFacts, Zenon DEF BookInv, Books
    <3>4. {e.claim : e \in out} = {prep.claim}
      BY <2>3, <3>3, Zenon DEF Waiting
    <3>5. {e \in queue[inst] : e.claim # prep.claim} = queue[inst] \ out
      BY Zenon
    <3>6. SchedTypes' /\ queue' = [queue EXCEPT ![inst] = queue[inst] \ out]
      BY <1>0, <2>1, <3>1, <3>5, AcquireCall, Zenon
    <3>7. Removed(out) /\ out \in SUBSET queue[inst]
      BY <3>1, <3>3, <3>4, <3>6, Zenon DEF Removed
    <3>8. Tame
      BY <3>7, Zenon DEF Tame
    <3>9. Moved(th, AfterPump(job[th].op), [AfterJob(th) EXCEPT !.prep = None])
      BY <3>1, Moves, Zenon
    <3> QED
      BY <3>1, <3>2, <3>6, <3>8, <3>9, Unlocks, Pumped, PlainStep, Zenon DEF Bare
  <2> QED
    BY <2>2, <2>3
<1> QED
  BY <1>1, <1>2, <1>3, <1>6, <1>7, Zenon DEF Pump

\* A thread between two halves of a cleanup holds no order lock, or its own.
LEMMA Returned ==
    ASSUME BookInv, NEW th \in Thread, Return(th), pc[th] \in {"prepare", "end", "transfer"},
           order \in {th, None}, Tame, setting' = setting, SchedTypes'
    PROVE  BookNext
<1>1. pc[th] # "visible" /\ None \notin Thread /\ th # None
  BY Threads
<1>2. CASE job[th].op \in {"queue", "acquire"}
  <2> DEFINE p == Resumed(job[th].op)
             j == [job[th] EXCEPT !.token = None, !.prep = None]
  <2>1. order' = None /\ admission' = admission /\ Go(th, p) /\ Carry(th, j)
    BY <1>2, Zenon DEF Return
  <2>2. Moved(th, p, j)
    BY <2>1, Moves, Zenon
  <2>3. j \in JobType /\ j.claim = job[th].claim
    BY Moves, ReturnEdit, Zenon
  <2>4. p \in Asking /\ p # "end"
    BY SMT DEF Resumed, Asking
  <2>5. Asks(pc[th], job[th])
    BY <1>2, SMT DEF Asks
  <2>6. Handed(th) /\ order' # th
    BY <1>1, <2>1 DEF Handed
  <2>7. admission' \in Thread \cup {None}
    BY <2>1, Zenon DEF BookInv, Books
  <2> HIDE DEF p, j
  <2> QED
    BY <1>1, <2>2, <2>3, <2>4, <2>5, <2>6, <2>7, AskingStep, Zenon
<1>3. CASE job[th].op = "input"
  <2>1. LeavePlain(th)
    BY <1>3, SMT DEF Return
  <2>2. Unlock(th) /\ Moved(th, "idle", NoJob)
    BY <2>1, Moves, Zenon DEF LeavePlain
  <2>3. "idle" \in Plain
    BY SMT DEF Plain
  <2> QED
    BY <1>1, <2>2, <2>3, Unlocks, NoJobType, PlainStep, Zenon DEF Bare
<1>4. CASE job[th].op \notin {"queue", "acquire"} /\ job[th].op # "input"
  <2> DEFINE j == [job[th] EXCEPT !.prep = None]
  <2>1. Unlock(th) /\ Go(th, "pump") /\ Carry(th, j)
    BY <1>4, Zenon DEF Return
  <2>2. Moved(th, "pump", j)
    BY <2>1, Moves, Zenon
  <2>3. j \in JobType
    BY Moves, PrepEdit, Zenon
  <2>4. "pump" \in Plain
    BY SMT DEF Plain
  <2> HIDE DEF j
  <2> QED
    BY <1>1, <2>1, <2>2, <2>3, <2>4, Unlocks, PlainStep, Zenon DEF Bare
<1> QED
  BY <1>2, <1>3, <1>4, Zenon

\* An operation that ends lets its locks go and pumps.
LEMMA Left ==
    ASSUME BookInv, NEW th \in Thread, Leave(th), pc[th] # "visible", Tame,
           setting' = setting, SchedTypes'
    PROVE  BookNext
<1>1. Unlock(th) /\ Moved(th, "pump", job[th]) /\ job[th] \in JobType
  BY Moves, Zenon DEF Leave
<1>2. "pump" \in Plain
  BY SMT DEF Plain
<1> QED
  BY <1>1, <1>2, Unlocks, PlainStep, Zenon DEF Bare

LEMMA CleanupKeeps ==
    ASSUME BookInv, NEW th \in Thread, Cleanup(th)
    PROVE  BookNext
<1>0. SchedTypes /\ th # None /\ admission \in Thread \cup {None}
  BY Threads, Zenon DEF BookInv, Books
<1> DEFINE j == job[th]  t == j.token  r == Reason(j.op)
<1>1. CASE CleanupBegin(th)
  <2>1. At(th, "cleanup") /\ order = None
    BY <1>1, Zenon DEF CleanupBegin
  <2>2. CASE StepActive(t) /\ r # "Expired"
    BY <1>1, <2>2, FailStep, Zenon DEF CleanupBegin
  <2>3. CASE ~(StepActive(t) /\ r # "Expired")
    <3>1. ExpireQueued /\ Go(th, "prepare") /\ UNCHANGED <<lockVars, job>> /\ Fine
      BY <1>1, <2>3, Zenon DEF CleanupBegin
    <3>2. order' = order /\ admission' = admission /\ job' = job
          /\ setting' = setting /\ asked' = asked
      BY <3>1, Zenon DEF lockVars, Fine
    <3>3. SchedTypes' /\ Tame
      BY <2>1, <3>1, <3>2, UnshownFacts, ExpireCall, Zenon
    <3>4. Moved(th, "prepare", j) /\ j \in JobType
      BY <3>1, <3>2, Moves, Zenon
    <3>5. "prepare" \in Asking /\ "prepare" # "end" /\ pc[th] # "visible"
      BY <2>1, SMT DEF Asking, At
    <3>6. Asks("prepare", j) => Asks(pc[th], job[th])
      BY <2>1, SMT DEF Asks, At
    <3>7. Handed(th) /\ order' # th
      BY <1>0, <2>1, <3>2, Zenon DEF Handed
    <3> HIDE DEF j
    <3>8. j.claim = job[th].claim
      BY DEF j
    <3> QED
      BY <1>0, <3>2, <3>3, <3>4, <3>5, <3>6, <3>7, <3>8, AskingStep, Zenon
  <2> QED
    BY <2>2, <2>3
<1>2. ASSUME At(th, "prepare"), order = None, NEW k \in JobType,
             order' = th, Moved(th, "end", k), k.op = j.op, k.claim = j.claim,
             queue' = queue, SchedTypes', UNCHANGED <<admission, bookVars>>, Fine
      PROVE  BookNext
  <2>1. Tame /\ setting' = setting /\ admission' = admission
    BY <1>2, Zenon DEF Tame, KeptBooks, bookVars, Fine
  <2>2. pc[th] # "visible" /\ "end" \in Asking \cup {"end"}
    BY <1>2, SMT DEF At
  <2>3. Asks("end", k) => Asks(pc[th], job[th])
    BY <1>2, SMT DEF Asks, At
  <2>4. Handed(th)
    BY <1>2 DEF Handed
  <2> QED
    BY <1>0, <1>2, <2>1, <2>2, <2>3, <2>4, AskingStep, Zenon
<1>3. CASE CleanupPrepare(th)
  <2>1. PICK e \in queue[inst], capacity \in Capacity :
             /\ PrepareTransfer(t, t.holder, Open, e, FALSE)
             /\ order' = th
             /\ IF capacity
                THEN /\ Go(th, "transfer")
                     /\ Carry(th, [j EXCEPT !.prep = PreparedTransfer(t, e,
                              IF r = "Explicit" THEN t.id ELSE None, FALSE)])
                ELSE Go(th, "end") /\ UNCHANGED job
    BY <1>3, Zenon DEF CleanupPrepare
  <2>2. At(th, "prepare") /\ order = None /\ UNCHANGED <<admission, bookVars>> /\ Fine
    BY <1>3, Zenon DEF CleanupPrepare
  <2>3. Current(t) /\ PrepareToken
    BY <2>1, Zenon DEF PrepareTransfer, TransferCandidate, Transferable, HeldBy
  <2>4. SchedTypes' /\ queue' = queue
    BY <1>0, <2>3, PrepareCall, Zenon
  <2>5. CASE ~capacity
    <3>1. Moved(th, "end", j) /\ j \in JobType
      BY <2>1, <2>5, Moves, Zenon
    <3> QED
      BY <1>2, <2>1, <2>2, <2>4, <3>1, Zenon
  <2>6. CASE capacity
    <3> DEFINE rel == IF r = "Explicit" THEN t.id ELSE None
               prep == PreparedTransfer(t, e, rel, FALSE)
               k == [j EXCEPT !.prep = prep]
    <3>0. t \in TokenType /\ t.instance = inst /\ lease[inst] \in LeaseType
      BY <1>0, <2>3, CurrentFacts, Zenon
    <3>1. lease[t.instance] \in LeaseType /\ e \in EntryType
      BY <1>0, <3>0, Entries, Zenon
    <3>2. t.id \in Nat
      BY <3>0, Zenon DEF TokenType
    <3>3. rel \in Nat \cup {None}
      BY <3>2, Zenon
    <3> HIDE DEF rel
    <3>4. prep \in TransferType /\ ~prep.handOff
      BY <1>0, <3>1, <3>3, PreparedTransfers, Zenon
    <3>5. Go(th, "transfer") /\ Carry(th, k)
      BY <2>1, <2>6, Zenon DEF rel
    <3> HIDE DEF prep
    <3>6. k \in JobType /\ k.prep = prep /\ k.op = j.op /\ k.claim = j.claim
      <4>1. j \in JobType /\ prep \in GrantType \cup TransferType \cup {None}
        BY <3>4, Moves, Zenon
      <4> QED
        BY <4>1, PrepEdit, Zenon
    <3>7. Moved(th, "transfer", k)
      BY <3>5, Moves, Zenon
    <3> HIDE DEF k
    <3>8. Tame /\ setting' = setting /\ admission' = admission
      BY <2>2, <2>4, Zenon DEF Tame, KeptBooks, bookVars, Fine
    <3>9. pc[th] # "visible" /\ "transfer" \notin {"pumpGrant", "grant"}
      BY <2>2, SMT DEF At
    <3>10. Asks("transfer", k) => Asks(pc[th], job[th])
      BY <2>2, <3>6, SMT DEF Asks, At
    <3>11. Handed(th)
      BY <2>1, <2>2 DEF Handed
    <3> QED
      BY <1>0, <2>1, <2>4, <3>4, <3>6, <3>7, <3>8, <3>9, <3>10, <3>11, OrderedStep, Zenon
  <2> QED
    BY <2>5, <2>6
<1>4. CASE CleanupAlone(th)
  <2>1. /\ At(th, "prepare") /\ order = None /\ order' = th /\ Go(th, "end")
        /\ UNCHANGED <<schedVars, admission, job, bookVars>> /\ Fine
    BY <1>4, Zenon DEF CleanupAlone
  <2>2. SchedTypes' /\ queue' = queue
    BY <1>0, <2>1, IdleCall, Zenon
  <2>3. Moved(th, "end", j) /\ j \in JobType
    BY <2>1, Moves, Zenon
  <2> QED
    BY <1>2, <2>1, <2>2, <2>3, Zenon
<1>5. ASSUME At(th, "prepare"), order = None, UNCHANGED <<schedVars, bookVars>>, Fine
      PROVE  /\ SchedTypes' /\ Tame /\ setting' = setting
             /\ pc[th] # "visible" /\ pc[th] \in {"prepare", "end", "transfer"}
  <2>1. SchedTypes' /\ queue' = queue
    BY <1>0, <1>5, IdleCall, Zenon
  <2>2. Tame /\ setting' = setting
    BY <1>5, <2>1, Zenon DEF Tame, KeptBooks, bookVars, Fine
  <2> QED
    BY <1>5, <2>1, <2>2, SMT DEF At
<1>6. CASE CleanupStale(th)
  <2>1. CASE r = "Explicit"
    BY <1>6, <2>1, FailStep, Zenon DEF CleanupStale
  <2>2. CASE r # "Explicit"
    <3>1. /\ At(th, "prepare") /\ order = None
          /\ Refused(th) /\ UNCHANGED <<schedVars, bookVars>> /\ Fine
      BY <1>6, <2>2, Zenon DEF CleanupStale
    <3> DEFINE k == IF th = Sweep THEN [NoJob EXCEPT !.op = "dying"] ELSE job[th]
    <3>2. Unlock(th) /\ Moved(th, "pump", k)
      BY <3>1, Moves, Zenon DEF Refused
    <3>3. "dying" \in Op /\ "pump" \in Plain
      BY SMT DEF Op, Plain
    <3>4. k \in JobType
      BY <3>3, NewJob, Moves, Zenon
    <3> HIDE DEF k
    <3> QED
      BY <1>5, <3>1, <3>2, <3>3, <3>4, Unlocks, PlainStep, Zenon DEF Bare
  <2> QED
    BY <2>1, <2>2
<1>7. CASE CleanupDeferred(th)
  <2>1. CASE r \in {"Expired", "Explicit"}
    BY <1>5, <1>7, <2>1, Returned, Zenon DEF CleanupDeferred
  <2>2. CASE r \notin {"Expired", "Explicit"}
    BY <1>7, <2>2, FailStep, Zenon DEF CleanupDeferred
  <2> QED
    BY <2>1, <2>2
<1>8. CASE CleanupEnd(th)
  <2>1. At(th, "end") /\ Return(th) /\ UNCHANGED bookVars /\ Fine
    BY <1>8, Zenon DEF CleanupEnd
  <2>2. ExpireToken(t) \/ Release(t, t.holder, t.id) \/ ReleaseOwned(t, t.holder)
        \/ UNCHANGED schedVars
    BY <1>8, Zenon DEF CleanupEnd
  <2>3. SchedTypes' /\ queue' = queue
    BY <1>0, <2>2, EndCall, IdleCall, Zenon
  <2>4. Tame /\ setting' = setting
    BY <2>1, <2>3, Zenon DEF Tame, KeptBooks, bookVars, Fine
  <2>5. pc[th] \in {"prepare", "end", "transfer"} /\ pc[th] \in Ordered
    BY <2>1, SMT DEF At, Ordered
  <2>6. order = th
    BY <2>5, Zenon DEF BookInv, Placed
  <2> QED
    BY <2>1, <2>3, <2>4, <2>5, <2>6, Returned, Zenon
<1>9. CASE Transfer(th)
  <2> DEFINE prep == job[th].prep
             out == {prep.entry}
  <2>1. prep \in TransferType /\ ~prep.handOff /\ order = th
    BY <1>9, Zenon DEF Transfer, At, BookInv, Placed, Ordered
  <2>2. CASE ~(/\ prep.entry.claim \in contexts
               /\ ~StepActive(prep.from.token)
               /\ TransferCommittable(prep))
    BY <1>9, <2>2, FailStep, Zenon DEF Transfer
  <2>3. CASE /\ prep.entry.claim \in contexts
             /\ ~StepActive(prep.from.token)
             /\ TransferCommittable(prep)
    <3>1. /\ CommitTransfer(prep) /\ Settle({prep.entry.claim}) /\ Return(th)
          /\ asked' = asked /\ setting' = setting
      BY <1>9, <2>3, Zenon DEF Transfer, Fine
    <3>2. pc[th] \in {"prepare", "end", "transfer"} /\ pc[th] # "visible"
      BY <1>9, SMT DEF Transfer, At
    <3>3. Unshown = {}
      BY <2>1, <3>2, UnshownFacts, Zenon
    <3>4. {e.claim : e \in out} = {prep.entry.claim}
      BY Zenon
    <3>5. SchedTypes' /\ prep.entry \in queue[inst]
          /\ queue' = [queue EXCEPT ![inst] = queue[inst] \ out]
      BY <1>0, <2>1, <3>1, TransferCall, Zenon
    <3>6. out \in SUBSET queue[inst]
      BY <3>5, Zenon
    <3>7. Removed(out)
      BY <3>1, <3>3, <3>4, <3>5, <3>6, Zenon DEF Removed
    <3>8. Tame
      BY <3>6, <3>7, Zenon DEF Tame
    <3> QED
      BY <2>1, <3>1, <3>2, <3>5, <3>8, Returned, Zenon
  <2> QED
    BY <2>2, <2>3
<1> QED
  BY <1>1, <1>3, <1>4, <1>6, <1>7, <1>8, <1>9, Zenon DEF Cleanup

\* The same of a step within an acquisition.
LEMMA QuietAsking ==
    ASSUME BookInv, NEW th \in Thread, NEW p \in Asking, NEW j \in JobType,
           Moved(th, p, j), pc[th] \in Loose,
           Asks(p, j) => Asks(pc[th], job[th]) /\ j.claim = job[th].claim,
           UNCHANGED <<schedVars, order, bookVars>>, Fine,
           admission' \in Thread \cup {None}
    PROVE  BookNext
<1>1. order # th /\ pc[th] # "visible"
  BY Unordered, Zenon
<1>2. SchedTypes' /\ queue' = queue
  BY IdleCall, Zenon DEF BookInv
<1>3. Tame /\ Handed(th) /\ order' # th /\ setting' = setting
  BY <1>1, <1>2, Zenon DEF Tame, KeptBooks, Handed, Fine, bookVars
<1>4. p # "end"
  BY SMT DEF Asking
<1> QED
  BY <1>1, <1>2, <1>3, <1>4, AskingStep, Zenon

\* A request that waits: its entry comes in, its context is still to come.
LEMMA WaitStep ==
    ASSUME BookInv, NEW th \in Thread, pc[th] # "visible", Asks(pc[th], job[th]),
           order = None, order' = th, NEW j \in JobType, Moved(th, "visible", j),
           j.claim = job[th].claim,
           NEW q \in SUBSET queue[inst], NEW d \in Nat, Insert(job[th].claim, q, d),
           UNCHANGED <<now, epoch, cooldown, locations, nextLease, nextStep>>,
           Settle({f.claim : f \in queue[inst] \ q}),
           asked' = asked, setting' = setting, admission' = admission
    PROVE  BookNext
<1> DEFINE c == job[th].claim
           e == [claim |-> c, arrival |-> nextArrival, deadline |-> d]
           out == queue[inst] \ q
<1>1. SchedTypes /\ Books /\ c \in asked /\ c \in Claim /\ c \notin contexts
  BY SettingClaims, Zenon DEF BookInv, Placed, Unwaited
<1>2. /\ SchedTypes' /\ Cardinality(q) < MaxDepth /\ e \in EntryType
      /\ queue' = [queue EXCEPT ![inst] = q \cup {e}]
      /\ queue'[inst] = q \cup {e}
  BY <1>1, InsertCall, Zenon
<1>3. queue[inst] \ out = q /\ out \in SUBSET queue[inst] /\ e.claim = c
  BY Zenon
<1>4. \A f \in queue[inst] : f.claim # e.claim
  BY <1>1, <1>3, UnshownFacts, Zenon DEF Books, Waiting
<1> HIDE DEF e, out
<1>5. Inserted(th, out, e)
  <2>1. out \subseteq queue[inst] /\ Settle({f.claim : f \in out})
    BY <1>3, Zenon DEF out
  <2> QED
    BY <1>2, <1>3, <1>4, <2>1, Zenon DEF Inserted
<1>6. BookStep(th, "visible", j)
  BY <1>2, <1>3, <1>5, Zenon DEF BookStep
<1>7. /\ c \in asked' /\ c.holder = th
      /\ c \notin contexts' /\ settled'[c] = 0
  BY <1>6, StillUnwaited, Zenon
<1>8. e \in queue'[inst] /\ e.claim = j.claim
  BY <1>2, <1>3, Zenon
<1>9. pc'[th] = "visible" /\ job'[th] = j
  BY Landing, Zenon
<1>10. "visible" \in Place /\ "visible" \in Ordered /\ "visible" \notin Acting
       /\ "visible" \notin {"poll", "cancel", "pumpGrant", "grant", "transfer"}
  BY SMT DEF Place, Ordered, Acting
<1>11. Placed(th, pc[th], job[th])'
  BY <1>7, <1>8, <1>9, <1>10, Zenon DEF Placed, Unwaited
<1>12. Handed(th) /\ admission' \in Thread \cup {None}
  BY <1>1 DEF Handed, Books
<1> QED
  BY <1>2, <1>6, <1>10, <1>11, <1>12, Step, Zenon

\* Nothing changes in the books.
LEMMA KeptTame ==
    ASSUME queue' = queue, UNCHANGED bookVars, Fine
    PROVE  Tame /\ setting' = setting /\ asked' = asked
  BY Zenon DEF Tame, KeptBooks, bookVars, Fine

\* A grant is prepared under the order lock.
LEMMA GrantPrepared ==
    ASSUME BookInv, NEW th \in Thread, pc[th] \in Loose, order = None, order' = th,
           NEW j \in JobType, Moved(th, "grant", j),
           j.prep \in GrantType, ~j.prep.fromQueue,
           Tame, setting' = setting, admission' = admission, SchedTypes'
    PROVE  BookNext
<1>1. pc[th] # "visible" /\ admission \in Thread \cup {None}
  BY Places, Zenon DEF BookInv, Books
<1>2. "grant" \notin {"pumpPrepare", "pumpGrant", "transfer"} /\ ~Asks("grant", j)
  BY SMT DEF Asks
<1>3. Handed(th)
  BY DEF Handed
<1> QED
  BY <1>1, <1>2, <1>3, OrderedStep, Zenon

LEMMA EntryKeeps ==
    ASSUME BookInv, NEW th \in Thread,
           AcquireEnter(th) \/ ExpireInstanceIfDue(th) \/ AcquirePrepare(th)
    PROVE  BookNext
<1>0. SchedTypes /\ Books /\ admission \in Thread \cup {None} /\ job[th] \in JobType
  BY Moves, Zenon DEF BookInv, Books
<1> DEFINE c == job[th].claim
<1>1. CASE AcquireEnter(th)
  <2>1. /\ Go(th, "expire") /\ job' = job /\ UNCHANGED <<schedVars, order, bookVars>>
        /\ Fine /\ admission' = th /\ At(th, "enter")
    BY <1>1, Zenon DEF AcquireEnter
  <2>2. Moved(th, "expire", job[th])
    BY <2>1, Moves, Zenon
  <2>3. pc[th] \in Loose /\ "expire" \in Asking /\ Asks(pc[th], job[th])
    BY <2>1, Zenon DEF At, Loose, Asking, Asks
  <2> QED
    BY <1>0, <2>1, <2>2, <2>3, QuietAsking, Zenon
<1>2. CASE ExpireInstanceIfDue(th)
  <2>1. /\ UNCHANGED <<schedVars, order, bookVars>> /\ Fine /\ admission' = admission
        /\ At(th, "expire")
    BY <1>2, Zenon DEF ExpireInstanceIfDue, lockVars
  <2>2. pc[th] \in Loose /\ "cleanup" \in Asking /\ Asks(pc[th], job[th])
    BY <2>1, Zenon DEF At, Loose, Asking, Asks
  <2>3. ASSUME NEW t \in Due, Go(th, "cleanup"), Carry(th, [job[th] EXCEPT !.token = t])
        PROVE  BookNext
    <3> DEFINE j == [job[th] EXCEPT !.token = t]
    <3>1. j \in JobType /\ j.claim = job[th].claim
      BY <1>0, DueFacts, TokenEdit, Zenon
    <3>2. Moved(th, "cleanup", j)
      BY <2>3, Moves, Zenon
    <3> HIDE DEF j
    <3> QED
      BY <1>0, <2>1, <2>2, <3>1, <3>2, QuietAsking, Zenon
  <2>4. ASSUME Go(th, Resumed(job[th].op)), job' = job
        PROVE  BookNext
    <3>1. Moved(th, Resumed(job[th].op), job[th])
      BY <2>4, Moves, Zenon
    <3>2. Resumed(job[th].op) \in Asking
      BY SMT DEF Resumed, Asking
    <3> QED
      BY <1>0, <2>1, <2>2, <3>1, <3>2, QuietAsking, Zenon
  <2> QED
    BY <1>2, <2>3, <2>4, Zenon DEF ExpireInstanceIfDue
<1>3. CASE AcquirePrepare(th)
  <2>1. At(th, "acquire") /\ order = None /\ UNCHANGED bookVars /\ Fine
    BY <1>3, Zenon DEF AcquirePrepare
  <2>2. pc[th] \in Loose /\ Asks(pc[th], job[th]) /\ pc[th] # "visible"
    BY <2>1, SMT DEF At, Loose, Asking, Asks
  <2>3. c \in Claim /\ c.ttl \in Nat
    BY <2>2, AskedClaim, ConfigFacts, Zenon
  <2>4. ASSUME PrepareAcquire(c, Open), order' = th, Go(th, "grant"),
               Carry(th, [job[th] EXCEPT !.prep = PreparedLease(c, c.ttl, FALSE, FALSE)]),
               admission' = admission
        PROVE  BookNext
    <3> DEFINE prep == PreparedLease(c, c.ttl, FALSE, FALSE)
               j == [job[th] EXCEPT !.prep = prep]
    <3>1. prep \in GrantType /\ prep.fromQueue = FALSE
      BY <1>0, <2>3, PreparedGrants, Zenon
    <3>2. Moved(th, "grant", j)
      BY <2>4, Moves, Zenon
    <3> HIDE DEF prep
    <3>3. j \in JobType /\ j.prep = prep
      BY <1>0, <3>1, PrepEdit, Zenon
    <3> HIDE DEF j
    <3>4. SchedTypes' /\ queue' = queue
      BY <1>0, <2>3, <2>4, PrepareCall, Zenon
    <3> QED
      BY <2>1, <2>2, <2>4, <3>1, <3>2, <3>3, <3>4, KeptTame, GrantPrepared, Zenon
  <2>5. ASSUME Leave(th), UNCHANGED schedVars
        PROVE  BookNext
    <3>1. SchedTypes' /\ queue' = queue
      BY <1>0, <2>5, IdleCall, Zenon
    <3> QED
      BY <2>1, <2>2, <2>5, <3>1, KeptTame, Left, Zenon
  <2> QED
    BY <1>3, <2>4, <2>5, Zenon DEF AcquirePrepare
<1> QED
  BY <1>1, <1>2, <1>3

LEMMA QueueRequestKeeps ==
    ASSUME BookInv, Brim, NEW th \in Thread, QueueRequest(th)
    PROVE  BookNext
<1> DEFINE c == job[th].claim
           immediate == admission = th
<1>0. SchedTypes /\ Books /\ admission \in Thread \cup {None} /\ job[th] \in JobType
  BY Moves, Zenon DEF BookInv, Books
<1>1. At(th, "request") /\ order = None /\ Fine
  BY Zenon DEF QueueRequest
<1>2. pc[th] \in Loose /\ Asks(pc[th], job[th]) /\ pc[th] # "visible"
  BY <1>1, SMT DEF At, Loose, Asking, Asks
<1>3. /\ c \in Claim /\ c.ttl \in Nat /\ c.timeout \in Nat /\ LeaseTtl \in Nat
      /\ c.instance = inst
  BY <1>2, AskedClaim, ConfigFacts, Zenon
<1>4. setting' = setting /\ asked' = asked
  BY <1>1, Zenon DEF Fine
<1>5. LiveQueue(inst) \in SUBSET queue[inst]
  BY Zenon DEF LiveQueue
<1>6. ASSUME RequestQueuedLease(c, Open, immediate), order' = th, Go(th, "grant"),
             Carry(th, [job[th] EXCEPT !.prep = PreparedLease(c, LeaseTtl, FALSE, FALSE)]),
             Settle(Lapsed), admission' = admission
      PROVE  BookNext
  <2> DEFINE prep == PreparedLease(c, LeaseTtl, FALSE, FALSE)
             j == [job[th] EXCEPT !.prep = prep]
             out == queue[inst] \ LiveQueue(inst)
  <2>1. prep \in GrantType /\ prep.fromQueue = FALSE
    BY <1>0, <1>3, PreparedGrants, Zenon
  <2>2. Moved(th, "grant", j)
    BY <1>6, Moves, Zenon
  <2> HIDE DEF prep
  <2>3. j \in JobType /\ j.prep = prep
    BY <1>0, <2>1, PrepEdit, Zenon
  <2> HIDE DEF j
  <2>4. SchedTypes' /\ queue' = [queue EXCEPT ![inst] = LiveQueue(inst)]
    BY <1>0, <1>3, <1>6, RequestLeaseCall, Zenon
  <2>5. queue[inst] \ out = LiveQueue(inst) /\ out \in SUBSET queue[inst]
    BY <1>5, Zenon
  <2>6. Settle({e.claim : e \in out})
    BY <1>6, Zenon DEF Lapsed
  <2>7. Unshown = {}
    BY <1>1, UnshownFacts, Zenon
  <2>8. Removed(out)
    BY <1>4, <2>4, <2>5, <2>6, <2>7, Zenon DEF Removed
  <2>9. Tame
    BY <2>5, <2>8, Zenon DEF Tame
  <2> QED
    BY <1>1, <1>2, <1>4, <1>6, <2>1, <2>2, <2>3, <2>4, <2>9, GrantPrepared, Zenon
<1>7. ASSUME RequestQueuedEntry(c, Open, immediate), order' = th, Go(th, "visible"),
             Carry(th, [job[th] EXCEPT !.flag =
                 lease[inst] # None /\ c.priority > lease[inst].claim.priority]),
             Settle(Lapsed), admission' = admission
      PROVE  BookNext
  <2> DEFINE flag == lease[inst] # None /\ c.priority > lease[inst].claim.priority
             j == [job[th] EXCEPT !.flag = flag]
  <2>1. Moved(th, "visible", j)
    BY <1>7, Moves, Zenon
  <2>2. flag \in BOOLEAN
    OBVIOUS
  <2> HIDE DEF flag
  <2>3. j \in JobType /\ j.claim = c
    BY <1>0, <2>2, FlagEdit, Zenon
  <2> HIDE DEF j
  <2>4. /\ Insert(c, LiveQueue(inst), now + c.timeout)
        /\ UNCHANGED <<now, epoch, cooldown, locations, nextLease, nextStep>>
    BY <1>3, <1>7, Zenon DEF RequestQueuedEntry
  <2>5. now + c.timeout \in Nat
    BY <1>0, <1>3, SMT DEF SchedTypes
  <2>6. Settle({f.claim : f \in queue[inst] \ LiveQueue(inst)})
    BY <1>7, Zenon DEF Lapsed
  <2> QED
    BY <1>1, <1>2, <1>4, <1>5, <1>7, <2>1, <2>3, <2>4, <2>5, <2>6, WaitStep, Zenon
<1>8. ASSUME RequestQueuedRefused(c, Open, immediate), Leave(th), UNCHANGED bookVars
      PROVE  BookNext
  <2>1. SetQueue(inst, LiveQueue(inst))
        /\ UNCHANGED <<now, epoch, cooldown, locations, nextLease, nextArrival, nextStep>>
    BY <1>3, <1>8, Zenon DEF RequestQueuedRefused
  <2>2. cooldown[inst] = 0 /\ now \in Nat
    BY <1>0, OneInstance, Zenon DEF SchedTypes
  <2>3. ~(cooldown[inst] > now)
    BY <2>2, SMT
  <2>4. Cardinality(LiveQueue(inst)) >= MaxDepth
    BY <1>3, <1>8, <2>3, Zenon DEF RequestQueuedRefused
  <2>5. LiveQueue(inst) = queue[inst]
    BY <1>5, <2>4, Zenon DEF Brim
  <2>6. LiveQueue(inst) \in SUBSET EntryType
    BY <1>0, <2>5, OneInstance, Zenon DEF SchedTypes
  <2>7. /\ lease' \in [Instance -> LeaseType \cup {None}]
        /\ queue' \in [Instance -> SUBSET EntryType]
        /\ queue' = [queue EXCEPT ![inst] = queue[inst]]
    BY <1>0, <2>1, <2>5, <2>6, OneInstance, SetQueueTypes, Zenon
  <2>8. queue' = queue
    BY <1>0, <2>7, OneInstance, Zenon DEF SchedTypes
  <2>9. SchedTypes'
    BY <1>0, <2>1, <2>7, Zenon DEF SchedTypes
  <2> QED
    BY <1>1, <1>2, <1>8, <2>8, <2>9, KeptTame, Left, Zenon
<1> QED
  BY <1>6, <1>7, <1>8, Zenon DEF QueueRequest

LEMMA HostRequestKeeps ==
    ASSUME BookInv, NEW th \in Thread, HostRequest(th)
    PROVE  BookNext
<1> DEFINE c == job[th].claim
<1>0. SchedTypes /\ Books /\ admission \in Thread \cup {None} /\ job[th] \in JobType
  BY Moves, Zenon DEF BookInv, Books
<1>1. At(th, "hostClaim") /\ order = None /\ UNCHANGED bookVars /\ Fine
  BY Zenon DEF HostRequest
<1>2. pc[th] \in Loose /\ Asks(pc[th], job[th]) /\ pc[th] # "visible"
  BY <1>1, SMT DEF At, Loose, Asking, Asks
<1>3. c \in Claim /\ c.ttl \in Nat /\ c.instance = inst /\ NoDeadline \in Nat
  BY <1>2, AskedClaim, ConfigFacts, Zenon
<1>4. setting' = setting /\ asked' = asked /\ contexts' = contexts /\ settled' = settled
  BY <1>1, Zenon DEF Fine, bookVars
<1>5. ASSUME PrepareAcquire(c, Open), order' = th, Go(th, "grant"),
             Carry(th, [job[th] EXCEPT !.flag = TRUE,
                              !.prep = PreparedLease(c, c.ttl, FALSE, FALSE)]),
             admission' = admission
      PROVE  BookNext
  <2> DEFINE prep == PreparedLease(c, c.ttl, FALSE, FALSE)
             j == [job[th] EXCEPT !.flag = TRUE, !.prep = prep]
  <2>1. prep \in GrantType /\ prep.fromQueue = FALSE
    BY <1>0, <1>3, PreparedGrants, Zenon
  <2>2. Moved(th, "grant", j)
    BY <1>5, Moves, Zenon
  <2> HIDE DEF prep
  <2>3. j \in JobType /\ j.prep = prep
    BY <1>0, <2>1, FlagPrepEdit, Zenon
  <2> HIDE DEF j
  <2>4. SchedTypes' /\ queue' = queue
    BY <1>0, <1>3, <1>5, PrepareCall, Zenon
  <2> QED
    BY <1>1, <1>2, <1>5, <2>1, <2>2, <2>3, <2>4, KeptTame, GrantPrepared, Zenon
<1>6. ASSUME EnqueueClaim(c), order' = th, Go(th, "visible"),
             UNCHANGED <<admission, job>>
      PROVE  BookNext
  <2>1. Moved(th, "visible", job[th])
    BY <1>6, Moves, Zenon
  <2>2. /\ Insert(c, queue[inst], NoDeadline)
        /\ UNCHANGED <<now, epoch, cooldown, locations, nextLease, nextStep>>
    BY <1>3, <1>6, Zenon DEF EnqueueClaim
  <2>3. {f.claim : f \in queue[inst] \ queue[inst]} = {}
    BY Zenon
  <2>4. contexts' = contexts \ {}
    BY <1>4, Zenon
  <2>5. settled' = [d \in Claim |-> settled[d]]
    BY <1>0, <1>4, Zenon DEF Books
  <2>6. Settle({})
    BY <2>4, <2>5, Zenon DEF Settle
  <2>7. queue[inst] \in SUBSET queue[inst]
    BY Zenon
  <2> QED
    BY <1>0, <1>1, <1>2, <1>3, <1>4, <1>6, <2>1, <2>2, <2>3, <2>6, <2>7, WaitStep, Zenon
<1>7. ASSUME Leave(th), UNCHANGED schedVars
      PROVE  BookNext
  <2>1. SchedTypes' /\ queue' = queue
    BY <1>0, <1>7, IdleCall, Zenon
  <2> QED
    BY <1>1, <1>2, <1>7, <2>1, KeptTame, Left, Zenon
<1> QED
  BY <1>5, <1>6, <1>7, Zenon DEF HostRequest

LEMMA GrantKeeps ==
    ASSUME BookInv, NEW th \in Thread, Grant(th)
    PROVE  BookNext
<1> DEFINE j == job[th]
           k == [j EXCEPT !.prep = None]
<1>0. SchedTypes /\ Books /\ job[th] \in JobType /\ k \in JobType
  BY Moves, PrepEdit, Zenon DEF BookInv
<1>1. At(th, "grant") /\ pc[th] # "visible"
  BY SMT DEF Grant, At
<1>2. j.prep \in GrantType /\ ~j.prep.fromQueue
  BY <1>1, Zenon DEF At, BookInv, Placed
<1>3. "pump" \in Plain
  BY SMT DEF Plain
<1>4. ASSUME Unlock(th), Go(th, "pump"), Carry(th, k), UNCHANGED bookVars, Fine,
             SchedTypes', queue' = queue
      PROVE  BookNext
  <2>1. Moved(th, "pump", k)
    BY <1>4, Moves, Zenon
  <2> HIDE DEF k
  <2> QED
    BY <1>0, <1>1, <1>3, <1>4, <2>1, Unlocks, KeptTame, PlainStep, Zenon DEF Bare
<1>5. ASSUME UNCHANGED schedVars
      PROVE  SchedTypes' /\ queue' = queue
  BY <1>0, <1>5, IdleCall, Zenon
<1>6. ASSUME CommitAcquire(j.prep)
      PROVE  SchedTypes' /\ queue' = queue
  <2>1. SchedTypes' /\ queue' = [queue EXCEPT ![inst] = queue[inst]]
    BY <1>0, <1>2, <1>6, AcquireCall, Zenon
  <2>2. queue' = queue
    BY <1>0, <2>1, OneInstance, Zenon DEF SchedTypes
  <2> QED
    BY <2>1, <2>2
<1>7. ASSUME AcquireCommittable(j.prep),
             IF AcquireCommittable(j.prep)
             THEN /\ CommitAcquire(j.prep)
                  /\ Unlock(th) /\ Go(th, "pump") /\ Carry(th, k)
                  /\ UNCHANGED bookVars /\ Fine
             ELSE Fail("GrantCommit")
      PROVE  BookNext
  BY <1>4, <1>6, <1>7, Zenon
<1> HIDE DEF k
<1>8. CASE ~AcquireCommittable(j.prep) /\ Fail("GrantCommit")
  BY <1>8, FailStep, Zenon
<1> QED
  BY <1>4, <1>5, <1>7, <1>8, Zenon DEF Grant, k

LEMMA VisibleKeeps ==
    ASSUME BookInv, NEW th \in Thread, Visible(th)
    PROVE  BookNext
<1> DEFINE j == job[th]
<1>0. SchedTypes /\ Books /\ j \in JobType /\ None \notin Thread
      /\ admission \in Thread \cup {None}
  BY Moves, Threads, Zenon DEF BookInv, Books
<1>1. pc[th] = "visible" /\ pc[th] \in Ordered
  BY SMT DEF Visible, At, Ordered
<1>2. order = th
  BY <1>1, Zenon DEF BookInv, Placed
<1>3. ASSUME contexts' = contexts \cup {j.claim}, order' = None,
             UNCHANGED <<schedVars, settled>>, Fine, NEW p, NEW k \in JobType,
             Moved(th, p, k), Bare(p, k), admission' \in Thread \cup {None}
      PROVE  BookNext
  <2>1. SchedTypes' /\ queue' = queue
    BY <1>0, <1>3, IdleCall, Zenon
  <2>2. Shown(th) /\ setting' = setting
    BY <1>3, <2>1, Zenon DEF Shown, Fine
  <2>3. /\ p \in Place /\ p \notin Ordered /\ p # "visible"
        /\ p \notin {"poll", "cancel", "end", "transfer", "pumpGrant", "grant"}
        /\ ~Asks(p, k)
        /\ p \in Acting => k.op \notin {"queue", "acquire"}
    BY <1>3, Places, Zenon DEF Bare, Loose
  <2>4. BookStep(th, p, k)
    BY <1>1, <2>2, <2>3, Zenon DEF BookStep
  <2>5. pc'[th] = p /\ job'[th] = k
    BY <1>3, Landing, Zenon
  <2>6. order' # th /\ Handed(th)
    BY <1>0, <1>2, <1>3 DEF Handed
  <2>7. Placed(th, pc[th], job[th])'
    BY <2>3, <2>5, <2>6, Zenon DEF Placed, Asks
  <2> QED
    BY <1>3, <2>1, <2>2, <2>3, <2>4, <2>6, <2>7, Step, Zenon
<1>4. "promote" \in Op /\ "promote" \in Acting /\ "pump" \in Plain
      /\ "promote" \notin {"queue", "acquire"}
  BY SMT DEF Op, Acting, Plain
<1>5. ASSUME contexts' = contexts \cup {j.claim}, order' = None,
             UNCHANGED <<schedVars, settled>>, Fine,
             Go(th, "promote"), Carry(th, [j EXCEPT !.op = "promote"]),
             admission' = admission
      PROVE  BookNext
  <2> DEFINE k == [j EXCEPT !.op = "promote"]
  <2>1. k \in JobType /\ k.op = "promote"
    BY <1>0, <1>4, OpEdit, Zenon
  <2>2. Moved(th, "promote", k)
    BY <1>5, Moves, Zenon
  <2> HIDE DEF k
  <2>3. Bare("promote", k)
    BY <1>4, <2>1, Zenon DEF Bare
  <2> QED
    BY <1>0, <1>3, <1>5, <2>1, <2>2, <2>3, Zenon
<1>6. ASSUME contexts' = contexts \cup {j.claim}, order' = None,
             UNCHANGED <<schedVars, settled>>, Fine, Go(th, "pump"), job' = job,
             admission' = IF admission = th THEN None ELSE admission
      PROVE  BookNext
  <2>1. Moved(th, "pump", j)
    BY <1>6, Moves, Zenon
  <2>2. Bare("pump", j) /\ admission' \in Thread \cup {None}
    BY <1>0, <1>4, <1>6, Zenon DEF Bare
  <2> QED
    BY <1>0, <1>3, <1>6, <2>1, <2>2, Zenon
<1>7. CASE Fail("PreemptionActiveLeaseMissing") \/ Fail("PreemptionStateMismatch")
  BY <1>7, FailStep, Zenon
<1> QED
  BY <1>5, <1>6, <1>7, Zenon DEF Visible

LEMMA Acts ==
    ASSUME BookInv, NEW th \in Thread, pc[th] \in Acting
    PROVE  /\ job[th].op \notin {"queue", "acquire"}
           /\ order # th /\ pc[th] # "visible" /\ pc[th] \in Loose
<1>1. pc[th] \in Loose
  BY Zenon DEF Loose
<1> QED
  BY <1>1, Unordered, Zenon DEF BookInv, Placed

\* A transfer is prepared under the order lock; without capacity the lease ends.
LEMMA TransferPrepared ==
    ASSUME BookInv, NEW th \in Thread, pc[th] \in Acting, order = None, order' = th,
           NEW t, Current(t), NEW e \in queue[inst], PrepareToken, Go(th, "transfer"),
           Carry(th, [job[th] EXCEPT !.prep = PreparedTransfer(t, e, None, FALSE)]),
           admission' = admission, UNCHANGED bookVars, Fine
    PROVE  BookNext
<1> DEFINE prep == PreparedTransfer(t, e, None, FALSE)
           j == [job[th] EXCEPT !.prep = prep]
<1>0. SchedTypes /\ job[th] \in JobType /\ admission \in Thread \cup {None}
  BY Moves, Zenon DEF BookInv, Books
<1>1. SchedTypes' /\ queue' = queue
  BY <1>0, PrepareCall, Zenon
<1>2. t.instance = inst /\ lease[t.instance] \in LeaseType /\ e \in EntryType
  BY <1>0, CurrentFacts, Entries, Zenon
<1>3. prep \in TransferType /\ ~prep.handOff
  BY <1>0, <1>2, PreparedTransfers, Zenon
<1>4. Moved(th, "transfer", j)
  BY Moves, Zenon
<1> HIDE DEF prep
<1>5. j \in JobType /\ j.prep = prep /\ j.op = job[th].op
  <2>1. prep \in GrantType \cup TransferType \cup {None}
    BY <1>3, Zenon
  <2> QED
    BY <1>0, <2>1, PrepEdit, Zenon
<1> HIDE DEF j
<1>6. ~Asks("transfer", j) /\ "transfer" \notin {"pumpPrepare", "pumpGrant", "grant"}
  BY <1>5, Acts, SMT DEF Asks
<1>7. Handed(th)
  BY DEF Handed
<1> QED
  BY <1>0, <1>1, <1>3, <1>4, <1>5, <1>6, <1>7, Acts, KeptTame, OrderedStep, Zenon

LEMMA ActingCleanup ==
    ASSUME BookInv, NEW th \in Thread, pc[th] \in Acting, NEW j \in JobType,
           j.op = job[th].op, Moved(th, "cleanup", j), order' = order,
           SchedTypes', queue' = queue, UNCHANGED bookVars, Fine,
           admission' \in Thread \cup {None}
    PROVE  BookNext
<1>1. ~Asks("cleanup", j) /\ "cleanup" \in Asking \cup {"end"} /\ "cleanup" # "end"
  BY Acts, SMT DEF Asks, Asking
<1>2. Handed(th)
  BY Zenon DEF Handed
<1> QED
  BY <1>1, <1>2, Acts, KeptTame, AskingStep, Zenon

LEMMA PromoteKeeps ==
    ASSUME BookInv, NEW th \in Thread, PromoteEnter(th) \/ Promote(th)
    PROVE  BookNext
<1>0. SchedTypes /\ job[th] \in JobType /\ admission \in Thread \cup {None}
  BY Moves, Zenon DEF BookInv, Books
<1>1. CASE PromoteEnter(th)
  <2>1. pc[th] \in Acting /\ "promoting" \in Acting
    BY <1>1, Zenon DEF PromoteEnter, At, Acting
  <2>2. Moved(th, "promoting", job[th])
    BY <1>1, Moves, Zenon DEF PromoteEnter
  <2>3. UNCHANGED <<schedVars, order, bookVars>> /\ Fine /\ admission' = th
    BY <1>1, Zenon DEF PromoteEnter
  <2> QED
    BY <1>0, <2>1, <2>2, <2>3, Acts, QuietStep, Zenon DEF Bare
<1>2. CASE Promote(th)
  <2> DEFINE j == job[th]
             l == lease[inst]
             ready == {e \in queue[inst] : /\ l # None
                                           /\ e.claim = j.claim
                                           /\ TransferCandidate(l.token, l.token.holder,
                                                                Open, e, TRUE)}
  <2>1. pc[th] \in Acting /\ order = None /\ UNCHANGED bookVars /\ Fine
    BY <1>2, Zenon DEF Promote, At, Acting
  <2>2. ASSUME NEW e \in ready, NEW capacity \in Capacity, PrepareToken,
               IF capacity
               THEN /\ order' = th
                    /\ Go(th, "transfer")
                    /\ Carry(th, [j EXCEPT !.prep =
                                      PreparedTransfer(l.token, e, None, FALSE)])
               ELSE /\ Go(th, "cleanup")
                    /\ Carry(th, [j EXCEPT !.token = l.token])
                    /\ UNCHANGED order,
               admission' = admission
        PROVE  BookNext
    <3>1. Current(l.token) /\ e \in queue[inst]
      BY <2>2, Zenon DEF TransferCandidate, Transferable, HeldBy
    <3>2. CASE capacity
      BY <2>1, <2>2, <3>1, <3>2, TransferPrepared, Zenon
    <3>3. CASE ~capacity
      <4> DEFINE k == [j EXCEPT !.token = l.token]
      <4>1. l.token \in TokenType
        BY <1>0, <3>1, CurrentFacts, Zenon
      <4>2. k \in JobType /\ k.op = j.op
        BY <1>0, <4>1, TokenEdit, Zenon
      <4>3. Moved(th, "cleanup", k)
        BY <2>2, <3>3, Moves, Zenon
      <4>4. order' = order
        BY <2>2, <3>3, Zenon
      <4> HIDE DEF k
      <4>5. SchedTypes' /\ queue' = queue
        BY <1>0, <2>2, PrepareCall, Zenon
      <4> QED
        BY <1>0, <2>1, <2>2, <4>2, <4>3, <4>4, <4>5, ActingCleanup, Zenon
    <3> QED
      BY <3>2, <3>3, Zenon
  <2>3. ASSUME Leave(th), UNCHANGED schedVars
        PROVE  BookNext
    <3>1. SchedTypes' /\ queue' = queue
      BY <1>0, <2>3, IdleCall, Zenon
    <3> QED
      BY <2>1, <2>3, <3>1, Acts, KeptTame, Left, Zenon
  <2> QED
    BY <1>2, <2>2, <2>3, Zenon DEF Promote
<1> QED
  BY <1>1, <1>2

LEMMA AcquisitionKeeps ==
    ASSUME BookInv, Brim, NEW th \in Thread, Acquisition(th)
    PROVE  BookNext
  BY EntryKeeps, QueueRequestKeeps, HostRequestKeeps, GrantKeeps, VisibleKeeps,
     PromoteKeeps, Zenon DEF Acquisition

-----------------------------------------------------------------------------
\* Calls on a held lease.

\* One entry leaves with its record; the thread goes on without a lock.
LEMMA OneLeaves ==
    ASSUME BookInv, NEW th \in Thread, pc[th] \in Loose, order = None, order' = order,
           NEW e \in queue[inst], RemoveQueued(inst, {e}), Settle({e.claim}),
           setting' = setting, asked' = asked, admission' = admission,
           NEW p, NEW j \in JobType, Bare(p, j), Moved(th, p, j)
    PROVE  BookNext
<1>1. SchedTypes /\ admission \in Thread \cup {None}
  BY Zenon DEF BookInv, Books
<1>2. SchedTypes' /\ queue' = [queue EXCEPT ![inst] = queue[inst] \ {e}]
  BY <1>1, RemoveCall, Zenon
<1>3. Unshown = {} /\ order # th /\ pc[th] # "visible"
  BY UnshownFacts, Unordered, Zenon
<1>4. {f.claim : f \in {e}} = {e.claim} /\ {e} \in SUBSET queue[inst]
  BY Zenon
<1>5. Removed({e})
  BY <1>2, <1>3, <1>4, Zenon DEF Removed
<1>6. Tame /\ Handed(th) /\ order' # th
  BY <1>3, <1>4, <1>5, Zenon DEF Tame, Handed
<1> QED
  BY <1>1, <1>2, <1>3, <1>6, PlainStep, Zenon

LEMMA GuardKeeps ==
    ASSUME BookInv, NEW th \in Thread,
           EnterGuard(th) \/ RenewEnter(th) \/ RenewCommit(th) \/ InputEnter(th)
    PROVE  BookNext
<1>0. SchedTypes /\ job[th] \in JobType /\ admission \in Thread \cup {None}
  BY Moves, Zenon DEF BookInv, Books
<1>1. /\ "pump" \in Plain /\ "idle" \in Plain /\ "renewing" \in Plain
      /\ "boundary" \in Acting
  BY Zenon DEF Plain, Acting
<1>2. CASE EnterGuard(th)
  <2> DEFINE j == job[th]
  <2>1. pc[th] \in Acting /\ UNCHANGED <<schedVars, order, job, bookVars>> /\ Fine
    BY <1>2, Zenon DEF EnterGuard, At, Acting
  <2>2. SchedTypes' /\ queue' = queue
    BY <1>0, <2>1, IdleCall, Zenon
  <2>3. ASSUME Go(th, "pump"), admission' = admission
        PROVE  BookNext
    <3>1. Moved(th, "pump", j)
      BY <2>1, <2>3, Moves, Zenon
    <3> QED
      BY <1>0, <1>1, <2>1, <2>3, <3>1, Acts, QuietStep, Zenon DEF Bare
  <2>4. ASSUME Go(th, "boundary"), admission' = th
        PROVE  BookNext
    <3>1. Moved(th, "boundary", j)
      BY <2>1, <2>4, Moves, Zenon
    <3> QED
      BY <1>0, <1>1, <2>1, <2>4, <3>1, Acts, QuietStep, Zenon DEF Bare
  <2>5. ASSUME Go(th, "cleanup"), admission' = th
        PROVE  BookNext
    <3>1. Moved(th, "cleanup", j)
      BY <2>1, <2>5, Moves, Zenon
    <3> QED
      BY <1>0, <2>1, <2>2, <2>5, <3>1, ActingCleanup, Zenon
  <2> QED
    BY <1>2, <2>3, <2>4, <2>5, Zenon DEF EnterGuard
<1>3. CASE RenewEnter(th)
  <2>1. pc[th] \in Loose
    BY <1>3, Zenon DEF RenewEnter, At, Plain, Loose
  <2>2. Moved(th, "renewing", job[th])
    BY <1>3, Moves, Zenon DEF RenewEnter
  <2>3. UNCHANGED <<schedVars, order, bookVars>> /\ Fine /\ admission' = th
    BY <1>3, Zenon DEF RenewEnter
  <2> QED
    BY <1>0, <1>1, <2>1, <2>2, <2>3, QuietStep, Zenon DEF Bare
<1>4. CASE RenewCommit(th)
  <2> DEFINE t == job[th].token
  <2>1. pc[th] \in Loose /\ LeavePlain(th) /\ UNCHANGED bookVars /\ Fine
    BY <1>4, Zenon DEF RenewCommit, At, Plain, Loose
  <2>2. Renew(t, th, 0) \/ UNCHANGED schedVars
    BY <1>4, Zenon DEF RenewCommit
  <2>3. SchedTypes' /\ queue' = queue
    BY <1>0, <2>2, RenewCall, IdleCall, Zenon
  <2>4. Unlock(th) /\ Moved(th, "idle", NoJob)
    BY <2>1, Moves, Zenon DEF LeavePlain
  <2>5. pc[th] # "visible"
    BY <2>1, Unordered, Zenon
  <2> QED
    BY <1>1, <2>1, <2>3, <2>4, <2>5, Unlocks, NoJobType, KeptTame, PlainStep, Zenon DEF Bare
<1>5. CASE InputEnter(th)
  <2>1. pc[th] \in Acting /\ UNCHANGED <<schedVars, order, bookVars>> /\ Fine
    BY <1>5, Zenon DEF InputEnter, At, Acting
  <2>2. ASSUME Go(th, "boundary"), job' = job, admission' = th
        PROVE  BookNext
    <3>1. Moved(th, "boundary", job[th])
      BY <2>2, Moves, Zenon
    <3> QED
      BY <1>0, <1>1, <2>1, <2>2, <3>1, Acts, QuietStep, Zenon DEF Bare
  <2>3. ASSUME Go(th, "idle"), Carry(th, NoJob), admission' = admission
        PROVE  BookNext
    <3>1. Moved(th, "idle", NoJob)
      BY <2>3, Moves, Zenon
    <3> QED
      BY <1>0, <1>1, <2>1, <2>3, <3>1, Acts, NoJobType, QuietStep, Zenon DEF Bare
  <2> QED
    BY <1>5, <2>2, <2>3, Zenon DEF InputEnter
<1> QED
  BY <1>2, <1>3, <1>4, <1>5

LEMMA PreemptKeeps ==
    ASSUME BookInv, NEW th \in Thread, Boundary(th) \/ Preempt(th)
    PROVE  BookNext
<1>0. SchedTypes /\ job[th] \in JobType /\ admission \in Thread \cup {None}
  BY Moves, Zenon DEF BookInv, Books
<1>1. "preempt" \in Acting /\ "begin" \in Acting
  BY Zenon DEF Acting
<1>2. CASE Boundary(th)
  <2>1. /\ pc[th] \in Acting /\ order = None /\ ExpireQueued /\ Go(th, "preempt")
        /\ job' = job /\ order' = order /\ admission' = admission
        /\ setting' = setting /\ asked' = asked
    BY <1>2, Zenon DEF Boundary, At, Acting, lockVars, Fine
  <2>2. SchedTypes' /\ Tame
    BY <2>1, UnshownFacts, ExpireCall, Zenon
  <2>3. Moved(th, "preempt", job[th]) /\ Handed(th) /\ order' # th
    BY <2>1, Moves, Acts, Zenon DEF Handed
  <2> QED
    BY <1>0, <1>1, <2>1, <2>2, <2>3, Acts, PlainStep, Zenon DEF Bare
<1>3. CASE Preempt(th)
  <2> DEFINE j == job[th]
             t == j.token
             ready == {e \in queue[inst] : TransferCandidate(t, th, Open, e, TRUE)}
  <2>1. pc[th] \in Acting /\ order = None
    BY <1>3, Zenon DEF Preempt, At, Acting
  <2>2. ASSUME NEW e \in ready, NEW capacity \in Capacity, PrepareToken,
               IF capacity
               THEN /\ order' = th
                    /\ Go(th, "transfer")
                    /\ Carry(th, [j EXCEPT !.prep =
                                      PreparedTransfer(t, e, None, FALSE)])
               ELSE Go(th, "cleanup") /\ UNCHANGED <<order, job>>,
               UNCHANGED <<admission, bookVars>>, Fine
        PROVE  BookNext
    <3>1. Current(t) /\ e \in queue[inst]
      BY <2>2, Zenon DEF TransferCandidate, Transferable, HeldBy
    <3>2. CASE capacity
      BY <2>1, <2>2, <3>1, <3>2, TransferPrepared, Zenon
    <3>3. CASE ~capacity
      <4>1. Moved(th, "cleanup", j) /\ order' = order
        BY <2>2, <3>3, Moves, Zenon
      <4>2. SchedTypes' /\ queue' = queue
        BY <1>0, <2>2, PrepareCall, Zenon
      <4> QED
        BY <1>0, <2>1, <2>2, <4>1, <4>2, ActingCleanup, Zenon
    <3> QED
      BY <3>2, <3>3, Zenon
  <2>3. ASSUME admission' = None, Go(th, "begin"), UNCHANGED <<order, job>>,
               UNCHANGED <<schedVars, bookVars>>, Fine
        PROVE  BookNext
    <3>1. Moved(th, "begin", j)
      BY <2>3, Moves, Zenon
    <3> QED
      BY <1>0, <1>1, <2>1, <2>3, <3>1, Acts, QuietStep, Zenon DEF Bare
  <2>4. ASSUME Leave(th), UNCHANGED <<schedVars, bookVars>>, Fine
        PROVE  BookNext
    <3>1. SchedTypes' /\ queue' = queue
      BY <1>0, <2>4, IdleCall, Zenon
    <3> QED
      BY <2>1, <2>4, <3>1, Acts, KeptTame, Left, Zenon
  <2>5. CASE Fail("PreemptedTransferRemainedDestructive")
    BY <2>5, FailStep, Zenon
  <2> QED
    BY <1>3, <2>2, <2>3, <2>4, <2>5, Zenon DEF Preempt
<1> QED
  BY <1>2, <1>3

LEMMA StepKeeps ==
    ASSUME BookInv, NEW th \in Thread,
           Begin(th) \/ \E failed \in BOOLEAN : WriteReturns(th, failed)
    PROVE  BookNext
<1>0. SchedTypes /\ job[th] \in JobType /\ admission \in Thread \cup {None}
  BY Moves, Zenon DEF BookInv, Books
<1>1. /\ "write" \in Acting /\ "guard" \in Acting /\ "idle" \in Plain
      /\ {"finish", "failure"} \subseteq Op
  BY Zenon DEF Acting, Plain, Op
<1>2. "finish" \notin {"queue", "acquire"} /\ "failure" \notin {"queue", "acquire"}
  BY SMT
<1>3. ASSUME pc[th] \in Acting, UNCHANGED <<lockVars, bookVars>>, Fine, SchedTypes',
             queue' = queue, NEW p, NEW j \in JobType, Bare(p, j), Moved(th, p, j)
      PROVE  BookNext
  <2>1. order' = order /\ admission' = admission
    BY <1>3, Zenon DEF lockVars
  <2>2. Handed(th) /\ order' # th
    BY <1>3, <2>1, Acts, Zenon DEF Handed
  <2> QED
    BY <1>0, <1>3, <2>1, <2>2, Acts, KeptTame, PlainStep, Zenon
<1>4. CASE Begin(th)
  <2> DEFINE t == job[th].token
  <2>1. pc[th] \in Acting /\ UNCHANGED <<lockVars, bookVars>> /\ Fine
    BY <1>4, Zenon DEF Begin, At, Acting
  <2>2. ASSUME BeginDestructiveStep(t, th), Go(th, "write"),
               Carry(th, [job[th] EXCEPT !.step = Witness(t, th, "Business")])
        PROVE  BookNext
    <3> DEFINE w == Witness(t, th, "Business")
               j == [job[th] EXCEPT !.step = w]
               s == [id |-> nextStep, purpose |-> "Business"]
    <3>1. SchedTypes' /\ queue' = queue /\ ValidWrite(t, th) /\ s \in StepType
      BY <1>0, <2>2, BeginCall, Zenon
    <3>2. Current(t) /\ lease[t.instance].claim.holder = th
      BY <3>1, Zenon DEF ValidWrite, ValidLease, ActiveLease, HeldBy
    <3>3. t \in TokenType /\ t.instance = inst /\ lease[inst] \in LeaseType
      BY <1>0, <3>2, CurrentFacts, Zenon
    <3>4. lease[inst].claim \in Claim
      BY <3>3, Zenon DEF LeaseType
    <3>5. th \in Holder
      BY <3>2, <3>3, <3>4, Threads, Zenon
    <3>6. w \in WitnessType
      BY <3>1, <3>3, <3>5, Zenon DEF WitnessType, Witness
    <3>7. Moved(th, "write", j)
      BY <2>2, Moves, Zenon
    <3> HIDE DEF w
    <3>8. j \in JobType /\ j.op = job[th].op
      BY <1>0, <3>6, StepEdit, Zenon
    <3> HIDE DEF j
    <3>9. Bare("write", j)
      BY <1>1, <2>1, <3>8, Acts, Zenon DEF Bare
    <3> QED
      BY <1>3, <2>1, <3>1, <3>7, <3>8, <3>9, Zenon
  <2>3. ASSUME UNCHANGED schedVars
        PROVE  SchedTypes' /\ queue' = queue
    BY <1>0, <2>3, IdleCall, Zenon
  <2>4. ASSUME Go(th, "guard"), Carry(th, [job[th] EXCEPT !.op = "finish"]),
               UNCHANGED schedVars
        PROVE  BookNext
    <3> DEFINE j == [job[th] EXCEPT !.op = "finish"]
    <3>1. j \in JobType /\ j.op = "finish"
      BY <1>0, <1>1, OpEdit, Zenon
    <3>2. Moved(th, "guard", j)
      BY <2>4, Moves, Zenon
    <3> HIDE DEF j
    <3>3. Bare("guard", j)
      BY <1>1, <1>2, <3>1, Zenon DEF Bare
    <3> QED
      BY <1>3, <2>1, <2>3, <2>4, <3>1, <3>2, <3>3, Zenon
  <2>5. ASSUME Go(th, "idle"), Carry(th, NoJob), UNCHANGED schedVars
        PROVE  BookNext
    <3>1. Moved(th, "idle", NoJob) /\ Bare("idle", NoJob)
      BY <1>1, <2>5, Moves, Zenon DEF Bare
    <3> QED
      BY <1>3, <2>1, <2>3, <2>5, <3>1, NoJobType, Zenon
  <2> QED
    BY <1>4, <2>2, <2>4, <2>5, Zenon DEF Begin
<1>5. ASSUME NEW failed \in BOOLEAN, WriteReturns(th, failed)
      PROVE  BookNext
  <2> DEFINE j == job[th]
             w == j.step
             op == IF failed THEN "failure" ELSE "finish"
             k == [j EXCEPT !.step = None, !.op = op]
  <2>1. pc[th] \in Acting
    BY <1>5, Zenon DEF WriteReturns, At, Acting
  <2>2. ASSUME FinishDestructiveStep(w), Go(th, "guard"), Carry(th, k),
               UNCHANGED <<lockVars, bookVars>>, Fine
        PROVE  BookNext
    <3>1. SchedTypes' /\ queue' = queue
      BY <1>0, <2>2, FinishCall, Zenon
    <3>2. op \in Op /\ op \notin {"queue", "acquire"}
      BY <1>1, <1>2
    <3>3. Moved(th, "guard", k)
      BY <2>2, Moves, Zenon
    <3> HIDE DEF op
    <3>4. k \in JobType /\ k.op = op
      BY <1>0, <3>2, FinishEdit, Zenon
    <3> HIDE DEF k
    <3>5. Bare("guard", k)
      BY <1>1, <3>2, <3>4, Zenon DEF Bare
    <3> QED
      BY <1>3, <2>1, <2>2, <3>1, <3>3, <3>4, <3>5, Zenon
  <2>3. CASE Fail("FinishDestructiveInput")
    BY <2>3, FailStep, Zenon
  <2> QED
    BY <1>5, <2>2, <2>3, Zenon DEF WriteReturns
<1> QED
  BY <1>4, <1>5, Zenon

LEMMA RequestKeeps ==
    ASSUME BookInv, NEW th \in Thread, DisconnectLease(th) \/ Poll(th) \/ Cancel(th)
    PROVE  BookNext
<1>0. SchedTypes /\ job[th] \in JobType /\ admission \in Thread \cup {None}
  BY Moves, Zenon DEF BookInv, Books
<1>1. /\ "idle" \in Plain /\ "gone" \in Plain /\ "pump" \in Plain /\ "guard" \in Acting
      /\ "part" \in Op /\ {"poll", "cancel"} \subseteq Loose
  BY Zenon DEF Plain, Acting, Op, Loose
<1>2. "part" \notin {"queue", "acquire"}
  BY SMT
<1>3. ASSUME pc[th] \in Loose, Go(th, "idle"), Carry(th, NoJob),
             UNCHANGED <<schedVars, lockVars, bookVars>>, Fine
      PROVE  BookNext
  <2>1. Moved(th, "idle", NoJob) /\ admission' = admission /\ order' = order
    BY <1>3, Moves, Zenon DEF lockVars
  <2> QED
    BY <1>0, <1>1, <1>3, <2>1, NoJobType, QuietStep, Zenon DEF Bare
<1>4. CASE DisconnectLease(th)
  <2>1. /\ pc[th] \in Loose /\ UNCHANGED <<schedVars, order, bookVars>> /\ Fine
        /\ admission' = admission
    BY <1>4, Zenon DEF DisconnectLease, At, Plain, Loose, lockVars
  <2>2. ASSUME lease[inst] # None, Go(th, "guard"),
               Carry(th, [NoJob EXCEPT !.op = "part", !.token = lease[inst].token])
        PROVE  BookNext
    <3> DEFINE t == lease[inst].token
               j == [NoJob EXCEPT !.op = "part", !.token = t]
    <3>1. lease[inst] \in LeaseType
      BY <1>0, <2>2, OneInstance, Zenon DEF SchedTypes
    <3>2. t \in TokenType
      BY <3>1, Zenon DEF LeaseType
    <3>3. Moved(th, "guard", j)
      BY <2>2, Moves, Zenon
    <3> HIDE DEF t
    <3>4. j \in JobType /\ j.op = "part"
      BY <1>1, <3>2, NewJob, Zenon
    <3> HIDE DEF j
    <3>5. Bare("guard", j)
      BY <1>1, <1>2, <3>4, Zenon DEF Bare
    <3> QED
      BY <1>0, <2>1, <3>3, <3>4, <3>5, QuietStep, Zenon
  <2>3. ASSUME Go(th, "gone"), Carry(th, NoJob)
        PROVE  BookNext
    <3>1. Moved(th, "gone", NoJob)
      BY <2>3, Moves, Zenon
    <3> QED
      BY <1>0, <1>1, <2>1, <3>1, NoJobType, QuietStep, Zenon DEF Bare
  <2> QED
    BY <1>4, <2>2, <2>3, Zenon DEF DisconnectLease
<1>5. ASSUME pc[th] \in {"poll", "cancel"}
      PROVE  LET c == job[th].claim IN
             /\ c \in Claim /\ c.instance = inst
             /\ ~job[th].flag => c \notin contexts
  BY <1>5, SettingClaims, OneInstance, Zenon DEF BookInv, Placed
<1>6. CASE Poll(th)
  <2> DEFINE j == job[th]
  <2>1. pc[th] \in {"poll", "cancel"} /\ pc[th] \in Loose /\ (j.flag => order = None)
    BY <1>1, <1>6, Zenon DEF Poll, At
  <2>2. ASSUME j.flag, PollQueuedExpired(j.claim), Settle({j.claim}),
               Go(th, "idle"), Carry(th, NoJob), UNCHANGED lockVars, Fine
        PROVE  BookNext
    <3>1. PICK e \in queue[inst] : e.claim = j.claim /\ RemoveQueued(inst, {e})
      BY <1>5, <2>1, <2>2, Zenon DEF PollQueuedExpired
    <3>2. Moved(th, "idle", NoJob) /\ Bare("idle", NoJob)
      BY <1>1, <2>2, Moves, Zenon DEF Bare
    <3>3. order' = order /\ admission' = admission /\ setting' = setting /\ asked' = asked
      BY <2>2, Zenon DEF lockVars, Fine
    <3> QED
      BY <2>1, <2>2, <3>1, <3>2, <3>3, NoJobType, OneLeaves, Zenon
  <2>3. CASE Fail("ExpiredQueueContextMissing")
    BY <2>3, FailStep, Zenon
  <2> QED
    BY <1>3, <1>6, <2>1, <2>2, <2>3, Zenon DEF Poll
<1>7. CASE Cancel(th)
  <2> DEFINE j == job[th]
  <2>1. pc[th] \in {"poll", "cancel"} /\ pc[th] \in Loose /\ (j.flag => order = None)
    BY <1>1, <1>7, Zenon DEF Cancel, At
  <2>2. ASSUME j.claim \in contexts, CancelQueued(j.claim), Settle({j.claim}),
               Go(th, "pump"), UNCHANGED <<lockVars, job>>, Fine
        PROVE  BookNext
    <3>1. PICK e \in queue[inst] : e.claim = j.claim /\ RemoveQueued(inst, {e})
      BY <1>5, <2>1, <2>2, Zenon DEF CancelQueued
    <3>2. Moved(th, "pump", j) /\ Bare("pump", j)
      BY <1>1, <2>2, Moves, Zenon DEF Bare
    <3>3. order' = order /\ admission' = admission /\ setting' = setting /\ asked' = asked
      BY <2>2, Zenon DEF lockVars, Fine
    <3>4. order = None
      BY <1>5, <2>1, <2>2, Zenon
    <3> QED
      BY <1>0, <2>1, <2>2, <3>1, <3>2, <3>3, <3>4, OneLeaves, Zenon
  <2>3. CASE Fail("QueuedRequestContextMissing")
    BY <2>3, FailStep, Zenon
  <2> QED
    BY <1>3, <1>7, <2>1, <2>2, <2>3, Zenon DEF Cancel
<1> QED
  BY <1>4, <1>6, <1>7

LEMMA HeldKeeps ==
    ASSUME BookInv, NEW th \in Thread, Held(th)
    PROVE  BookNext
  BY GuardKeeps, PreemptKeeps, StepKeeps, RequestKeeps, Zenon DEF Held

=============================================================================
