--------------------------- MODULE WatchdogHolds ----------------------------
(***************************************************************************)
(* The sets the watchdog's state ranges over, without the bounds of a      *)
(* model; what one step of the watchdog's world does to the state the      *)
(* theorems are about; and why a tick starts nothing after an outcome that *)
(* holds: the start logs and owner.journal go on telling of the end of the *)
(* last process, through every log the Runtime deletes and every record it *)
(* adds, until another process ends; for every slack and every number of   *)
(* owners looked back to, with any number of processes and faults.         *)
(***************************************************************************)
EXTENDS Watchdog, TLAPS

Starter == {"tick", "command", "other", "maintenance"}
Stage == {"starting", "locked", "serving", "ending", "gone"}
EndKind == Categories \union {"crashed", "retained", "refused"}

Process0 == [by: Starter, at: Nat, st: Stage, why: Categories]
OwnerRecord == [epoch: Nat, started: Nat, closed: Nat, retained: BOOLEAN]
Start0 == [at: Nat, open: BOOLEAN, epoch: Nat]
State0 == [starts: Seq(Start0), exhausted: BOOLEAN, formal: Nat, grace: Nat, lastEnd: Nat]
Tick0 == [pc: {"idle", "observe", "probe", "spawn", "wait", "save"}, task: BOOLEAN,
          at: Nat, proc: Nat, since: Nat, ended: EndKind]

\* The start records later than F.
After(starts, F) == {i \in DOMAIN starts : starts[i].at > F}

Sorted(starts) == \A i, j \in DOMAIN starts : i <= j => starts[i].at <= starts[j].at

\* Every start record is from t or before.
Until(starts, t) == \A i \in DOMAIN starts : starts[i].at <= t

\* Start records with the same times.
SameTimes(s, t) ==
    /\ DOMAIN s = DOMAIN t
    /\ \A i \in DOMAIN s : s[i].at = t[i].at

\* One more record counts from G on.
OneAdded(new, old, at, G) ==
    \A F \in Int : F >= G => Cardinality(After(new, F)) =
                                 Cardinality(After(old, F)) + (IF at > F THEN 1 ELSE 0)

\* Where the budget of a state counts from at time n.
Floor(state, n) == Later(n - BudgetWindow, state.formal)

\* There is a record of every start that counts from the floor on.
Covers(starts, floor, count) ==
    \A F \in Int : F >= floor => count[F] <= Cardinality(After(starts, F))

\* No more starts count than before, or one more at `at`.
NoMore(new, old) == \A F \in Int : new[F] <= old[F]
OneMore(new, old, at) == \A F \in Int : new[F] <= old[F] + (IF at > F THEN 1 ELSE 0)

\* A state.json, on disk or in the tick's hands, at time n: its records are in order, from
\* before an owner that is there, one for every start that counts and not beyond the budget;
\* its formal start is that of an owner.
SoundAt(state, n, last, owners, count) ==
    /\ Len(state.starts) <= KeptStarts
    /\ Sorted(state.starts) /\ Until(state.starts, n)
    /\ owners # {} => Until(state.starts, last)
    /\ state.formal <= last
    /\ Covers(state.starts, Floor(state, n), count)
    /\ Cardinality(After(state.starts, Floor(state, n))) <= BudgetStarts

-----------------------------------------------------------------------------
\* When the last owner took owner.lock.
LastStarted == IF journal = <<>> THEN 0 ELSE LastOwner.started

\* Every variable holds values of its kind, and a live owner has a record in the journal.
TypeInv ==
    /\ now \in Nat /\ boot \in Nat
    /\ procs \in Seq(Process0)
    /\ journal \in Seq(OwnerRecord)
    /\ disk \in State0 /\ mem \in State0
    /\ tick \in Tick0
    /\ ended \in EndKind
    /\ graced \in Int
    /\ Owners # {} => journal # <<>>

\* A step of the processes: no new one is a tick's, a new owner takes the lock now, and
\* none that a tick or a command starts appears while run.lock is held.
RuntimeStep ==
    /\ UNCHANGED <<now, boot, watchdog>>
    /\ procs' \in Seq(Process0) /\ journal' \in Seq(OwnerRecord) /\ ended' \in EndKind
    /\ DOMAIN procs \subseteq DOMAIN procs'
    /\ \A p \in DOMAIN procs :
           /\ procs'[p].by = procs[p].by /\ procs'[p].at = procs[p].at
           /\ procs'[p].st # "gone" => procs[p].st # "gone"
    /\ \A p \in DOMAIN procs' \ DOMAIN procs :
           /\ procs'[p].by # "tick"
           /\ procs'[p].by = "command" => tick.pc = "idle"
    /\ Owners' # {} => journal' # <<>>
    /\ \/ LastStarted' = LastStarted /\ (Owners' # {} => Owners # {})
       \/ LastStarted' = now

Others ==
    \/ other_start \/ maintenance \/ command_start \/ command_end
    \/ \E p \in Procs : Process(p)

\* Processes of ps that ticks started later than F, and the one a tick t is about to start.
TickStarts(ps, F) == {p \in DOMAIN ps : ps[p].by = "tick" /\ ps[p].at > F}
Coming(t, F) == IF t.pc = "spawn" /\ t.at > F THEN 1 ELSE 0
CountOf(ps, t) == [F \in Int |-> Cardinality(TickStarts(ps, F)) + Coming(t, F)]
Count == CountOf(procs, tick)

Sound(state) == SoundAt(state, now, LastStarted, Owners, Count)

InFlight == tick.pc # "idle"

BudgetInv ==
    /\ LastStarted <= now /\ tick.at <= now
    /\ Sound(disk)
    /\ InFlight => Sound(mem)
    /\ tick.pc \in {"observe", "probe"} => Until(mem.starts, tick.at)
    /\ tick.pc = "probe" /\ Owners # {} => tick.at <= LastStarted

\* A tick drops the exhaustion only for a formal start after all its records.
FormalInv ==
    /\ tick.pc \in {"observe", "probe"} => mem.exhausted = disk.exhausted
    /\ tick.pc \in {"spawn", "wait"} => ~disk.exhausted
    /\ tick.pc = "save" /\ disk.exhausted /\ ~mem.exhausted => Until(mem.starts, mem.formal)

\* While the first task tick after a boot is awaited the last task tick lies before the
\* boot; once it came, the grace it opened is on disk and with every tick.
GraceInv ==
    /\ boot <= now /\ disk.lastEnd <= now /\ graced >= -1 /\ graced <= now
    /\ InFlight => mem.lastEnd = disk.lastEnd
    /\ graced = -1 => disk.lastEnd # 0 /\ disk.lastEnd < boot
    /\ graced > 0 => disk.grace >= graced + Grace
    /\ graced > 0 /\ InFlight => mem.grace >= graced + Grace
    /\ tick.pc \in {"observe", "probe"} => tick.at >= graced
    /\ tick.pc \in {"spawn", "wait"} /\ tick.task => graced # -1
    /\ tick.pc = "save" /\ tick.task /\ graced = -1 /\ tick.at > 0
           => mem.grace >= tick.at + Grace

IInv == TypeInv /\ BudgetInv /\ FormalInv /\ GraceInv /\ SpawnsAlone /\ GraceKept

\* A step that adds no start: time passes, a new owner takes the lock now.
Calm ==
    /\ now <= now' /\ LastStarted <= LastStarted'
    /\ Owners' # {} => (Owners # {} /\ LastStarted' = LastStarted) \/ LastStarted' >= now
    /\ NoMore(Count', Count)

\* A record that is kept: the same times, and the formal start it had or the last owner's.
Keeps(new, old) ==
    SameTimes(new.starts, old.starts) /\ (new.formal = old.formal \/ new.formal = LastStarted)

-----------------------------------------------------------------------------
\* Sequences.

LEMMA Appended ==
    ASSUME NEW S, NEW s \in Seq(S), NEW e \in S
    PROVE  /\ Append(s, e) \in Seq(S) /\ Append(s, e) # <<>>
           /\ Len(Append(s, e)) = Len(s) + 1
           /\ \A i \in 1..Len(s) : Append(s, e)[i] = s[i]
           /\ Append(s, e)[Len(s) + 1] = e
  BY SMT

LEMMA WholePart ==
    ASSUME NEW S, NEW s \in Seq(S)
    PROVE  SubSeq(s, 1, Len(s)) = s
  BY SMT

-----------------------------------------------------------------------------
\* Steps of the processes and of a tick.

\* The times of start records are numbers.
LEMMA TimesType ==
    ASSUME NEW s \in Seq(Start0)
    PROVE  /\ Len(s) \in Nat /\ DOMAIN s = 1..Len(s)
           /\ \A i \in DOMAIN s : s[i] \in Start0 /\ s[i].at \in Nat
<1>1. Len(s) \in Nat /\ DOMAIN s = 1..Len(s) /\ \A i \in DOMAIN s : s[i] \in Start0
  OBVIOUS
<1> QED
  BY <1>1 DEF Start0

\* Records from a or before are from b or before, when b is not earlier.
LEMMA UntilLater ==
    ASSUME NEW s \in Seq(Start0), NEW a \in Nat, NEW b \in Nat, a <= b, Until(s, a)
    PROVE  Until(s, b)
BY TimesType DEF Until

\* What depends on the times of the records only.
LEMMA SameRecords ==
    ASSUME NEW s \in Seq(Start0), NEW t \in Seq(Start0), SameTimes(t, s)
    PROVE  /\ Len(t) = Len(s) /\ (Sorted(s) => Sorted(t))
           /\ \A a \in Nat : Until(s, a) => Until(t, a)
           /\ \A F \in Int : After(t, F) = After(s, F)
<1>1. /\ DOMAIN t = DOMAIN s /\ \A i \in DOMAIN s : t[i].at = s[i].at
      /\ DOMAIN s = 1..Len(s) /\ DOMAIN t = 1..Len(t) /\ Len(s) \in Nat /\ Len(t) \in Nat
  BY DEF SameTimes
<1>2. Len(t) = Len(s)
  BY <1>1
<1>3. Sorted(s) => Sorted(t)
  BY <1>1 DEF Sorted
<1>4. \A a \in Nat : Until(s, a) => Until(t, a)
  BY <1>1 DEF Until
<1>5. \A F \in Int : After(t, F) = After(s, F)
  BY <1>1 DEF After
<1> QED
  BY <1>2, <1>3, <1>4, <1>5

\* The constants are numbers.
LEMMA ConstantTypes ==
    /\ BudgetWindow \in Nat /\ BudgetStarts \in Nat /\ KeptStarts \in Nat /\ Grace \in Nat
    /\ Grace > 0 /\ StartWindow \in Nat
BY WatchdogAssumption

\* The floor is a number, and later for a later time and a later formal start.
LEMMA FloorLater ==
    ASSUME NEW old \in State0, NEW new \in State0, NEW n \in Nat, NEW m \in Nat,
           n <= m, old.formal <= new.formal
    PROVE  Floor(old, n) \in Int /\ Floor(new, m) \in Int /\ Floor(old, n) <= Floor(new, m)
<1>1. old.formal \in Nat /\ new.formal \in Nat
  BY DEF State0
<1> QED
  BY <1>1, ConstantTypes DEF Floor, Later

\* The fields of a process, an owner record, a state and a tick.
LEMMA ShapeFields ==
    /\ \A x \in Process0 : /\ x.by \in Starter /\ x.at \in Nat
                           /\ x.st \in Stage /\ x.why \in Categories
    /\ \A x \in OwnerRecord : x.epoch \in Nat /\ x.started \in Nat
    /\ \A x \in State0 : /\ x.starts \in Seq(Start0) /\ x.exhausted \in BOOLEAN
                         /\ x.formal \in Nat /\ x.grace \in Nat /\ x.lastEnd \in Nat
    /\ \A x \in Tick0 : /\ x.task \in BOOLEAN /\ x.at \in Nat /\ x.proc \in Nat
                        /\ x.since \in Nat /\ x.ended \in EndKind
BY DEF Process0, OwnerRecord, State0, Tick0

\* The last owner record, and what appending one does.
LEMMA JournalEnd ==
    ASSUME NEW j \in Seq(OwnerRecord), j # <<>>
    PROVE  Len(j) \in Nat /\ Len(j) \in DOMAIN j /\ j[Len(j)] \in OwnerRecord
OBVIOUS

\* A new owner's record is the last one.
LEMMA OwnedLast ==
    ASSUME TypeInv, NEW p \in Nat, journal' = Owned(p)
    PROVE  journal' \in Seq(OwnerRecord) /\ journal' # <<>> /\ LastStarted' = now
<1> DEFINE r == [epoch |-> p, started |-> now, closed |-> 0, retained |-> FALSE]
<1>1. r \in OwnerRecord /\ r.started = now
  BY DEF OwnerRecord, TypeInv
<1>2. journal' = Append(journal, r) /\ journal \in Seq(OwnerRecord)
  BY DEF Owned, TypeInv
<1> HIDE DEF r
<1>3. journal' \in Seq(OwnerRecord) /\ journal' # <<>> /\ journal'[Len(journal')] = r
  BY <1>1, <1>2, Appended
<1> QED
  BY <1>1, <1>3 DEF LastStarted, LastOwner

\* A change of the last record that leaves its start.
LEMMA LastChanged ==
    ASSUME TypeInv, journal # <<>>, NEW r \in OwnerRecord,
           journal' = [journal EXCEPT ![Len(journal)] = r], r.started = LastOwner.started
    PROVE  journal' \in Seq(OwnerRecord) /\ journal' # <<>> /\ LastStarted' = LastStarted
<1>1. journal \in Seq(OwnerRecord) /\ Len(journal) \in DOMAIN journal
  BY DEF TypeInv
<1>2. /\ journal' \in Seq(OwnerRecord) /\ Len(journal') = Len(journal)
      /\ journal'[Len(journal)] = r /\ journal' # <<>>
  BY <1>1
<1> QED
  BY <1>2 DEF LastStarted, LastOwner

\* A process that is appended.
LEMMA ProcAppended ==
    ASSUME TypeInv, NEW r \in Process0, procs' = Append(procs, r)
    PROVE  /\ procs' \in Seq(Process0) /\ DOMAIN procs = 1..Len(procs) /\ Len(procs) \in Nat
           /\ DOMAIN procs' = DOMAIN procs \union {Len(procs) + 1}
           /\ Len(procs) + 1 \notin DOMAIN procs /\ Len(procs') = Len(procs) + 1
           /\ procs'[Len(procs) + 1] = r /\ \A p \in DOMAIN procs : procs'[p] = procs[p]
<1>1. procs \in Seq(Process0)
  BY DEF TypeInv
<1> QED
  BY <1>1, Appended

\* A process whose stage changes.
LEMMA ProcChanged ==
    ASSUME TypeInv, NEW p \in Procs, NEW r \in Process0, procs' = [procs EXCEPT ![p] = r],
           r.by = procs[p].by, r.at = procs[p].at, r.st # "gone" => procs[p].st # "gone"
    PROVE  /\ procs' \in Seq(Process0) /\ DOMAIN procs' = DOMAIN procs /\ procs'[p] = r
           /\ \A q \in DOMAIN procs :
                  /\ q # p => procs'[q] = procs[q]
                  /\ procs'[q].by = procs[q].by /\ procs'[q].at = procs[q].at
                  /\ procs'[q].st # "gone" => procs[q].st # "gone"
<1>1. procs \in Seq(Process0) /\ p \in DOMAIN procs
  BY DEF TypeInv, Procs
<1> QED
  BY <1>1

\* The steps of a process that only change its stage and its log.
LEMMA StageStep ==
    ASSUME TypeInv, NEW p \in Procs, NEW r \in Process0, procs' = [procs EXCEPT ![p] = r],
           r.by = procs[p].by, r.at = procs[p].at,
           r.st # "gone" => procs[p].st # "gone",
           r.st \in {"locked", "serving"} => procs[p].st \in {"locked", "serving"},
           UNCHANGED <<now, boot, watchdog>>, ended' \in EndKind,
           journal' \in Seq(OwnerRecord), journal # <<>> => journal' # <<>>,
           LastStarted' = LastStarted
    PROVE  RuntimeStep
<1>1. /\ procs' \in Seq(Process0) /\ DOMAIN procs' = DOMAIN procs /\ procs'[p] = r
      /\ \A q \in DOMAIN procs :
             /\ q # p => procs'[q] = procs[q]
             /\ procs'[q].by = procs[q].by /\ procs'[q].at = procs[q].at
             /\ procs'[q].st # "gone" => procs[q].st # "gone"
  BY ProcChanged, Zenon
<1>2. Owners' # {} => Owners # {}
  BY <1>1 DEF Owners, Procs
<1>3. Owners' # {} => journal' # <<>>
  BY <1>2 DEF TypeInv
<1> QED
  BY <1>1, <1>2, <1>3 DEF RuntimeStep

\* Every step of one process is a RuntimeStep.
LEMMA ProcessStep ==
    ASSUME TypeInv, NEW p \in Procs, Process(p)
    PROVE  RuntimeStep
<1>1. /\ procs \in Seq(Process0) /\ p \in DOMAIN procs /\ procs[p] \in Process0
      /\ journal \in Seq(OwnerRecord) /\ ended \in EndKind /\ p \in Nat
  BY DEF TypeInv, Procs
<1>2. procs[p].st \in {"locked", "serving"} => journal # <<>>
  BY DEF TypeInv, Owners
<1> DEFINE to(st) == [procs[p] EXCEPT !.st = st]
           bare(st) == [procs[p] EXCEPT !.st = st, !.why = "none"]
<1>3. \A st \in Stage : /\ to(st) \in Process0 /\ to(st).st = st
                        /\ to(st).by = procs[p].by /\ to(st).at = procs[p].at
                        /\ bare(st) \in Process0 /\ bare(st).st = st
                        /\ bare(st).by = procs[p].by /\ bare(st).at = procs[p].at
  BY <1>1, Zenon DEF Process0, Categories
<1>4. "locked" \in Stage /\ "serving" \in Stage /\ "ending" \in Stage /\ "gone" \in Stage
  BY DEF Stage
<1>5. CASE take_lock(p)
  <2>1. /\ procs' = [procs EXCEPT ![p] = to("locked")] /\ journal' = Owned(p)
        /\ UNCHANGED <<now, boot, watchdog, ended>> /\ procs[p].st = "starting"
    BY <1>5 DEF take_lock
  <2>2. /\ procs' \in Seq(Process0) /\ DOMAIN procs' = DOMAIN procs
        /\ \A q \in DOMAIN procs :
               /\ procs'[q].by = procs[q].by /\ procs'[q].at = procs[q].at
               /\ procs'[q].st # "gone" => procs[q].st # "gone"
    <3> HIDE DEF to, bare
    <3> QED
      BY <2>1, <1>3, <1>4, ProcChanged, Zenon
  <2>3. journal' \in Seq(OwnerRecord) /\ journal' # <<>> /\ LastStarted' = now
    BY <2>1, <1>1, OwnedLast
  <2> QED
    BY <2>1, <2>2, <2>3, <1>1 DEF RuntimeStep
<1>6. CASE serve(p)
  <2>1. /\ procs' = [procs EXCEPT ![p] = to("serving")] /\ journal' = <<LastOwner>>
        /\ UNCHANGED <<now, boot, watchdog, ended>> /\ procs[p].st = "locked"
    BY <1>6 DEF serve
  <2>2. /\ journal' \in Seq(OwnerRecord) /\ journal' # <<>> /\ LastStarted' = LastStarted
    <3>1. LastOwner \in OwnerRecord /\ journal # <<>>
      BY <2>1, <1>1, <1>2 DEF LastOwner
    <3>2. journal' \in Seq(OwnerRecord) /\ journal' # <<>> /\ Len(journal') = 1
          /\ journal'[1] = LastOwner
      BY <3>1, <2>1
    <3> QED
      BY <3>1, <3>2 DEF LastStarted, LastOwner
  <2> HIDE DEF to, bare
  <2> QED
    BY <2>1, <2>2, <1>1, <1>3, <1>4, StageStep, Zenon
<1>7. CASE last_line(p) \/ crash(p)
  <2>1. /\ procs' = [procs EXCEPT ![p] = bare("gone")]
        /\ UNCHANGED <<now, boot, watchdog, journal>> /\ ended' \in EndKind
        /\ procs[p].st # "gone"
    BY <1>1, <1>7 DEF last_line, crash, Alive, EndKind, Process0
  <2>2. LastStarted' = LastStarted
    BY <2>1 DEF LastStarted, LastOwner
  <2> HIDE DEF to, bare
  <2> QED
    BY <2>1, <2>2, <1>1, <1>3, <1>4, StageStep, Zenon
<1>8. CASE retain(p)
  <2>1. /\ procs' = [procs EXCEPT ![p] = to("gone")]
        /\ journal' = [journal EXCEPT ![Len(journal)].retained = TRUE]
        /\ UNCHANGED <<now, boot, watchdog>> /\ ended' \in EndKind
        /\ procs[p].st = "serving"
    BY <1>8 DEF retain, EndKind
  <2>2. journal' \in Seq(OwnerRecord) /\ journal' # <<>> /\ LastStarted' = LastStarted
    <3> DEFINE r == [LastOwner EXCEPT !.retained = TRUE]
    <3>1. LastOwner \in OwnerRecord /\ journal # <<>>
      BY <2>1, <1>1, <1>2 DEF LastOwner
    <3>2. r \in OwnerRecord /\ r.started = LastOwner.started
      BY <3>1, Zenon DEF OwnerRecord
    <3>3. journal' = [journal EXCEPT ![Len(journal)] = r]
      BY <2>1 DEF LastOwner
    <3> HIDE DEF r
    <3> QED
      BY <3>1, <3>2, <3>3, LastChanged, Zenon
  <2> HIDE DEF to, bare
  <2> QED
    BY <2>1, <2>2, <1>1, <1>3, <1>4, StageStep, Zenon
<1>9. CASE \E cat \in {"error", "fatal"} : refuse(p, cat)
  <2>1. /\ procs' = [procs EXCEPT ![p] = to("gone")]
        /\ UNCHANGED <<now, boot, watchdog, journal>> /\ ended' \in EndKind
    BY <1>9 DEF refuse, EndKind, Categories
  <2>2. LastStarted' = LastStarted
    BY <2>1 DEF LastStarted, LastOwner
  <2> HIDE DEF to, bare
  <2> QED
    BY <2>1, <2>2, <1>1, <1>3, <1>4, StageStep, Zenon
<1>10. CASE \E why \in {"info", "error", "fatal"} : close(p, why)
  <2>1. PICK why \in {"info", "error", "fatal"} : close(p, why)
    BY <1>10
  <2> DEFINE r == IF procs[p].by = "maintenance" THEN to("gone")
                  ELSE [procs[p] EXCEPT !.st = "ending", !.why = why]
  <2>2. /\ procs' = [procs EXCEPT ![p] = r]
        /\ journal' = [journal EXCEPT ![Len(journal)].closed = now]
        /\ UNCHANGED <<now, boot, watchdog, ended>>
        /\ procs[p].st \in {"locked", "serving"}
    BY <2>1, Zenon DEF close
  <2>3. /\ r \in Process0 /\ r.by = procs[p].by /\ r.at = procs[p].at
        /\ r.st \notin {"locked", "serving"}
    BY <1>1, <1>3, <1>4, Zenon DEF Process0, Categories
  <2>4. journal' \in Seq(OwnerRecord) /\ journal' # <<>> /\ LastStarted' = LastStarted
    <3> DEFINE o == [LastOwner EXCEPT !.closed = now]
    <3>1. LastOwner \in OwnerRecord /\ journal # <<>>
      BY <2>2, <1>1, <1>2 DEF LastOwner
    <3>2. o \in OwnerRecord /\ o.started = LastOwner.started
      BY <3>1, Zenon DEF OwnerRecord, TypeInv
    <3>3. journal' = [journal EXCEPT ![Len(journal)] = o]
      BY <2>2 DEF LastOwner
    <3> HIDE DEF o
    <3> QED
      BY <3>1, <3>2, <3>3, LastChanged, Zenon
  <2> HIDE DEF r
  <2> QED
    BY <2>2, <2>3, <2>4, <1>1, StageStep, Zenon
<1> QED
  BY <1>5, <1>6, <1>7, <1>8, <1>9, <1>10 DEF Process

\* A start by other hands is a RuntimeStep.
LEMMA StartedStep ==
    ASSUME TypeInv, NEW by \in Starter, by # "tick", by = "command" => tick.pc = "idle",
           Started(by, 0), UNCHANGED <<now, boot, journal, watchdog>>
    PROVE  RuntimeStep
<1> DEFINE r == [by |-> by, at |-> 0, st |-> "starting", why |-> "none"]
<1>1. r \in Process0 /\ r.by = by /\ r.st = "starting"
  BY DEF Process0, Stage, Categories
<1>2. procs' = Append(procs, r) /\ ended' \in EndKind
  BY Zenon DEF Started, EndKind, Categories
<1> HIDE DEF r
<1>3. /\ procs' \in Seq(Process0) /\ DOMAIN procs' = DOMAIN procs \union {Len(procs) + 1}
      /\ Len(procs) + 1 \notin DOMAIN procs /\ procs'[Len(procs) + 1] = r
      /\ \A p \in DOMAIN procs : procs'[p] = procs[p]
  BY <1>1, <1>2, ProcAppended, Zenon
<1>4. Owners' # {} => Owners # {}
  BY <1>1, <1>3, Zenon DEF Owners, Procs
<1>5. LastStarted' = LastStarted
  BY DEF LastStarted, LastOwner
<1> QED
  BY <1>1, <1>2, <1>3, <1>4, <1>5, Zenon DEF RuntimeStep, TypeInv

\* Every step of the processes and of `actingctl start` is a RuntimeStep.
LEMMA OthersStep ==
    ASSUME TypeInv, Others
    PROVE  RuntimeStep
<1>1. CASE other_start
  BY <1>1, StartedStep DEF other_start, Starter
<1>2. CASE command_start
  <2>1. tick.pc = "idle"
    BY <1>2 DEF command_start, RunLockHeld
  <2> QED
    BY <2>1, <1>2, StartedStep DEF command_start, Starter
<1>3. CASE command_end
  <2>1. UNCHANGED <<now, boot, procs, journal, ended, watchdog>>
    BY <1>3 DEF command_end, runtime
  <2>2. LastStarted' = LastStarted /\ Owners' = Owners
    BY <2>1 DEF LastStarted, LastOwner, Owners, Procs
  <2> QED
    BY <2>1, <2>2 DEF RuntimeStep, TypeInv
<1>4. CASE maintenance
  <2> DEFINE r == [by |-> "maintenance", at |-> 0, st |-> "locked", why |-> "none"]
  <2>1. r \in Process0 /\ r.by = "maintenance"
    BY DEF Process0, Starter, Stage, Categories
  <2>2. /\ procs' = Append(procs, r) /\ journal' = Owned(Len(procs) + 1)
        /\ UNCHANGED <<now, boot, watchdog>> /\ ended' \in {"none", ended}
    BY <1>4 DEF maintenance
  <2> HIDE DEF r
  <2>3. /\ procs' \in Seq(Process0) /\ DOMAIN procs' = DOMAIN procs \union {Len(procs) + 1}
        /\ Len(procs) + 1 \notin DOMAIN procs /\ procs'[Len(procs) + 1] = r
        /\ Len(procs) \in Nat /\ \A p \in DOMAIN procs : procs'[p] = procs[p]
    BY <2>1, <2>2, ProcAppended, Zenon
  <2>4. journal' \in Seq(OwnerRecord) /\ journal' # <<>> /\ LastStarted' = now
    <3>1. Len(procs) + 1 \in Nat
      BY <2>3
    <3> QED
      BY <3>1, <2>2, OwnedLast
  <2>5. ended' \in EndKind
    BY <2>2, Zenon DEF TypeInv, EndKind, Categories
  <2> QED
    BY <2>1, <2>2, <2>3, <2>4, <2>5, Zenon DEF RuntimeStep, TypeInv
<1>5. CASE \E p \in Procs : Process(p)
  BY <1>5, ProcessStep
<1> QED
  BY <1>1, <1>2, <1>3, <1>4, <1>5 DEF Others

\* What a live owner changes keeps the times of the start records.
LEMMA RecognisedKeeps ==
    ASSUME NEW state \in State0, NEW p \in Nat, LastOwner.started \in Nat,
           NEW new, new = Recognised(p, state)
    PROVE  /\ new \in State0 /\ SameTimes(new.starts, state.starts)
           /\ new.grace = state.grace /\ new.lastEnd = state.lastEnd
           /\ \/ new.formal = state.formal /\ new.exhausted = state.exhausted
              \/ new.formal = LastOwner.started /\ new.exhausted = FALSE
<1>1. state.starts \in Seq(Start0)
  BY DEF State0
<1>2. CASE started_by_watchdog(p, state.starts)
  <2> DEFINE named == [i \in DOMAIN state.starts |->
                          IF OpenFor(p, state.starts[i])
                          THEN [state.starts[i] EXCEPT !.epoch = p] ELSE state.starts[i]]
  <2>1. \A i \in DOMAIN state.starts : /\ state.starts[i] \in Start0
                                       /\ named[i] \in Start0 /\ named[i].at = state.starts[i].at
    <3> TAKE i \in DOMAIN state.starts
    <3>1. state.starts[i] \in Start0
      BY <1>1
    <3> HIDE DEF named
    <3>2. named[i] = IF OpenFor(p, state.starts[i])
                     THEN [state.starts[i] EXCEPT !.epoch = p] ELSE state.starts[i]
      BY DEF named
    <3> QED
      BY <3>1, <3>2 DEF Start0
  <2>2. DOMAIN named = DOMAIN state.starts /\ DOMAIN state.starts = 1..Len(state.starts)
        /\ Len(state.starts) \in Nat
    BY <1>1
  <2>3. new = [state EXCEPT !.starts = named]
    BY <1>2 DEF Recognised
  <2>4. named = [i \in 1..Len(state.starts) |-> named[i]]
    BY <2>2
  <2> HIDE DEF named
  <2>5. named \in Seq(Start0)
    <3>1. \A i \in 1..Len(state.starts) : named[i] \in Start0
      BY <2>1, <2>2
    <3> QED
      BY <3>1, <2>2, <2>4
  <2> QED
    BY <2>1, <2>2, <2>3, <2>5, Zenon DEF State0, SameTimes
<1>3. CASE ~started_by_watchdog(p, state.starts)
  <2>1. new = [state EXCEPT !.formal = LastOwner.started, !.exhausted = FALSE]
    BY <1>3 DEF Recognised
  <2> QED
    BY <2>1, Zenon DEF State0, SameTimes
<1> QED
  BY <1>2, <1>3, Zenon

\* The grace changes nothing else.
LEMMA GracedKeeps ==
    ASSUME TypeInv, NEW booted \in Nat, NEW new, new = Graced(booted)
    PROVE  /\ new \in State0 /\ new.starts = mem.starts /\ new.formal = mem.formal
           /\ new.exhausted = mem.exhausted /\ new.lastEnd = mem.lastEnd
           /\ new.grace = IF tick.task /\ grace_after_gap(mem.lastEnd, tick.at, booted)
                          THEN tick.at + Grace ELSE mem.grace
<1>1. mem \in State0 /\ tick.at + Grace \in Nat
  BY WatchdogAssumption, SMTT(30) DEF TypeInv, Tick0
<1> QED
  BY <1>1, Zenon DEF Graced, State0

\* A start that ends changes the last record, and no time.
LEMMA EndedKeeps ==
    ASSUME TypeInv, NEW open \in BOOLEAN, NEW epoch \in Nat, Ended(open, epoch)
    PROVE  /\ mem' \in State0 /\ SameTimes(mem'.starts, mem.starts)
           /\ mem'.formal = mem.formal /\ mem'.exhausted = mem.exhausted
           /\ mem'.grace = mem.grace /\ mem'.lastEnd = mem.lastEnd
           /\ tick' = Saving(tick.at)
<1> DEFINE n == Len(mem.starts)
           r == [mem.starts[n] EXCEPT !.open = open, !.epoch = epoch]
<1>1. mem \in State0 /\ mem.starts \in Seq(Start0)
  BY DEF TypeInv, State0
<1>2. mem' = [mem EXCEPT !.starts = [mem.starts EXCEPT ![n] = r]]
  BY <1>1, Zenon DEF Ended, State0
<1>3. CASE n \in DOMAIN mem.starts
  <2>1. mem.starts[n] \in Start0
    BY <1>1, <1>3
  <2>2. r \in Start0 /\ r.at = mem.starts[n].at
    BY <2>1, Zenon DEF Start0
  <2> HIDE DEF r
  <2>3. [mem.starts EXCEPT ![n] = r] \in Seq(Start0)
        /\ SameTimes([mem.starts EXCEPT ![n] = r], mem.starts)
    BY <2>2, <1>1, <1>3 DEF SameTimes
  <2> QED
    BY <2>3, <1>1, <1>2, Zenon DEF Ended, State0
<1>4. CASE n \notin DOMAIN mem.starts
  <2> HIDE DEF r
  <2>1. [mem.starts EXCEPT ![n] = r] = mem.starts
    BY <1>1, <1>4
  <2> QED
    BY <2>1, <1>1, <1>2, Zenon DEF Ended, State0, SameTimes
<1> QED
  BY <1>3, <1>4, Zenon

\* A tick that finds the Runtime alive, or considers a start, has seen owner.lock held, or free.
LEMMA Observed ==
    /\ decide_observed = "alive" => Owners # {}
    /\ decide_observed = "consider_start" => Owners = {}
<1>1. \A cat : terminal_stage(cat) \in {"fatal_hold", "consider_start", "none"}
  BY DEF terminal_stage
<1> DEFINE newest == terminal_stage(Terminals[1])
           earlier == terminal_stage(Terminals[2])
           row == IF newest # "none" THEN newest
                  ELSE IF Active(LastOwner) THEN "consider_start"
                  ELSE IF earlier # "none" THEN earlier
                  ELSE "formal_close"
<1>2. newest # "alive" /\ earlier # "alive"
  BY <1>1
<1>3. Owners = {} => decide_observed \in {"never_started", "owner_retained_unconfirmed", row}
  BY DEF decide_observed, Locked
<1> HIDE DEF newest, earlier
<1>4. row # "alive"
  BY <1>2
<1>5. Owners # {} => decide_observed \in {"alive", "owner_lock_held"}
  BY DEF decide_observed, Locked
<1> HIDE DEF row
<1> QED
  BY <1>3, <1>4, <1>5, Zenon

\* The last owner's start is a time.
LEMMA StartedType ==
    ASSUME NEW j \in Seq(OwnerRecord)
    PROVE  (IF j = <<>> THEN 0 ELSE j[Len(j)].started) \in Nat
BY JournalEnd, ShapeFields

\* Where a tick begins, saves and ends.
LEMMA TickShapes ==
    ASSUME TypeInv
    PROVE  /\ NoTick \in Tick0 /\ NoTick.pc = "idle" /\ NoTick.at = 0 /\ FreshState \in State0
           /\ \A at \in Nat : /\ Saving(at) \in Tick0 /\ Saving(at).pc = "save"
                              /\ Saving(at).at = at /\ Saving(at).task = tick.task
<1>1. tick.task \in BOOLEAN
  BY ShapeFields DEF TypeInv
<1>2. NoTick \in Tick0 /\ NoTick.pc = "idle" /\ NoTick.at = 0
  BY DEF NoTick, Tick0, EndKind, Categories
<1>3. FreshState \in State0
  BY DEF FreshState, State0
<1>4. \A at \in Nat : /\ Saving(at) \in Tick0 /\ Saving(at).pc = "save"
                      /\ Saving(at).at = at /\ Saving(at).task = tick.task
  BY <1>1, Zenon DEF Saving, NoTick, Tick0, EndKind, Categories
<1> QED
  BY <1>2, <1>3, <1>4

\* A step that leaves the processes and the journal alone.
LEMMA Untouched ==
    ASSUME UNCHANGED <<procs, journal>>
    PROVE  LastStarted' = LastStarted /\ Owners' = Owners /\ Procs' = Procs
BY DEF LastStarted, LastOwner, Owners, Procs

LEMMA TypeKept ==
    ASSUME TypeInv, UNCHANGED <<procs, journal, ended>>, now' \in Nat, boot' \in Nat,
           disk' \in State0, mem' \in State0, tick' \in Tick0, graced' \in Int
    PROVE  TypeInv'
BY Untouched DEF TypeInv

\* The formal start of a sound state is an owner's.
LEMMA SoundFormal ==
    ASSUME NEW state, Sound(state)
    PROVE  state.formal <= LastStarted
BY DEF Sound, SoundAt

LEMMA SameSelf ==
    ASSUME NEW s
    PROVE  SameTimes(s, s)
BY DEF SameTimes

LEMMA KeepsSelf ==
    ASSUME NEW s
    PROVE  Keeps(s, s)
BY SameSelf DEF Keeps

-----------------------------------------------------------------------------
\* Why a tick starts nothing after an outcome that holds.

Log0 == [proc: Nat, at: Nat, cat: Categories]

\* The ends after which a tick starts nothing, and the category their log carries.
Held == {"info", "fatal", "refused"}
Outcome(end) == IF end = "info" THEN "info" ELSE "fatal"

\* The newest terminal outcome of the logs ls is the t-th.
NewestIn(ls, t) ==
    /\ t \in DOMAIN ls /\ ls[t].cat # "none"
    /\ \A i \in DOMAIN ls : i > t => ls[i].cat = "none"

\* A log written at `at` covers the owner of the m-th record of the journal j.
EndOf(j, m) == IF j[m].closed # 0 THEN j[m].closed ELSE j[m + 1].started
During(j, m, at) == at >= j[m].started /\ at <= EndOf(j, m) + Slack

\* The logs are in the order of their times, and only a process that is gone has left an
\* outcome.
LogsOK ==
    /\ logs \in Seq(Log0) /\ Sorted(logs) /\ Until(logs, now)
    /\ \A i \in DOMAIN logs : logs[i].cat # "none" =>
           logs[i].proc \in Procs /\ procs[logs[i].proc].st = "gone"

\* The owners of a journal follow each other.
Aligned(j, n) ==
    \A k \in DOMAIN j :
        /\ j[k].started <= n /\ j[k].closed <= n
        /\ j[k].closed # 0 => j[k].started <= j[k].closed
        /\ \A m \in DOMAIN j : m < k => /\ j[m].started <= j[k].started
                                        /\ j[m].closed <= j[k].started

JournalOK == now >= 1 /\ Aligned(journal, now)

\* A log has been written since the last owner took owner.lock.
Logged == journal # <<>> /\ \E i \in DOMAIN logs : logs[i].at >= LastOwner.started

OwnersOK ==
    /\ \A p, q \in Owners : p = q
    /\ Locked => journal # <<>> /\ Active(LastOwner)
    /\ \A p \in Procs :
           /\ procs[p].by = "maintenance" => procs[p].st \in {"locked", "gone"}
           /\ procs[p].st \in {"serving", "ending"} => Logged
           /\ procs[p].st = "ending" => LastOwner.closed = now

\* No owner is there but a maintenance owner, and none is about to write its outcome.
Quiet == NoneEnding /\ \A p \in Owners : procs[p].by = "maintenance"

\* What the files still tell of an end that holds: its outcome is the newest; no owner is
\* left active after it, or it was refused after that owner's start; and its log covers an
\* owner of the journal, or comes after the last one's start.
Told == \A t \in DOMAIN logs : NewestIn(logs, t) => logs[t].cat = Outcome(ended)
ToldClosed == journal # <<>> /\ ~Active(LastOwner)
ToldSince ==
    \E t \in DOMAIN logs : NewestIn(logs, t) /\ logs[t].at >= LastOwner.started
ToldDuring ==
    \E t \in DOMAIN logs :
        /\ NewestIn(logs, t)
        /\ \E m \in DOMAIN journal : /\ m < Len(journal) \/ journal[m].closed # 0
                                     /\ During(journal, m, logs[t].at)
HeldOK ==
    ended \in Held =>
        /\ Told
        /\ ~Locked /\ ended # "refused" => ToldClosed
        /\ ~Locked /\ ended = "refused" /\ journal # <<>> /\ Active(LastOwner) => ToldSince
        /\ Quiet /\ ended # "refused" => ToldDuring
        /\ Quiet /\ ended = "refused" /\ Len(journal) > 1 => ToldSince \/ ToldDuring

TickOK == tick.pc \in {"probe", "spawn"} => tick.ended \notin Held

FilesInv == LogsOK /\ JournalOK /\ OwnersOK /\ HeldOK
HoldInv == FilesInv /\ TickOK

LEMMA SlackType == Slack \in Nat /\ LookbackOwners \in Nat
BY WatchdogAssumption

LEMMA RecordFields == \A x \in OwnerRecord : x.started \in Nat /\ x.closed \in Nat
BY DEF OwnerRecord

LEMMA LogFields == \A x \in Log0 : x.at \in Nat /\ x.cat \in Categories /\ x.proc \in Nat
BY DEF Log0

LEMMA Elements ==
    ASSUME NEW S, NEW s \in Seq(S)
    PROVE  Len(s) \in Nat /\ DOMAIN s = 1..Len(s) /\ \A i \in DOMAIN s : s[i] \in S
OBVIOUS

LEMMA LogElements ==
    ASSUME NEW s \in Seq(Log0)
    PROVE  /\ Len(s) \in Nat /\ DOMAIN s = 1..Len(s)
           /\ \A i \in DOMAIN s :
                  s[i].at \in Nat /\ s[i].cat \in Categories /\ s[i].proc \in Nat
BY Elements, LogFields, Zenon

LEMMA RecordElements ==
    ASSUME NEW s \in Seq(OwnerRecord)
    PROVE  /\ Len(s) \in Nat /\ DOMAIN s = 1..Len(s)
           /\ \A i \in DOMAIN s : s[i].started \in Nat /\ s[i].closed \in Nat
BY Elements, RecordFields, Zenon

\* Positions.
LEMMA UpTo ==
    ASSUME NEW n \in Nat
    PROVE  \A j \in 1..n : j \in 1..(n - 1) \/ j = n
OBVIOUS

LEMMA Skipping ==
    ASSUME NEW n \in Nat, NEW l \in Nat, NEW r \in Nat,
           r \in 1..l => n = l, r \notin 1..l => r > l /\ n = l + 1
    PROVE  /\ \A j \in 1..(n - 1) : (IF j < r THEN j ELSE j + 1) \in 1..l
           /\ \A i, j \in 1..(n - 1) :
                  i <= j => (IF i < r THEN i ELSE i + 1) <= (IF j < r THEN j ELSE j + 1)
OBVIOUS

LEMMA Unskipping ==
    ASSUME NEW n \in Nat, NEW l \in Nat, NEW r \in Nat, NEW u \in 1..(n - 1), NEW k \in 1..l,
           r \in 1..l => n = l, r \notin 1..l => r > l /\ n = l + 1,
           k # r, k > (IF u < r THEN u ELSE u + 1)
    PROVE  \E m \in 1..(n - 1) : m \in 1..n /\ m > u /\ (IF m < r THEN m ELSE m + 1) = k
<1>1. CASE k < r
  <2>1. k \in 1..(n - 1) /\ k \in 1..n /\ k > u /\ (IF k < r THEN k ELSE k + 1) = k
    BY <1>1
  <2> QED
    BY <2>1
<1>2. CASE k > r
  <2>1. k - 1 \in 1..(n - 1) /\ k - 1 \in 1..n /\ k - 1 > u
        /\ (IF k - 1 < r THEN k - 1 ELSE (k - 1) + 1) = k
    BY <1>2
  <2> QED
    BY <2>1
<1> QED
  BY <1>1, <1>2

\* What a log written again leaves of the others: all but the one at r, in their order.
Rewritten(w, r, log) ==
    /\ w \in Seq(Log0) /\ Len(w) >= 1 /\ w[Len(w)] = log /\ r \in Nat
    /\ r \in DOMAIN logs => logs[r].proc = log.proc /\ Len(w) = Len(logs)
    /\ r \notin DOMAIN logs => r > Len(logs) /\ Len(w) = Len(logs) + 1
    /\ \A j \in 1..(Len(w) - 1) : w[j] = logs[IF j < r THEN j ELSE j + 1]

LEMMA WrittenIs ==
    ASSUME logs \in Seq(Log0), now \in Nat, NEW p \in Nat, NEW cat \in Categories,
           NEW w, w = Written(p, cat)
    PROVE  \E r \in Nat : Rewritten(w, r, [proc |-> p, at |-> now, cat |-> cat])
<1> DEFINE own == {i \in DOMAIN logs : logs[i].proc = p}
           log == [proc |-> p, at |-> now, cat |-> cat]
<1>1. log \in Log0 /\ log.proc = p /\ Len(logs) \in Nat /\ DOMAIN logs = 1..Len(logs)
  BY DEF Log0
<1>2. CASE own = {}
  <2>1. w = Append(logs, log)
    BY <1>2 DEF Written
  <2> HIDE DEF own, log
  <2>2. /\ w \in Seq(Log0) /\ Len(w) = Len(logs) + 1 /\ w[Len(logs) + 1] = log
        /\ \A i \in 1..Len(logs) : w[i] = logs[i]
    BY <2>1, <1>1, Appended
  <2>3. /\ Len(logs) + 1 \notin DOMAIN logs /\ Len(w) >= 1 /\ Len(logs) + 1 \in Nat
        /\ Len(logs) + 1 > Len(logs)
        /\ \A j \in 1..(Len(w) - 1) : w[j] = logs[IF j < Len(logs) + 1 THEN j ELSE j + 1]
    BY <2>2, <1>1
  <2>4. Rewritten(w, Len(logs) + 1, log)
    BY <2>2, <2>3, Zenon DEF Rewritten
  <2> QED
    BY <2>3, <2>4, Zenon DEF log
<1>3. CASE own # {}
  <2>1. PICK r \in own : w = Append(Without(r), log)
    <3>1. (CHOOSE i \in own : TRUE) \in own
      BY <1>3
    <3> QED
      BY <3>1, <1>3, Zenon DEF Written
  <2>2. r \in 1..Len(logs) /\ logs[r].proc = p
    BY <1>1
  <2> HIDE DEF own, log
  <2>3. /\ Without(r) \in Seq(Log0) /\ Len(Without(r)) = Len(logs) - 1
        /\ \A j \in 1..(Len(logs) - 1) :
               Without(r)[j] = logs[IF j < r THEN j ELSE j + 1]
    <3>1. \A j \in 1..(Len(logs) - 1) :
              /\ (IF j < r THEN logs[j] ELSE logs[j + 1]) \in Log0
              /\ (IF j < r THEN logs[j] ELSE logs[j + 1]) = logs[IF j < r THEN j ELSE j + 1]
      BY <1>1, <2>2
    <3>2. Len(logs) - 1 \in Nat
      BY <1>1, <2>2
    <3> QED
      BY <3>1, <3>2 DEF Without
  <2> HIDE DEF Without
  <2>4. /\ w \in Seq(Log0) /\ Len(w) = Len(logs) /\ w[Len(logs)] = log
        /\ \A j \in 1..(Len(logs) - 1) : w[j] = Without(r)[j]
    BY <2>1, <2>2, <2>3, <1>1, Appended
  <2>5. Rewritten(w, r, log)
    BY <2>2, <2>3, <2>4, <1>1 DEF Rewritten
  <2> QED
    BY <2>2, <2>5, <1>1 DEF log
<1> QED
  BY <1>2, <1>3

\* A log written now keeps the logs in order.
LEMMA RewrittenOrder ==
    ASSUME LogsOK, now \in Nat, NEW w, NEW r, NEW log \in Log0, log.at = now,
           Rewritten(w, r, log)
    PROVE  /\ w \in Seq(Log0) /\ Sorted(w) /\ Until(w, now)
           /\ \A i \in DOMAIN w : w[i].cat # "none" /\ i # Len(w) =>
                  w[i].proc \in Procs /\ procs[w[i].proc].st = "gone"
<1>1. /\ logs \in Seq(Log0) /\ Len(logs) \in Nat /\ DOMAIN logs = 1..Len(logs)
      /\ w \in Seq(Log0) /\ Len(w) \in Nat /\ DOMAIN w = 1..Len(w) /\ r \in Nat
      /\ w[Len(w)] = log /\ Len(w) >= 1
  BY LogElements, Zenon DEF LogsOK, Rewritten
<1> DEFINE at(j) == IF j < r THEN j ELSE j + 1
<1>2. \A j \in 1..(Len(w) - 1) : at(j) \in DOMAIN logs /\ w[j] = logs[at(j)]
  <2>1. /\ r \in DOMAIN logs => Len(w) = Len(logs)
        /\ r \notin DOMAIN logs => r > Len(logs) /\ Len(w) = Len(logs) + 1
        /\ \A j \in 1..(Len(w) - 1) : w[j] = logs[at(j)]
    BY DEF Rewritten
  <2>2. \A j \in 1..(Len(w) - 1) : at(j) \in 1..Len(logs)
    BY <2>1, <1>1, Skipping, Zenon
  <2> QED
    BY <2>1, <2>2, <1>1, Zenon
<1>3. \A i, j \in 1..(Len(w) - 1) : i <= j => at(i) <= at(j)
  BY <1>1
<1> HIDE DEF at
<1>4. /\ \A i, j \in DOMAIN logs : i <= j => logs[i].at <= logs[j].at
      /\ \A i \in DOMAIN logs : logs[i].at <= now
      /\ \A i \in DOMAIN logs : logs[i].cat # "none" =>
             logs[i].proc \in Procs /\ procs[logs[i].proc].st = "gone"
  BY DEF LogsOK, Sorted, Until
<1>5. \A j \in 1..Len(w) : j \in 1..(Len(w) - 1) \/ j = Len(w)
  BY <1>1, UpTo, Zenon
<1>6. \A j \in 1..(Len(w) - 1) : w[j].at <= now /\ j < Len(w)
  BY <1>1, <1>2, <1>4
<1>7. Until(w, now)
  <2>1. now <= now
    OBVIOUS
  <2> QED
    BY <2>1, <1>1, <1>5, <1>6, Zenon DEF Until
<1>8. Sorted(w)
  <2> SUFFICES ASSUME NEW i \in 1..Len(w), NEW j \in 1..Len(w), i <= j
               PROVE  w[i].at <= w[j].at
    BY <1>1 DEF Sorted
  <2>1. CASE j = Len(w)
    BY <2>1, <1>1, <1>5, <1>6
  <2>2. CASE j \in 1..(Len(w) - 1)
    <3>1. i \in 1..(Len(w) - 1)
      BY <2>2, <1>1
    <3> QED
      BY <3>1, <2>2, <1>2, <1>3, <1>4, Zenon
  <2> QED
    BY <2>1, <2>2, <1>5
<1>9. \A i \in DOMAIN w : w[i].cat # "none" /\ i # Len(w) =>
          w[i].proc \in Procs /\ procs[w[i].proc].st = "gone"
  BY <1>1, <1>2, <1>4, <1>5, Zenon
<1> QED
  BY <1>1, <1>7, <1>8, <1>9

\* The processes that are gone stay gone.
GoneStay == \A p \in Procs : p \in Procs' /\ (procs[p].st = "gone" => procs'[p].st = "gone")

\* The logs after a step that writes none.
LEMMA LogsStay ==
    ASSUME LogsOK, UNCHANGED logs, now \in Nat, now' \in Nat, now <= now', GoneStay
    PROVE  LogsOK'
<1>1. /\ logs \in Seq(Log0) /\ Sorted(logs) /\ \A i \in DOMAIN logs : logs[i].at <= now
      /\ \A i \in DOMAIN logs : logs[i].cat # "none" =>
             logs[i].proc \in Procs /\ procs[logs[i].proc].st = "gone"
  BY DEF LogsOK, Until
<1>2. \A i \in DOMAIN logs : logs[i].at \in Nat
  BY <1>1, LogElements, Zenon
<1>3. Until(logs, now')
  BY <1>1, <1>2 DEF Until
<1>4. \A i \in DOMAIN logs : logs[i].cat # "none" =>
          logs[i].proc \in Procs' /\ procs'[logs[i].proc].st = "gone"
  BY <1>1, Zenon DEF GoneStay
<1> QED
  BY <1>1, <1>3, <1>4 DEF LogsOK

\* The logs after a process wrote its own.
LEMMA LogsWritten ==
    ASSUME LogsOK, now \in Nat, UNCHANGED now, NEW p \in Nat, NEW cat \in Categories,
           logs' = Written(p, cat), GoneStay,
           cat # "none" => p \in Procs' /\ procs'[p].st = "gone"
    PROVE  /\ LogsOK' /\ Len(logs') \in DOMAIN logs' /\ logs'[Len(logs')].at = now
           /\ logs'[Len(logs')].cat = cat
<1> DEFINE log == [proc |-> p, at |-> now, cat |-> cat]
<1>1. log \in Log0 /\ log.at = now /\ log.proc = p /\ log.cat = cat
  BY DEF Log0
<1>2. logs \in Seq(Log0)
  BY DEF LogsOK
<1>3. PICK w : w = logs'
  OBVIOUS
<1>4. PICK r \in Nat : Rewritten(w, r, log)
  BY <1>2, <1>3, WrittenIs
<1> HIDE DEF log
<1>5. /\ w \in Seq(Log0) /\ Sorted(w) /\ Until(w, now)
      /\ \A i \in DOMAIN w : w[i].cat # "none" /\ i # Len(w) =>
             w[i].proc \in Procs /\ procs[w[i].proc].st = "gone"
  BY <1>1, <1>4, RewrittenOrder, Zenon
<1>6. w[Len(w)] = log /\ Len(w) \in DOMAIN w
  BY <1>4 DEF Rewritten
<1>7. \A i \in DOMAIN w : w[i].cat # "none" =>
          w[i].proc \in Procs' /\ procs'[w[i].proc].st = "gone"
  BY <1>1, <1>5, <1>6, Zenon DEF GoneStay
<1> QED
  BY <1>1, <1>3, <1>5, <1>6, <1>7, Zenon DEF LogsOK

\* Of several numbers one is the least, and of several up to n one is the greatest.
WellOrdered == \A T \in SUBSET Nat : T # {} => \E n \in T : \A l \in T : n <= l

LEMMA Greatest ==
    ASSUME WellOrdered, NEW n \in Nat, NEW T, T \subseteq 1..n, T # {}
    PROVE  \E t \in T : \A l \in T : l <= t
<1> DEFINE M == {i \in 0..n : n - i \in T}
<1>1. \A t \in T : t \in 1..n /\ n - t \in M
  <2> TAKE t \in T
  <2>1. t \in 1..n
    OBVIOUS
  <2>2. n - t \in 0..n /\ n - (n - t) = t
    BY <2>1
  <2> QED
    BY <2>1, <2>2
<1>2. M \in SUBSET Nat /\ M # {}
  <2>1. PICK t \in T : TRUE
    BY Zenon
  <2>2. n - t \in M
    BY <1>1
  <2>3. \A i \in 0..n : i \in Nat
    OBVIOUS
  <2> QED
    BY <2>2, <2>3, Zenon
<1>3. PICK m \in M : \A l \in M : m <= l
  BY <1>2, Zenon DEF WellOrdered
<1>4. n - m \in T /\ m \in Nat
  BY <1>2
<1>5. \A l \in T : l <= n - m
  BY <1>1, <1>3, <1>4
<1> QED
  BY <1>4, <1>5

\* What an owner that answers leaves of the logs.
LEMMA ServedLogs ==
    ASSUME WellOrdered, LogsOK, now \in Nat, UNCHANGED now, NEW p \in Procs, p \in Nat,
           procs[p].st # "gone", NEW since \in Int, since <= now, GoneStay,
           logs' = LogsSince(Written(p, "none"), since)
    PROVE  /\ LogsOK' /\ Len(logs') \in DOMAIN logs' /\ logs'[Len(logs')].at = now
           /\ \A t \in DOMAIN logs' : NewestIn(logs', t) =>
                  \E i \in DOMAIN logs : NewestIn(logs, i) /\ logs'[t].cat = logs[i].cat
<1> DEFINE log == [proc |-> p, at |-> now, cat |-> "none"]
<1>1. /\ log \in Log0 /\ log.at = now /\ log.proc = p /\ log.cat = "none"
      /\ "none" \in Categories
  BY DEF Log0, Categories
<1>2. PICK w : w = Written(p, "none")
  OBVIOUS
<1>3. PICK r \in Nat : Rewritten(w, r, log)
  BY <1>2, <1>1, WrittenIs DEF LogsOK
<1>4. PICK c : c = logs'
  OBVIOUS
<1> HIDE DEF log
<1>5. /\ w \in Seq(Log0) /\ Sorted(w) /\ Until(w, now)
      /\ \A i \in DOMAIN w : w[i].cat # "none" /\ i # Len(w) =>
             w[i].proc \in Procs /\ procs[w[i].proc].st = "gone"
  BY <1>1, <1>3, RewrittenOrder, Zenon
<1>6. /\ w[Len(w)] = log /\ Len(w) \in DOMAIN w /\ Len(w) \in Nat /\ DOMAIN w = 1..Len(w)
      /\ logs \in Seq(Log0) /\ Len(logs) \in Nat /\ DOMAIN logs = 1..Len(logs)
  <2>1. logs \in Seq(Log0) /\ Len(w) >= 1 /\ w[Len(w)] = log
    BY <1>3, Zenon DEF Rewritten, LogsOK
  <2>2. Len(w) \in Nat /\ DOMAIN w = 1..Len(w)
    BY <1>5, LogElements, Zenon
  <2> QED
    BY <2>1, <2>2, LogElements
<1>7. PICK f \in 1..Len(w) : c = SubSeq(w, f, Len(w))
  <2> DEFINE found == {i \in DOMAIN w : w[i].at >= since}
  <2>1. Len(w) \in found
    BY <1>1, <1>6
  <2>2. found \in SUBSET Nat
    BY <1>6
  <2>3. \E i \in found : \A j \in found : i <= j
    BY <2>1, <2>2, Zenon DEF WellOrdered
  <2>4. (CHOOSE i \in found : \A j \in found : i <= j) \in found
    BY <2>3, Zenon
  <2>5. c = SubSeq(w, CHOOSE i \in found : \A j \in found : i <= j, Len(w))
    BY <1>2, <1>4, Zenon DEF LogsSince
  <2> QED
    BY <2>4, <2>5, <1>6, Zenon
<1>8. /\ c \in Seq(Log0) /\ Len(c) = Len(w) - f + 1 /\ Len(c) \in 1..Len(w)
      /\ DOMAIN c = 1..Len(c)
      /\ \A j \in 1..Len(c) : j + f - 1 \in 1..Len(w) /\ c[j] = w[j + f - 1]
  BY <1>5, <1>6, <1>7
<1>9. /\ Len(c) + f - 1 = Len(w)
      /\ \A j \in 1..Len(c) : j + f - 1 = Len(w) <=> j = Len(c)
      /\ \A i, j \in 1..Len(c) : i <= j => i + f - 1 <= j + f - 1
      /\ \A k \in 1..Len(w) : k >= f => k - f + 1 \in 1..Len(c) /\ (k - f + 1) + f - 1 = k
  BY <1>6, <1>7, <1>8
<1>10. Sorted(c) /\ Until(c, now)
  <2>1. \A k \in 1..Len(w) : w[k].at <= now
    BY <1>5, <1>6, Zenon DEF Until
  <2>2. \A i, j \in 1..Len(w) : i <= j => w[i].at <= w[j].at
    BY <1>5, <1>6, Zenon DEF Sorted
  <2>3. \A i \in DOMAIN c : c[i].at <= now
    BY <2>1, <1>8, Zenon
  <2>4. ASSUME NEW i \in DOMAIN c, NEW j \in DOMAIN c, i <= j
        PROVE  c[i].at <= c[j].at
    <3>1. i \in 1..Len(c) /\ j \in 1..Len(c)
      BY <1>8, Zenon
    <3>2. i + f - 1 \in 1..Len(w) /\ j + f - 1 \in 1..Len(w) /\ i + f - 1 <= j + f - 1
      BY <3>1, <2>4, <1>8, <1>9, Zenon
    <3> QED
      BY <3>1, <3>2, <2>2, <1>8, Zenon
  <2> QED
    BY <2>3, <2>4, Zenon DEF Sorted, Until
<1>11. c[Len(c)] = log /\ Len(c) \in DOMAIN c
  <2>1. Len(c) \in 1..Len(c)
    BY <1>6, <1>8
  <2> QED
    BY <2>1, <1>6, <1>8, <1>9, Zenon
<1>12. \A i \in DOMAIN c : c[i].cat # "none" =>
           c[i].proc \in Procs' /\ procs'[c[i].proc].st = "gone"
  <2> TAKE i \in DOMAIN c
  <2> HAVE c[i].cat # "none"
  <2>1. i # Len(c) /\ i \in 1..Len(c)
    BY <1>1, <1>8, <1>11, Zenon
  <2>2. i + f - 1 \in DOMAIN w /\ i + f - 1 # Len(w) /\ c[i] = w[i + f - 1]
    BY <2>1, <1>6, <1>8, <1>9, Zenon
  <2>3. c[i].proc \in Procs /\ procs[c[i].proc].st = "gone"
    BY <2>2, <1>5, Zenon
  <2> QED
    BY <2>3, Zenon DEF GoneStay
<1>13. ASSUME NEW t \in DOMAIN c, NewestIn(c, t)
       PROVE  \E i \in DOMAIN logs : NewestIn(logs, i) /\ c[t].cat = logs[i].cat
  <2> DEFINE at(j) == IF j < r THEN j ELSE j + 1
             u == t + f - 1
  <2>1. /\ t \in 1..Len(c) /\ c[t].cat # "none" /\ t # Len(c)
        /\ \A i \in 1..Len(c) : i > t => c[i].cat = "none"
    BY <1>1, <1>8, <1>11, <1>13, Zenon DEF NewestIn
  <2>2. /\ u \in 1..Len(w) /\ u # Len(w) /\ u \in 1..(Len(w) - 1) /\ u >= f /\ w[u] = c[t]
        /\ \A k \in 1..Len(w) : k > u => w[k].cat = "none"
    <3>1. /\ u \in 1..Len(w) /\ u # Len(w) /\ w[u] = c[t]
      BY <2>1, <1>8, <1>9, Zenon
    <3>2. u >= f /\ u \in 1..(Len(w) - 1)
      BY <3>1, <2>1, <1>6, <1>7, <1>8
    <3>3. ASSUME NEW k \in 1..Len(w), k > u
          PROVE  w[k].cat = "none"
      <4>1. k >= f /\ k - f + 1 > t
        <5>1. k \in Int /\ t \in Int /\ t >= 1
          BY <3>3, <2>1, <1>6
        <5>2. k > t + f - 1 /\ f \in Int
          BY <3>3, <1>7
        <5> QED
          BY <5>1, <5>2
      <4>2. k - f + 1 \in 1..Len(c) /\ c[k - f + 1] = w[(k - f + 1) + f - 1] /\ (k - f + 1) + f - 1 = k
        BY <4>1, <1>8, <1>9, Zenon
      <4> QED
        BY <4>1, <4>2, <2>1, Zenon
    <3> QED
      BY <3>1, <3>2, <3>3
  <2> HIDE DEF u
  <2>3. /\ r \in 1..Len(logs) => logs[r].proc = p /\ Len(w) = Len(logs)
        /\ r \notin 1..Len(logs) => r > Len(logs) /\ Len(w) = Len(logs) + 1
        /\ \A j \in 1..(Len(w) - 1) : w[j] = logs[at(j)]
    BY <1>1, <1>3, <1>6, Zenon DEF Rewritten
  <2>4. at(u) \in 1..Len(logs) /\ logs[at(u)] = c[t]
    <3>1. at(u) \in 1..Len(logs)
      BY <2>2, <2>3, <1>6, Skipping, Zenon
    <3> QED
      BY <3>1, <2>2, <2>3, Zenon
  <2>5. ASSUME NEW k \in 1..Len(logs), k > at(u)
        PROVE  logs[k].cat = "none"
    <3>1. CASE k = r
      <4>1. logs[k].proc = p
        BY <3>1, <2>3, Zenon
      <4>2. logs[k].cat # "none" => procs[p].st = "gone"
        BY <4>1, <1>6, Zenon DEF LogsOK
      <4> QED
        BY <4>2, Zenon
    <3>2. CASE k # r
      <4>1. PICK m \in 1..(Len(w) - 1) : m \in 1..Len(w) /\ m > u /\ at(m) = k
        <5>1. /\ Len(w) \in Nat /\ Len(logs) \in Nat /\ r \in Nat /\ u \in 1..(Len(w) - 1)
              /\ (r \in 1..Len(logs) => Len(w) = Len(logs))
              /\ (r \notin 1..Len(logs) => r > Len(logs) /\ Len(w) = Len(logs) + 1)
              /\ k \in 1..Len(logs) /\ k # r /\ k > (IF u < r THEN u ELSE u + 1)
          BY <3>2, <2>2, <2>3, <2>5, <1>6, Zenon
        <5> QED
          BY ONLY <5>1, Unskipping
      <4>3. w[m] = logs[k]
        BY <4>1, <2>3, Zenon
      <4> QED
        BY <4>1, <4>3, <2>2, Zenon
    <3> QED
      BY <3>1, <3>2
  <2> HIDE DEF at
  <2>6. NewestIn(logs, at(u))
    BY <2>1, <2>4, <2>5, <1>6, Zenon DEF NewestIn
  <2> QED
    BY <2>4, <2>6, <1>6, Zenon
<1> QED
  BY <1>1, <1>4, <1>8, <1>10, <1>11, <1>12, <1>13, Zenon DEF LogsOK

\* The newest of the logs found is the last of them.
LEMMA NewestLogIs ==
    ASSUME WellOrdered, NEW n \in Nat, NEW found, found \subseteq 1..n
    PROVE  /\ found = {} => NewestLog(found) = 0
           /\ found # {} => /\ NewestLog(found) \in found /\ NewestLog(found) # 0
                            /\ \A i \in found : i <= NewestLog(found)
<1>1. CASE found = {}
  BY <1>1, Zenon DEF NewestLog
<1>2. CASE found # {}
  <2>1. \E t \in found : \A i \in found : i <= t
    BY <1>2, Greatest, Zenon
  <2>2. NewestLog(found) = CHOOSE t \in found : \A i \in found : i <= t
    BY <1>2, Zenon DEF NewestLog
  <2>3. NewestLog(found) \in found /\ \A i \in found : i <= NewestLog(found)
    BY <2>1, <2>2, Zenon
  <2>4. \A i \in found : i # 0
    OBVIOUS
  <2> QED
    BY <1>2, <2>3, <2>4, Zenon
<1> QED
  BY <1>1, <1>2

\* Row 5 sees the outcome that holds, or none.
LEMMA TerminalTold ==
    ASSUME WellOrdered, LogsOK, Told, NEW since \in Int
    PROVE  /\ newest_terminal(since) \in {"none", Outcome(ended)}
           /\ \A t \in DOMAIN logs : NewestIn(logs, t) /\ logs[t].at >= since =>
                  newest_terminal(since) = Outcome(ended)
<1> DEFINE found == {l \in DOMAIN logs : logs[l].at >= since /\ logs[l].cat # "none"}
<1>1. /\ logs \in Seq(Log0) /\ Len(logs) \in Nat /\ DOMAIN logs = 1..Len(logs)
      /\ \A i \in DOMAIN logs : logs[i].at \in Nat
  BY LogElements, Zenon DEF LogsOK
<1>2. newest_terminal(since) = IF NewestLog(found) = 0 THEN "none" ELSE logs[NewestLog(found)].cat
  BY Zenon DEF newest_terminal
<1>3. found \subseteq 1..Len(logs)
  BY <1>1, Zenon
<1>4. found # {} => newest_terminal(since) = Outcome(ended)
  <2> SUFFICES ASSUME found # {} PROVE newest_terminal(since) = Outcome(ended)
    BY Zenon
  <2> HIDE DEF found
  <2>1. PICK i : i = NewestLog(found)
    OBVIOUS
  <2>2. i \in found /\ i # 0 /\ \A j \in found : j <= i
    BY <2>1, <1>1, <1>3, NewestLogIs, Zenon
  <2> USE DEF found
  <2>3. i \in DOMAIN logs /\ logs[i].at >= since /\ logs[i].cat # "none"
    BY <2>2, Zenon
  <2>4. ASSUME NEW j \in DOMAIN logs, j > i
        PROVE  logs[j].cat = "none"
    <3>1. logs[i].at <= logs[j].at
      <4>1. i <= j
        BY <2>3, <2>4, <1>1
      <4> QED
        BY <4>1, <2>3, Zenon DEF LogsOK, Sorted
    <3>2. logs[j].at >= since /\ ~(j <= i)
      BY <3>1, <2>3, <2>4, <1>1
    <3> QED
      BY <3>2, <2>2, Zenon
  <2>5. NewestIn(logs, i)
    BY <2>3, <2>4, Zenon DEF NewestIn
  <2> QED
    BY <2>1, <2>2, <2>3, <2>5, <1>2, Zenon DEF Told
<1>5. found = {} => newest_terminal(since) = "none"
  BY <1>1, <1>2, <1>3, NewestLogIs, Zenon
<1>6. \A t \in DOMAIN logs : NewestIn(logs, t) /\ logs[t].at >= since => found # {}
  BY Zenon DEF NewestIn
<1> QED
  BY <1>4, <1>5, <1>6, Zenon

\* An owner's time ends before the next one's begins.
LEMMA EndsBefore ==
    ASSUME journal \in Seq(OwnerRecord), JournalOK, NEW m \in 1..(Len(journal) - 1),
           NEW k \in 1..(Len(journal) - 1), m < k
    PROVE  /\ EndOf(journal, m) \in Nat /\ EndOf(journal, k) \in Nat
           /\ EndOf(journal, m) <= EndOf(journal, k)
<1>1. /\ Len(journal) \in Nat /\ DOMAIN journal = 1..Len(journal)
      /\ \A i \in DOMAIN journal : journal[i].started \in Nat /\ journal[i].closed \in Nat
  BY RecordElements, Zenon
<1>2. m \in DOMAIN journal /\ k \in DOMAIN journal /\ m + 1 \in DOMAIN journal
      /\ k + 1 \in DOMAIN journal /\ k < k + 1 /\ (m + 1 < k \/ m + 1 = k)
  BY <1>1
<1>3. /\ journal[k].closed # 0 => journal[k].started <= journal[k].closed
      /\ journal[m].closed <= journal[k].started
      /\ m + 1 < k => journal[m + 1].started <= journal[k].started
      /\ journal[k].started <= journal[k + 1].started
  BY <1>2, Zenon DEF JournalOK, Aligned
<1>4. /\ journal[m].closed \in Nat /\ journal[k].closed \in Nat /\ journal[m + 1].started \in Nat
      /\ journal[k].started \in Nat /\ journal[k + 1].started \in Nat
  BY <1>1, <1>2, Zenon
<1>5. journal[m + 1].started <= journal[k].started
  BY <1>2, <1>3, <1>4
<1>6. EndOf(journal, m) \in Nat /\ EndOf(journal, m) <= journal[k].started
  <2>1. CASE journal[m].closed # 0
    BY <2>1, <1>3, <1>4, Zenon DEF EndOf
  <2>2. CASE ~(journal[m].closed # 0)
    BY <2>2, <1>4, <1>5, Zenon DEF EndOf
  <2> QED
    BY <2>1, <2>2
<1>7. EndOf(journal, k) \in Nat /\ journal[k].started <= EndOf(journal, k)
  <2>1. CASE journal[k].closed # 0
    BY <2>1, <1>3, <1>4, Zenon DEF EndOf
  <2>2. CASE ~(journal[k].closed # 0)
    BY <2>2, <1>3, <1>4, Zenon DEF EndOf
  <2> QED
    BY <2>1, <2>2
<1> QED
  BY <1>4, <1>6, <1>7

\* What a tick reads when it sees no outcome after the last close.
Unseen ==
    /\ journal # <<>> /\ ~Locked
    /\ newest_terminal(Later(LastOwner.started, LastOwner.closed) - Slack) = "none"
    /\ ~logged_during(LastOwner.started, LastOwner.closed)
    /\ ~Active(LastOwner)

LEMMA LastRecord ==
    ASSUME journal \in Seq(OwnerRecord), JournalOK, journal # <<>>
    PROVE  /\ Len(journal) \in DOMAIN journal /\ LastOwner = journal[Len(journal)]
           /\ LastOwner.started \in Nat /\ LastOwner.closed \in Nat
           /\ LastOwner.started <= now /\ LastOwner.closed <= now
           /\ ~Active(LastOwner) => LastOwner.started <= LastOwner.closed
<1>1. Len(journal) \in DOMAIN journal
  OBVIOUS
<1> QED
  BY <1>1, RecordElements, Zenon DEF LastOwner, JournalOK, Aligned, Active

\* Row 6' finds no error of an earlier owner behind the outcome that holds.
LEMMA EarlierTold ==
    ASSUME WellOrdered, TypeInv, LogsOK, JournalOK, OwnersOK, HeldOK, ended \in Held, Unseen
    PROVE  earlier_owner_terminal # "error"
<1> DEFINE window(k) == {l \in DOMAIN logs : During(journal, k, logs[l].at)}
           covered == {k \in 1..(Len(journal) - 1) :
                           k >= Len(journal) - LookbackOwners /\ CoveringLog(k) # 0}
<1>1. /\ logs \in Seq(Log0) /\ Len(logs) \in Nat /\ DOMAIN logs = 1..Len(logs)
      /\ \A i \in DOMAIN logs : logs[i].at \in Nat
      /\ journal \in Seq(OwnerRecord) /\ Len(journal) \in Nat /\ DOMAIN journal = 1..Len(journal)
      /\ \A i \in DOMAIN journal : journal[i].started \in Nat /\ journal[i].closed \in Nat
  BY LogElements, RecordElements, Zenon DEF LogsOK, TypeInv
<1>2. /\ Len(journal) \in DOMAIN journal /\ LastOwner = journal[Len(journal)]
      /\ LastOwner.started \in Nat /\ LastOwner.closed \in Nat
      /\ LastOwner.started <= LastOwner.closed /\ LastOwner.closed # 0 /\ journal # <<>>
  BY <1>1, LastRecord, Zenon DEF Unseen, Active
<1>3. \A i \in DOMAIN logs : logs[i].at >= LastOwner.started =>
          ~(logs[i].at <= LastOwner.closed + Slack)
  BY Zenon DEF Unseen, logged_during
<1>4. Quiet
  <2>1. ASSUME NEW p \in Procs, procs[p].st = "ending"
        PROVE  FALSE
    <3>1. LastOwner.closed = now
      BY <2>1, Zenon DEF OwnersOK
    <3>2. PICK i \in DOMAIN logs : logs[i].at >= LastOwner.started
      <4>1. procs[p].st \in {"serving", "ending"}
        BY <2>1, Zenon
      <4> QED
        BY <4>1, Zenon DEF OwnersOK, Logged
    <3>3. logs[i].at <= now
      BY Zenon DEF LogsOK, Until
    <3>4. logs[i].at <= LastOwner.closed + Slack
      BY <3>1, <3>3, <1>1, <1>2, SlackType
    <3> QED
      BY <3>2, <3>4, <1>3, Zenon
  <2> QED
    BY <2>1, Zenon DEF Quiet, NoneEnding, Unseen, Locked
<1>5. \A k : CoveringLog(k) = NewestLog(window(k))
  BY Zenon DEF CoveringLog, During, EndOf
<1>6. \A k : /\ window(k) # {} => /\ CoveringLog(k) \in window(k) /\ CoveringLog(k) # 0
                                  /\ \A i \in window(k) : i <= CoveringLog(k)
             /\ window(k) = {} => CoveringLog(k) = 0
  <2> TAKE k
  <2>1. window(k) \subseteq 1..Len(logs) /\ CoveringLog(k) = NewestLog(window(k))
    BY <1>1, <1>5, Zenon
  <2>2. PICK found : found = window(k)
    BY Zenon
  <2> HIDE DEF window
  <2>3. found \subseteq 1..Len(logs) /\ Len(logs) \in Nat
    BY <2>1, <2>2, <1>1, Zenon
  <2>4. /\ found = {} => NewestLog(found) = 0
        /\ found # {} => /\ NewestLog(found) \in found /\ NewestLog(found) # 0
                         /\ \A i \in found : i <= NewestLog(found)
    BY <2>3, NewestLogIs, Zenon
  <2> QED
    BY <2>1, <2>2, <2>4, Zenon
<1> SUFFICES ASSUME earlier_owner_terminal = "error" PROVE FALSE
  BY Zenon
<1>7. covered # {}
  BY Zenon DEF earlier_owner_terminal
<1>8. PICK k \in covered : /\ \A j \in covered : j <= k
                           /\ logs[CoveringLog(k)].cat = "error"
  <2>1. covered \subseteq 1..Len(journal)
    BY <1>1
  <2>2. \E k \in covered : \A j \in covered : j <= k
    BY <2>1, <1>1, <1>7, Greatest, Zenon
  <2>3. earlier_owner_terminal =
            logs[CoveringLog(CHOOSE k \in covered : \A j \in covered : j <= k)].cat
    BY <1>7, Zenon DEF earlier_owner_terminal
  <2> HIDE DEF covered
  <2> QED
    BY <2>2, <2>3, Zenon
<1>9. PICK i : i = CoveringLog(k)
  OBVIOUS
<1>10. /\ k \in 1..(Len(journal) - 1) /\ k >= Len(journal) - LookbackOwners
       /\ i \in DOMAIN logs /\ logs[i].cat = "error" /\ During(journal, k, logs[i].at)
       /\ \A l \in DOMAIN logs : During(journal, k, logs[l].at) => l <= i
  BY <1>6, <1>8, <1>9, Zenon
<1>11. ToldSince \/ ToldDuring
  <2>1. Len(journal) > 1
    BY <1>1, <1>10
  <2> QED
    BY <2>1, <1>4, Zenon DEF HeldOK
<1>12. Told /\ Outcome(ended) # "error"
  BY Zenon DEF HeldOK, Outcome
<1>13. CASE ToldSince
  <2>1. PICK t \in DOMAIN logs : NewestIn(logs, t) /\ logs[t].at >= LastOwner.started
    BY <1>13, Zenon DEF ToldSince
  <2>2. ~(logs[t].at <= LastOwner.closed + Slack)
    BY <2>1, <1>3, Zenon
  <2> DEFINE since == Later(LastOwner.started, LastOwner.closed) - Slack
  <2>3. since \in Int /\ logs[t].at >= since
    BY <2>2, <1>1, <1>2, SlackType DEF Later
  <2> HIDE DEF since
  <2>4. newest_terminal(since) = Outcome(ended)
    BY <2>1, <2>3, <1>12, TerminalTold, Zenon
  <2> QED
    BY <2>4, Zenon DEF Unseen, since, Outcome
<1>14. CASE ToldDuring
  <2>1. PICK t \in DOMAIN logs, m \in DOMAIN journal :
            NewestIn(logs, t) /\ During(journal, m, logs[t].at)
    BY <1>14, Zenon DEF ToldDuring
  <2>2. m \in 1..(Len(journal) - 1)
    <3>1. m # Len(journal)
      BY <2>1, <1>2, <1>3, Zenon DEF During, EndOf
    <3> QED
      BY <3>1, <1>1, UpTo, Zenon
  <2>3. i < t /\ logs[i].at <= logs[t].at
    <3>1. logs[t].cat = Outcome(ended) /\ (i > t => logs[i].cat = "none")
      BY <2>1, <1>10, <1>12, Zenon DEF Told, NewestIn
    <3>2. i # t /\ ~(i > t)
      BY <3>1, <1>10, <1>12, Zenon
    <3>3. i < t /\ i <= t
      BY <3>2, <1>1, <1>10
    <3> QED
      BY <3>3, <1>10, Zenon DEF LogsOK, Sorted
  <2>4. ~During(journal, k, logs[t].at)
    <3>1. ~(t <= i)
      BY <2>3, <1>1, <1>10
    <3> QED
      BY <3>1, <1>10, Zenon
  <2>5. m # k
    BY <2>1, <2>4, Zenon
  <2>6. ~(m > k)
    <3> SUFFICES ASSUME m > k PROVE FALSE
      OBVIOUS
    <3>1. t \in window(m)
      BY <2>1, Zenon
    <3>2. m >= Len(journal) - LookbackOwners /\ ~(m <= k)
      BY <2>2, <1>1, <1>10, SlackType
    <3>3. m \in covered
      BY <3>1, <3>2, <2>2, <1>6, Zenon
    <3> QED
      BY <3>2, <3>3, <1>8, Zenon
  <2>7. m < k
    BY <2>2, <2>5, <2>6, <1>1, <1>10
  <2>8. /\ EndOf(journal, m) \in Nat /\ EndOf(journal, k) \in Nat
        /\ EndOf(journal, m) <= EndOf(journal, k)
    BY <2>2, <2>7, <1>1, <1>10, EndsBefore, Zenon
  <2>9. /\ logs[t].at <= EndOf(journal, m) + Slack /\ logs[i].at >= journal[k].started
        /\ logs[t].at \in Nat /\ logs[i].at \in Nat /\ journal[k].started \in Nat
    <3>1. k \in DOMAIN journal
      BY <1>1, <1>10
    <3> QED
      BY <3>1, <2>1, <1>1, <1>10, Zenon DEF During
  <2>10. logs[t].at >= journal[k].started /\ logs[t].at <= EndOf(journal, k) + Slack
    BY <2>3, <2>8, <2>9, SlackType
  <2> QED
    BY <2>4, <2>10, Zenon DEF During
<1> QED
  BY <1>11, <1>13, <1>14

\* No tick considers a start after an end that holds.
LEMMA Stays ==
    ASSUME WellOrdered, TypeInv, FilesInv, ended \in Held
    PROVE  decide_observed # "consider_start"
<1> SUFFICES ASSUME decide_observed = "consider_start" PROVE FALSE
  BY Zenon
<1>1. LogsOK /\ JournalOK /\ OwnersOK /\ HeldOK /\ Told /\ journal \in Seq(OwnerRecord)
  BY Zenon DEF FilesInv, HeldOK, TypeInv
<1> DEFINE since == Later(LastOwner.started, LastOwner.closed) - Slack
           newest == newest_terminal(since)
<1>2. ~Locked /\ journal # <<>>
  BY Zenon DEF decide_observed
<1>3. /\ LastOwner.started \in Nat /\ LastOwner.closed \in Nat
  BY <1>1, <1>2, LastRecord, Zenon
<1>4. since \in Int /\ (Active(LastOwner) => since <= LastOwner.started)
  BY <1>3, SlackType DEF Later, Active
<1> HIDE DEF since
<1>5. newest \in {"none", Outcome(ended)} /\ Outcome(ended) \in {"info", "fatal"}
  BY <1>1, <1>4, TerminalTold, Zenon DEF Outcome
<1>6. Terminals[1] = newest
  BY Zenon DEF Terminals, since
<1>7. terminal_stage(newest) # "consider_start" /\ (newest = "fatal" => terminal_stage(newest) # "none")
  BY <1>5, Zenon DEF terminal_stage
<1>8. terminal_stage(newest) = "none"
      /\ (Active(LastOwner) \/ terminal_stage(Terminals[2]) = "consider_start")
  BY <1>2, <1>6, <1>7, Zenon DEF decide_observed
<1>9. CASE Active(LastOwner)
  <2>1. ended = "refused"
    BY <1>1, <1>2, <1>9, Zenon DEF HeldOK, ToldClosed
  <2>2. PICK t \in DOMAIN logs : NewestIn(logs, t) /\ logs[t].at >= LastOwner.started
    BY <2>1, <1>1, <1>2, <1>9, Zenon DEF HeldOK, ToldSince
  <2>3. logs[t].at \in Nat
    BY <1>1, LogElements, Zenon DEF LogsOK
  <2>4. logs[t].at >= since
    BY <2>2, <2>3, <1>3, <1>4, <1>9
  <2>5. newest = "fatal"
    BY <2>1, <2>2, <2>4, <1>1, <1>4, TerminalTold, Zenon DEF Outcome
  <2> QED
    BY <2>5, <1>7, <1>8, Zenon
<1>10. CASE ~Active(LastOwner)
  <2>1. Terminals[2] = "error"
    BY <1>8, <1>10, Zenon DEF terminal_stage
  <2>2. Unseen /\ earlier_owner_terminal = "error"
    BY <2>1, <1>2, <1>10, Zenon DEF Terminals, Unseen
  <2> QED
    BY <2>2, <1>1, EarlierTold, Zenon
<1> QED
  BY <1>9, <1>10

\* One process changes.
LEMMA OneChanged ==
    ASSUME procs \in Seq(Process0), NEW p \in Procs, NEW r, procs' = [procs EXCEPT ![p] = r]
    PROVE  /\ p \in Nat /\ Procs' = Procs /\ procs'[p] = r
           /\ \A q \in Procs : q # p => procs'[q] = procs[q]
<1>1. Procs = 1..Len(procs) /\ Len(procs) \in Nat
  BY Elements, Zenon DEF Procs
<1>2. p \in Nat
  BY <1>1
<1> QED
  BY <1>2, Zenon DEF Procs

\* A log written now is one since the last owner's start.
LEMMA LoggedNow ==
    ASSUME journal \in Seq(OwnerRecord), JournalOK, journal # <<>>, journal' # <<>>,
           LastOwner'.started = LastOwner.started,
           Len(logs') \in DOMAIN logs', logs'[Len(logs')].at = now, now \in Nat
    PROVE  Logged'
<1>1. LastOwner.started <= now /\ LastOwner.started \in Nat
  BY LastRecord, Zenon
<1>2. now >= LastOwner.started
  BY <1>1
<1> QED
  BY <1>2, Zenon DEF Logged

\* An outcome written last is the newest.
LEMMA NewestLast ==
    ASSUME NEW ls \in Seq(Log0), Len(ls) \in DOMAIN ls, ls[Len(ls)].cat # "none"
    PROVE  NewestIn(ls, Len(ls)) /\ \A t \in DOMAIN ls : NewestIn(ls, t) => t = Len(ls)
<1>1. Len(ls) \in Nat /\ DOMAIN ls = 1..Len(ls)
  BY LogElements, Zenon
<1>2. \A i \in DOMAIN ls : ~(i > Len(ls)) /\ (i # Len(ls) => Len(ls) > i)
  BY <1>1
<1> QED
  BY <1>2, Zenon DEF NewestIn

\* A process ends.
LEMMA OwnersLess ==
    ASSUME OwnersOK, NEW p \in Procs, Procs' = Procs, procs'[p].st = "gone",
           \A q \in Procs : q # p => procs'[q] = procs[q],
           Logged => Logged', journal # <<>> => journal' # <<>>,
           LastOwner'.closed = LastOwner.closed, UNCHANGED now
    PROVE  OwnersOK' /\ GoneStay
<1>1. Owners' \subseteq Owners
  BY Zenon DEF Owners
<1>2. \A q \in Procs : procs'[q] = procs[q] \/ procs'[q].st = "gone"
  BY Zenon
<1>3. \A q, s \in Owners' : q = s
  BY <1>1, Zenon DEF OwnersOK
<1>4. Locked' => journal' # <<>> /\ Active(LastOwner')
  BY <1>1, Zenon DEF OwnersOK, Locked, Active
<1>5. \A q \in Procs' :
          /\ procs'[q].by = "maintenance" => procs'[q].st \in {"locked", "gone"}
          /\ procs'[q].st \in {"serving", "ending"} => Logged'
          /\ procs'[q].st = "ending" => LastOwner'.closed = now'
  <2> TAKE q \in Procs'
  <2>1. q \in Procs
    BY Zenon
  <2>2. CASE procs'[q].st = "gone"
    BY <2>2, Zenon
  <2>3. CASE procs'[q] = procs[q]
    BY <2>1, <2>3, Zenon DEF OwnersOK
  <2> QED
    BY <2>1, <2>2, <2>3, <1>2, Zenon
<1>6. GoneStay
  BY <1>2, Zenon DEF GoneStay
<1> QED
  BY <1>3, <1>4, <1>5, <1>6, Zenon DEF OwnersOK, Active

LEMMA HeldNot ==
    ASSUME ended' \notin Held
    PROVE  HeldOK'
BY Zenon DEF HeldOK

\* A process crashes.
LEMMA CrashKeeps ==
    ASSUME TypeInv, FilesInv, NEW p \in Procs, crash(p)
    PROVE  FilesInv'
<1>1. /\ procs \in Seq(Process0) /\ now \in Nat /\ LogsOK /\ JournalOK /\ OwnersOK
      /\ UNCHANGED <<journal, logs, now>> /\ ended' = "crashed"
  BY Zenon DEF TypeInv, FilesInv, crash
<1> DEFINE r == [procs[p] EXCEPT !.st = "gone", !.why = "none"]
<1>2. procs' = [procs EXCEPT ![p] = r] /\ procs[p] \in Process0
  BY <1>1, Elements, Zenon DEF crash, Procs
<1>3. r.st = "gone"
  BY <1>2 DEF Process0
<1> HIDE DEF r
<1>4. /\ Procs' = Procs /\ procs'[p].st = "gone"
      /\ \A q \in Procs : q # p => procs'[q] = procs[q]
  BY <1>1, <1>2, <1>3, OneChanged, Zenon
<1>5. (Logged => Logged') /\ LastOwner' = LastOwner
  BY <1>1, Zenon DEF Logged, LastOwner
<1>6. OwnersOK' /\ GoneStay
  BY <1>1, <1>4, <1>5, OwnersLess, Zenon
<1>7. LogsOK'
  <2>1. now <= now' /\ now' \in Nat
    BY <1>1
  <2> QED
    BY <2>1, <1>1, <1>6, LogsStay, Zenon
<1>8. JournalOK'
  BY <1>1, Zenon DEF JournalOK
<1>9. HeldOK'
  BY <1>1, HeldNot, Zenon DEF Held
<1> QED
  BY <1>6, <1>7, <1>8, <1>9, Zenon DEF FilesInv

\* A process ends with its log: a refused start, or the outcome after a close.
LEMMA EndLogged ==
    ASSUME TypeInv, FilesInv, NEW p \in Procs, NEW r, r.st = "gone", NEW cat \in Categories,
           procs' = [procs EXCEPT ![p] = r], logs' = Written(p, cat), UNCHANGED now,
           journal' \in Seq(OwnerRecord), journal # <<>> => journal' # <<>>,
           LastOwner'.started = LastOwner.started, LastOwner'.closed = LastOwner.closed
    PROVE  /\ LogsOK' /\ OwnersOK' /\ Len(logs') \in DOMAIN logs'
           /\ logs'[Len(logs')].at = now /\ logs'[Len(logs')].cat = cat
           /\ Procs' = Procs /\ procs'[p].st = "gone"
           /\ \A q \in Procs : q # p => procs'[q] = procs[q]
<1>1. /\ procs \in Seq(Process0) /\ now \in Nat /\ LogsOK /\ JournalOK /\ OwnersOK
      /\ journal \in Seq(OwnerRecord)
  BY Zenon DEF TypeInv, FilesInv
<1>2. /\ Procs' = Procs /\ procs'[p].st = "gone" /\ p \in Nat
      /\ \A q \in Procs : q # p => procs'[q] = procs[q]
  BY <1>1, OneChanged, Zenon
<1>3. GoneStay
  <2>1. \A q \in Procs : procs[q].st = "gone" => procs'[q].st = "gone"
    BY <1>2, Zenon
  <2> QED
    BY <2>1, <1>2, Zenon DEF GoneStay
<1>4. /\ LogsOK' /\ Len(logs') \in DOMAIN logs' /\ logs'[Len(logs')].at = now
      /\ logs'[Len(logs')].cat = cat
  BY <1>1, <1>2, <1>3, LogsWritten, Zenon
<1>5. Logged => Logged'
  BY <1>1, <1>4, LoggedNow, Zenon DEF Logged
<1>6. OwnersOK'
  BY <1>1, <1>2, <1>5, OwnersLess, Zenon
<1> QED
  BY <1>2, <1>4, <1>6

\* A start is refused.
LEMMA RefuseKeeps ==
    ASSUME TypeInv, FilesInv, NEW p \in Procs, NEW cat \in {"error", "fatal"}, refuse(p, cat)
    PROVE  FilesInv'
<1>1. /\ procs \in Seq(Process0) /\ now \in Nat /\ LogsOK /\ JournalOK /\ OwnersOK
      /\ journal \in Seq(OwnerRecord) /\ UNCHANGED <<journal, now>>
      /\ logs' = Written(p, cat) /\ ended' = IF cat = "fatal" THEN "refused" ELSE cat
  BY Zenon DEF TypeInv, FilesInv, refuse
<1> DEFINE r == [procs[p] EXCEPT !.st = "gone"]
<1>2. procs' = [procs EXCEPT ![p] = r] /\ procs[p] \in Process0
  BY <1>1, Elements, Zenon DEF refuse, Procs
<1>3. r.st = "gone" /\ cat \in Categories
  BY <1>2 DEF Process0, Categories
<1> HIDE DEF r
<1>4. LastOwner' = LastOwner
  BY <1>1, Zenon DEF LastOwner
<1>5. /\ LogsOK' /\ OwnersOK' /\ Len(logs') \in DOMAIN logs' /\ logs'[Len(logs')].at = now
      /\ logs'[Len(logs')].cat = cat
  BY <1>1, <1>2, <1>3, <1>4, EndLogged, Zenon
<1>6. JournalOK'
  BY <1>1, Zenon DEF JournalOK
<1>7. HeldOK'
  <2>1. CASE cat = "error"
    BY <2>1, <1>1, HeldNot, Zenon DEF Held
  <2>2. CASE cat = "fatal"
    <3>1. ended' = "refused" /\ logs' \in Seq(Log0)
      BY <2>2, <1>1, <1>5, Zenon DEF LogsOK
    <3>2. /\ NewestIn(logs', Len(logs'))
          /\ \A t \in DOMAIN logs' : NewestIn(logs', t) => t = Len(logs')
      <4>1. PICK ls : ls = logs'
        OBVIOUS
      <4>2. ls \in Seq(Log0) /\ Len(ls) \in DOMAIN ls /\ ls[Len(ls)].cat # "none"
        BY <4>1, <3>1, <2>2, <1>5, Zenon
      <4> QED
        BY <4>1, <4>2, NewestLast, Zenon
    <3>3. Told'
      BY <3>1, <3>2, <2>2, <1>5, Zenon DEF Told, Outcome
    <3>4. journal # <<>> => ToldSince'
      <4> SUFFICES ASSUME journal # <<>> PROVE ToldSince'
        OBVIOUS
      <4>1. now >= LastOwner.started
        <5>1. LastOwner.started <= now /\ LastOwner.started \in Nat
          BY <1>1, LastRecord, Zenon
        <5> QED
          BY <5>1, <1>1
      <4> QED
        BY <4>1, <3>2, <1>4, <1>5, Zenon DEF ToldSince
    <3>5. Len(journal') > 1 => journal # <<>>
      BY <1>1
    <3> QED
      BY <3>1, <3>3, <3>4, <3>5, <1>1, Zenon DEF HeldOK
  <2> QED
    BY <2>1, <2>2
<1> QED
  BY <1>5, <1>6, <1>7, Zenon DEF FilesInv

\* An owner that has closed writes its outcome.
LEMMA LastLineKeeps ==
    ASSUME TypeInv, FilesInv, NEW p \in Procs, last_line(p)
    PROVE  FilesInv'
<1>1. /\ procs \in Seq(Process0) /\ now \in Nat /\ LogsOK /\ JournalOK /\ OwnersOK
      /\ journal \in Seq(OwnerRecord) /\ UNCHANGED <<journal, now>>
      /\ procs[p].st = "ending" /\ logs' = Written(p, procs[p].why) /\ ended' = procs[p].why
  BY Zenon DEF TypeInv, FilesInv, last_line
<1> DEFINE r == [procs[p] EXCEPT !.st = "gone", !.why = "none"]
<1>2. procs' = [procs EXCEPT ![p] = r] /\ procs[p] \in Process0
  BY <1>1, Elements, Zenon DEF last_line, Procs
<1>3. r.st = "gone" /\ procs[p].why \in Categories
  BY <1>2 DEF Process0
<1> HIDE DEF r
<1>4. LastOwner' = LastOwner
  BY <1>1, Zenon DEF LastOwner
<1>5. /\ LogsOK' /\ OwnersOK' /\ Len(logs') \in DOMAIN logs' /\ logs'[Len(logs')].at = now
      /\ logs'[Len(logs')].cat = procs[p].why
  BY <1>1, <1>2, <1>3, <1>4, EndLogged, Zenon
<1>6. JournalOK'
  BY <1>1, Zenon DEF JournalOK
<1>7. HeldOK'
  <2>1. CASE procs[p].why \notin {"info", "fatal"}
    <3>1. ended' \notin Held
      BY <2>1, <1>1, <1>3, Zenon DEF Held, Categories
    <3> QED
      BY <3>1, HeldNot, Zenon
  <2>2. CASE procs[p].why \in {"info", "fatal"}
    <3>1. ended' \in {"info", "fatal"} /\ logs' \in Seq(Log0) /\ Outcome(ended') = ended'
      BY <2>2, <1>1, <1>5, Zenon DEF LogsOK, Outcome
    <3>2. /\ NewestIn(logs', Len(logs'))
          /\ \A t \in DOMAIN logs' : NewestIn(logs', t) => t = Len(logs')
      <4>1. PICK ls : ls = logs'
        OBVIOUS
      <4>2. ls \in Seq(Log0) /\ Len(ls) \in DOMAIN ls /\ ls[Len(ls)].cat # "none"
        BY <4>1, <3>1, <2>2, <1>5, Zenon
      <4> QED
        BY <4>1, <4>2, NewestLast, Zenon
    <3>3. Told'
      BY <3>1, <3>2, <1>1, <1>5, Zenon DEF Told
    <3>4. journal # <<>> /\ LastOwner.closed = now /\ now # 0
      <4>1. procs[p].st \in {"serving", "ending"} /\ now >= 1
        BY <1>1, Zenon DEF JournalOK
      <4>2. now # 0
        BY <4>1, <1>1
      <4> QED
        BY <4>1, <4>2, <1>1, Zenon DEF OwnersOK, Logged
    <3>5. ToldClosed'
      BY <3>4, <1>1, <1>4, Zenon DEF ToldClosed, Active
    <3>6. ToldDuring'
      <4>1. /\ Len(journal) \in DOMAIN journal /\ LastOwner = journal[Len(journal)]
            /\ LastOwner.started <= now /\ LastOwner.started \in Nat
        BY <3>4, <1>1, LastRecord, Zenon
      <4>2. now >= journal[Len(journal)].started /\ now <= now + Slack
        BY <4>1, <1>1, SlackType
      <4>3. During(journal', Len(journal), now) /\ journal'[Len(journal)].closed # 0
        BY <4>1, <4>2, <3>4, <1>1, Zenon DEF During, EndOf
      <4> QED
        BY <4>1, <4>3, <3>2, <1>1, <1>5, Zenon DEF ToldDuring
    <3> QED
      BY <3>1, <3>3, <3>5, <3>6, Zenon DEF HeldOK
  <2> QED
    BY <2>1, <2>2
<1> QED
  BY <1>5, <1>6, <1>7, Zenon DEF FilesInv

\* The last record changes, but not its start.
LEMMA LastReplaced ==
    ASSUME journal \in Seq(OwnerRecord), JournalOK, journal # <<>>, now \in Nat,
           NEW r \in OwnerRecord, r.started = LastOwner.started, r.closed \in {LastOwner.closed, now},
           journal' = [journal EXCEPT ![Len(journal)] = r], UNCHANGED now
    PROVE  /\ journal' \in Seq(OwnerRecord) /\ journal' # <<>> /\ LastOwner' = r /\ JournalOK'
           /\ Len(journal') = Len(journal)
           /\ \A m \in DOMAIN journal : /\ m \in DOMAIN journal'
                                        /\ journal'[m].started = journal[m].started
                                        /\ m # Len(journal) => journal'[m] = journal[m]
<1>1. /\ Len(journal) \in DOMAIN journal /\ LastOwner = journal[Len(journal)]
      /\ LastOwner.started \in Nat /\ LastOwner.closed \in Nat
      /\ LastOwner.started <= now /\ LastOwner.closed <= now
      /\ ~Active(LastOwner) => LastOwner.started <= LastOwner.closed
  BY LastRecord, Zenon
<1>2. PICK j : j = journal'
  OBVIOUS
<1>3. /\ j \in Seq(OwnerRecord) /\ Len(j) = Len(journal) /\ j # <<>>
      /\ DOMAIN j = DOMAIN journal /\ j[Len(journal)] = r
      /\ \A m \in DOMAIN journal : m # Len(journal) => j[m] = journal[m]
  BY <1>1, <1>2
<1>4. \A m \in DOMAIN journal : j[m].started = journal[m].started
  BY <1>1, <1>3, Zenon
<1>5. r.started <= now /\ r.closed <= now /\ (r.closed # 0 => r.started <= r.closed)
  BY <1>1 DEF Active
<1>6. Aligned(j, now)
  <2> SUFFICES ASSUME NEW k \in DOMAIN j
               PROVE  /\ j[k].started <= now /\ j[k].closed <= now
                      /\ j[k].closed # 0 => j[k].started <= j[k].closed
                      /\ \A m \in DOMAIN j : m < k => /\ j[m].started <= j[k].started
                                                      /\ j[m].closed <= j[k].started
    BY Zenon DEF Aligned
  <2>1. /\ j[k].started <= now /\ j[k].closed <= now
        /\ j[k].closed # 0 => j[k].started <= j[k].closed
    BY <1>3, <1>5, Zenon DEF JournalOK, Aligned
  <2>2. ASSUME NEW m \in DOMAIN j, m < k
        PROVE  j[m].started <= j[k].started /\ j[m].closed <= j[k].started
    <3>1. m # Len(journal) /\ m \in DOMAIN journal /\ k \in DOMAIN journal
      <4>1. Len(journal) \in Nat /\ DOMAIN journal = 1..Len(journal)
        BY RecordElements, Zenon
      <4> QED
        BY <4>1, <2>2, <1>3
    <3> QED
      BY <3>1, <2>2, <1>3, <1>4, Zenon DEF JournalOK, Aligned
  <2> QED
    BY <2>1, <2>2
<1>7. JournalOK'
  BY <1>2, <1>6, Zenon DEF JournalOK
<1> QED
  BY <1>1, <1>2, <1>3, <1>4, <1>7, Zenon DEF LastOwner

\* An owner is retained.
LEMMA RetainKeeps ==
    ASSUME TypeInv, FilesInv, NEW p \in Procs, retain(p)
    PROVE  FilesInv'
<1>1. /\ procs \in Seq(Process0) /\ now \in Nat /\ LogsOK /\ JournalOK /\ OwnersOK
      /\ journal \in Seq(OwnerRecord) /\ UNCHANGED now
      /\ procs[p].st = "serving" /\ logs' = Written(p, "error") /\ ended' = "retained"
  BY Zenon DEF TypeInv, FilesInv, retain
<1>2. journal # <<>>
  <2>1. procs[p].st \in {"serving", "ending"}
    BY <1>1, Zenon
  <2> QED
    BY <2>1, <1>1, Zenon DEF OwnersOK, Logged
<1> DEFINE r == [procs[p] EXCEPT !.st = "gone"]
           o == [LastOwner EXCEPT !.retained = TRUE]
<1>3. procs' = [procs EXCEPT ![p] = r] /\ procs[p] \in Process0
  BY <1>1, Elements, Zenon DEF retain, Procs
<1>4. r.st = "gone" /\ "error" \in Categories
  BY <1>3 DEF Process0, Categories
<1>5. /\ journal' = [journal EXCEPT ![Len(journal)] = o]
      /\ o \in OwnerRecord /\ o.started = LastOwner.started /\ o.closed = LastOwner.closed
  <2>1. Len(journal) \in DOMAIN journal
    BY <1>1, <1>2, LastRecord, Zenon
  <2>2. LastOwner \in OwnerRecord
    BY <2>1, <1>1, Elements, Zenon DEF LastOwner
  <2> QED
    BY <2>2, Zenon DEF retain, LastOwner, OwnerRecord
<1> HIDE DEF r, o
<1>6. journal' \in Seq(OwnerRecord) /\ journal' # <<>> /\ LastOwner' = o /\ JournalOK'
  BY <1>1, <1>2, <1>5, LastReplaced, Zenon
<1>7. LogsOK' /\ OwnersOK'
  BY <1>1, <1>3, <1>4, <1>5, <1>6, EndLogged, Zenon
<1>8. HeldOK'
  BY <1>1, HeldNot, Zenon DEF Held
<1> QED
  BY <1>6, <1>7, <1>8, Zenon DEF FilesInv

\* A process is added.
LEMMA ProcAdded ==
    ASSUME procs \in Seq(Process0), NEW r \in Process0, procs' = Append(procs, r)
    PROVE  /\ Len(procs) + 1 \in Nat /\ Len(procs) + 1 \notin Procs
           /\ Procs' = Procs \union {Len(procs) + 1} /\ procs'[Len(procs) + 1] = r
           /\ \A q \in Procs : procs'[q] = procs[q]
<1>1. Procs = 1..Len(procs) /\ Len(procs) \in Nat
  BY Elements, Zenon DEF Procs
<1>2. PICK ps : ps = procs'
  OBVIOUS
<1>3. /\ ps \in Seq(Process0) /\ Len(ps) = Len(procs) + 1 /\ ps[Len(procs) + 1] = r
      /\ \A q \in 1..Len(procs) : ps[q] = procs[q]
  BY <1>1, <1>2
<1>4. DOMAIN ps = 1..(Len(procs) + 1)
  BY <1>3, Elements, Zenon
<1>5. Procs' = 1..(Len(procs) + 1)
  BY <1>2, <1>4, Zenon DEF Procs
<1>6. /\ 1..(Len(procs) + 1) = (1..Len(procs)) \union {Len(procs) + 1}
      /\ Len(procs) + 1 \in Nat /\ Len(procs) + 1 \notin 1..Len(procs)
  BY <1>1
<1> QED
  BY <1>1, <1>2, <1>3, <1>5, <1>6, Zenon

\* A start.
LEMMA StartedKeeps ==
    ASSUME TypeInv, FilesInv, NEW by \in Starter, by # "maintenance", NEW at \in Nat,
           Started(by, at), UNCHANGED <<now, journal>>
    PROVE  FilesInv'
<1>1. /\ procs \in Seq(Process0) /\ now \in Nat /\ LogsOK /\ JournalOK /\ OwnersOK
      /\ journal \in Seq(OwnerRecord)
      /\ logs' = Written(Len(procs) + 1, "none") /\ ended' = "none"
  BY Zenon DEF TypeInv, FilesInv, Started
<1> DEFINE r == [by |-> by, at |-> at, st |-> "starting", why |-> "none"]
<1>2. procs' = Append(procs, r)
  BY Zenon DEF Started
<1>3. r \in Process0 /\ "none" \in Categories
  BY DEF Process0, Stage, Categories
<1>4. r.st = "starting" /\ r.by = by
  BY Zenon
<1> HIDE DEF r
<1>5. /\ Len(procs) + 1 \in Nat /\ Len(procs) + 1 \notin Procs
      /\ Procs' = Procs \union {Len(procs) + 1} /\ procs'[Len(procs) + 1] = r
      /\ \A q \in Procs : procs'[q] = procs[q]
  BY <1>1, <1>2, <1>3, ProcAdded, Zenon
<1>6. GoneStay
  BY <1>5, Zenon DEF GoneStay
<1>7. LogsOK' /\ Len(logs') \in DOMAIN logs' /\ logs'[Len(logs')].at = now
  BY <1>1, <1>3, <1>5, <1>6, LogsWritten, Zenon
<1>8. LastOwner' = LastOwner
  BY Zenon DEF LastOwner
<1>9. Logged => Logged'
  BY <1>1, <1>7, <1>8, LoggedNow, Zenon DEF Logged
<1>10. Owners' = Owners
  BY <1>4, <1>5, Zenon DEF Owners
<1>11. \A q \in Procs' :
          /\ procs'[q].by = "maintenance" => procs'[q].st \in {"locked", "gone"}
          /\ procs'[q].st \in {"serving", "ending"} => Logged'
          /\ procs'[q].st = "ending" => LastOwner'.closed = now'
  BY <1>1, <1>4, <1>5, <1>8, <1>9, Zenon DEF OwnersOK
<1>12. OwnersOK'
  BY <1>1, <1>8, <1>10, <1>11, Zenon DEF OwnersOK, Locked, Active
<1>13. JournalOK'
  BY <1>1, Zenon DEF JournalOK
<1>14. HeldOK'
  BY <1>1, HeldNot, Zenon DEF Held
<1> QED
  BY <1>7, <1>12, <1>13, <1>14, Zenon DEF FilesInv

\* A new owner's record.
LEMMA OwnedIs ==
    ASSUME journal \in Seq(OwnerRecord), JournalOK, now \in Nat, UNCHANGED now, NEW p \in Nat,
           journal' = Owned(p)
    PROVE  /\ JournalOK' /\ journal' # <<>> /\ Len(journal') = Len(journal) + 1
           /\ Active(LastOwner') /\ LastOwner'.started = now
           /\ Len(journal) + 1 \in DOMAIN journal' /\ journal'[Len(journal) + 1].started = now
           /\ \A m \in DOMAIN journal : m \in DOMAIN journal' /\ journal'[m] = journal[m]
<1> DEFINE r == [epoch |-> p, started |-> now, closed |-> 0, retained |-> FALSE]
<1>1. PICK j : j = journal'
  OBVIOUS
<1>2. r \in OwnerRecord /\ r.started = now /\ r.closed = 0 /\ j = Append(journal, r)
  BY <1>1 DEF OwnerRecord, Owned
<1> HIDE DEF r
<1>3. /\ j \in Seq(OwnerRecord) /\ Len(j) = Len(journal) + 1 /\ j[Len(journal) + 1] = r
      /\ j # <<>> /\ \A m \in 1..Len(journal) : j[m] = journal[m]
  BY <1>2
<1>4. /\ DOMAIN j = 1..(Len(journal) + 1) /\ DOMAIN journal = 1..Len(journal)
      /\ Len(journal) \in Nat
  BY <1>3, RecordElements, Zenon
<1>5. /\ Len(journal) + 1 \in DOMAIN j /\ \A m \in DOMAIN journal : m \in DOMAIN j
      /\ \A k \in DOMAIN j : k \in DOMAIN journal \/ k = Len(journal) + 1
      /\ \A k, m \in DOMAIN j : m < k => m \in DOMAIN journal
  BY <1>4
<1>6. Aligned(j, now)
  <2> SUFFICES ASSUME NEW k \in DOMAIN j
               PROVE  /\ j[k].started <= now /\ j[k].closed <= now
                      /\ j[k].closed # 0 => j[k].started <= j[k].closed
                      /\ \A m \in DOMAIN j : m < k => /\ j[m].started <= j[k].started
                                                      /\ j[m].closed <= j[k].started
    BY Zenon DEF Aligned
  <2>1. CASE k \in DOMAIN journal
    <3>1. j[k] = journal[k] /\ \A m \in DOMAIN j : m < k => m \in DOMAIN journal /\ j[m] = journal[m]
      BY <2>1, <1>3, <1>4, <1>5, Zenon
    <3> QED
      BY <2>1, <3>1, Zenon DEF JournalOK, Aligned
  <2>2. CASE k = Len(journal) + 1
    <3>1. j[k].started = now /\ j[k].closed = 0 /\ now <= now /\ 0 <= now
      BY <2>2, <1>2, <1>3
    <3>2. \A m \in DOMAIN journal : journal[m].started <= now /\ journal[m].closed <= now
      BY Zenon DEF JournalOK, Aligned
    <3> QED
      BY <3>1, <3>2, <1>3, <1>4, <1>5, Zenon
  <2> QED
    BY <2>1, <2>2, <1>5, Zenon
<1>7. JournalOK'
  BY <1>1, <1>6, Zenon DEF JournalOK
<1>8. LastOwner' = r
  BY <1>1, <1>3, Zenon DEF LastOwner
<1> QED
  BY <1>1, <1>2, <1>3, <1>4, <1>5, <1>7, <1>8, Zenon DEF Active

\* owner.lock is taken.
LEMMA OwnerTaken ==
    ASSUME OwnersOK, ~Locked, NoneEnding, NEW p \in Procs', procs'[p].st = "locked",
           \A q \in Procs' : q # p => q \in Procs /\ procs'[q] = procs[q],
           journal' # <<>>, Active(LastOwner')
    PROVE  OwnersOK' /\ Locked' /\ p \in Owners'
<1>1. \A q \in Procs : procs[q].st \notin {"locked", "serving", "ending"}
  BY Zenon DEF Locked, Owners, NoneEnding
<1>2. \A q \in Owners' : q = p
  BY <1>1, Zenon DEF Owners
<1>3. p \in Owners'
  BY Zenon DEF Owners
<1>4. \A q \in Procs' :
          /\ procs'[q].by = "maintenance" => procs'[q].st \in {"locked", "gone"}
          /\ procs'[q].st \notin {"serving", "ending"}
  BY <1>1, Zenon DEF OwnersOK
<1> QED
  BY <1>2, <1>3, <1>4, Zenon DEF OwnersOK, Locked, Active

\* A log that covers an owner goes on to.
LEMMA DuringKept ==
    ASSUME journal \in Seq(OwnerRecord), NEW m \in DOMAIN journal, NEW at,
           m < Len(journal) \/ journal[m].closed # 0, During(journal, m, at),
           \A k \in DOMAIN journal : journal'[k] = journal[k]
    PROVE  During(journal', m, at)
<1>1. m < Len(journal) => m + 1 \in DOMAIN journal
  <2>1. Len(journal) \in Nat /\ DOMAIN journal = 1..Len(journal)
    BY RecordElements, Zenon
  <2> QED
    BY <2>1
<1> QED
  BY <1>1, Zenon DEF During, EndOf

\* A maintenance owner takes owner.lock.
LEMMA MaintenanceKeeps ==
    ASSUME TypeInv, FilesInv, maintenance
    PROVE  FilesInv'
<1>1. /\ procs \in Seq(Process0) /\ now \in Nat /\ LogsOK /\ JournalOK /\ OwnersOK /\ HeldOK
      /\ journal \in Seq(OwnerRecord) /\ UNCHANGED <<now, logs>> /\ ~Locked /\ NoneEnding
      /\ journal' = Owned(Len(procs) + 1)
      /\ ended' = IF ended = "refused" /\ journal # <<>> /\ ~Active(LastOwner) THEN "none"
                  ELSE ended
  BY Zenon DEF TypeInv, FilesInv, maintenance
<1> DEFINE r == [by |-> "maintenance", at |-> 0, st |-> "locked", why |-> "none"]
<1>2. procs' = Append(procs, r)
  BY Zenon DEF maintenance
<1>3. r \in Process0
  BY DEF Process0, Stage, Categories, Starter
<1>4. r.st = "locked"
  BY Zenon
<1> HIDE DEF r
<1>5. /\ Len(procs) + 1 \in Nat /\ Len(procs) + 1 \notin Procs
      /\ Procs' = Procs \union {Len(procs) + 1} /\ procs'[Len(procs) + 1] = r
      /\ \A q \in Procs : procs'[q] = procs[q]
  BY <1>1, <1>2, <1>3, ProcAdded, Zenon
<1>6. /\ JournalOK' /\ journal' # <<>> /\ Len(journal') = Len(journal) + 1
      /\ Active(LastOwner') /\ LastOwner'.started = now
      /\ Len(journal) + 1 \in DOMAIN journal' /\ journal'[Len(journal) + 1].started = now
      /\ \A m \in DOMAIN journal : m \in DOMAIN journal' /\ journal'[m] = journal[m]
  BY <1>1, <1>5, OwnedIs, Zenon
<1>7. OwnersOK' /\ Locked'
  <2>1. /\ Len(procs) + 1 \in Procs' /\ procs'[Len(procs) + 1].st = "locked"
        /\ \A q \in Procs' : q # Len(procs) + 1 => q \in Procs /\ procs'[q] = procs[q]
    BY <1>4, <1>5, Zenon
  <2> QED
    BY <2>1, <1>1, <1>6, OwnerTaken, Zenon
<1>8. LogsOK'
  <2>1. now <= now' /\ now' \in Nat
    BY <1>1
  <2>2. GoneStay
    BY <1>5, Zenon DEF GoneStay
  <2> QED
    BY <2>1, <2>2, <1>1, LogsStay, Zenon
<1>9. HeldOK'
  <2> SUFFICES ASSUME ended' \in Held PROVE HeldOK'
    BY HeldNot, Zenon
  <2>1. ended' = ended /\ ended \in Held
    BY <1>1, Zenon DEF Held
  <2>2. Told'
    BY <2>1, <1>1, Zenon DEF HeldOK, Told
  <2>3. Quiet
    BY <1>1, Zenon DEF Quiet, Locked
  <2>4. ASSUME ToldDuring PROVE ToldDuring'
    <3>1. PICK t \in DOMAIN logs, m \in DOMAIN journal :
              /\ NewestIn(logs, t)
              /\ m < Len(journal) \/ journal[m].closed # 0
              /\ During(journal, m, logs[t].at)
      BY <2>4, Zenon DEF ToldDuring
    <3>2. During(journal', m, logs[t].at)
      BY <3>1, <1>1, <1>6, DuringKept, Zenon
    <3>3. m \in DOMAIN journal' /\ m < Len(journal')
      <4>1. Len(journal) \in Nat /\ DOMAIN journal = 1..Len(journal)
        BY <1>1, RecordElements, Zenon
      <4>2. m < Len(journal) + 1
        BY <4>1
      <4> QED
        BY <4>2, <1>6, Zenon
    <3> QED
      BY <3>1, <3>2, <3>3, <1>1, Zenon DEF ToldDuring
  <2>5. CASE ended # "refused"
    BY <2>1, <2>2, <2>3, <2>4, <2>5, <1>1, <1>7, Zenon DEF HeldOK
  <2>6. CASE ended = "refused" /\ journal = <<>>
    <3>1. ~(Len(journal') > 1)
      <4>1. Len(journal) = 0
        BY <2>6
      <4> QED
        BY <4>1, <1>6
    <3> QED
      BY <2>1, <2>2, <2>6, <3>1, <1>7, Zenon DEF HeldOK
  <2>7. CASE ended = "refused" /\ journal # <<>>
    <3>1. Active(LastOwner) /\ ToldSince
      BY <2>1, <2>7, <1>1, Zenon DEF HeldOK, Held
    <3>2. PICK t \in DOMAIN logs : NewestIn(logs, t) /\ logs[t].at >= LastOwner.started
      BY <3>1, Zenon DEF ToldSince
    <3>3. Len(journal) \in DOMAIN journal /\ LastOwner = journal[Len(journal)]
      BY <2>7, <1>1, LastRecord, Zenon
    <3>4. logs[t].at <= now + Slack /\ Len(journal) < Len(journal')
      <4>1. logs[t].at <= now /\ logs[t].at \in Nat
        BY <1>1, LogElements, Zenon DEF LogsOK, Until
      <4>2. Len(journal) \in Nat
        BY <1>1, RecordElements, Zenon
      <4> QED
        BY <4>1, <4>2, <1>1, <1>6, SlackType
    <3>5. journal'[Len(journal)] = LastOwner /\ journal'[Len(journal)].closed = 0
      BY <3>1, <3>3, <1>6, Zenon DEF Active
    <3>6. During(journal', Len(journal), logs[t].at)
      BY <3>2, <3>4, <3>5, <1>6, Zenon DEF During, EndOf
    <3>7. ToldDuring'
      BY <3>2, <3>3, <3>4, <3>6, <1>1, <1>6, Zenon DEF ToldDuring
    <3> QED
      BY <2>1, <2>2, <2>7, <3>7, <1>7, Zenon DEF HeldOK
  <2> QED
    BY <2>5, <2>6, <2>7
<1> QED
  BY <1>6, <1>7, <1>8, <1>9, Zenon DEF FilesInv

\* A start takes owner.lock.
LEMMA TakeLockKeeps ==
    ASSUME TypeInv, FilesInv, NEW p \in Procs, take_lock(p)
    PROVE  FilesInv'
<1>1. /\ procs \in Seq(Process0) /\ now \in Nat /\ LogsOK /\ JournalOK /\ OwnersOK /\ HeldOK
      /\ journal \in Seq(OwnerRecord) /\ UNCHANGED <<now, logs, ended>> /\ ~Locked /\ NoneEnding
      /\ journal' = Owned(p) /\ procs[p].st = "starting"
  BY Zenon DEF TypeInv, FilesInv, take_lock
<1> DEFINE r == [procs[p] EXCEPT !.st = "locked"]
<1>2. procs' = [procs EXCEPT ![p] = r] /\ procs[p] \in Process0
  BY <1>1, Elements, Zenon DEF take_lock, Procs
<1>3. r.st = "locked" /\ r.by = procs[p].by
  BY <1>2 DEF Process0
<1> HIDE DEF r
<1>4. /\ p \in Nat /\ Procs' = Procs /\ procs'[p] = r
      /\ \A q \in Procs : q # p => procs'[q] = procs[q]
  BY <1>1, <1>2, OneChanged, Zenon
<1>5. JournalOK' /\ journal' # <<>> /\ Active(LastOwner')
  BY <1>1, <1>4, OwnedIs, Zenon
<1>6. OwnersOK' /\ Locked' /\ p \in Owners'
  <2>1. /\ p \in Procs' /\ procs'[p].st = "locked"
        /\ \A q \in Procs' : q # p => q \in Procs /\ procs'[q] = procs[q]
    BY <1>3, <1>4, Zenon
  <2> QED
    BY <2>1, <1>1, <1>5, OwnerTaken, Zenon
<1>7. LogsOK'
  <2>1. now <= now' /\ now' \in Nat
    BY <1>1
  <2>2. GoneStay
    BY <1>1, <1>4, Zenon DEF GoneStay
  <2> QED
    BY <2>1, <2>2, <1>1, LogsStay, Zenon
<1>8. HeldOK'
  <2>1. procs[p].by # "maintenance"
    BY <1>1, Zenon DEF OwnersOK
  <2>2. ~Quiet'
    BY <2>1, <1>3, <1>4, <1>6, Zenon DEF Quiet
  <2>3. ended \in Held => Told'
    BY <1>1, Zenon DEF HeldOK, Told
  <2> QED
    BY <2>2, <2>3, <1>1, <1>6, Zenon DEF HeldOK
<1> QED
  BY <1>5, <1>6, <1>7, <1>8, Zenon DEF FilesInv

\* An owner answers.
LEMMA ServeKeeps ==
    ASSUME WellOrdered, TypeInv, FilesInv, NEW p \in Procs, serve(p)
    PROVE  FilesInv'
<1>1. /\ procs \in Seq(Process0) /\ now \in Nat /\ LogsOK /\ JournalOK /\ OwnersOK /\ HeldOK
      /\ journal \in Seq(OwnerRecord) /\ UNCHANGED <<now, ended>>
      /\ journal' = <<LastOwner>> /\ procs[p].st = "locked" /\ procs[p].by # "maintenance"
      /\ logs' = LogsSince(Written(p, "none"), LastOwner.started - Slack)
  BY Zenon DEF TypeInv, FilesInv, serve
<1> DEFINE r == [procs[p] EXCEPT !.st = "serving"]
<1>2. procs' = [procs EXCEPT ![p] = r] /\ procs[p] \in Process0
  BY <1>1, Elements, Zenon DEF serve, Procs
<1>3. r.st = "serving" /\ r.by = procs[p].by
  BY <1>2 DEF Process0
<1> HIDE DEF r
<1>4. /\ p \in Nat /\ Procs' = Procs /\ procs'[p] = r
      /\ \A q \in Procs : q # p => procs'[q] = procs[q]
  BY <1>1, <1>2, OneChanged, Zenon
<1>5. Owners' = Owners /\ p \in Owners /\ Locked'
  BY <1>1, <1>3, <1>4, Zenon DEF Owners, Locked
<1>6. journal # <<>> /\ Active(LastOwner)
  BY <1>1, <1>5, Zenon DEF OwnersOK, Locked
<1>7. /\ LastOwner.started \in Nat /\ LastOwner.started <= now /\ LastOwner.closed <= now
      /\ Len(journal) \in DOMAIN journal /\ LastOwner = journal[Len(journal)]
  BY <1>1, <1>6, LastRecord, Zenon
<1>8. LastOwner' = LastOwner /\ journal' # <<>> /\ JournalOK'
  <2>1. PICK o : o = LastOwner
    OBVIOUS
  <2>2. journal' = <<o>> /\ o.closed = 0 /\ o.started <= now /\ o.closed <= now
    BY <2>1, <1>1, <1>6, <1>7, Zenon DEF Active
  <2>3. PICK j : j = journal'
    OBVIOUS
  <2>4. j # <<>> /\ Len(j) = 1 /\ DOMAIN j = {1} /\ j[1] = o /\ ~(1 < 1)
    BY <2>2, <2>3
  <2>5. Aligned(j, now)
    BY <2>2, <2>4, Zenon DEF Aligned
  <2> QED
    BY <2>1, <2>3, <2>4, <2>5, <1>1, Zenon DEF JournalOK, LastOwner
<1>9. /\ LogsOK' /\ Len(logs') \in DOMAIN logs' /\ logs'[Len(logs')].at = now
      /\ \A t \in DOMAIN logs' : NewestIn(logs', t) =>
             \E i \in DOMAIN logs : NewestIn(logs, i) /\ logs'[t].cat = logs[i].cat
  <2>1. GoneStay
    BY <1>1, <1>4, Zenon DEF GoneStay
  <2>2. LastOwner.started - Slack \in Int /\ LastOwner.started - Slack <= now
    BY <1>1, <1>7, SlackType
  <2>3. procs[p].st # "gone"
    BY <1>1, Zenon
  <2> QED
    BY <2>1, <2>2, <2>3, <1>1, <1>4, ServedLogs, Zenon
<1>10. Logged'
  BY <1>1, <1>6, <1>8, <1>9, LoggedNow, Zenon
<1>11. OwnersOK'
  <2>1. \A q \in Procs' :
          /\ procs'[q].by = "maintenance" => procs'[q].st \in {"locked", "gone"}
          /\ procs'[q].st = "ending" => LastOwner'.closed = now'
    BY <1>1, <1>3, <1>4, <1>8, Zenon DEF OwnersOK
  <2> QED
    BY <2>1, <1>1, <1>5, <1>6, <1>8, <1>10, Zenon DEF OwnersOK, Active
<1>12. HeldOK'
  <2>1. ~Quiet'
    BY <1>1, <1>3, <1>4, <1>5, Zenon DEF Quiet
  <2>2. ended \in Held => Told'
    BY <1>1, <1>9, Zenon DEF HeldOK, Told
  <2> QED
    BY <2>1, <2>2, <1>1, <1>5, Zenon DEF HeldOK
<1> QED
  BY <1>8, <1>9, <1>11, <1>12, Zenon DEF FilesInv

\* An owner closes the journal.
LEMMA CloseKeeps ==
    ASSUME TypeInv, FilesInv, NEW p \in Procs, NEW why \in {"info", "error", "fatal"},
           close(p, why)
    PROVE  FilesInv'
<1>1. /\ procs \in Seq(Process0) /\ now \in Nat /\ LogsOK /\ JournalOK /\ OwnersOK /\ HeldOK
      /\ journal \in Seq(OwnerRecord) /\ UNCHANGED <<now, logs, ended>>
      /\ procs[p].st \in {"serving", "locked"}
      /\ procs[p].by # "maintenance" => procs[p].st = "serving"
  BY Zenon DEF TypeInv, FilesInv, close
<1> DEFINE r == IF procs[p].by = "maintenance" THEN [procs[p] EXCEPT !.st = "gone"]
                ELSE [procs[p] EXCEPT !.st = "ending", !.why = why]
           o == [LastOwner EXCEPT !.closed = now]
<1>2. procs' = [procs EXCEPT ![p] = r] /\ procs[p] \in Process0
  BY <1>1, Elements, Zenon DEF close, Procs
<1>3. /\ r.by = procs[p].by
      /\ procs[p].by = "maintenance" => r.st = "gone"
      /\ procs[p].by # "maintenance" => r.st = "ending"
  BY <1>2 DEF Process0
<1> HIDE DEF r
<1>4. /\ p \in Nat /\ Procs' = Procs /\ procs'[p] = r
      /\ \A q \in Procs : q # p => procs'[q] = procs[q]
  BY <1>1, <1>2, OneChanged, Zenon
<1>5. p \in Owners /\ journal # <<>> /\ Active(LastOwner)
  BY <1>1, Zenon DEF OwnersOK, Owners, Locked
<1>6. Owners' = {}
  <2> SUFFICES ASSUME NEW q \in Owners' PROVE FALSE
    BY Zenon
  <2>1. q # p
    BY <1>3, <1>4, Zenon DEF Owners
  <2>2. q \in Owners
    BY <2>1, <1>4, Zenon DEF Owners
  <2> QED
    BY <2>1, <2>2, <1>1, <1>5, Zenon DEF OwnersOK
<1>7. /\ journal' = [journal EXCEPT ![Len(journal)] = o]
      /\ o \in OwnerRecord /\ o.started = LastOwner.started /\ o.closed = now
  <2>1. Len(journal) \in DOMAIN journal
    BY <1>1, <1>5, LastRecord, Zenon
  <2>2. LastOwner \in OwnerRecord
    BY <2>1, <1>1, Elements, Zenon DEF LastOwner
  <2>3. journal' = [journal EXCEPT ![Len(journal)] = o]
    BY Zenon DEF close, LastOwner
  <2>4. o \in OwnerRecord /\ o.started = LastOwner.started /\ o.closed = now
    <3>1. now \in Nat
      BY <1>1, Zenon
    <3> QED
      BY <2>2, <3>1 DEF OwnerRecord
  <2> QED
    BY <2>3, <2>4, Zenon
<1> HIDE DEF o
<1>8. /\ journal' \in Seq(OwnerRecord) /\ journal' # <<>> /\ LastOwner' = o /\ JournalOK'
      /\ Len(journal') = Len(journal)
      /\ \A m \in DOMAIN journal : /\ m \in DOMAIN journal'
                                   /\ journal'[m].started = journal[m].started
                                   /\ m # Len(journal) => journal'[m] = journal[m]
  BY <1>1, <1>5, <1>7, LastReplaced, Zenon
<1>9. Logged => Logged'
  BY <1>1, <1>7, <1>8, Zenon DEF Logged
<1>10. OwnersOK'
  <2>1. \A q \in Procs' :
          /\ procs'[q].by = "maintenance" => procs'[q].st \in {"locked", "gone"}
          /\ procs'[q].st \in {"serving", "ending"} => Logged'
          /\ procs'[q].st = "ending" => LastOwner'.closed = now'
    <3> TAKE q \in Procs'
    <3>1. CASE q = p
      BY <3>1, <1>1, <1>3, <1>4, <1>7, <1>8, <1>9, Zenon DEF OwnersOK
    <3>2. CASE q # p
      BY <3>2, <1>1, <1>4, <1>7, <1>8, <1>9, Zenon DEF OwnersOK
    <3> QED
      BY <3>1, <3>2
  <2> QED
    BY <2>1, <1>6, Zenon DEF OwnersOK, Locked
<1>11. LogsOK'
  <2>1. now <= now' /\ now' \in Nat
    BY <1>1
  <2>2. GoneStay
    BY <1>1, <1>4, Zenon DEF GoneStay
  <2> QED
    BY <2>1, <2>2, <1>1, LogsStay, Zenon
<1>12. HeldOK'
  <2> SUFFICES ASSUME ended \in Held PROVE HeldOK'
    BY <1>1, HeldNot, Zenon
  <2>1. Told'
    BY <1>1, Zenon DEF HeldOK, Told
  <2>2. ~Active(LastOwner')
    <3>1. now # 0
      BY <1>1 DEF JournalOK
    <3> QED
      BY <3>1, <1>7, <1>8, Zenon DEF Active
  <2>3. ToldClosed'
    BY <2>2, <1>8, Zenon DEF ToldClosed, Active
  <2>4. Quiet' => Quiet
    <3> SUFFICES ASSUME Quiet' PROVE Quiet
      OBVIOUS
    <3>1. procs[p].by = "maintenance"
      BY <1>3, <1>4, Zenon DEF Quiet, NoneEnding
    <3>2. \A q \in Owners : procs[q].by = "maintenance"
      BY <3>1, <1>1, <1>5, Zenon DEF OwnersOK
    <3>3. NoneEnding
      BY <1>1, <1>4, Zenon DEF Quiet, NoneEnding
    <3> QED
      BY <3>2, <3>3, Zenon DEF Quiet
  <2>5. ToldSince => ToldSince'
    BY <1>1, <1>7, <1>8, Zenon DEF ToldSince
  <2>6. ASSUME ToldDuring PROVE ToldDuring'
    <3>1. PICK t \in DOMAIN logs, m \in DOMAIN journal :
              /\ NewestIn(logs, t)
              /\ m < Len(journal) \/ journal[m].closed # 0
              /\ During(journal, m, logs[t].at)
      BY <2>6, Zenon DEF ToldDuring
    <3>2. m # Len(journal) /\ m < Len(journal) /\ m + 1 \in DOMAIN journal
      <4>1. Len(journal) \in Nat /\ DOMAIN journal = 1..Len(journal)
        BY <1>1, RecordElements, Zenon
      <4>2. m # Len(journal) \/ m < Len(journal)
        BY <3>1, <1>5, Zenon DEF Active, LastOwner
      <4> QED
        BY <4>1, <4>2
    <3>3. During(journal', m, logs[t].at)
      BY <3>1, <3>2, <1>8, Zenon DEF During, EndOf
    <3>4. m \in DOMAIN journal' /\ m < Len(journal')
      BY <3>2, <1>8, Zenon
    <3> QED
      BY <3>1, <3>3, <3>4, <1>1, Zenon DEF ToldDuring
  <2> QED
    BY <2>1, <2>2, <2>3, <2>4, <2>5, <2>6, <1>1, <1>8, Zenon DEF HeldOK, Active
<1> QED
  BY <1>8, <1>10, <1>11, <1>12, Zenon DEF FilesInv

\* The clock goes on and the journal stays in order.
LEMMA JournalLater ==
    ASSUME journal \in Seq(OwnerRecord), JournalOK, UNCHANGED journal,
           now \in Nat, now' \in Nat, now <= now'
    PROVE  JournalOK'
<1>1. \A k \in DOMAIN journal : journal[k].started \in Nat /\ journal[k].closed \in Nat
  BY RecordElements, Zenon
<1>2. \A k \in DOMAIN journal : journal[k].started <= now' /\ journal[k].closed <= now'
  <2> TAKE k \in DOMAIN journal
  <2>1. journal[k].started <= now /\ journal[k].closed <= now
    BY Zenon DEF JournalOK, Aligned
  <2> QED
    BY <2>1, <1>1
<1>3. Aligned(journal, now')
  BY <1>2, Zenon DEF JournalOK, Aligned
<1>4. now' >= 1
  BY DEF JournalOK
<1> QED
  BY <1>3, <1>4, Zenon DEF JournalOK

\* What the files tell is unchanged when they are.
LEMMA ToldStays ==
    ASSUME UNCHANGED <<journal, logs, ended>>
    PROVE  /\ Told' = Told /\ ToldClosed' = ToldClosed /\ ToldSince' = ToldSince
           /\ ToldDuring' = ToldDuring
BY Zenon DEF Told, ToldClosed, ToldSince, ToldDuring, LastOwner

\* A reboot.
LEMMA RebootFiles ==
    ASSUME TypeInv, FilesInv, reboot
    PROVE  FilesInv'
<1>1. /\ procs \in Seq(Process0) /\ now \in Nat /\ LogsOK /\ JournalOK /\ OwnersOK /\ HeldOK
      /\ journal \in Seq(OwnerRecord) /\ UNCHANGED <<journal, logs>> /\ now' = now + 1
      /\ ended' = IF \E p \in Procs : Alive(p) THEN "crashed" ELSE ended
      /\ procs' = [p \in Procs |-> [procs[p] EXCEPT !.st = "gone", !.why = "none"]]
  BY Zenon DEF TypeInv, FilesInv, reboot
<1>2. now' \in Nat /\ now <= now'
  <2>1. now \in Nat /\ now' = now + 1
    BY <1>1, Zenon
  <2> QED
    BY <2>1
<1>3. Procs' = Procs /\ \A q \in Procs : procs'[q].st = "gone"
  <2>1. \A q \in Procs : procs[q] \in Process0
    BY <1>1, Elements, Zenon DEF Procs
  <2>2. \A q \in Procs : [procs[q] EXCEPT !.st = "gone", !.why = "none"].st = "gone"
    BY <2>1 DEF Process0
  <2>3. DOMAIN procs' = Procs
    BY <1>1, Zenon
  <2>4. Procs' = Procs
    BY <2>3, Zenon DEF Procs
  <2> QED
    BY <2>2, <2>4, <1>1, Zenon
<1>4. Owners' = {} /\ GoneStay
  BY <1>3, Zenon DEF Owners, GoneStay
<1>5. OwnersOK'
  <2>1. \A q \in Procs' :
          /\ procs'[q].by = "maintenance" => procs'[q].st \in {"locked", "gone"}
          /\ procs'[q].st \notin {"serving", "ending"}
    BY <1>3, Zenon
  <2> QED
    BY <2>1, <1>4, Zenon DEF OwnersOK, Locked
<1>6. LogsOK' /\ JournalOK'
  BY <1>1, <1>2, <1>4, LogsStay, JournalLater, Zenon
<1>7. HeldOK'
  <2>1. CASE \E p \in Procs : Alive(p)
    BY <2>1, <1>1, HeldNot, Zenon DEF Held
  <2>2. CASE ~\E p \in Procs : Alive(p)
    <3>1. \A p \in Procs : procs[p].st = "gone"
      BY <2>2, Zenon DEF Alive
    <3>2. ~Locked /\ Quiet
      BY <3>1, Zenon DEF Locked, Owners, Quiet, NoneEnding
    <3>3. UNCHANGED <<journal, logs, ended>>
      BY <2>2, <1>1, Zenon
    <3> QED
      BY <3>2, <3>3, <1>1, ToldStays, Zenon DEF HeldOK, LastOwner, Active
  <2> QED
    BY <2>1, <2>2
<1> QED
  BY <1>5, <1>6, <1>7, Zenon DEF FilesInv

\* A step that leaves the Runtime's files and processes alone.
LEMMA CalmFiles ==
    ASSUME TypeInv, FilesInv, UNCHANGED runtime, now' \in Nat, now <= now',
           NoneEnding \/ UNCHANGED now
    PROVE  FilesInv'
<1>1. /\ now \in Nat /\ LogsOK /\ JournalOK /\ OwnersOK /\ HeldOK
      /\ journal \in Seq(OwnerRecord) /\ UNCHANGED <<procs, journal, logs, ended>>
  BY Zenon DEF TypeInv, FilesInv, runtime
<1>2. /\ Procs' = Procs /\ Owners' = Owners /\ Locked' = Locked /\ LastOwner' = LastOwner
      /\ Logged' = Logged /\ Quiet' = Quiet /\ GoneStay
  BY <1>1, Zenon DEF Procs, Owners, Locked, LastOwner, Logged, Quiet, NoneEnding, GoneStay
<1>3. LogsOK' /\ JournalOK'
  BY <1>1, <1>2, LogsStay, JournalLater, Zenon
<1>4. OwnersOK'
  BY <1>1, <1>2, Zenon DEF OwnersOK, NoneEnding, Active
<1>5. HeldOK'
  BY <1>1, <1>2, ToldStays, Zenon DEF HeldOK, Active
<1> QED
  BY <1>3, <1>4, <1>5, Zenon DEF FilesInv

\* Every step keeps the files telling of an end that holds.
LEMMA FilesKept ==
    ASSUME WellOrdered, TypeInv, FilesInv, [Next]_vars
    PROVE  FilesInv'
<1>1. now \in Nat /\ tick \in Tick0 /\ now <= now
  BY DEF TypeInv
<1>2. tick.at \in Nat /\ 0 \in Nat
  BY <1>1 DEF Tick0
<1>3. ASSUME UNCHANGED <<runtime, now>> PROVE FilesInv'
  BY <1>1, <1>3, CalmFiles, Zenon
<1>4. ASSUME NEW by \in {"tick", "command", "other"}, NEW at \in Nat, Started(by, at),
             UNCHANGED <<now, journal>>
      PROVE  FilesInv'
  <2>1. by \in Starter /\ by # "maintenance"
    BY Zenon DEF Starter
  <2> QED
    BY <2>1, <1>4, StartedKeeps, Zenon
<1>5. CASE pass
  <2>1. now' = now + 1 /\ NoneEnding /\ UNCHANGED runtime
    BY <1>5, Zenon DEF pass
  <2>2. now' \in Nat /\ now <= now'
    BY <2>1, <1>1
  <2> QED
    BY <2>1, <2>2, CalmFiles, Zenon
<1>6. CASE other_start \/ command_start
  BY <1>2, <1>4, <1>6, Zenon DEF other_start, command_start
<1>7. CASE spawn
  <2>1. CASE Started("tick", tick.at)
    BY <2>1, <1>2, <1>4, <1>7, Zenon DEF spawn
  <2>2. CASE ~Started("tick", tick.at)
    <3>1. UNCHANGED <<procs, logs, ended, now, journal>>
      BY <2>2, <1>7, Zenon DEF spawn
    <3>2. UNCHANGED <<runtime, now>>
      BY <3>1, Zenon DEF runtime
    <3> QED
      BY <3>2, <1>3, Zenon
  <2> QED
    BY <2>1, <2>2
<1>8. ASSUME NEW p \in Procs, Process(p) PROVE FilesInv'
  <2>1. CASE take_lock(p)
    BY <2>1, TakeLockKeeps, Zenon
  <2>2. CASE serve(p)
    BY <2>2, ServeKeeps, Zenon
  <2>3. CASE last_line(p)
    BY <2>3, LastLineKeeps, Zenon
  <2>4. CASE retain(p)
    BY <2>4, RetainKeeps, Zenon
  <2>5. CASE crash(p)
    BY <2>5, CrashKeeps, Zenon
  <2>6. CASE \E cat \in {"error", "fatal"} : refuse(p, cat)
    BY <2>6, RefuseKeeps, Zenon
  <2>7. CASE \E why \in {"info", "error", "fatal"} : close(p, why)
    BY <2>7, CloseKeeps, Zenon
  <2> QED
    BY <1>8, <2>1, <2>2, <2>3, <2>4, <2>5, <2>6, <2>7, Zenon DEF Process
<1>9. CASE \/ install \/ command_end \/ \E task \in BOOLEAN : run_once(task)
           \/ observe \/ probe_start \/ wait_ready \/ save
           \/ early_return \/ stand_aside \/ killed
  <2>1. UNCHANGED <<runtime, now>>
    BY <1>9, Zenon DEF install, command_end, run_once, observe, probe_start, wait_ready, save,
                       early_return, stand_aside, killed
  <2> QED
    BY <2>1, <1>3, Zenon
<1>10. CASE UNCHANGED vars
  <2>1. UNCHANGED <<runtime, now>>
    BY <1>10, Zenon DEF vars, runtime
  <2> QED
    BY <2>1, <1>3, Zenon
<1> QED
  BY <1>5, <1>6, <1>7, <1>8, <1>9, <1>10, RebootFiles, MaintenanceKeeps, Zenon
     DEF Next, TickStep

\* Every step keeps a tick that is about to start the Runtime clear of an end that holds.
LEMMA TickKept ==
    ASSUME WellOrdered, TypeInv, FilesInv, TickOK, [Next]_vars
    PROVE  TickOK'
<1>1. \A at : Saving(at).pc = "save" /\ NoTick.pc = "idle"
  BY DEF Saving, NoTick
<1>2. ASSUME tick'.pc \notin {"probe", "spawn"} PROVE TickOK'
  BY <1>2, Zenon DEF TickOK
<1>3. CASE tick' = tick
  BY <1>3, Zenon DEF TickOK
<1>4. CASE observe
  <2>1. CASE decide_observed = "consider_start"
    <3>1. ended \notin Held
      BY <2>1, Stays, Zenon
    <3>2. tick \in Tick0 /\ tick' = [tick EXCEPT !.pc = "probe", !.ended = ended]
      BY <2>1, <1>4, Zenon DEF TypeInv, observe
    <3>3. tick'.ended = ended
      BY <3>2 DEF Tick0
    <3> QED
      BY <3>1, <3>3, Zenon DEF TickOK
  <2>2. CASE decide_observed # "consider_start"
    <3>1. tick'.pc = "save"
      BY <2>2, <1>1, <1>4, Zenon DEF observe
    <3> QED
      BY <3>1, <1>2, Zenon
  <2> QED
    BY <2>1, <2>2
<1>5. CASE probe_start
  <2>1. CASE tick' = [tick EXCEPT !.pc = "spawn"]
    <3>1. tick \in Tick0 /\ tick.pc = "probe"
      BY <1>5, Zenon DEF TypeInv, probe_start
    <3>2. tick'.ended = tick.ended
      BY <2>1, <3>1 DEF Tick0
    <3> QED
      BY <3>1, <3>2, Zenon DEF TickOK
  <2>2. CASE tick' = Saving(tick.at)
    BY <2>2, <1>1, <1>2, Zenon
  <2> QED
    BY <2>1, <2>2, <1>5, Zenon DEF probe_start
<1>6. CASE spawn
  <2>1. CASE tick' = [tick EXCEPT !.pc = "wait", !.ended = "none",
                                  !.proc = Len(procs'), !.since = now]
    <3>1. tick \in Tick0
      BY Zenon DEF TypeInv
    <3>2. tick'.pc = "wait"
      BY <2>1, <3>1 DEF Tick0
    <3> QED
      BY <3>2, <1>2, Zenon
  <2>2. CASE tick' = Saving(tick.at)
    BY <2>2, <1>1, <1>2, Zenon
  <2> QED
    BY <2>1, <2>2, <1>6, Zenon DEF spawn, Ended
<1>7. CASE \E task \in BOOLEAN : run_once(task)
  <2>1. PICK task \in BOOLEAN : run_once(task)
    BY <1>7
  <2>2. tick'.pc = "observe"
    BY <2>1 DEF run_once, NoTick
  <2> QED
    BY <2>2, <1>2, Zenon
<1>8. CASE wait_ready \/ save \/ early_return \/ stand_aside \/ killed \/ reboot
  <2>1. tick' = NoTick \/ \E at : tick' = Saving(at)
    BY <1>8, Zenon DEF wait_ready, save, early_return, stand_aside, killed, reboot, Ended
  <2> QED
    BY <2>1, <1>1, <1>2, Zenon
<1>9. CASE Others \/ pass \/ install \/ UNCHANGED vars
  <2>1. tick' = tick
    BY <1>9, Zenon
       DEF Others, pass, install, vars, other_start, maintenance, command_start, command_end,
           Process, take_lock, serve, last_line, retain, crash, refuse, close, watchdog
  <2> QED
    BY <2>1, <1>3, Zenon
<1> QED
  BY <1>4, <1>5, <1>6, <1>7, <1>8, <1>9, Zenon DEF Next, TickStep, Others

\* The files hold nothing yet.
LEMMA FilesInit ==
    ASSUME Init
    PROVE  HoldInv
<1>1. /\ procs = <<>> /\ journal = <<>> /\ logs = <<>> /\ ended = "none" /\ now = 1
      /\ tick = NoTick
  BY Zenon DEF Init
<1>2. DOMAIN procs = {} /\ DOMAIN journal = {} /\ DOMAIN logs = {} /\ logs \in Seq(Log0) /\ now >= 1
  BY <1>1
<1>3. LogsOK /\ JournalOK
  BY <1>2, Zenon DEF LogsOK, Sorted, Until, JournalOK, Aligned
<1>4. OwnersOK
  BY <1>2, Zenon DEF OwnersOK, Owners, Locked, Procs
<1>5. HeldOK
  BY <1>1, Zenon DEF HeldOK, Held
<1>6. tick.pc = "idle"
  BY <1>1 DEF NoTick
<1>7. TickOK
  BY <1>6, Zenon DEF TickOK
<1> QED
  BY <1>3, <1>4, <1>5, <1>7, Zenon DEF HoldInv, FilesInv

=============================================================================
