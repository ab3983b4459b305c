--------------------------- MODULE WatchdogProofs ---------------------------
(***************************************************************************)
(* What push_start and the other changes of state.json do to the start     *)
(* records that count against the budget; the inductive invariant, why the *)
(* start records of state.json keep covering the starts that count against *)
(* the budget; and the theorems, for every budget, window, grace and       *)
(* number of kept records, with any number of processes and faults.        *)
(***************************************************************************)
EXTENDS WatchdogHolds

-----------------------------------------------------------------------------
\* Counting start records needs the laws of finite sets.
INSTANCE FiniteSetTheorems

\* The start records after any time are finitely many, and the fewer the later it is.
LEMMA AfterFinite ==
    ASSUME NEW s \in Seq(Start0), NEW F \in Int, NEW G \in Int, F >= G
    PROVE  /\ IsFiniteSet(After(s, F)) /\ Cardinality(After(s, F)) \in Nat
           /\ Cardinality(After(s, F)) <= Cardinality(After(s, G))
<1>0. Len(s) \in Int /\ 1 \in Int /\ DOMAIN s = 1..Len(s)
  BY TimesType
<1>1. IsFiniteSet(DOMAIN s)
  BY <1>0, FS_Interval, Zenon
<1>2. IsFiniteSet(After(s, G)) /\ Cardinality(After(s, G)) \in Nat
  BY <1>1, FS_Subset, FS_CardinalityType DEF After
<1>3. After(s, F) \subseteq After(s, G)
  BY TimesType DEF After
<1> QED
  BY <1>2, <1>3, FS_Subset, FS_CardinalityType

\* A number of them.
LEMMA AfterCount ==
    ASSUME NEW s \in Seq(Start0), NEW F \in Int
    PROVE  Cardinality(After(s, F)) \in Nat
<1>1. F >= F
  OBVIOUS
<1> QED
  BY <1>1, AfterFinite

\* One more record at the end counts when its time does.
LEMMA AfterAppend ==
    ASSUME NEW s \in Seq(Start0), NEW r \in Start0, NEW F \in Int
    PROVE  Cardinality(After(Append(s, r), F)) =
               Cardinality(After(s, F)) + (IF r.at > F THEN 1 ELSE 0)
<1> DEFINE longer == Append(s, r)
           n == Len(s)
<1>1. n \in Nat /\ DOMAIN s = 1..n
  OBVIOUS
<1>2. /\ DOMAIN longer = 1..(n + 1) /\ longer[n + 1] = r
      /\ \A i \in 1..n : longer[i] = s[i]
  BY Appended
<1> HIDE DEF longer, n
<1>3. After(longer, F) = IF r.at > F THEN After(s, F) \union {n + 1} ELSE After(s, F)
  BY <1>1, <1>2 DEF After
<1>4. n + 1 \notin After(s, F)
  BY <1>1 DEF After
<1>5. IsFiniteSet(After(s, F)) /\ Cardinality(After(s, F)) \in Nat
  BY AfterFinite
<1>6. CASE r.at > F
  <2>1. After(longer, F) = After(s, F) \union {n + 1}
    BY <1>3, <1>6
  <2>2. Cardinality(After(s, F) \union {n + 1}) = Cardinality(After(s, F)) + 1
    BY <1>4, <1>5, FS_AddElement, Zenon
  <2> QED
    BY <2>1, <2>2, <1>6 DEF longer
<1>7. CASE ~(r.at > F)
  BY <1>3, <1>5, <1>7 DEF longer
<1> QED
  BY <1>6, <1>7

\* Dropping the first record changes no count that it is not in.
LEMMA AfterTail ==
    ASSUME NEW s \in Seq(Start0), NEW t \in Seq(Start0), NEW n \in Nat, NEW F \in Int,
           Len(s) = n + 1, Len(t) = n, \A i \in 1..n : t[i] = s[i + 1], s[1].at <= F
    PROVE  Cardinality(After(t, F)) = Cardinality(After(s, F))
<1> DEFINE shift == [i \in After(s, F) |-> i - 1]
<1>1. /\ DOMAIN s = 1..(n + 1) /\ DOMAIN t = 1..n
      /\ \A i \in 1..(n + 1) : s[i].at \in Nat
  BY TimesType
<1>2. After(s, F) \subseteq 2..(n + 1)
  BY <1>1 DEF After
<1>3. \A i \in 2..(n + 1) : i - 1 \in 1..n /\ t[i - 1] = s[i]
  OBVIOUS
<1>4. \A i \in After(s, F) : i \in Int /\ i - 1 \in After(t, F)
  BY <1>1, <1>2, <1>3 DEF After
<1>5. \A k \in After(t, F) : k \in Int /\ k + 1 \in After(s, F) /\ (k + 1) - 1 = k
  BY <1>1 DEF After
<1>6. shift \in [After(s, F) -> After(t, F)]
  BY <1>4
<1>7. \A i, j \in After(s, F) : shift[i] = shift[j] => i = j
  BY <1>4
<1>8. \A k \in After(t, F) : \E i \in After(s, F) : shift[i] = k
  <2> TAKE k \in After(t, F)
  <2>1. k + 1 \in After(s, F) /\ shift[k + 1] = k
    BY <1>5
  <2> QED
    BY <2>1
<1> HIDE DEF shift
<1>9. shift \in Bijection(After(s, F), After(t, F))
  BY <1>6, <1>7, <1>8 DEF Bijection, Injection, Surjection, IsInjective
<1> QED
  BY <1>9, AfterFinite, FS_Bijection DEF ExistsBijection

\* push_start appends the record, and when it drops the oldest, that one does not count
\* from G on.
LEMMA PushStart ==
    ASSUME NEW s \in Seq(Start0), NEW at \in Nat, NEW G \in Int,
           Len(s) <= KeptStarts, Sorted(s), Until(s, at),
           Cardinality(After(s, G)) < BudgetStarts,
           NEW pushed, pushed = push_start(s, StartRecord(at))
    PROVE  /\ pushed \in Seq(Start0) /\ Len(pushed) <= KeptStarts
           /\ Sorted(pushed) /\ Until(pushed, at)
           /\ OneAdded(pushed, s, at, G)
<1> USE DEF OneAdded
<1> DEFINE r == StartRecord(at)
           longer == Append(s, r)
           n == Len(s)
<1>1. r \in Start0 /\ r.at = at
  BY DEF Start0, StartRecord
<1>2. n \in Nat /\ DOMAIN s = 1..n /\ \A i \in 1..n : s[i].at \in Nat
  BY TimesType
<1>3. /\ longer \in Seq(Start0) /\ Len(longer) = n + 1 /\ DOMAIN longer = 1..(n + 1)
      /\ longer[n + 1] = r /\ \A i \in 1..n : longer[i] = s[i]
  BY <1>1, Appended
<1>4. \A F \in Int : Cardinality(After(longer, F)) =
                         Cardinality(After(s, F)) + (IF at > F THEN 1 ELSE 0)
  BY <1>1, AfterAppend
<1>5. /\ Cardinality(After(s, G)) \in Nat /\ KeptStarts \in Nat /\ BudgetStarts \in Nat
      /\ KeptStarts >= BudgetStarts /\ KeptStarts >= 1
  BY AfterFinite, WatchdogAssumption
<1>6. pushed = SubSeq(longer,
                      (IF Len(longer) > KeptStarts THEN Len(longer) - KeptStarts ELSE 0) + 1,
                      Len(longer))
  BY DEF push_start
<1>a. n <= KeptStarts
  OBVIOUS
<1> HIDE DEF r, longer, n
<1>7. Sorted(longer) /\ Until(longer, at)
  BY <1>1, <1>2, <1>3, SMTT(30) DEF Sorted, Until
<1>8. CASE n < KeptStarts
  <2>1. (IF Len(longer) > KeptStarts THEN Len(longer) - KeptStarts ELSE 0) + 1 = 1
    BY <1>2, <1>3, <1>5, <1>8
  <2>2. pushed = longer
    BY <2>1, <1>3, <1>6, WholePart, Zenon
  <2>3. Len(longer) <= KeptStarts
    BY <1>2, <1>3, <1>5, <1>8
  <2> QED
    BY <2>2, <2>3, <1>3, <1>4, <1>7
<1>9. CASE n = KeptStarts
  <2>1. /\ (IF Len(longer) > KeptStarts THEN Len(longer) - KeptStarts ELSE 0) + 1 = 2
        /\ Len(longer) = n + 1
    BY <1>2, <1>3, <1>5, <1>9
  <2>2. pushed = SubSeq(longer, 2, n + 1)
    BY <2>1, <1>6, Zenon
  <2>3. /\ SubSeq(longer, 2, n + 1) \in Seq(Start0)
        /\ Len(SubSeq(longer, 2, n + 1)) = IF 2 <= n + 1 THEN n + 1 - 2 + 1 ELSE 0
        /\ \A i \in 1..(n + 1 - 2 + 1) : SubSeq(longer, 2, n + 1)[i] = longer[2 + i - 1]
    BY <1>2, <1>3, <1>5, <1>9, SMTT(30)
  <2>4. /\ pushed \in Seq(Start0) /\ Len(pushed) = n /\ DOMAIN pushed = 1..n
        /\ \A i \in 1..n : pushed[i] = longer[i + 1]
    <3>1. (IF 2 <= n + 1 THEN n + 1 - 2 + 1 ELSE 0) = n /\ n + 1 - 2 + 1 = n
          /\ \A i \in 1..n : 2 + i - 1 = i + 1
      BY <1>2, <1>5, <1>9
    <3> QED
      BY <3>1, <2>2, <2>3
  <2>5. Sorted(pushed) /\ Until(pushed, at)
    <3>1. \A i \in 1..n : i + 1 \in DOMAIN longer
      BY <1>2, <1>3
    <3>2. \A i, j \in 1..n : i <= j => i + 1 <= j + 1
      BY <1>2
    <3>3. \A i, j \in 1..n : i <= j => longer[i + 1].at <= longer[j + 1].at
      BY <3>1, <3>2, <1>7 DEF Sorted
    <3>4. \A i \in 1..n : longer[i + 1].at <= at
      BY <3>1, <1>7 DEF Until
    <3>5. Sorted(pushed)
      BY <3>3, <2>4 DEF Sorted
    <3> QED
      BY <3>4, <3>5, <2>4 DEF Until
  <2>6. s[1].at <= G
    <3> SUFFICES ASSUME s[1].at > G PROVE FALSE
      BY <1>2, <1>5, <1>9
    <3>1. \A i \in 1..n : s[i].at > G
      BY <1>2, <1>5, <1>9, SMTT(30) DEF Sorted
    <3>2. After(s, G) = 1..n
      BY <3>1, <1>2 DEF After
    <3>3. Cardinality(1..n) = n
      BY <1>2, <1>5, <1>9, FS_Interval
    <3> QED
      BY <3>2, <3>3, <1>2, <1>5, <1>9
  <2>7. ASSUME NEW F \in Int, F >= G
        PROVE  Cardinality(After(pushed, F)) = Cardinality(After(longer, F))
    <3>1. longer[1].at <= F
      BY <2>6, <2>7, <1>2, <1>3, <1>5, <1>9
    <3> QED
      BY <3>1, <2>4, <1>2, <1>3, AfterTail, Zenon
  <2> QED
    BY <2>4, <2>5, <2>7, <1>4, <1>5, <1>9
<1> QED
  BY <1>2, <1>5, <1>8, <1>9, <1>a

\* What a decision to start rests on.
LEMMA StartDecided ==
    ASSUME NEW processes, NEW state \in State0, NEW at \in Nat, NEW task \in BOOLEAN,
           decide_start(processes, state, at, task) = "start"
    PROVE  /\ processes = {} /\ ~state.exhausted /\ (task => state.grace <= at)
           /\ Cardinality(After(state.starts, Floor(state, at))) < BudgetStarts
<1>1. /\ state.starts \in Seq(Start0) /\ state.formal \in Nat /\ state.grace \in Nat
      /\ BudgetWindow \in Nat /\ BudgetStarts \in Nat
  BY WatchdogAssumption DEF State0
<1>2. /\ processes = {} /\ ~state.exhausted /\ ~(task /\ state.grace > at)
      /\ ~(starts_in_budget(state, at) >= BudgetStarts)
  BY DEF decide_start
<1>3. starts_in_budget(state, at) =
          Cardinality(After(state.starts, Floor(state, at)))
  BY DEF starts_in_budget, starts_since, After, Floor
<1>4. Floor(state, at) \in Int
  BY <1>1 DEF Later, Floor
<1>5. Cardinality(After(state.starts, Floor(state, at))) \in Nat
  BY <1>1, <1>4, AfterFinite
<1> QED
  BY <1>1, <1>2, <1>3, <1>5

\* Records that cover the starts cover no more of them from a later floor on.
LEMMA CoversMoves ==
    ASSUME NEW s \in Seq(Start0), NEW t \in Seq(Start0), SameTimes(t, s),
           NEW f \in Int, NEW g \in Int, f <= g,
           NEW cnt \in [Int -> Nat], NEW cnt2 \in [Int -> Nat], NoMore(cnt2, cnt),
           Covers(s, f, cnt)
    PROVE  Covers(t, g, cnt2)
<1> SUFFICES ASSUME NEW F \in Int, F >= g PROVE cnt2[F] <= Cardinality(After(t, F))
  BY DEF Covers
<1>1. After(t, F) = After(s, F)
  BY SameRecords
<1>2. Cardinality(After(s, F)) \in Nat
  BY AfterFinite, Zenon
<1>3. cnt[F] <= Cardinality(After(s, F))
  BY DEF Covers
<1>4. cnt2[F] <= cnt[F] /\ cnt[F] \in Nat /\ cnt2[F] \in Nat
  BY Zenon DEF NoMore
<1> QED
  BY <1>1, <1>2, <1>3, <1>4

\* A sound state stays sound as time passes, as long as no start is added.
LEMMA SoundMoves ==
    ASSUME NEW old \in State0, NEW new \in State0,
           NEW n \in Nat, NEW m \in Nat, n <= m,
           NEW last \in Nat, NEW last2 \in Nat,
           NEW owned, NEW owned2,
           NEW cnt \in [Int -> Nat], NEW cnt2 \in [Int -> Nat], NoMore(cnt2, cnt),
           SameTimes(new.starts, old.starts),
           old.formal <= new.formal, new.formal <= last2,
           owned2 # {} => (owned # {} /\ last2 = last) \/ last2 >= n,
           SoundAt(old, n, last, owned, cnt)
    PROVE  SoundAt(new, m, last2, owned2, cnt2)
<1>1. old.starts \in Seq(Start0) /\ new.starts \in Seq(Start0)
  BY DEF State0
<1>2. Floor(old, n) \in Int /\ Floor(new, m) \in Int /\ Floor(old, n) <= Floor(new, m)
  BY FloorLater, Zenon
<1>3. /\ Len(old.starts) <= KeptStarts /\ Sorted(old.starts) /\ Until(old.starts, n)
      /\ owned # {} => Until(old.starts, last)
      /\ Covers(old.starts, Floor(old, n), cnt)
      /\ Cardinality(After(old.starts, Floor(old, n))) <= BudgetStarts
  BY DEF SoundAt
<1>4. Len(new.starts) <= KeptStarts /\ Sorted(new.starts) /\ Until(new.starts, n)
  BY <1>1, <1>3, SameRecords, Zenon
<1>5. Until(new.starts, m)
  BY <1>1, <1>4, UntilLater, Zenon
<1>6. owned2 # {} => Until(new.starts, last2)
  <2>1. CASE owned # {} /\ last2 = last
    BY <2>1, <1>1, <1>3, SameRecords, Zenon
  <2>2. CASE last2 >= n
    BY <2>2, <1>1, <1>4, UntilLater, Zenon
  <2> QED
    BY <2>1, <2>2
<1>7. Covers(new.starts, Floor(new, m), cnt2)
  BY <1>1, <1>2, <1>3, CoversMoves, Zenon
<1>8. Cardinality(After(new.starts, Floor(new, m))) <= BudgetStarts
  <2>1. After(new.starts, Floor(new, m)) = After(old.starts, Floor(new, m))
    BY <1>1, <1>2, SameRecords, Zenon
  <2>2. /\ Cardinality(After(old.starts, Floor(new, m))) \in Nat
        /\ Cardinality(After(old.starts, Floor(new, m)))
               <= Cardinality(After(old.starts, Floor(old, n)))
    BY <1>1, <1>2, AfterFinite, Zenon
  <2>3. Cardinality(After(old.starts, Floor(old, n))) \in Nat
    BY <1>1, <1>2, AfterCount, Zenon
  <2> QED
    BY <2>1, <2>2, <2>3, <1>3, ConstantTypes
<1> QED
  BY <1>4, <1>5, <1>6, <1>7, <1>8 DEF SoundAt

\* A start within the budget, recorded by push_start, leaves a sound state.
LEMMA SoundPush ==
    ASSUME NEW old \in State0, NEW new \in State0, NEW n \in Nat, NEW at \in Nat, at <= n,
           NEW last \in Nat, NEW owned, owned # {} => at <= last,
           NEW cnt \in [Int -> Nat], NEW cnt2 \in [Int -> Nat], OneMore(cnt2, cnt, at),
           Until(old.starts, at),
           Cardinality(After(old.starts, Floor(old, at))) < BudgetStarts,
           new.starts = push_start(old.starts, StartRecord(at)), new.formal = old.formal,
           SoundAt(old, n, last, owned, cnt)
    PROVE  SoundAt(new, n, last, owned, cnt2)
<1> DEFINE G == Floor(old, at)
           H == Floor(old, n)
<1>1. old.starts \in Seq(Start0)
  BY DEF State0
<1>2. G \in Int /\ H \in Int /\ G <= H /\ Floor(new, n) = H
  <2>1. Floor(new, n) = Floor(old, n)
    BY DEF Floor
  <2>2. old.formal <= old.formal
    BY DEF State0
  <2> QED
    BY <2>1, <2>2, FloorLater, Zenon
<1>3. /\ Len(old.starts) <= KeptStarts /\ Sorted(old.starts) /\ old.formal <= last
      /\ Covers(old.starts, H, cnt)
  BY DEF SoundAt
<1>4. Cardinality(After(old.starts, G)) < BudgetStarts
  OBVIOUS
<1> HIDE DEF G, H
<1>5. /\ new.starts \in Seq(Start0) /\ Len(new.starts) <= KeptStarts
      /\ Sorted(new.starts) /\ Until(new.starts, at)
  BY <1>1, <1>2, <1>3, <1>4, PushStart, Zenon
<1>6. OneAdded(new.starts, old.starts, at, G)
  BY <1>1, <1>2, <1>3, <1>4, PushStart, Zenon
<1>7. Until(new.starts, n) /\ (owned # {} => Until(new.starts, last))
  BY <1>5, UntilLater, Zenon
<1>8. Covers(new.starts, H, cnt2)
  <2> SUFFICES ASSUME NEW F \in Int, F >= H
               PROVE  cnt2[F] <= Cardinality(After(new.starts, F))
    BY DEF Covers
  <2>1. Cardinality(After(new.starts, F)) =
            Cardinality(After(old.starts, F)) + (IF at > F THEN 1 ELSE 0)
    BY <1>2, <1>6 DEF OneAdded
  <2>2. cnt[F] <= Cardinality(After(old.starts, F))
    BY <1>3 DEF Covers
  <2>3. cnt2[F] <= cnt[F] + (IF at > F THEN 1 ELSE 0) /\ cnt[F] \in Nat /\ cnt2[F] \in Nat
    BY DEF OneMore
  <2>4. Cardinality(After(old.starts, F)) \in Nat
    BY <1>1, AfterCount, Zenon
  <2> QED
    BY <2>1, <2>2, <2>3, <2>4
<1>9. Cardinality(After(new.starts, H)) <= BudgetStarts
  <2>1. /\ Cardinality(After(old.starts, H)) \in Nat
        /\ Cardinality(After(old.starts, H)) <= Cardinality(After(old.starts, G))
    BY <1>1, <1>2, AfterFinite, Zenon
  <2>2. Cardinality(After(old.starts, G)) \in Nat
    BY <1>1, <1>2, AfterCount, Zenon
  <2>3. Cardinality(After(new.starts, H)) =
            Cardinality(After(old.starts, H)) + (IF at > H THEN 1 ELSE 0)
    BY <1>2, <1>6 DEF OneAdded
  <2> QED
    BY <2>1, <2>2, <2>3, <1>4, ConstantTypes
<1> QED
  BY <1>2, <1>3, <1>5, <1>7, <1>8, <1>9 DEF SoundAt

\* The starts that count are numbers.
LEMMA CountType ==
    ASSUME NEW ps \in Seq(Process0), NEW t \in Tick0
    PROVE  /\ CountOf(ps, t) \in [Int -> Nat]
           /\ \A F \in Int : /\ IsFiniteSet(TickStarts(ps, F))
                             /\ Cardinality(TickStarts(ps, F)) \in Nat
                             /\ Coming(t, F) \in Nat
                             /\ CountOf(ps, t)[F] = Cardinality(TickStarts(ps, F)) + Coming(t, F)
<1>1. IsFiniteSet(DOMAIN ps)
  <2>1. DOMAIN ps = 1..Len(ps) /\ Len(ps) \in Nat
    OBVIOUS
  <2> QED
    BY <2>1, FS_Interval
<1>2. \A F \in Int : IsFiniteSet(TickStarts(ps, F)) /\ Cardinality(TickStarts(ps, F)) \in Nat
  BY <1>1, FS_Subset, FS_CardinalityType DEF TickStarts
<1>3. \A F \in Int : Coming(t, F) \in Nat
  BY DEF Coming
<1>4. \A F \in Int : Cardinality(TickStarts(ps, F)) + Coming(t, F) \in Nat
  <2> TAKE F \in Int
  <2>1. Cardinality(TickStarts(ps, F)) \in Nat /\ Coming(t, F) \in Nat
    BY <1>2, <1>3, Zenon
  <2> QED
    BY <2>1
<1>5. CountOf(ps, t) \in [Int -> Nat]
  BY <1>4, Zenon DEF CountOf
<1> QED
  BY <1>2, <1>3, <1>5, Zenon DEF CountOf

\* Steps of the processes add no start of a tick.
LEMMA CountKept ==
    ASSUME NEW ps \in Seq(Process0), NEW qs \in Seq(Process0),
           NEW t \in Tick0, NEW u \in Tick0,
           DOMAIN ps \subseteq DOMAIN qs,
           \A p \in DOMAIN ps : qs[p].by = ps[p].by /\ qs[p].at = ps[p].at,
           \A p \in DOMAIN qs \ DOMAIN ps : qs[p].by # "tick",
           u.pc = "spawn" => t.pc = "spawn" /\ u.at = t.at
    PROVE  NoMore(CountOf(qs, u), CountOf(ps, t))
<1> SUFFICES ASSUME NEW F \in Int PROVE CountOf(qs, u)[F] <= CountOf(ps, t)[F]
  BY DEF NoMore
<1>1. TickStarts(qs, F) = TickStarts(ps, F)
  BY DEF TickStarts
<1>2. Coming(u, F) <= Coming(t, F)
  BY DEF Coming
<1>3. /\ CountOf(ps, t)[F] = Cardinality(TickStarts(ps, F)) + Coming(t, F)
      /\ CountOf(qs, u)[F] = Cardinality(TickStarts(qs, F)) + Coming(u, F)
      /\ Cardinality(TickStarts(ps, F)) \in Nat /\ Coming(t, F) \in Nat /\ Coming(u, F) \in Nat
  BY CountType, Zenon
<1> QED
  BY <1>1, <1>2, <1>3

\* The start that was coming is made.
LEMMA CountMade ==
    ASSUME NEW ps \in Seq(Process0), NEW qs \in Seq(Process0),
           NEW t \in Tick0, NEW u \in Tick0, t.pc = "spawn", u.pc # "spawn", NEW k,
           DOMAIN qs = DOMAIN ps \union {k}, k \notin DOMAIN ps, qs[k].at = t.at,
           \A p \in DOMAIN ps : qs[p] = ps[p]
    PROVE  NoMore(CountOf(qs, u), CountOf(ps, t))
<1> SUFFICES ASSUME NEW F \in Int PROVE CountOf(qs, u)[F] <= CountOf(ps, t)[F]
  BY DEF NoMore
<1>1. /\ CountOf(ps, t)[F] = Cardinality(TickStarts(ps, F)) + Coming(t, F)
      /\ CountOf(qs, u)[F] = Cardinality(TickStarts(qs, F)) + Coming(u, F)
      /\ Cardinality(TickStarts(ps, F)) \in Nat /\ IsFiniteSet(TickStarts(ps, F))
  BY CountType, Zenon
<1>2. Coming(u, F) = 0 /\ Coming(t, F) = IF t.at > F THEN 1 ELSE 0
  BY DEF Coming
<1>3. CASE t.at > F
  <2>1. \/ TickStarts(qs, F) = TickStarts(ps, F)
        \/ TickStarts(qs, F) = TickStarts(ps, F) \union {k}
    BY <1>3 DEF TickStarts
  <2>2. k \notin TickStarts(ps, F)
    BY DEF TickStarts
  <2>3. Cardinality(TickStarts(ps, F) \union {k}) = Cardinality(TickStarts(ps, F)) + 1
    BY <1>1, <2>2, FS_AddElement, Zenon
  <2>4. /\ Cardinality(TickStarts(qs, F)) \in Nat
        /\ Cardinality(TickStarts(qs, F)) <= Cardinality(TickStarts(ps, F)) + 1
    <3> DEFINE c == Cardinality(TickStarts(ps, F))
               d == Cardinality(TickStarts(qs, F))
    <3>1. d = c \/ d = c + 1
      BY <2>1, <2>3, Zenon
    <3>2. c \in Nat
      BY <1>1, Zenon
    <3> HIDE DEF c, d
    <3>3. d \in Nat /\ d <= c + 1
      BY <3>1, <3>2
    <3> QED
      BY <3>3 DEF c, d
  <2>5. Coming(u, F) = 0 /\ Coming(t, F) = 1
    BY <1>2, <1>3, Zenon
  <2> QED
    BY <1>1, <2>4, <2>5
<1>4. CASE ~(t.at > F)
  <2>1. TickStarts(qs, F) = TickStarts(ps, F)
    <3>1. \A p \in DOMAIN qs : p # k => p \in DOMAIN ps /\ qs[p] = ps[p]
      OBVIOUS
    <3>2. k \notin TickStarts(qs, F)
      BY <1>4 DEF TickStarts
    <3> QED
      BY <3>1, <3>2 DEF TickStarts
  <2> QED
    BY <1>1, <1>2, <1>4, <2>1
<1> QED
  BY <1>3, <1>4

\* A start comes, at the tick's time.
LEMMA CountComes ==
    ASSUME NEW ps \in Seq(Process0), NEW t \in Tick0, NEW u \in Tick0, u.at = t.at
    PROVE  OneMore(CountOf(ps, u), CountOf(ps, t), t.at)
<1> SUFFICES ASSUME NEW F \in Int
             PROVE  CountOf(ps, u)[F] <= CountOf(ps, t)[F] + (IF t.at > F THEN 1 ELSE 0)
  BY DEF OneMore
<1>1. /\ CountOf(ps, t)[F] = Cardinality(TickStarts(ps, F)) + Coming(t, F)
      /\ CountOf(ps, u)[F] = Cardinality(TickStarts(ps, F)) + Coming(u, F)
      /\ Cardinality(TickStarts(ps, F)) \in Nat /\ Coming(t, F) \in Nat /\ Coming(u, F) \in Nat
  BY CountType, Zenon
<1>2. Coming(u, F) <= (IF t.at > F THEN 1 ELSE 0)
  BY DEF Coming
<1> QED
  BY <1>1, <1>2

\* In a calm step a state stays sound.
LEMMA SoundKept ==
    ASSUME TypeInv, TypeInv', Calm, NEW old \in State0, NEW new \in State0,
           SoundAt(old, now, LastStarted, Owners, Count),
           SameTimes(new.starts, old.starts), old.formal <= new.formal,
           new.formal <= LastStarted'
    PROVE  SoundAt(new, now', LastStarted', Owners', Count')
<1>1. LastStarted \in Nat /\ LastStarted' \in Nat
  BY StartedType, Zenon DEF LastStarted, LastOwner, TypeInv
<1>2. Count \in [Int -> Nat] /\ Count' \in [Int -> Nat]
  BY CountType, Zenon DEF Count, TypeInv
<1>3. now \in Nat /\ now' \in Nat /\ now <= now' /\ NoMore(Count', Count)
  BY DEF TypeInv, Calm
<1>4. Owners' # {} => (Owners # {} /\ LastStarted' = LastStarted) \/ LastStarted' >= now
  BY Zenon DEF Calm
<1> QED
  BY <1>1, <1>2, <1>3, <1>4, SoundMoves, Zenon

LEMMA CalmTick ==
    ASSUME TypeInv, TypeInv', UNCHANGED <<procs, journal>>, now <= now',
           tick'.pc = "spawn" => tick.pc = "spawn" /\ tick'.at = tick.at
    PROVE  Calm
<1>1. NoMore(Count', Count)
  <2>1. /\ procs \in Seq(Process0) /\ tick \in Tick0 /\ tick' \in Tick0 /\ procs' = procs
    BY DEF TypeInv
  <2>2. NoMore(CountOf(procs, tick'), CountOf(procs, tick))
    BY <2>1, CountKept, Zenon
  <2> QED
    BY <2>1, <2>2 DEF Count
<1>2. LastStarted \in Nat
  BY StartedType DEF LastStarted, LastOwner, TypeInv
<1> QED
  BY <1>1, <1>2, Untouched DEF Calm

\* state.json and the tick's state stay sound when a calm step leaves their records.
LEMMA SoundNext ==
    ASSUME TypeInv, TypeInv', Calm, NEW old \in State0, NEW new \in State0, Sound(old),
           SameTimes(new.starts, old.starts),
           new.formal = old.formal \/ new.formal = LastStarted
    PROVE  SoundAt(new, now', LastStarted', Owners', Count')
<1>1. LastStarted \in Nat /\ LastStarted' \in Nat
  BY StartedType DEF LastStarted, LastOwner, TypeInv
<1>2. old.formal \in Nat /\ new.formal \in Nat
  BY ShapeFields
<1>3. old.formal <= LastStarted /\ LastStarted <= LastStarted'
  BY SoundFormal DEF Calm
<1>4. old.formal <= new.formal /\ new.formal <= LastStarted'
  BY <1>1, <1>2, <1>3
<1> QED
  BY <1>4, SoundKept DEF Sound

\* The processes' steps keep the invariant.
LEMMA RuntimeKeeps ==
    ASSUME IInv, RuntimeStep
    PROVE  IInv'
<1>1. /\ TypeInv /\ UNCHANGED <<now, boot, disk, mem, tick, graced>>
      /\ procs' \in Seq(Process0) /\ journal' \in Seq(OwnerRecord) /\ ended' \in EndKind
      /\ Owners' # {} => journal' # <<>>
  BY Zenon DEF IInv, RuntimeStep, watchdog
<1>2. TypeInv'
  BY <1>1, Zenon DEF TypeInv
<1>3. /\ LastStarted \in Nat /\ LastStarted' \in Nat /\ now \in Nat
      /\ LastStarted <= now /\ tick.at \in Nat
  BY <1>1, <1>2, StartedType, ShapeFields, Zenon
     DEF LastStarted, LastOwner, TypeInv, IInv, BudgetInv
<1>4. \/ LastStarted' = LastStarted /\ (Owners' # {} => Owners # {})
      \/ LastStarted' = now
  BY DEF RuntimeStep
<1>5. Calm
  <2>1. NoMore(CountOf(procs', tick), CountOf(procs, tick))
    <3>1. /\ procs \in Seq(Process0) /\ procs' \in Seq(Process0) /\ tick \in Tick0
          /\ DOMAIN procs \subseteq DOMAIN procs'
          /\ \A p \in DOMAIN procs : procs'[p].by = procs[p].by /\ procs'[p].at = procs[p].at
          /\ \A p \in DOMAIN procs' \ DOMAIN procs : procs'[p].by # "tick"
      BY Zenon DEF IInv, TypeInv, RuntimeStep
    <3> QED
      BY <3>1, CountKept, Zenon
  <2>2. NoMore(Count', Count)
    BY <2>1, <1>1 DEF Count
  <2> QED
    BY <2>2, <1>1, <1>3, <1>4, SMTT(30) DEF Calm
<1>6. BudgetInv'
  <2>1. Sound(disk) /\ (InFlight => Sound(mem)) /\ disk \in State0 /\ mem \in State0
    BY DEF IInv, BudgetInv, TypeInv
  <2>2. SoundAt(disk, now', LastStarted', Owners', Count')
    BY <2>1, <1>1, <1>2, <1>5, SoundNext, SameSelf, SMTT(30)
  <2>3. InFlight => SoundAt(mem, now', LastStarted', Owners', Count')
    BY <2>1, <1>1, <1>2, <1>5, SoundNext, SameSelf, SMTT(30)
  <2>4. Sound(disk)' /\ (InFlight => Sound(mem))'
    BY <2>2, <2>3, <1>1, Zenon DEF Sound, InFlight
  <2>5. tick.pc = "probe" /\ Owners' # {} => tick.at <= LastStarted'
    BY <1>3, <1>4, Zenon DEF IInv, BudgetInv
  <2> QED
    BY <2>4, <2>5, <1>1, <1>3, <1>4, SMTT(30) DEF IInv, BudgetInv
<1>7. FormalInv' /\ GraceInv' /\ GraceKept'
  BY <1>1, Zenon DEF IInv, FormalInv, GraceInv, GraceKept, InFlight
<1>8. SpawnsAlone'
  <2> SUFFICES ASSUME tick.pc = "spawn", NEW p \in DOMAIN procs', procs'[p].st # "gone"
               PROVE  procs'[p].by \in {"other", "maintenance"}
    BY <1>1 DEF SpawnsAlone, Procs, Alive
  <2>1. CASE p \in DOMAIN procs
    BY <2>1, Zenon DEF IInv, SpawnsAlone, Procs, Alive, RuntimeStep
  <2>2. CASE p \notin DOMAIN procs
    <3>1. procs'[p] \in Process0
      BY <1>1
    <3> QED
      BY <3>1, <2>2, ShapeFields, Zenon DEF RuntimeStep, Starter
  <2> QED
    BY <2>1, <2>2
<1> QED
  BY <1>2, <1>6, <1>7, <1>8, SMTT(30) DEF IInv

\* The steps of a tick that make and record no start keep the budget.
LEMMA BudgetTick ==
    ASSUME IInv, TypeInv', UNCHANGED <<procs, journal>>, now <= now', tick'.at <= now',
           tick'.pc = "spawn" => tick.pc = "spawn" /\ tick'.at = tick.at,
           Keeps(disk', disk) \/ (InFlight /\ Keeps(disk', mem)),
           tick'.pc # "idle" => Keeps(mem', disk) \/ (InFlight /\ Keeps(mem', mem)),
           tick'.pc \in {"observe", "probe"} => Until(mem'.starts, tick'.at),
           tick'.pc = "probe" => Owners = {} \/ (tick.pc = "probe" /\ tick'.at = tick.at)
    PROVE  BudgetInv'
<1>1. /\ TypeInv /\ Sound(disk) /\ (InFlight => Sound(mem)) /\ LastStarted <= now
      /\ disk \in State0 /\ mem \in State0 /\ disk' \in State0 /\ mem' \in State0
  BY Zenon DEF IInv, BudgetInv, TypeInv
<1>2. Calm
  BY <1>1, CalmTick, SMTT(30)
<1>3. LastStarted' = LastStarted /\ Owners' = Owners /\ LastStarted \in Nat
      /\ now \in Nat /\ now' \in Nat
  BY <1>1, Untouched, StartedType, Zenon DEF LastStarted, LastOwner, TypeInv
<1>4. SoundAt(disk', now', LastStarted', Owners', Count')
  <2>1. CASE Keeps(disk', disk)
    BY <2>1, <1>1, <1>2, SoundNext, Zenon DEF Keeps
  <2>2. CASE InFlight /\ Keeps(disk', mem)
    BY <2>2, <1>1, <1>2, SoundNext, Zenon DEF Keeps
  <2> QED
    BY <2>1, <2>2
<1>5. tick'.pc # "idle" => SoundAt(mem', now', LastStarted', Owners', Count')
  <2> SUFFICES ASSUME tick'.pc # "idle" PROVE SoundAt(mem', now', LastStarted', Owners', Count')
    OBVIOUS
  <2>1. CASE Keeps(mem', disk)
    BY <2>1, <1>1, <1>2, SoundNext, Zenon DEF Keeps
  <2>2. CASE InFlight /\ Keeps(mem', mem)
    BY <2>2, <1>1, <1>2, SoundNext, Zenon DEF Keeps
  <2> QED
    BY <2>1, <2>2
<1>6. Sound(disk)' /\ (InFlight => Sound(mem))'
  BY <1>4, <1>5 DEF Sound, InFlight
<1>7. tick'.pc = "probe" /\ Owners' # {} => tick'.at <= LastStarted'
  BY <1>3, Zenon DEF IInv, BudgetInv
<1>8. LastStarted' <= now'
  BY <1>1, <1>3
<1> QED
  BY <1>6, <1>7, <1>8, Zenon DEF BudgetInv

\* Time passes, or nothing changes.
LEMMA PassKeeps ==
    ASSUME IInv, pass \/ UNCHANGED vars
    PROVE  IInv'
<1>1. /\ TypeInv /\ UNCHANGED <<boot, procs, journal, ended, disk, mem, tick, graced>>
      /\ now' \in {now, now + 1}
  BY DEF IInv, pass, runtime, watchdog, vars
<1>2. now \in Nat /\ now' \in Nat /\ now <= now' /\ tick.at \in Nat /\ boot \in Nat
      /\ disk.lastEnd \in Nat /\ graced \in Int
  BY <1>1, ShapeFields, SMTT(30) DEF TypeInv
<1>3. TypeInv'
  BY <1>1, <1>2, TypeKept, Zenon DEF TypeInv
<1>4. BudgetInv'
  <2>1. tick.at <= now'
    BY <1>1, <1>2 DEF IInv, BudgetInv
  <2>2. tick.pc \in {"observe", "probe"} => Until(mem.starts, tick.at)
    BY DEF IInv, BudgetInv
  <2>3. tick.pc = "idle" \/ InFlight
    BY DEF InFlight
  <2>4. tick.pc = "probe" => Owners = {} \/ (tick.pc = "probe" /\ tick'.at = tick.at)
    BY <1>1
  <2> QED
    BY <2>1, <2>2, <2>3, <2>4, <1>1, <1>2, <1>3, KeepsSelf, BudgetTick, Zenon
<1>5. FormalInv' /\ GraceKept'
  BY <1>1, Zenon DEF IInv, FormalInv, GraceKept
<1>6. GraceInv'
  BY <1>1, <1>2 DEF IInv, GraceInv, InFlight
<1>7. SpawnsAlone'
  BY <1>1 DEF IInv, SpawnsAlone, Procs, Alive
<1> QED
  BY <1>3, <1>4, <1>5, <1>6, <1>7, SMTT(30) DEF IInv

\* A tick is killed, and run.lock with it.
LEMMA KilledKeeps ==
    ASSUME IInv, killed
    PROVE  IInv'
<1>1. /\ TypeInv /\ UNCHANGED <<now, boot, procs, journal, ended, disk, graced>>
      /\ tick' = NoTick /\ mem' = FreshState
  BY DEF IInv, killed, runtime
<1>2. /\ tick' \in Tick0 /\ tick'.pc = "idle" /\ tick'.at = 0 /\ mem' \in State0 /\ now \in Nat
      /\ tick'.at <= now'
  BY <1>1, TickShapes DEF TypeInv
<1>3. TypeInv'
  BY <1>1, <1>2, TypeKept, Zenon DEF TypeInv
<1>4. BudgetInv'
  BY <1>1, <1>2, <1>3, KeepsSelf, BudgetTick, SMTT(30)
<1>5. FormalInv' /\ GraceKept' /\ SpawnsAlone'
  BY <1>2 DEF FormalInv, GraceKept, SpawnsAlone
<1>6. GraceInv'
  BY <1>1, <1>2, Zenon DEF IInv, GraceInv, InFlight
<1> QED
  BY <1>3, <1>4, <1>5, <1>6, SMTT(30) DEF IInv

\* `watchdog install` while no tick runs.
LEMMA InstallKeeps ==
    ASSUME IInv, install
    PROVE  IInv'
<1>1. /\ TypeInv /\ UNCHANGED <<now, boot, procs, journal, ended, mem, tick>>
      /\ tick.pc = "idle" /\ graced' = 0 /\ disk' = [disk EXCEPT !.lastEnd = now]
  BY DEF IInv, install, runtime, RunLockHeld
<1>2. /\ disk' \in State0 /\ disk'.starts = disk.starts /\ disk'.formal = disk.formal
      /\ disk'.lastEnd = now /\ disk'.grace = disk.grace /\ now \in Nat /\ graced' \in Int
  <2>1. disk \in State0 /\ now \in Nat
    BY <1>1 DEF TypeInv
  <2> QED
    BY <2>1, <1>1 DEF State0
<1>3. TypeInv'
  BY <1>1, <1>2, TypeKept DEF TypeInv
<1>4. BudgetInv'
  <2>1. tick.at <= now' /\ now <= now'
    BY <1>1, <1>2 DEF IInv, BudgetInv
  <2>2. Keeps(disk', disk)
    BY <1>2, SameSelf DEF Keeps
  <2> QED
    BY <2>1, <2>2, <1>1, <1>3, BudgetTick, SMTT(30)
<1>5. FormalInv' /\ GraceKept' /\ SpawnsAlone'
  BY <1>1 DEF FormalInv, GraceKept, SpawnsAlone
<1>6. GraceInv'
  BY <1>1, <1>2, SMTT(30) DEF IInv, GraceInv, InFlight
<1> QED
  BY <1>3, <1>4, <1>5, <1>6, SMTT(30) DEF IInv

\* A reboot ends every process and the tick.
LEMMA RebootKeeps ==
    ASSUME IInv, reboot
    PROVE  IInv'
<1>1. /\ TypeInv /\ UNCHANGED <<journal, disk>> /\ now' = now + 1 /\ boot' = now'
      /\ tick' = NoTick /\ mem' = FreshState
      /\ graced' = IF disk.lastEnd # 0 THEN -1 ELSE 0
  BY Zenon DEF IInv, reboot
<1>a. procs' = [p \in Procs |-> [procs[p] EXCEPT !.st = "gone", !.why = "none"]]
  BY Zenon DEF reboot
<1>b. ended' \in EndKind
  <2>1. ended' \in {"crashed", ended}
    BY Zenon DEF reboot
  <2> QED
    BY <2>1, <1>1 DEF TypeInv, EndKind
<1>2. /\ procs \in Seq(Process0) /\ now \in Nat /\ now' \in Nat /\ boot' \in Nat
      /\ disk \in State0 /\ graced' \in Int /\ disk.lastEnd \in Nat
      /\ journal \in Seq(OwnerRecord)
  <2>1. /\ procs \in Seq(Process0) /\ now \in Nat /\ disk \in State0
        /\ journal \in Seq(OwnerRecord)
    BY <1>1 DEF TypeInv
  <2> QED
    BY <2>1, <1>1, ShapeFields
<1>3. /\ tick' \in Tick0 /\ tick'.pc = "idle" /\ tick'.at = 0 /\ mem' \in State0
      /\ tick'.at <= now'
  <2>1. tick' \in Tick0 /\ tick'.pc = "idle" /\ tick'.at = 0 /\ mem' \in State0
    BY <1>1, TickShapes, Zenon
  <2> QED
    BY <2>1, <1>2, SMTT(30)
<1>4. /\ procs' \in Seq(Process0) /\ DOMAIN procs' = DOMAIN procs
      /\ \A p \in DOMAIN procs : /\ procs'[p].by = procs[p].by /\ procs'[p].at = procs[p].at
                                 /\ procs'[p].st = "gone"
  <2> DEFINE gone(p) == [procs[p] EXCEPT !.st = "gone", !.why = "none"]
  <2>1. \A p \in DOMAIN procs : /\ gone(p) \in Process0 /\ gone(p).by = procs[p].by
                                /\ gone(p).at = procs[p].at /\ gone(p).st = "gone"
    <3> SUFFICES ASSUME NEW p \in DOMAIN procs
                 PROVE  /\ gone(p) \in Process0 /\ gone(p).by = procs[p].by
                        /\ gone(p).at = procs[p].at /\ gone(p).st = "gone"
      BY Zenon
    <3>1. procs[p] \in Process0
      BY <1>2
    <3> QED
      BY <3>1, Zenon DEF Process0, Stage, Categories
  <2>2. procs' = [p \in 1..Len(procs) |-> gone(p)] /\ DOMAIN procs = 1..Len(procs)
        /\ Len(procs) \in Nat
    <3>1. Procs = 1..Len(procs) /\ DOMAIN procs = 1..Len(procs) /\ Len(procs) \in Nat
      BY <1>2 DEF Procs
    <3> QED
      BY <1>a, <3>1, Zenon
  <2> HIDE DEF gone
  <2>3. \A p \in 1..Len(procs) : gone(p) \in Process0
    BY <2>1, <2>2, Zenon
  <2>4. procs' \in Seq(Process0)
    <3>1. procs' \in [1..Len(procs) -> Process0]
      BY <2>2, <2>3, Zenon
    <3> QED
      BY <3>1, <2>2
  <2>5. DOMAIN procs' = DOMAIN procs /\ \A p \in DOMAIN procs : procs'[p] = gone(p)
    BY <2>2
  <2> QED
    BY <2>1, <2>4, <2>5, Zenon
<1>5. Owners' = {} /\ LastStarted' = LastStarted
  BY <1>1, <1>4, Zenon DEF Owners, Procs, LastStarted, LastOwner
<1>6. TypeInv'
  BY <1>1, <1>b, <1>2, <1>3, <1>4, <1>5, Zenon DEF TypeInv
<1>7. LastStarted \in Nat /\ LastStarted <= now /\ Sound(disk)
  BY <1>1, <1>2, StartedType, Zenon DEF LastStarted, LastOwner, IInv, BudgetInv
<1>8. Calm
  <2>1. tick \in Tick0
    BY <1>1 DEF TypeInv
  <2>2. NoMore(CountOf(procs', tick'), CountOf(procs, tick))
    BY <2>1, <1>2, <1>3, <1>4, CountKept, Zenon
  <2>3. now <= now' /\ LastStarted <= LastStarted'
    BY <1>1, <1>2, <1>5, <1>7, SMTT(30)
  <2> QED
    BY <2>2, <2>3, <1>5, Zenon DEF Calm, Count
<1>9. BudgetInv'
  <2>1. SoundAt(disk, now', LastStarted', Owners', Count')
    BY <1>1, <1>2, <1>6, <1>7, <1>8, SoundNext, SameSelf, SMTT(30)
  <2>2. LastStarted' <= now'
    BY <1>1, <1>2, <1>5, <1>7, SMTT(30)
  <2> QED
    BY <2>1, <2>2, <1>1, <1>3, SMTT(30) DEF BudgetInv, Sound, InFlight
<1>10. FormalInv' /\ GraceKept' /\ SpawnsAlone'
  BY <1>3 DEF FormalInv, GraceKept, SpawnsAlone
<1>11. GraceInv'
  <2>1. disk.lastEnd <= now
    BY DEF IInv, GraceInv
  <2> QED
    BY <2>1, <1>1, <1>2, <1>3, SMTT(30) DEF GraceInv, InFlight
<1> QED
  BY <1>6, <1>9, <1>10, <1>11, Zenon DEF IInv

\* A tick begins with state.json.
LEMMA RunOnceKeeps ==
    ASSUME IInv, NEW task \in BOOLEAN, run_once(task)
    PROVE  IInv'
<1>1. /\ TypeInv /\ UNCHANGED <<now, boot, procs, journal, ended, disk, graced>>
      /\ tick' = [NoTick EXCEPT !.pc = "observe", !.task = task, !.at = now] /\ mem' = disk
  BY DEF IInv, run_once, runtime
<1>2. now \in Nat /\ disk \in State0 /\ disk.starts \in Seq(Start0) /\ graced \in Int
  BY <1>1, ShapeFields DEF TypeInv
<1>3. tick' \in Tick0 /\ tick'.pc = "observe" /\ tick'.at = now /\ tick'.task = task
  BY <1>1, <1>2, Zenon DEF Tick0, NoTick, EndKind, Categories
<1>4. TypeInv'
  BY <1>1, <1>2, <1>3, TypeKept DEF TypeInv
<1>5. BudgetInv'
  <2>1. Until(disk.starts, now)
    BY Zenon DEF IInv, BudgetInv, Sound, SoundAt
  <2>2. now <= now' /\ tick'.at <= now'
    BY <1>1, <1>2, <1>3, SMTT(30)
  <2>3. Keeps(disk', disk) /\ Keeps(mem', disk)
    BY <1>1, KeepsSelf
  <2> QED
    BY <2>1, <2>2, <2>3, <1>1, <1>3, <1>4, BudgetTick
<1>6. FormalInv' /\ GraceKept' /\ SpawnsAlone'
  BY <1>1, <1>3, SMTT(30) DEF FormalInv, GraceKept, SpawnsAlone
<1>7. GraceInv'
  BY <1>1, <1>2, <1>3 DEF IInv, GraceInv, InFlight
<1> QED
  BY <1>4, <1>5, <1>6, <1>7, SMTT(30) DEF IInv

-----------------------------------------------------------------------------
\* A tick observes; a live owner of other hands is a formal start.
LEMMA ObserveKeeps ==
    ASSUME IInv, observe
    PROVE  IInv'
<1>1. /\ TypeInv /\ UNCHANGED <<now, boot, procs, journal, ended, disk, graced>>
      /\ tick.pc = "observe"
      /\ tick' = IF decide_observed = "consider_start"
                 THEN [tick EXCEPT !.pc = "probe", !.ended = ended] ELSE Saving(0)
      /\ mem' = IF decide_observed = "alive" THEN Recognised(LastOwner.epoch, mem) ELSE mem
  BY DEF IInv, observe, runtime
<1>2. /\ now \in Nat /\ mem \in State0 /\ mem.starts \in Seq(Start0) /\ tick \in Tick0
      /\ tick.at \in Nat /\ ended \in EndKind /\ InFlight /\ journal \in Seq(OwnerRecord)
      /\ tick.at <= now /\ Until(mem.starts, tick.at) /\ mem.exhausted = disk.exhausted
      /\ Sound(mem) /\ LastStarted \in Nat /\ graced \in Int
  BY <1>1, ShapeFields, StartedType, Zenon
     DEF TypeInv, InFlight, IInv, BudgetInv, FormalInv, LastStarted, LastOwner
<1>3. /\ mem' \in State0 /\ SameTimes(mem'.starts, mem.starts)
      /\ mem'.grace = mem.grace /\ mem'.lastEnd = mem.lastEnd
      /\ \/ mem'.formal = mem.formal /\ mem'.exhausted = mem.exhausted
         \/ mem'.formal = LastStarted /\ Owners # {}
  <2>1. CASE decide_observed = "alive"
    <3>1. Owners # {} /\ journal # <<>>
      BY <2>1, <1>1, Observed DEF TypeInv
    <3>2. /\ LastOwner \in OwnerRecord /\ LastOwner.epoch \in Nat /\ LastOwner.started \in Nat
          /\ LastOwner.started = LastStarted
      BY <3>1, <1>2, JournalEnd, ShapeFields, Zenon DEF LastOwner, LastStarted
    <3>3. mem' = Recognised(LastOwner.epoch, mem)
      BY <2>1, <1>1
    <3>4. /\ mem' \in State0 /\ SameTimes(mem'.starts, mem.starts)
          /\ mem'.grace = mem.grace /\ mem'.lastEnd = mem.lastEnd
          /\ \/ mem'.formal = mem.formal /\ mem'.exhausted = mem.exhausted
             \/ mem'.formal = LastOwner.started /\ mem'.exhausted = FALSE
      <4>1. mem \in State0 /\ LastOwner.epoch \in Nat /\ LastOwner.started \in Nat
        BY <3>2, <1>2, Zenon
      <4> HIDE <3>2, <1>2
      <4> QED
        BY <4>1, <3>3, RecognisedKeeps, Zenon
    <3> QED
      BY <3>1, <3>2, <3>4, Zenon
  <2>2. CASE decide_observed # "alive"
    BY <2>2, <1>1, <1>2, SameSelf, SMTT(30)
  <2> QED
    BY <2>1, <2>2, Zenon
<1>4. /\ tick' \in Tick0 /\ tick'.pc \in {"probe", "save"} /\ tick'.task = tick.task
      /\ tick'.pc = "probe" => tick'.at = tick.at /\ Owners = {} /\ mem' = mem
      /\ tick'.pc = "save" => tick'.at = 0
  <2>1. CASE decide_observed = "consider_start"
    <3>1. Owners = {} /\ mem' = mem
      BY <2>1, <1>1, Observed
    <3>2. tick' = [tick EXCEPT !.pc = "probe", !.ended = ended]
      BY <2>1, <1>1
    <3> QED
      BY <3>1, <3>2, <1>2, Zenon DEF Tick0
  <2>2. CASE decide_observed # "consider_start"
    BY <2>2, <1>1, TickShapes
  <2> QED
    BY <2>1, <2>2, Zenon
<1>5. TypeInv'
  BY <1>1, <1>3, <1>4, TypeKept, Zenon DEF TypeInv
<1>6. BudgetInv'
  <2>1. Keeps(disk', disk) /\ Keeps(mem', mem)
    BY <1>1, <1>3, KeepsSelf DEF Keeps
  <2>2. now <= now' /\ tick'.at <= now'
    BY <1>1, <1>2, <1>4
  <2>3. tick'.pc \in {"observe", "probe"} => Until(mem'.starts, tick'.at)
    BY <1>2, <1>4, Zenon
  <2> QED
    BY <2>1, <2>2, <2>3, <1>1, <1>2, <1>4, <1>5, BudgetTick, Zenon
<1>7. FormalInv'
  <2>1. disk.exhausted /\ ~mem'.exhausted => Until(mem'.starts, mem'.formal)
    <3> SUFFICES ASSUME disk.exhausted, ~mem'.exhausted PROVE Until(mem'.starts, mem'.formal)
      OBVIOUS
    <3>1. mem'.formal = LastStarted /\ Owners # {}
      BY <1>2, <1>3, Zenon
    <3>2. Until(mem.starts, LastStarted)
      BY <3>1, <1>2, Zenon DEF Sound, SoundAt
    <3>3. mem'.starts \in Seq(Start0)
      BY <1>3, ShapeFields, Zenon
    <3> QED
      BY <3>1, <3>2, <3>3, <1>2, <1>3, SameRecords, Zenon
  <2> QED
    BY <2>1, <1>1, <1>2, <1>4, Zenon DEF FormalInv
<1>8. GraceInv' /\ GraceKept' /\ SpawnsAlone'
  BY <1>1, <1>2, <1>3, <1>4 DEF IInv, GraceInv, InFlight, GraceKept, SpawnsAlone
<1> QED
  BY <1>5, <1>6, <1>7, <1>8 DEF IInv

\* The tick gives up before the start rows, with or without the grace.
LEMMA AsideKeeps ==
    ASSUME IInv, early_return \/ stand_aside
    PROVE  IInv'
<1>1. /\ TypeInv /\ UNCHANGED <<now, boot, procs, journal, ended, disk, graced>>
      /\ tick.pc \in {"observe", "probe"} /\ tick' = Saving(0)
      /\ mem' \in {mem, Graced(0)}
  BY Zenon DEF IInv, early_return, stand_aside, runtime
<1>2. /\ now \in Nat /\ mem \in State0 /\ InFlight /\ tick.at \in Nat /\ graced \in Int
      /\ mem.exhausted = disk.exhausted /\ tick.at >= graced /\ mem.lastEnd = disk.lastEnd
      /\ graced > 0 => mem.grace >= graced + Grace
  BY <1>1, ShapeFields, Zenon DEF TypeInv, InFlight, IInv, FormalInv, GraceInv
<1>3. /\ mem' \in State0 /\ mem'.starts = mem.starts /\ mem'.formal = mem.formal
      /\ mem'.exhausted = mem.exhausted /\ mem'.lastEnd = mem.lastEnd
      /\ mem'.grace \in {mem.grace, tick.at + Grace}
  <2>1. CASE mem' = mem
    BY <1>2, <2>1, Zenon
  <2>2. CASE mem' = Graced(0)
    BY <1>1, <1>2, <2>2, GracedKeeps, Zenon
  <2> QED
    BY <1>1, <2>1, <2>2, Zenon
<1>4. /\ tick' \in Tick0 /\ tick'.pc = "save" /\ tick'.at = 0 /\ tick'.at <= now'
  BY <1>1, <1>2, TickShapes, SMTT(30)
<1>5. TypeInv'
  BY <1>1, <1>3, <1>4, TypeKept, Zenon DEF TypeInv
<1>6. BudgetInv'
  <2>1. Keeps(disk', disk) /\ Keeps(mem', mem) /\ now <= now'
    BY <1>1, <1>2, <1>3, KeepsSelf, SameSelf, SMTT(30) DEF Keeps
  <2> QED
    BY <2>1, <1>1, <1>2, <1>4, <1>5, BudgetTick, Zenon
<1>7. FormalInv' /\ GraceKept' /\ SpawnsAlone'
  BY <1>1, <1>2, <1>3, <1>4, Zenon DEF FormalInv, GraceKept, SpawnsAlone
<1>8. GraceInv'
  <2>1. graced > 0 => mem'.grace >= graced + Grace
    BY <1>2, <1>3, ConstantTypes, ShapeFields, SMTT(30)
  <2> QED
    BY <2>1, <1>1, <1>2, <1>3, <1>4, SMTT(30) DEF IInv, GraceInv, InFlight
<1> QED
  BY <1>5, <1>6, <1>7, <1>8, SMTT(30) DEF IInv

\* What the start rows rest on: the state with its grace, and what a start means.
LEMMA Probed ==
    ASSUME IInv, tick.pc = "probe", NEW probed, probed = Graced(boot),
           NEW processes, processes = {p \in Procs : Alive(p)}
    PROVE  /\ probed \in State0 /\ probed.starts = mem.starts /\ probed.formal = mem.formal
           /\ probed.exhausted = disk.exhausted /\ probed.lastEnd = disk.lastEnd
           /\ graced > 0 => probed.grace >= graced + Grace
           /\ tick.task /\ graced = -1 => probed.grace >= tick.at + Grace
           /\ decide_start(processes, probed, tick.at, tick.task) = "start" =>
                  /\ \A p \in Procs : ~Alive(p)
                  /\ ~probed.exhausted
                  /\ tick.task => graced # -1 /\ (graced > 0 => tick.at >= graced + Grace)
                  /\ Cardinality(After(probed.starts, Floor(probed, tick.at))) < BudgetStarts
<1>1. /\ TypeInv /\ boot \in Nat /\ graced \in Int /\ tick.at \in Nat /\ tick.task \in BOOLEAN
      /\ mem.exhausted = disk.exhausted /\ mem.lastEnd = disk.lastEnd /\ disk.lastEnd \in Nat
      /\ tick.at >= graced /\ mem.grace \in Nat /\ Grace \in Nat /\ Grace > 0
      /\ graced = -1 => disk.lastEnd # 0 /\ disk.lastEnd < boot
      /\ graced > 0 => mem.grace >= graced + Grace
  BY ShapeFields, ConstantTypes, Zenon DEF IInv, TypeInv, FormalInv, GraceInv, InFlight
<1>2. /\ probed \in State0 /\ probed.starts = mem.starts /\ probed.formal = mem.formal
      /\ probed.exhausted = mem.exhausted /\ probed.lastEnd = mem.lastEnd
      /\ probed.grace = IF tick.task /\ grace_after_gap(mem.lastEnd, tick.at, boot)
                        THEN tick.at + Grace ELSE mem.grace
  BY <1>1, GracedKeeps, Zenon
<1>3. graced > 0 => probed.grace >= graced + Grace
  BY <1>1, <1>2, SMTT(30)
<1>4. tick.task /\ graced = -1 => probed.grace >= tick.at + Grace
  BY <1>1, <1>2, SMTT(30) DEF grace_after_gap
<1>5. ASSUME decide_start(processes, probed, tick.at, tick.task) = "start"
      PROVE  /\ \A p \in Procs : ~Alive(p)
             /\ ~probed.exhausted
             /\ tick.task => graced # -1 /\ (graced > 0 => tick.at >= graced + Grace)
             /\ Cardinality(After(probed.starts, Floor(probed, tick.at))) < BudgetStarts
  <2>1. /\ processes = {} /\ ~probed.exhausted /\ (tick.task => probed.grace <= tick.at)
        /\ Cardinality(After(probed.starts, Floor(probed, tick.at))) < BudgetStarts
    <3>1. probed \in State0 /\ tick.at \in Nat /\ tick.task \in BOOLEAN
      BY <1>1, <1>2, Zenon
    <3> QED
      BY <3>1, <1>5, StartDecided, Zenon
  <2>2. probed.grace \in Nat
    BY <1>2, ShapeFields, Zenon
  <2>3. tick.task => graced # -1 /\ (graced > 0 => tick.at >= graced + Grace)
    <3>1. graced \in Int /\ tick.at \in Nat /\ Grace \in Nat /\ Grace > 0
      BY <1>1, Zenon
    <3>2. tick.task => probed.grace <= tick.at
      BY <2>1, Zenon
    <3> QED
      BY <3>1, <3>2, <2>2, <1>3, <1>4, SMTT(30)
  <2> QED
    BY <2>1, <2>3, Zenon
<1> QED
  BY <1>1, <1>2, <1>3, <1>4, <1>5, Zenon

\* A start within the budget is recorded, in state.json or not.
LEMMA StartSound ==
    ASSUME IInv, tick.pc = "probe", TypeInv', UNCHANGED <<now, procs, journal>>,
           NEW probed \in State0, probed.starts = mem.starts, probed.formal = mem.formal,
           Cardinality(After(probed.starts, Floor(probed, tick.at))) < BudgetStarts,
           mem' = [probed EXCEPT !.starts = push_start(@, StartRecord(tick.at))],
           tick'.at = tick.at
    PROVE  SoundAt(mem', now', LastStarted', Owners', Count')
<1>1. /\ TypeInv /\ now \in Nat /\ tick \in Tick0 /\ tick' \in Tick0 /\ mem' \in State0
      /\ procs \in Seq(Process0) /\ tick.at \in Nat /\ tick.at <= now
      /\ Until(mem.starts, tick.at) /\ Sound(mem)
      /\ Owners # {} => tick.at <= LastStarted
  BY ShapeFields, Zenon DEF IInv, TypeInv, BudgetInv, InFlight
<1>2. LastStarted \in Nat /\ LastStarted' = LastStarted /\ Owners' = Owners
  BY <1>1, Untouched, StartedType, Zenon DEF LastStarted, LastOwner, TypeInv
<1>3. Count \in [Int -> Nat] /\ CountOf(procs, tick') \in [Int -> Nat]
  BY <1>1, CountType, Zenon DEF Count
<1>4. OneMore(CountOf(procs, tick'), Count, tick.at)
  BY <1>1, CountComes DEF Count
<1>5. SoundAt(probed, now, LastStarted, Owners, Count)
  BY <1>1 DEF Sound, SoundAt, Floor
<1>6. mem'.starts = push_start(probed.starts, StartRecord(tick.at)) /\ mem'.formal = probed.formal
  BY DEF State0
<1>7. SoundAt(mem', now, LastStarted, Owners, CountOf(procs, tick'))
  BY <1>1, <1>2, <1>3, <1>4, <1>5, <1>6, SoundPush, Zenon
<1> QED
  BY <1>2, <1>7, SMTT(30) DEF Count

\* The start rows: a start is recorded first, or there is none.
LEMMA ProbeKeeps ==
    ASSUME IInv, probe_start
    PROVE  IInv'
<1> DEFINE probed == Graced(boot)
           processes == {p \in Procs : Alive(p)}
           decision == decide_start(processes, probed, tick.at, tick.task)
<1>1. /\ TypeInv /\ UNCHANGED <<now, boot, procs, journal, ended, graced>> /\ tick.pc = "probe"
      /\ now \in Nat /\ tick \in Tick0 /\ tick.at \in Nat /\ tick.at <= now /\ InFlight
      /\ graced \in Int /\ tick.task \in BOOLEAN
  BY ShapeFields, Zenon DEF IInv, BudgetInv, TypeInv, probe_start, runtime, InFlight
<1>2. /\ probed \in State0 /\ probed.starts = mem.starts /\ probed.formal = mem.formal
      /\ probed.exhausted = disk.exhausted /\ probed.lastEnd = disk.lastEnd
      /\ graced > 0 => probed.grace >= graced + Grace
      /\ tick.task /\ graced = -1 => probed.grace >= tick.at + Grace
  BY <1>1, Probed, Zenon
<1>3. decision = "start" =>
          /\ \A p \in Procs : ~Alive(p)
          /\ ~probed.exhausted
          /\ tick.task => graced # -1 /\ (graced > 0 => tick.at >= graced + Grace)
          /\ Cardinality(After(probed.starts, Floor(probed, tick.at))) < BudgetStarts
  BY <1>1, Probed, Zenon
<1>4. \/ /\ decision = "start"
         /\ mem' = [probed EXCEPT !.starts = push_start(@, StartRecord(tick.at))]
         /\ tick' = [tick EXCEPT !.pc = "spawn"] /\ disk' = mem'
      \/ /\ decision = "start"
         /\ mem' = [probed EXCEPT !.starts = push_start(@, StartRecord(tick.at))]
         /\ tick' = Saving(tick.at) /\ disk' = disk
      \/ /\ mem' \in {[probed EXCEPT !.exhausted = TRUE], probed}
         /\ tick' = Saving(tick.at) /\ disk' = disk
  BY DEF probe_start
<1>5. Saving(tick.at) \in Tick0 /\ Saving(tick.at).pc = "save"
      /\ Saving(tick.at).at = tick.at /\ Saving(tick.at).task = tick.task
  BY <1>1, TickShapes, Zenon
<1>6. Procs' = Procs /\ Owners' = Owners /\ LastStarted' = LastStarted
  BY <1>1, Untouched
<1>7. disk.lastEnd <= now /\ boot <= now /\ graced >= -1 /\ graced <= now
      /\ (graced = -1 => disk.lastEnd # 0 /\ disk.lastEnd < boot)
      /\ (graced > 0 => disk.grace >= graced + Grace) /\ disk \in State0 /\ Sound(disk)
      /\ LastStarted <= now /\ LastStarted \in Nat
  BY <1>1, StartedType, Zenon DEF IInv, GraceInv, TypeInv, BudgetInv, LastStarted, LastOwner
<1> HIDE DEF probed, decision, processes
<1>8. ASSUME decision = "start",
             mem' = [probed EXCEPT !.starts = push_start(@, StartRecord(tick.at))]
      PROVE  /\ mem' \in State0 /\ mem'.formal = probed.formal /\ mem'.grace = probed.grace
             /\ mem'.lastEnd = probed.lastEnd /\ mem'.exhausted = probed.exhausted
  <2>1. /\ Until(mem.starts, tick.at) /\ Len(mem.starts) <= KeptStarts /\ Sorted(mem.starts)
        /\ mem.starts \in Seq(Start0)
    BY <1>1, ShapeFields, Zenon DEF IInv, BudgetInv, Sound, SoundAt, TypeInv
  <2>2. Floor(probed, tick.at) \in Int
    <3>1. probed.formal <= probed.formal /\ tick.at <= tick.at
      BY <1>1, <1>2, ShapeFields, SMTT(30)
    <3> QED
      BY <3>1, <1>1, <1>2, FloorLater, Zenon
  <2>3. Cardinality(After(mem.starts, Floor(probed, tick.at))) < BudgetStarts
    BY <1>2, <1>3, <1>8, SMTT(30)
  <2>4. push_start(mem.starts, StartRecord(tick.at)) \in Seq(Start0)
    BY <2>1, <2>2, <2>3, <1>1, PushStart, Zenon
  <2> QED
    BY <2>4, <1>2, <1>8, SMTT(30) DEF State0
<1>9. CASE /\ decision = "start"
           /\ mem' = [probed EXCEPT !.starts = push_start(@, StartRecord(tick.at))]
           /\ tick' = [tick EXCEPT !.pc = "spawn"] /\ disk' = mem'
  <2>1. /\ mem' \in State0 /\ mem'.formal = probed.formal /\ mem'.grace = probed.grace
        /\ mem'.lastEnd = probed.lastEnd /\ mem'.exhausted = probed.exhausted
    BY <1>8, <1>9
  <2>2. tick' \in Tick0 /\ tick'.pc = "spawn" /\ tick'.at = tick.at /\ tick'.task = tick.task
    BY <1>1, <1>9, SMTT(30) DEF Tick0
  <2>3. TypeInv'
    BY <2>1, <2>2, <1>1, <1>9, TypeKept, SMTT(30) DEF TypeInv
  <2>4. SoundAt(mem', now', LastStarted', Owners', Count')
    BY <2>2, <2>3, <1>1, <1>2, <1>3, <1>9, StartSound, Zenon
  <2>5. BudgetInv'
    BY <2>2, <2>4, <1>1, <1>6, <1>7, <1>9, Zenon DEF BudgetInv, Sound
  <2>6. FormalInv'
    BY <2>1, <2>2, <1>3, <1>9, SMTT(30) DEF FormalInv
  <2>7. GraceInv' /\ GraceKept'
    BY <2>1, <2>2, <1>1, <1>2, <1>3, <1>7, <1>9, Zenon DEF GraceInv, GraceKept, InFlight
  <2>8. SpawnsAlone'
    BY <1>1, <1>3, <1>6, <1>9, SMTT(30) DEF SpawnsAlone, Alive
  <2> QED
    BY <2>3, <2>5, <2>6, <2>7, <2>8, SMTT(30) DEF IInv
<1>10. CASE /\ decision = "start"
            /\ mem' = [probed EXCEPT !.starts = push_start(@, StartRecord(tick.at))]
            /\ tick' = Saving(tick.at) /\ disk' = disk
  <2>1. /\ mem' \in State0 /\ mem'.formal = probed.formal /\ mem'.grace = probed.grace
        /\ mem'.lastEnd = probed.lastEnd /\ mem'.exhausted = probed.exhausted
    BY <1>8, <1>10, SMTT(30)
  <2>2. tick' \in Tick0 /\ tick'.pc = "save" /\ tick'.at = tick.at /\ tick'.task = tick.task
    BY <1>5, <1>10, SMTT(30)
  <2>3. TypeInv'
    BY <2>1, <2>2, <1>1, <1>10, TypeKept, SMTT(30) DEF TypeInv
  <2>4. SoundAt(mem', now', LastStarted', Owners', Count')
    BY <2>2, <2>3, <1>1, <1>2, <1>3, <1>10, StartSound, SMTT(30)
  <2>5. Calm
    BY <2>2, <2>3, <1>1, CalmTick, SMTT(30)
  <2>6. SoundAt(disk, now', LastStarted', Owners', Count')
    BY <2>3, <2>5, <1>1, <1>7, SoundNext, SameSelf, Zenon
  <2>7. BudgetInv'
    BY <2>2, <2>4, <2>6, <1>1, <1>6, <1>7, <1>10, SMTT(30) DEF BudgetInv, Sound
  <2>8. FormalInv'
    BY <2>1, <2>2, <1>2, <1>10, SMTT(30) DEF FormalInv
  <2>9. GraceInv' /\ GraceKept' /\ SpawnsAlone'
    BY <2>1, <2>2, <1>1, <1>2, <1>7, <1>10, SMTT(30) DEF GraceInv, GraceKept, SpawnsAlone, InFlight
  <2> QED
    BY <2>3, <2>7, <2>8, <2>9 DEF IInv
<1>11. CASE /\ mem' \in {[probed EXCEPT !.exhausted = TRUE], probed}
            /\ tick' = Saving(tick.at) /\ disk' = disk
  <2>1. /\ mem' \in State0 /\ mem'.formal = probed.formal /\ mem'.grace = probed.grace
        /\ mem'.lastEnd = probed.lastEnd /\ mem'.exhausted \in {TRUE, probed.exhausted}
        /\ mem'.starts = probed.starts
    BY <1>2, <1>11, Zenon DEF State0
  <2>2. tick' \in Tick0 /\ tick'.pc = "save" /\ tick'.at = tick.at /\ tick'.task = tick.task
    BY <1>5, <1>11
  <2>3. TypeInv'
    BY <2>1, <2>2, <1>1, <1>11, TypeKept, Zenon DEF TypeInv
  <2>4. BudgetInv'
    <3>1. Keeps(disk', disk) /\ Keeps(mem', mem) /\ now <= now' /\ tick'.at <= now'
      BY <2>1, <2>2, <1>1, <1>2, <1>11, KeepsSelf, SameSelf, SMTT(30) DEF Keeps
    <3> QED
      BY <3>1, <2>2, <2>3, <1>1, BudgetTick, Zenon
  <2>5. FormalInv'
    BY <2>1, <2>2, <1>2, <1>11, Zenon DEF FormalInv
  <2>6. GraceInv' /\ GraceKept' /\ SpawnsAlone'
    BY <2>1, <2>2, <1>1, <1>2, <1>7, <1>11, Zenon DEF GraceInv, GraceKept, SpawnsAlone, InFlight
  <2> QED
    BY <2>3, <2>4, <2>5, <2>6 DEF IInv
<1> QED
  BY <1>4, <1>9, <1>10, <1>11

\* The start is made, fails, or is made and reported as failed.
LEMMA SpawnKeeps ==
    ASSUME IInv, spawn
    PROVE  IInv'
<1>1. /\ TypeInv /\ UNCHANGED <<now, boot, journal, disk, graced>> /\ tick.pc = "spawn"
      /\ now \in Nat /\ tick \in Tick0 /\ tick.at \in Nat /\ tick.at <= now /\ InFlight
      /\ mem \in State0 /\ Sound(mem) /\ Sound(disk) /\ disk \in State0
      /\ procs \in Seq(Process0) /\ Len(procs) \in Nat
  BY ShapeFields DEF IInv, BudgetInv, TypeInv, spawn, InFlight
<1> DEFINE r == [by |-> "tick", at |-> tick.at, st |-> "starting", why |-> "none"]
<1>2. /\ \/ procs' = Append(procs, r) /\ ended' \in EndKind
         \/ procs' = procs /\ ended' = ended
      /\ \/ /\ tick' = [tick EXCEPT !.pc = "wait", !.ended = "none",
                                    !.proc = Len(procs'), !.since = now]
            /\ mem' = mem /\ procs' = Append(procs, r)
         \/ Ended(FALSE, 0)
  BY Zenon DEF spawn, Started, EndKind, Categories
<1>3. r \in Process0 /\ r.at = tick.at /\ r.st = "starting"
  BY <1>1, Zenon DEF Process0, Starter, Stage, Categories
<1> HIDE DEF r
<1>4. /\ mem' \in State0 /\ SameTimes(mem'.starts, mem.starts)
      /\ mem'.formal = mem.formal /\ mem'.exhausted = mem.exhausted
      /\ mem'.grace = mem.grace /\ mem'.lastEnd = mem.lastEnd
      /\ tick' \in Tick0 /\ tick'.pc \in {"wait", "save"} /\ tick'.at = tick.at
      /\ tick'.task = tick.task
  <2>1. CASE Ended(FALSE, 0)
    <3>1. /\ mem' \in State0 /\ SameTimes(mem'.starts, mem.starts)
          /\ mem'.formal = mem.formal /\ mem'.exhausted = mem.exhausted
          /\ mem'.grace = mem.grace /\ mem'.lastEnd = mem.lastEnd
          /\ tick' = Saving(tick.at)
      BY <2>1, <1>1, EndedKeeps, Zenon
    <3> QED
      BY <3>1, <1>1, TickShapes, Zenon
  <2>2. CASE /\ tick' = [tick EXCEPT !.pc = "wait", !.ended = "none",
                                    !.proc = Len(procs'), !.since = now]
             /\ mem' = mem /\ procs' = Append(procs, r)
    <3>1. Len(procs') \in Nat
      BY <2>2, <1>1, <1>3, ProcAppended
    <3>2. "none" \in EndKind
      BY DEF EndKind, Categories
    <3>3. tick' \in Tick0 /\ tick'.pc = "wait" /\ tick'.at = tick.at /\ tick'.task = tick.task
      BY <3>1, <3>2, <2>2, <1>1, Zenon DEF Tick0
    <3> QED
      BY <3>3, <2>2, <1>1, SameSelf
  <2> QED
    BY <2>1, <2>2, <1>2, Zenon
<1>5. TypeInv' /\ NoMore(Count', Count) /\ Owners' = Owners
  <2>1. CASE procs' = Append(procs, r) /\ ended' \in EndKind
    <3>1. /\ procs' \in Seq(Process0) /\ DOMAIN procs' = DOMAIN procs \union {Len(procs) + 1}
          /\ Len(procs) + 1 \notin DOMAIN procs /\ procs'[Len(procs) + 1] = r
          /\ \A p \in DOMAIN procs : procs'[p] = procs[p]
      BY <2>1, <1>1, <1>3, ProcAppended, Zenon
    <3>2. Owners' = Owners
      BY <3>1, <1>3, Zenon DEF Owners, Procs
    <3>3. TypeInv'
      BY <3>1, <3>2, <2>1, <1>1, <1>4, Zenon DEF TypeInv
    <3>4. NoMore(CountOf(procs', tick'), CountOf(procs, tick))
      BY <3>1, <1>1, <1>3, <1>4, CountMade, Zenon
    <3> QED
      BY <3>2, <3>3, <3>4 DEF Count
  <2>2. CASE procs' = procs /\ ended' = ended
    <3>1. TypeInv'
      BY <2>2, <1>1, <1>4, TypeKept, Zenon DEF TypeInv
    <3>2. Calm
      BY <3>1, <2>2, <1>1, <1>4, CalmTick, SMTT(30)
    <3> QED
      BY <3>1, <3>2, <2>2, <1>1, Untouched, Zenon DEF Calm
  <2> QED
    BY <2>1, <2>2, <1>2
<1>6. LastStarted' = LastStarted /\ LastStarted \in Nat /\ LastStarted <= now
  BY <1>1, StartedType, Zenon DEF LastStarted, LastOwner, IInv, BudgetInv, TypeInv
<1>7. Calm
  BY <1>1, <1>5, <1>6, SMTT(30) DEF Calm
<1>8. BudgetInv'
  <2>1. SoundAt(disk, now', LastStarted', Owners', Count')
    BY <1>1, <1>5, <1>7, SoundNext, SameSelf, Zenon
  <2>2. SoundAt(mem', now', LastStarted', Owners', Count')
    BY <1>1, <1>4, <1>5, <1>7, SoundNext, Zenon
  <2> QED
    BY <2>1, <2>2, <1>1, <1>4, <1>6, Zenon DEF BudgetInv, Sound
<1>9. FormalInv' /\ GraceInv' /\ GraceKept' /\ SpawnsAlone'
  BY <1>1, <1>4, Zenon DEF IInv, FormalInv, GraceInv, GraceKept, SpawnsAlone, InFlight
<1> QED
  BY <1>5, <1>8, <1>9, SMTT(30) DEF IInv

\* The wait ends, with the start's result.
LEMMA WaitKeeps ==
    ASSUME IInv, wait_ready
    PROVE  IInv'
<1>1. /\ TypeInv /\ UNCHANGED <<now, boot, procs, journal, ended, disk, graced>>
      /\ tick.pc = "wait" /\ now \in Nat /\ tick.at \in Nat /\ tick.at <= now /\ InFlight
  BY ShapeFields, Zenon DEF IInv, BudgetInv, TypeInv, wait_ready, runtime, InFlight
<1>2. PICK open \in BOOLEAN, epoch \in Nat : Ended(open, epoch)
  <2>1. Owners \subseteq Nat
    BY <1>1 DEF TypeInv, Owners, Procs
  <2> QED
    BY <2>1, Zenon DEF wait_ready
<1>3. /\ mem' \in State0 /\ SameTimes(mem'.starts, mem.starts)
      /\ mem'.formal = mem.formal /\ mem'.exhausted = mem.exhausted
      /\ mem'.grace = mem.grace /\ mem'.lastEnd = mem.lastEnd
      /\ tick' = Saving(tick.at)
  BY <1>1, <1>2, EndedKeeps, Zenon
<1>4. tick' \in Tick0 /\ tick'.pc = "save" /\ tick'.at = tick.at /\ tick'.task = tick.task
  BY <1>1, <1>3, TickShapes, Zenon
<1>5. TypeInv'
  BY <1>1, <1>3, <1>4, TypeKept, Zenon DEF TypeInv
<1>6. BudgetInv'
  <2>1. Keeps(disk', disk) /\ Keeps(mem', mem) /\ now <= now' /\ tick'.at <= now'
    BY <1>1, <1>3, <1>4, KeepsSelf, SMTT(30) DEF Keeps
  <2> QED
    BY <2>1, <1>1, <1>4, <1>5, BudgetTick, Zenon
<1>7. FormalInv' /\ GraceInv' /\ GraceKept' /\ SpawnsAlone'
  BY <1>1, <1>3, <1>4, Zenon DEF IInv, FormalInv, GraceInv, GraceKept, SpawnsAlone, InFlight
<1> QED
  BY <1>5, <1>6, <1>7, SMTT(30) DEF IInv

\* The tick ends, and its state is state.json or lost.
LEMMA SaveKeeps ==
    ASSUME IInv, save
    PROVE  IInv'
<1>1. /\ TypeInv /\ UNCHANGED <<now, boot, procs, journal, ended>>
      /\ tick.pc = "save" /\ tick' = NoTick /\ mem' = FreshState
      /\ \/ /\ disk' = [mem EXCEPT !.lastEnd = IF tick.task THEN now ELSE @]
            /\ graced' = IF tick.task /\ graced = -1 THEN tick.at ELSE graced
         \/ disk' = disk /\ graced' = graced
  BY DEF IInv, save, runtime
<1>2. /\ now \in Nat /\ mem \in State0 /\ disk \in State0 /\ InFlight /\ tick.at \in Nat
      /\ tick.at <= now /\ graced \in Int /\ tick.task \in BOOLEAN
  BY <1>1, ShapeFields DEF IInv, BudgetInv, TypeInv, InFlight
<1>3. tick' \in Tick0 /\ tick'.pc = "idle" /\ tick'.at = 0 /\ tick'.at <= now' /\ mem' \in State0
  BY <1>1, <1>2, TickShapes, SMTT(30)
<1>4. \/ /\ disk' \in State0 /\ disk'.starts = mem.starts /\ disk'.formal = mem.formal
         /\ disk'.grace = mem.grace /\ disk'.lastEnd = IF tick.task THEN now ELSE mem.lastEnd
         /\ graced' = IF tick.task /\ graced = -1 THEN tick.at ELSE graced
      \/ disk' = disk /\ graced' = graced
  BY <1>1, <1>2, Zenon DEF State0
<1>5. TypeInv'
  <2>1. disk' \in State0 /\ graced' \in Int
    BY <1>2, <1>4, SMTT(30)
  <2> QED
    BY <2>1, <1>1, <1>3, TypeKept DEF TypeInv
<1>6. BudgetInv'
  <2>1. (Keeps(disk', disk) \/ Keeps(disk', mem)) /\ now <= now'
    BY <1>1, <1>2, <1>4, KeepsSelf, SameSelf, SMTT(30) DEF Keeps
  <2> QED
    BY <2>1, <1>1, <1>2, <1>3, <1>5, BudgetTick, SMTT(30)
<1>7. FormalInv' /\ GraceKept' /\ SpawnsAlone'
  BY <1>3, Zenon DEF FormalInv, GraceKept, SpawnsAlone
<1>8. GraceInv'
  <2>1. /\ boot <= now /\ disk.lastEnd <= now /\ mem.lastEnd = disk.lastEnd
        /\ graced >= -1 /\ graced <= now
        /\ (graced = -1 => disk.lastEnd # 0 /\ disk.lastEnd < boot)
        /\ (graced > 0 => disk.grace >= graced + Grace)
        /\ (graced > 0 => mem.grace >= graced + Grace)
        /\ (tick.task /\ graced = -1 /\ tick.at > 0 => mem.grace >= tick.at + Grace)
    BY <1>1, <1>2 DEF IInv, GraceInv
  <2> QED
    BY <2>1, <1>1, <1>2, <1>3, <1>4, SMTT(30) DEF GraceInv, InFlight
<1> QED
  BY <1>5, <1>6, <1>7, <1>8, SMTT(30) DEF IInv

\* The first state: no process, no record.
LEMMA InitHolds ==
    ASSUME Init
    PROVE  IInv
<1>1. /\ now = 1 /\ boot = 1 /\ procs = <<>> /\ journal = <<>> /\ ended = "none"
      /\ disk = FreshState /\ mem = FreshState /\ tick = NoTick /\ graced = 0
  BY DEF Init
<1>2. /\ NoTick \in Tick0 /\ NoTick.pc = "idle" /\ NoTick.at = 0
  BY Zenon DEF NoTick, Tick0, EndKind, Categories
<1>3. /\ FreshState \in State0 /\ FreshState.starts = <<>> /\ FreshState.formal = 0
      /\ FreshState.lastEnd = 0
  BY DEF FreshState, State0
<1>4. Owners = {} /\ LastStarted = 0
  BY <1>1 DEF Owners, Procs, LastStarted
<1>5. TypeInv
  BY <1>1, <1>2, <1>3, <1>4, SMTT(30) DEF TypeInv, EndKind, Categories
<1>6. \A F \in Int : Count[F] = 0 /\ Cardinality(After(FreshState.starts, F)) = 0
  <2> TAKE F \in Int
  <2>1. TickStarts(procs, F) = {} /\ After(FreshState.starts, F) = {}
    BY <1>1, <1>3, SMTT(30) DEF TickStarts, After
  <2>2. Coming(tick, F) = 0
    BY <1>1, <1>2, SMTT(30) DEF Coming
  <2>3. Count[F] = Cardinality(TickStarts(procs, F)) + Coming(tick, F)
    BY DEF Count, CountOf
  <2> QED
    BY <2>1, <2>2, <2>3, FS_EmptySet, SMTT(30)
<1>7. Floor(FreshState, now) \in Int
  BY <1>1, <1>3, ConstantTypes, SMTT(30) DEF Floor, Later
<1>8. Sound(disk)
  <2>1. Covers(FreshState.starts, Floor(FreshState, now), Count)
    BY <1>6 DEF Covers
  <2>2. Cardinality(After(FreshState.starts, Floor(FreshState, now))) <= BudgetStarts
    BY <1>6, <1>7, ConstantTypes, SMTT(30)
  <2>3. Len(FreshState.starts) <= KeptStarts
    BY <1>3, ConstantTypes, SMTT(30)
  <2>4. Sorted(FreshState.starts) /\ Until(FreshState.starts, now)
    BY <1>3, SMTT(30) DEF Sorted, Until
  <2> QED
    BY <2>1, <2>2, <2>3, <2>4, <1>1, <1>3, <1>4, SMTT(30) DEF Sound, SoundAt
<1>9. BudgetInv
  BY <1>1, <1>2, <1>4, <1>8, SMTT(30) DEF BudgetInv, InFlight
<1>10. FormalInv /\ GraceInv /\ SpawnsAlone /\ GraceKept
  BY <1>1, <1>2, <1>3, SMTT(30) DEF FormalInv, GraceInv, InFlight, SpawnsAlone, GraceKept
<1> QED
  BY <1>5, <1>9, <1>10, SMTT(30) DEF IInv

\* Every step keeps the invariant.
LEMMA NextKeeps ==
    ASSUME IInv, [Next]_vars
    PROVE  IInv'
<1>1. TypeInv
  BY DEF IInv
<1>2. CASE pass \/ UNCHANGED vars
  BY <1>2, PassKeeps, SMTT(30)
<1>3. CASE reboot
  BY <1>3, RebootKeeps, SMTT(30)
<1>4. CASE install
  BY <1>4, InstallKeeps, SMTT(30)
<1>5. CASE Others
  BY <1>1, <1>5, OthersStep, RuntimeKeeps, SMTT(30)
<1>6. CASE \E task \in BOOLEAN : run_once(task)
  BY <1>6, RunOnceKeeps, SMTT(30)
<1>7. CASE observe
  BY <1>7, ObserveKeeps, SMTT(30)
<1>8. CASE probe_start
  BY <1>8, ProbeKeeps, SMTT(30)
<1>9. CASE spawn
  BY <1>9, SpawnKeeps, SMTT(30)
<1>10. CASE wait_ready
  BY <1>10, WaitKeeps, SMTT(30)
<1>11. CASE save
  BY <1>11, SaveKeeps, SMTT(30)
<1>12. CASE early_return \/ stand_aside
  BY <1>12, AsideKeeps, SMTT(30)
<1>13. CASE killed
  BY <1>13, KilledKeeps, SMTT(30)
<1> QED
  BY <1>2, <1>3, <1>4, <1>5, <1>6, <1>7, <1>8, <1>9, <1>10, <1>11, <1>12, <1>13, Zenon
     DEF Next, TickStep, Others

\* The invariant holds in every state the watchdog and its world reach.
THEOREM Invariance == Spec => []IInv
<1>1. Init => IInv
  BY InitHolds
<1>2. IInv /\ [Next]_vars => IInv'
  BY NextKeeps
<1> QED
  BY <1>1, <1>2, PTL, SMTT(30) DEF Spec

\* Every variable holds values of its kind, whatever processes, ticks and faults there are,
\* and a process that holds owner.lock has a record in the owner journal.
THEOREM TypesAreKept == Spec => []TypeInv
<1>1. IInv => TypeInv
  BY DEF IInv
<1> QED
  BY <1>1, Invariance, PTL

\* Within any budget window ticks start the Runtime at most BudgetStarts times after the
\* formal start state.json knows, whichever ticks were killed or failed to save.
THEOREM BudgetIsKept == Spec => []BudgetKept
<1>1. IInv => BudgetKept
  <2> SUFFICES ASSUME IInv PROVE BudgetKept
    OBVIOUS
  <2> DEFINE F == Floor(disk, now)
  <2>1. /\ now \in Nat /\ disk \in State0 /\ procs \in Seq(Process0) /\ tick \in Tick0
        /\ disk.starts \in Seq(Start0) /\ disk.formal \in Nat
    BY ShapeFields, Zenon DEF IInv, TypeInv
  <2>2. F \in Int /\ F = Later(now - BudgetWindow, disk.formal)
    BY <2>1, ConstantTypes, SMTT(30) DEF Floor, Later
  <2>3. /\ Covers(disk.starts, F, Count)
        /\ Cardinality(After(disk.starts, F)) <= BudgetStarts
    BY Zenon DEF IInv, BudgetInv, Sound, SoundAt
  <2> HIDE DEF F
  <2>4. F >= F
    BY <2>2
  <2>5. Count[F] <= Cardinality(After(disk.starts, F))
    BY <2>2, <2>3, <2>4, SMTT(30) DEF Covers
  <2>6. /\ Cardinality(TickStarts(procs, F)) \in Nat /\ Coming(tick, F) \in Nat
        /\ Count[F] = Cardinality(TickStarts(procs, F)) + Coming(tick, F)
    BY <2>1, <2>2, CountType, Zenon DEF Count
  <2>7. Cardinality(After(disk.starts, F)) \in Nat
    BY <2>1, <2>2, AfterCount, Zenon
  <2>8. Cardinality(TickStarts(procs, F)) <= BudgetStarts
    BY <2>3, <2>5, <2>6, <2>7, ConstantTypes
  <2> QED
    BY <2>2, <2>8, Zenon DEF BudgetKept, TickStarts, Procs
<1> QED
  BY <1>1, Invariance, PTL, SMTT(30)

\* A tick starts the Runtime only while no process that a tick or `actingctl start` began
\* is left.
THEOREM SpawnsAreAlone == Spec => []SpawnsAlone
<1>1. IInv => SpawnsAlone
  BY DEF IInv
<1> QED
  BY <1>1, Invariance, PTL

\* From the first task tick after a reboot until the end of its grace no task tick starts
\* the Runtime.
THEOREM GraceIsKept == Spec => []GraceKept
<1>1. IInv => GraceKept
  BY DEF IInv
<1> QED
  BY <1>1, Invariance, PTL

\* Exhaustion leaves state.json only with a formal start after all its start records.
THEOREM OnlyFormalClears == Spec => FormalClears
<1> DEFINE Cleared == disk.exhausted /\ ~disk'.exhausted => Until(disk'.starts, disk'.formal)
<1>1. IInv /\ [Next]_vars => [Cleared]_vars
  <2> SUFFICES ASSUME IInv, [Next]_vars, disk.exhausted, ~disk'.exhausted
               PROVE  Until(disk'.starts, disk'.formal)
    OBVIOUS
  <2>1. disk \in State0 /\ mem \in State0 /\ disk' # disk
    BY DEF IInv, TypeInv
  <2>2. save \/ probe_start \/ install
    <3>1. Others => disk' = disk
      BY OthersStep, Zenon DEF IInv, RuntimeStep, watchdog
    <3> QED
      BY <3>1, <2>1, Zenon
         DEF Next, TickStep, Others, pass, reboot, run_once, observe, early_return, stand_aside,
             spawn, wait_ready, killed, watchdog, vars
  <2>3. CASE save
    <3>1. /\ tick.pc = "save" /\ disk'.starts = mem.starts /\ disk'.formal = mem.formal
          /\ disk'.exhausted = mem.exhausted
      BY <2>1, <2>3, Zenon DEF save, State0
    <3> QED
      BY <3>1, Zenon DEF IInv, FormalInv
  <2>4. CASE install
    BY <2>1, <2>4, SMTT(30) DEF install, State0
  <2>5. CASE probe_start
    <3>1. IInv' /\ tick.pc = "probe"
      BY <2>5, ProbeKeeps, SMTT(30) DEF probe_start
    <3>2. mem.exhausted = disk.exhausted /\ TypeInv /\ boot \in Nat
      BY <3>1, Zenon DEF IInv, FormalInv, TypeInv
    <3>3. /\ disk' = [Graced(boot) EXCEPT !.starts = push_start(@, StartRecord(tick.at))]
      BY <2>1, <2>5 DEF probe_start
    <3>4. Graced(boot) \in State0 /\ Graced(boot).exhausted = mem.exhausted
      BY <3>2, GracedKeeps, Zenon
    <3>5. disk'.exhausted = Graced(boot).exhausted
      BY <3>3, <3>4 DEF State0
    <3> QED
      BY <3>2, <3>4, <3>5, Zenon
  <2> QED
    BY <2>2, <2>3, <2>4, <2>5, SMTT(30)
<1>2. [][Cleared]_vars => FormalClears
  BY DEF FormalClears, Until
<1> QED
  BY <1>1, <1>2, Invariance, PTL, SMTT(30) DEF Spec

\* Of several numbers one is the least.
LEMMA Least == WellOrdered
<1>1. ASSUME NEW T \in SUBSET Nat, T # {}
      PROVE  \E n \in T : \A l \in T : n <= l
  <2>1. PICK n \in T : \A l \in T : ~(<<l, n>> \in OpToRel(<, Nat))
    BY <1>1, NatLessThanWellFounded, WFMin, Zenon
  <2>2. \A l \in T : <<l, n>> \in OpToRel(<, Nat) <=> l < n
    BY DEF OpToRel
  <2>3. \A l \in T : ~(l < n)
    BY <2>1, <2>2, Zenon
  <2>4. \A l \in T : n <= l
    BY <2>3, SMT
  <2> QED
    BY <2>4, Zenon
<1> QED
  BY <1>1, Zenon DEF WellOrdered

\* Whatever happens between them, no tick starts the Runtime when the process that ended
\* last before it looked had been asked to stop, had stopped with a fatal outcome or had
\* been refused with one: the journal and the start logs go on telling of it.
THEOREM HoldsAreKept == Spec => []HoldsStay
<1>1. Init => HoldInv
  BY FilesInit
<1>2. TypeInv /\ HoldInv /\ [Next]_vars => HoldInv'
  <2> SUFFICES ASSUME TypeInv, HoldInv, [Next]_vars PROVE HoldInv'
    OBVIOUS
  <2>1. FilesInv /\ TickOK
    BY Zenon DEF HoldInv
  <2>2. FilesInv' /\ TickOK'
    BY <2>1, Least, FilesKept, TickKept, Zenon
  <2> QED
    BY <2>2, Zenon DEF HoldInv
<1>3. HoldInv => HoldsStay
  BY Zenon DEF HoldInv, TickOK, HoldsStay, Held
<1>4. Spec => []TypeInv
  BY TypesAreKept
<1> QED
  BY <1>1, <1>2, <1>3, <1>4, PTL DEF Spec

=============================================================================
