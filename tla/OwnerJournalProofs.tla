------------------------- MODULE OwnerJournalProofs --------------------------
(***************************************************************************)
(* The owner journal keeps every acknowledged record and implements the    *)
(* log of OwnerLog, for every width of a line and of a checkpoint and any  *)
(* number of records, folds, failures and crashes, where the file system   *)
(* keeps the order of a growing fold and a failed append is the guard's    *)
(* last.                                                                   *)
(***************************************************************************)
EXTENDS OwnerJournal, TLAPS

-----------------------------------------------------------------------------
\* Journals and what they say.

Text == [revision : Nat, log : Seq(Kind), folded : BOOLEAN]

\* Every line is whole and follows the one before it.
Formed(f) ==
    /\ f \in Seq(Cell) /\ Len(f) > 0
    /\ IsEnd(f[Len(f)])
    /\ Whole(f) /\ Consecutive(f)
    /\ \A k \in DOMAIN f : f[k].at \in 1..f[k].of
    /\ \A k \in Ends(f) : k - f[k].of \in Ends(f) \cup {0}

\* The lines of f say L: the first line its beginning, the others a record each.
Says(f, L) ==
    LET n == Len(f[1].text.log) IN
    /\ L \in Seq(Kind)
    /\ f[Len(f)].text.revision = Len(L)
    /\ \A k \in DOMAIN f : f[k].text.revision <= Len(L)
    /\ n \in 1..Len(L)
    /\ \A r \in 1..n : L[r] = f[1].text.log[r]
    /\ \A r \in (n + 1)..Len(L) : \E k \in Ends(f) : /\ f[k].text.revision = r
                                                     /\ f[k].text.log = <<L[r]>>
    /\ \A k, l \in Ends(f) : f[k].text.revision = f[l].text.revision =>
                                 f[k].text = f[l].text

Good(f, L) == Formed(f) /\ Says(f, L)

\* f, and behind it the first n cells of a record's line.
Torn(f, r, k, n) == f \o SubSeq(RecordLine(r, k), 1, n)

-----------------------------------------------------------------------------
\* What the disk holds of the log L.

\* The fold of the side file s is done: the journal g is its image, or goes on with
\* the record that follows it.
Ahead(g, s, L) ==
    \/ g = s.image /\ s.through = Len(L)
    \/ \E k \in Kind : IsPrefix(s.image \o RecordLine(s.through + 1, k), g)

\* A side file that leaves the journal g as it is.
Beside(g, s, L) ==
    s # None => /\ s \in SideFile
                /\ s.sealed => IsPrefix(s.predecessor, g) \/ Ahead(g, s, L)

\* A whole journal, and perhaps the beginning of the next record.
Settled(f, s, L) ==
    LET g == Complete(f) IN
    /\ Good(g, L)
    /\ Beside(g, s, L)
    /\ \E k \in Kind, n \in 0..(Width - 1) : f = Torn(g, Len(L) + 1, k, n)

\* The cells of m and of p while m is written over p: a shrinking file keeps its
\* length until it has m's; a growing one begins with what is written of m.
Shrinking(f, m, p) ==
    /\ Len(m) <= Len(p)
    /\ Len(f) \in {Len(m), Len(p)}
    /\ \A i \in DOMAIN f : f[i] = p[i] \/ (i <= Len(m) /\ f[i] = m[i])

Growing(f, m, p, j) ==
    /\ Len(p) < Len(m)
    /\ Len(f) = IF j > Len(p) THEN j ELSE Len(p)
    /\ \A i \in DOMAIN f : f[i] = IF i <= j THEN m[i] ELSE p[i]

Mixed(f, m, p) == Shrinking(f, m, p) \/ \E j \in 0..Len(m) : Growing(f, m, p, j)

\* h is f with the cell c at k, which may be just behind f.
Written(h, f, k, c) ==
    LET n == IF k > Len(f) THEN k ELSE Len(f) IN
    /\ h \in Seq(Cell) /\ Len(h) = n
    /\ \A i \in 1..n : h[i] = IF i = k THEN c ELSE f[i]

\* Both files of a fold say L, whatever has reached the journal.
Folding(f, s, L) ==
    /\ s \in SideFile /\ s.sealed
    /\ s.through = Len(L)
    /\ Good(s.image, L) /\ Good(s.predecessor, L)
    /\ s.image[1] # s.predecessor[1]
    /\ f \in Seq(Cell)
    /\ Mixed(f, s.image, s.predecessor)

\* The file system keeps the order of a growing fold, and a failed append, if there
\* is one, is the guard's last.
Orderly == Reorder \subseteq {"shrinks"} /\ FailingAppends \subseteq {"retain", "close"}

\* Of several numbers one is the least.
WellOrdered == \A T \in SUBSET Nat : T # {} => \E n \in T : \A l \in T : n <= l

-----------------------------------------------------------------------------
\* The inductive invariant.

Append0 == [by : {"start", "unlock", "change", "retain", "close"}, kind : Kind, cells : Nat]

\* The guard knows the journal.
Knowing ==
    pc \in {"append", "sync", "stage", "seal", "rewrite", "unlink"} \/ (pc = "ready" /\ ~failed)

\* The append under way is one that the log allows.
Allowed ==
    /\ pending \in Append0
    /\ Log!Follows(Last(acked), pending.kind)
    /\ pending.kind = "unconfirmed" => retained
    /\ pending.kind = "closed" => pending.by = "close"

Holds(L) ==
    /\ pc \in {"down", "clean", "repair", "read", "ready", "append", "sync",
               "stage", "seal", "rewrite", "unlink"}
    /\ revision \in Nat /\ tail \in Nat /\ retained \in BOOLEAN /\ failed \in BOOLEAN
    /\ acked \in Seq(Kind) /\ acked # <<>>
    /\ IsPrefix(acked, L)
    /\ Settled(file, side, L) \/ Folding(file, side, L)
    /\ pc \notin {"down", "ready", "repair", "rewrite"} \/ (pc = "ready" /\ ~failed) =>
          Settled(file, side, L)
    /\ pc \in {"repair", "rewrite"} => Folding(file, side, L)
    /\ pc = "read" => side = None
    /\ Knowing => revision = Len(acked)
    /\ Knowing /\ pc # "sync" => L = acked
    /\ pc \in {"stage", "seal", "unlink"} \/ (pc = "ready" /\ ~failed) => Complete(file) = file
    /\ pc \in {"append", "sync", "stage", "seal", "rewrite", "unlink"} => Allowed
    /\ pc \in {"stage", "seal", "rewrite", "unlink"} => pending.cells = 0
    /\ pc = "append" => /\ pending.cells < Width
                        /\ file = Torn(Complete(file), Len(acked) + 1, pending.kind, pending.cells)
    /\ pc = "sync" => L = Append(acked, pending.kind) /\ Complete(file) = file
    /\ pc \in {"stage", "seal", "rewrite", "unlink"} \/ (pc = "ready" /\ ~failed) =>
          Last(acked) # "closed" /\ (Last(acked) = "unconfirmed" => retained)
    /\ pc = "stage" => Uncompacted(file) >= 2
    /\ pc = "seal" => /\ side # None /\ ~side.sealed
                      /\ side.predecessor = file /\ side.through = Len(acked)
                      /\ Good(side.image, acked)
                      /\ side.image[1] # file[1]
    /\ pc = "unlink" => side # None /\ side.sealed /\ side.image = file

JournalInv == Holds(Recovered)

-----------------------------------------------------------------------------
\* Sequences by their elements.

LEMMA SameSequence ==
    ASSUME NEW S, NEW s \in Seq(S), NEW t \in Seq(S), Len(s) = Len(t),
           \A i \in 1..Len(s) : s[i] = t[i]
    PROVE  s = t
OBVIOUS

LEMMA PrefixElements ==
    ASSUME NEW S, NEW s \in Seq(S), NEW t \in Seq(S)
    PROVE  IsPrefix(s, t) <=> Len(s) <= Len(t) /\ \A i \in 1..Len(s) : s[i] = t[i]
BY DEF IsPrefix

LEMMA PartElements ==
    ASSUME NEW S, NEW s \in Seq(S), NEW m \in Nat, m <= Len(s)
    PROVE  /\ SubSeq(s, 1, m) \in Seq(S) /\ Len(SubSeq(s, 1, m)) = m
           /\ \A i \in 1..m : SubSeq(s, 1, m)[i] = s[i]
OBVIOUS

LEMMA RestElements ==
    ASSUME NEW S, NEW s \in Seq(S), NEW m \in Nat, m <= Len(s)
    PROVE  /\ SubSeq(s, m + 1, Len(s)) \in Seq(S)
           /\ Len(SubSeq(s, m + 1, Len(s))) = Len(s) - m
           /\ \A i \in 1..(Len(s) - m) : SubSeq(s, m + 1, Len(s))[i] = s[m + i]
OBVIOUS

\* The greatest and the least element of a set of numbers that has one.
LEMMA MaxIs ==
    ASSUME NEW S \in SUBSET Nat, NEW m \in S, \A n \in S : n <= m
    PROVE  Max(S) = m
<1>1. \E x \in S : \A y \in S : x >= y
  BY SMT
<1>2. Max(S) \in S /\ \A y \in S : Max(S) >= y
  BY <1>1, Zenon DEF Max
<1>3. Max(S) \in Nat /\ m \in Nat /\ Max(S) >= m /\ Max(S) <= m
  BY <1>2, Zenon
<1> QED
  BY <1>3, SMT

LEMMA MinIs ==
    ASSUME NEW S \in SUBSET Nat, NEW m \in S, \A n \in S : m <= n
    PROVE  Min(S) = m
<1>1. \E x \in S : \A y \in S : x =< y
  BY SMT
<1>2. Min(S) \in S /\ \A y \in S : Min(S) =< y
  BY <1>1, Zenon DEF Min
<1>3. Min(S) \in Nat /\ m \in Nat /\ Min(S) =< m /\ m <= Min(S)
  BY <1>2, Zenon
<1> QED
  BY <1>3, SMT

-----------------------------------------------------------------------------
\* Journals whose lines are whole.

\* A line's cells.
LEMMA LineCells ==
    ASSUME NEW text \in Text, NEW w \in Nat
    PROVE  /\ Line(text, w) \in Seq(Cell) /\ Len(Line(text, w)) = w
           /\ \A i \in 1..w : Line(text, w)[i] = [text |-> text, at |-> i, of |-> w]
<1>1. \A i \in 1..w : [text |-> text, at |-> i, of |-> w] \in Cell
  BY DEF Cell, Text
<1> QED
  BY <1>1 DEF Line

LEMMA RecordCells ==
    ASSUME NEW r \in Nat, NEW k \in Kind
    PROVE  LET text == [revision |-> r, log |-> <<k>>, folded |-> FALSE] IN
           /\ text \in Text
           /\ RecordLine(r, k) \in Seq(Cell) /\ Len(RecordLine(r, k)) = Width
           /\ \A i \in 1..Width :
                 RecordLine(r, k)[i] = [text |-> text, at |-> i, of |-> Width]
<1>1. [revision |-> r, log |-> <<k>>, folded |-> FALSE] \in Text
  BY DEF Text
<1>2. Width \in Nat
  BY JournalAssumption
<1> QED
  BY <1>1, <1>2, LineCells, Zenon DEF RecordLine

\* A whole journal is read as what it says.
LEMMA GoodReads ==
    ASSUME NEW f, NEW L, Good(f, L)
    PROVE  Complete(f) = f /\ Read(f) = L
<1>1. /\ f \in Seq(Cell) /\ Len(f) > 0 /\ Len(f) \in Nat /\ DOMAIN f = 1..Len(f)
      /\ Len(f) \in Ends(f) /\ Ends(f) \in SUBSET (1..Len(f))
  BY DEF Good, Formed, Ends
<1>2. Max(Ends(f) \cup {0}) = Len(f)
  <2> DEFINE S == Ends(f) \cup {0}
  <2>1. S \in SUBSET Nat /\ Len(f) \in S /\ \A n \in S : n <= Len(f)
    BY <1>1, SMT
  <2> HIDE DEF S
  <2>2. Max(S) = Len(f)
    BY <2>1, MaxIs, Zenon
  <2> QED
    BY <2>2 DEF S
<1>3. Complete(f) = f
  BY <1>1, <1>2 DEF Complete
<1>4. Entries(f) = L
  <2> DEFINE lead == f[1].text.log
             n == Len(lead)
             last == f[Len(f)].text.revision
             At(r) == CHOOSE k \in Ends(f) : f[k].text.revision = r
             behind(i) == f[At(n + i)].text.log[1]
             back == [i \in 1..(last - n) |-> behind(i)]
  <2>1. /\ L \in Seq(Kind) /\ last = Len(L) /\ n \in 1..Len(L)
        /\ \A r \in 1..n : L[r] = lead[r]
        /\ \A r \in (n + 1)..Len(L) : \E k \in Ends(f) : /\ f[k].text.revision = r
                                                         /\ f[k].text.log = <<L[r]>>
        /\ \A k, l \in Ends(f) : f[k].text.revision = f[l].text.revision =>
                                     f[k].text = f[l].text
    BY Zenon DEF Good, Says
  <2>2. lead \in Seq(Kind)
    <3>1. f[1] \in Cell
      BY <1>1, SMT
    <3> QED
      BY <3>1, Zenon DEF Cell
  <2>3. ASSUME NEW r \in (n + 1)..Len(L) PROVE f[At(r)].text.log[1] = L[r]
    <3>1. PICK k \in Ends(f) : f[k].text.revision = r /\ f[k].text.log = <<L[r]>>
      BY <2>1, <2>3, Zenon
    <3>2. At(r) \in Ends(f) /\ f[At(r)].text.revision = r
      BY <3>1, Zenon
    <3>3. f[At(r)].text = f[k].text
      BY <2>1, <3>1, <3>2, Zenon
    <3>4. f[At(r)].text.log = <<L[r]>>
      BY <3>1, <3>3, Zenon
    <3> HIDE DEF At
    <3> QED
      BY <3>4, SMT
  <2> HIDE DEF At
  <2>4. \A i \in 1..(last - n) : behind(i) = L[n + i]
    <3> SUFFICES ASSUME NEW i \in 1..(last - n) PROVE behind(i) = L[n + i]
      BY Zenon
    <3>1. n + i \in (n + 1)..Len(L)
      BY <2>1, SMT
    <3> QED
      BY <2>3, <3>1, Zenon
  <2> HIDE DEF lead, last, behind
  <2>5. back \in Seq(Kind) /\ Len(back) = Len(L) - n /\ \A i \in 1..(Len(L) - n) : back[i] = L[n + i]
    BY <2>1, <2>4, SMT
  <2> HIDE DEF back
  <2>6. lead \o back = L
    BY <2>1, <2>2, <2>5, SMT
  <2> QED
    BY <2>6, Zenon DEF Entries, lead, last, behind, back, At
<1>5. f # <<>>
  BY <1>1, SMT
<1>6. Whole(f) /\ Consecutive(f)
  BY Zenon DEF Good, Formed
<1> QED
  BY <1>3, <1>4, <1>5, <1>6, Zenon DEF Read

\* A line begun behind f.
LEMMA TornCells ==
    ASSUME NEW f \in Seq(Cell), NEW r \in Nat, NEW k \in Kind, NEW n \in 0..Width
    PROVE  LET t == Torn(f, r, k, n) IN
           /\ t \in Seq(Cell) /\ Len(t) = Len(f) + n
           /\ \A i \in 1..Len(f) : t[i] = f[i]
           /\ \A i \in 1..n : t[Len(f) + i] =
                 [text |-> [revision |-> r, log |-> <<k>>, folded |-> FALSE],
                  at |-> i, of |-> Width]
<1> DEFINE l == RecordLine(r, k)
           c(i) == [text |-> [revision |-> r, log |-> <<k>>, folded |-> FALSE],
                    at |-> i, of |-> Width]
<1>1. l \in Seq(Cell) /\ Len(l) = Width /\ \A i \in 1..Width : l[i] = c(i)
  BY RecordCells, Zenon
<1>2. n \in Nat /\ n <= Width /\ Width \in Nat
  BY JournalAssumption
<1> HIDE DEF l, c
<1>3. /\ SubSeq(l, 1, n) \in Seq(Cell) /\ Len(SubSeq(l, 1, n)) = n
      /\ \A i \in 1..n : SubSeq(l, 1, n)[i] = l[i]
  BY <1>1, <1>2, PartElements, SMT
<1>4. \A i \in 1..n : SubSeq(l, 1, n)[i] = c(i)
  BY <1>1, <1>2, <1>3, SMT
<1>5. /\ Torn(f, r, k, n) \in Seq(Cell) /\ Len(Torn(f, r, k, n)) = Len(f) + n
      /\ \A i \in 1..Len(f) : Torn(f, r, k, n)[i] = f[i]
      /\ \A i \in 1..n : Torn(f, r, k, n)[Len(f) + i] = c(i)
  <2> DEFINE part == SubSeq(l, 1, n)
  <2>1. part \in Seq(Cell) /\ Len(part) = n /\ \A i \in 1..n : part[i] = c(i)
    BY <1>3, <1>4, Zenon
  <2>2. Torn(f, r, k, n) = f \o part
    BY Zenon DEF Torn, l
  <2> HIDE DEF part
  <2>3. /\ f \o part \in Seq(Cell) /\ Len(f \o part) = Len(f) + Len(part)
        /\ \A i \in 1..Len(f) : (f \o part)[i] = f[i]
        /\ \A i \in 1..Len(part) : (f \o part)[Len(f) + i] = part[i]
    BY <2>1, SMT
  <2> QED
    BY <2>1, <2>2, <2>3, Zenon
<1> QED
  BY <1>5, Zenon DEF c

\* The last of the cells makes it a line.
LEMMA TornEnds ==
    ASSUME NEW f \in Seq(Cell), NEW r \in Nat, NEW k \in Kind, NEW n \in 0..Width
    PROVE  /\ n = Width => Ends(Torn(f, r, k, n)) = Ends(f) \cup {Len(f) + Width}
           /\ n < Width => Ends(Torn(f, r, k, n)) = Ends(f)
<1> DEFINE t == Torn(f, r, k, n)
<1>1. /\ t \in Seq(Cell) /\ Len(t) = Len(f) + n
      /\ \A i \in 1..Len(f) : t[i] = f[i]
      /\ \A i \in 1..n : t[Len(f) + i].at = i /\ t[Len(f) + i].of = Width
  <2>1. /\ t \in Seq(Cell) /\ Len(t) = Len(f) + n
        /\ \A i \in 1..Len(f) : t[i] = f[i]
        /\ \A i \in 1..n : t[Len(f) + i] =
              [text |-> [revision |-> r, log |-> <<k>>, folded |-> FALSE],
               at |-> i, of |-> Width]
    BY TornCells, Zenon
  <2> HIDE DEF t
  <2>2. \A i \in 1..n : t[Len(f) + i].at = i /\ t[Len(f) + i].of = Width
    <3> SUFFICES ASSUME NEW i \in 1..n
                 PROVE  t[Len(f) + i].at = i /\ t[Len(f) + i].of = Width
      BY Zenon
    <3>1. t[Len(f) + i] = [text |-> [revision |-> r, log |-> <<k>>, folded |-> FALSE],
                           at |-> i, of |-> Width]
      BY <2>1, Zenon
    <3> QED
      BY <3>1, SMT
  <2> QED
    BY <2>1, <2>2, Zenon
<1>2. /\ DOMAIN t = 1..(Len(f) + n) /\ DOMAIN f = 1..Len(f) /\ n \in Nat /\ Len(f) \in Nat
      /\ Width \in Nat /\ n <= Width
  BY <1>1, JournalAssumption, SMT
<1> HIDE DEF t
<1>3. \A i \in 1..Len(f) : i \in Ends(t) <=> i \in Ends(f)
  BY <1>1, <1>2, SMT DEF Ends, IsEnd
<1>4. \A i \in 1..n : Len(f) + i \in Ends(t) <=> i = Width
  BY <1>1, <1>2, SMT DEF Ends, IsEnd
<1>5. /\ Ends(t) \in SUBSET (1..(Len(f) + n)) /\ Ends(f) \in SUBSET (1..Len(f))
  BY <1>2, Zenon DEF Ends
<1>6. \A i \in 1..(Len(f) + n) : i \in 1..Len(f) \/ \E j \in 1..n : i = Len(f) + j
  <2> SUFFICES ASSUME NEW i \in 1..(Len(f) + n), i \notin 1..Len(f)
               PROVE  i - Len(f) \in 1..n /\ i = Len(f) + (i - Len(f))
    BY Zenon
  <2> QED
    BY <1>2, SMT
<1>7. ASSUME NEW i \in Ends(t)
      PROVE  i \in Ends(f) \/ (n = Width /\ i = Len(f) + Width)
  <2>1. CASE i \in 1..Len(f)
    BY <2>1, <1>3, <1>7, Zenon
  <2>2. CASE i \notin 1..Len(f)
    <3>1. PICK j \in 1..n : i = Len(f) + j
      BY <1>5, <1>6, <1>7, <2>2, Zenon
    <3>2. j = Width
      BY <1>4, <1>7, <3>1, Zenon
    <3> QED
      BY <1>2, <3>1, <3>2, SMT
  <2> QED
    BY <2>1, <2>2
<1>8. \A i \in Ends(f) : i \in Ends(t)
  BY <1>3, <1>5, Zenon
<1>9. n = Width => Len(f) + Width \in Ends(t)
  BY <1>2, <1>4, JournalAssumption, SMT
<1>10. n = Width => Ends(t) = Ends(f) \cup {Len(f) + Width}
  BY <1>7, <1>8, <1>9, Zenon
<1>11. n < Width => Ends(t) = Ends(f)
  <2>1. n < Width => n # Width
    BY <1>2, SMT
  <2> QED
    BY <2>1, <1>7, <1>8, Zenon
<1> QED
  BY <1>10, <1>11 DEF t

\* A torn append is cut: the journal before it is read.
LEMMA TornReads ==
    ASSUME NEW f, NEW L, Good(f, L), NEW r \in Nat, NEW k \in Kind,
           NEW n \in 0..Width, n < Width
    PROVE  Complete(Torn(f, r, k, n)) = f /\ Read(Torn(f, r, k, n)) = L
<1> DEFINE t == Torn(f, r, k, n)
<1>1. /\ f \in Seq(Cell) /\ Len(f) > 0 /\ Len(f) \in Nat /\ DOMAIN f = 1..Len(f)
      /\ Len(f) \in Ends(f) /\ Ends(f) \in SUBSET (1..Len(f))
  BY DEF Good, Formed, Ends
<1>2. /\ t \in Seq(Cell) /\ Len(t) = Len(f) + n
      /\ \A i \in 1..Len(f) : t[i] = f[i]
  BY <1>1, TornCells, Zenon
<1>3. Ends(t) = Ends(f)
  <2>1. f \in Seq(Cell)
    BY <1>1
  <2> QED
    BY <2>1, TornEnds
<1> HIDE DEF t
<1>4. Max(Ends(t) \cup {0}) = Len(f)
  <2> DEFINE S == Ends(t) \cup {0}
  <2>1. S \in SUBSET Nat /\ Len(f) \in S /\ \A m \in S : m <= Len(f)
    BY <1>1, <1>3, SMT
  <2> HIDE DEF S
  <2>2. Max(S) = Len(f)
    BY <2>1, MaxIs, Zenon
  <2> QED
    BY <2>2 DEF S
<1>5. Complete(t) = f
  <2>1. SubSeq(t, 1, Len(f)) = f
    BY <1>1, <1>2, SMT
  <2> QED
    BY <1>4, <2>1, Zenon DEF Complete
<1>6. t # <<>> /\ f # <<>>
  BY <1>1, <1>2, SMT
<1>7. Complete(f) = f /\ Read(f) = L
  BY GoodReads, Zenon
<1>8. Read(t) = Read(f)
  BY <1>5, <1>6, <1>7, Zenon DEF Read
<1> QED
  BY <1>5, <1>7, <1>8, Zenon DEF t

\* A line is whole, and ends where its cells do.
LEMMA LineWhole ==
    ASSUME NEW text \in Text, NEW w \in Nat \ {0}
    PROVE  /\ Line(text, w) \in Seq(Cell) /\ Len(Line(text, w)) = w
           /\ \A i \in 1..w : /\ Line(text, w)[i].text = text
                              /\ Line(text, w)[i].at = i /\ Line(text, w)[i].of = w
           /\ Ends(Line(text, w)) = {w}
           /\ Whole(Line(text, w))
<1> DEFINE c == Line(text, w)
           cell(i) == [text |-> text, at |-> i, of |-> w]
<1>1. c \in Seq(Cell) /\ Len(c) = w /\ \A i \in 1..w : c[i] = cell(i)
  BY LineCells, Zenon
<1>2. \A i \in 1..w : cell(i).text = text /\ cell(i).at = i /\ cell(i).of = w
  BY SMT
<1>3. ASSUME NEW i \in 1..w, i > 1
      PROVE  i - 1 \in 1..w /\ [cell(i) EXCEPT !.at = @ - 1] = cell(i - 1)
  BY <1>3, SMT
<1> HIDE DEF c, cell
<1>4. /\ \A i \in 1..w : c[i].text = text /\ c[i].at = i /\ c[i].of = w
      /\ \A i \in 1..w : i > 1 => c[i - 1] = [c[i] EXCEPT !.at = @ - 1]
  <2>1. ASSUME NEW i \in 1..w PROVE c[i].text = text /\ c[i].at = i /\ c[i].of = w
    <3>1. c[i] = cell(i) /\ cell(i).text = text /\ cell(i).at = i /\ cell(i).of = w
      BY <1>1, <1>2, Zenon
    <3> QED
      BY <3>1, Zenon
  <2>2. ASSUME NEW i \in 1..w, i > 1 PROVE c[i - 1] = [c[i] EXCEPT !.at = @ - 1]
    <3>1. c[i] = cell(i) /\ c[i - 1] = cell(i - 1)
      BY <1>1, <1>3, <2>2, Zenon
    <3> QED
      BY <1>3, <2>2, <3>1, Zenon
  <2> QED
    BY <2>1, <2>2, Zenon
<1>5. /\ DOMAIN c = 1..w /\ w \in 1..w /\ 1 \in 1..w
  BY <1>1, SMT
<1>6. Ends(c) = {w}
  BY <1>4, <1>5, SMT DEF Ends, IsEnd
<1>7. Whole(c)
  BY <1>4, <1>5, SMT DEF Whole
<1> QED
  BY <1>1, <1>4, <1>6, <1>7 DEF c

\* One line that is a checkpoint or the first record is a journal.
LEMMA LineGood ==
    ASSUME NEW text \in Text, NEW w \in Nat \ {0}, text.revision = Len(text.log),
           Len(text.log) > 0, text.folded \/ text.revision = 1
    PROVE  Good(Line(text, w), text.log)
<1> DEFINE c == Line(text, w)
<1>1. /\ c \in Seq(Cell) /\ Len(c) = w
      /\ \A i \in 1..w : c[i].text = text /\ c[i].at = i /\ c[i].of = w
      /\ Ends(c) = {w} /\ Whole(c)
  BY LineWhole
<1> HIDE DEF c
<1>5. /\ DOMAIN c = 1..w /\ w \in 1..w /\ 1 \in 1..w
  BY <1>1, SMT
<1>8. Consecutive(c)
  <2>1. w - c[w].of = 0 /\ c[w].text = text
    BY <1>1, <1>5, SMT
  <2> QED
    BY <1>1, <2>1, Zenon DEF Consecutive
<1>9. Formed(c)
  <2>1. Len(c) > 0 /\ IsEnd(c[Len(c)])
    BY <1>1, <1>5, SMT DEF IsEnd
  <2>2. \A k \in DOMAIN c : c[k].at \in 1..c[k].of
    BY <1>1, <1>5, Zenon
  <2>3. \A k \in Ends(c) : k - c[k].of \in Ends(c) \cup {0}
    BY <1>1, <1>5, SMT
  <2> QED
    BY <1>1, <1>8, <2>1, <2>2, <2>3, Zenon DEF Formed
<1>10. Says(c, text.log)
  <2>1. text.log \in Seq(Kind) /\ c[1].text = text /\ c[Len(c)].text = text
    BY <1>1, <1>5, Zenon DEF Text
  <2>2. /\ Len(text.log) \in 1..Len(text.log)
        /\ ~\E r : r \in (Len(text.log) + 1)..Len(text.log)
    BY <2>1, SMT
  <2>3. \A k \in DOMAIN c : c[k].text = text
    BY <1>1, <1>5, Zenon
  <2>4. \A k \in DOMAIN c : c[k].text.revision <= Len(text.log)
    BY <2>1, <2>3, SMT
  <2>5. \A k, l \in Ends(c) : c[k].text = c[l].text
    BY <1>1, Zenon
  <2> QED
    BY <2>1, <2>2, <2>4, <2>5, Zenon DEF Says
<1> QED
  BY <1>9, <1>10 DEF Good, c

\* An appended record follows what the journal says.
LEMMA GoodExtends ==
    ASSUME NEW f, NEW L, Good(f, L), NEW k \in Kind
    PROVE  Good(Torn(f, Len(L) + 1, k, Width), Append(L, k))
<1> DEFINE r == Len(L) + 1
           t == Torn(f, r, k, Width)
           M == Append(L, k)
           text == [revision |-> r, log |-> <<k>>, folded |-> FALSE]
           cell(i) == [text |-> text, at |-> i, of |-> Width]
<1>1. /\ f \in Seq(Cell) /\ Len(f) > 0 /\ Len(f) \in Nat /\ DOMAIN f = 1..Len(f)
      /\ Len(f) \in Ends(f) /\ Ends(f) \in SUBSET (1..Len(f))
      /\ L \in Seq(Kind) /\ Len(L) \in Nat /\ r \in Nat
      /\ Width \in Nat /\ Width > 0 /\ Width \in 0..Width
  BY JournalAssumption DEF Good, Formed, Says, Ends
<1>2. /\ M \in Seq(Kind) /\ Len(M) = r /\ M[r] = k /\ \A i \in 1..Len(L) : M[i] = L[i]
  BY <1>1, SMT
<1>3. /\ t \in Seq(Cell) /\ Len(t) = Len(f) + Width
      /\ \A i \in 1..Len(f) : t[i] = f[i]
      /\ \A i \in 1..Width : t[Len(f) + i] = cell(i)
  <2>1. f \in Seq(Cell) /\ r \in Nat /\ Width \in 0..Width
    BY <1>1
  <2> QED
    BY <2>1, TornCells, Zenon
<1>4. Ends(t) = Ends(f) \cup {Len(f) + Width}
  <2>1. f \in Seq(Cell) /\ r \in Nat /\ Width \in 0..Width
    BY <1>1
  <2> QED
    BY <2>1, TornEnds
<1>7. text.revision = r /\ text.log = <<k>> /\ text.folded = FALSE
  BY SMT
<1> HIDE DEF text
<1>5. \A i \in 1..Width : cell(i).text = text /\ cell(i).at = i /\ cell(i).of = Width
  BY SMT
<1>6. ASSUME NEW i \in 1..Width, i > 1
      PROVE  cell(i - 1) = [cell(i) EXCEPT !.at = @ - 1]
  BY <1>1, <1>6, SMT
<1> HIDE DEF t, M, cell
<1>8. /\ DOMAIN t = 1..(Len(f) + Width)
      /\ \A i \in 1..(Len(f) + Width) :
            i \in 1..Len(f) \/ \E j \in 1..Width : i = Len(f) + j
  <2>1. ASSUME NEW i \in 1..(Len(f) + Width), i \notin 1..Len(f)
        PROVE  i - Len(f) \in 1..Width /\ i = Len(f) + (i - Len(f))
    BY <1>1, <2>1, SMT
  <2>2. DOMAIN t = 1..(Len(f) + Width)
    BY <1>1, <1>3, SMT
  <2> QED
    BY <2>1, <2>2, Zenon
<1>9. ASSUME NEW j \in 1..Width
      PROVE  t[Len(f) + j].text = text /\ t[Len(f) + j].at = j /\ t[Len(f) + j].of = Width
  <2>1. /\ t[Len(f) + j] = cell(j)
        /\ cell(j).text = text /\ cell(j).at = j /\ cell(j).of = Width
    BY <1>3, <1>5, Zenon
  <2> QED
    BY <2>1, Zenon
<1>10. Formed(f) /\ Says(f, L)
  BY DEF Good
<1>11. Whole(t)
  <2> SUFFICES ASSUME NEW i \in 1..(Len(f) + Width)
               PROVE  IF t[i].at = 1 THEN i = 1 \/ IsEnd(t[i - 1])
                      ELSE i > 1 /\ t[i - 1] = [t[i] EXCEPT !.at = @ - 1]
    BY <1>8, Zenon DEF Whole
  <2>1. CASE i \in 1..Len(f)
    <3>1. IF f[i].at = 1 THEN i = 1 \/ IsEnd(f[i - 1])
          ELSE i > 1 /\ f[i - 1] = [f[i] EXCEPT !.at = @ - 1]
      BY <1>1, <1>10, <2>1, Zenon DEF Formed, Whole
    <3>2. t[i] = f[i] /\ (i > 1 => t[i - 1] = f[i - 1])
      BY <1>1, <1>3, <2>1, SMT
    <3>3. i # 1 => i > 1
      BY <2>1, SMT
    <3> QED
      BY <3>1, <3>2, <3>3, Zenon
  <2>2. CASE i \notin 1..Len(f)
    <3>1. PICK j \in 1..Width : i = Len(f) + j
      BY <1>8, <2>2, Zenon
    <3>2. CASE j = 1
      <4>1. i - 1 = Len(f) /\ Len(f) \in 1..Len(f)
        BY <1>1, <3>1, <3>2, SMT
      <4>2. IsEnd(t[i - 1]) /\ t[i].at = 1
        BY <1>3, <1>9, <1>10, <3>1, <3>2, <4>1, Zenon DEF Formed
      <4> QED
        BY <4>2, Zenon
    <3>3. CASE j # 1
      <4>1. j > 1 /\ j - 1 \in 1..Width /\ i - 1 = Len(f) + (j - 1) /\ i > 1
        BY <1>1, <3>1, <3>3, SMT
      <4>2. t[i] = cell(j) /\ t[i - 1] = cell(j - 1) /\ t[i].at # 1
        BY <1>3, <1>9, <3>1, <3>3, <4>1, Zenon
      <4> QED
        BY <1>6, <4>1, <4>2, Zenon
    <3> QED
      BY <3>2, <3>3
  <2> QED
    BY <2>1, <2>2
<1>12. \A i \in Ends(f) : /\ t[i] = f[i] /\ i \in 1..Len(f)
                          /\ i - f[i].of # 0 => t[i - f[i].of] = f[i - f[i].of]
  BY <1>1, <1>3, <1>10, Zenon DEF Formed
<1>13. /\ t[Len(f) + Width].text = text /\ t[Len(f) + Width].of = Width
       /\ Len(f) + Width - Width = Len(f) /\ t[Len(f)] = f[Len(f)]
       /\ f[Len(f)].text.revision = Len(L)
  <2>1. Width \in 1..Width /\ Len(f) + Width - Width = Len(f) /\ Len(f) \in 1..Len(f)
    BY <1>1, SMT
  <2> QED
    BY <1>3, <1>9, <1>10, <2>1, Zenon DEF Says
<1>14. Consecutive(t)
  <2> SUFFICES ASSUME NEW i \in Ends(t)
               PROVE  LET before == i - t[i].of IN
                      IF before = 0 THEN t[i].text.folded \/ t[i].text.revision = 1
                      ELSE /\ ~t[i].text.folded
                           /\ t[i].text.revision = t[before].text.revision + 1
    BY Zenon DEF Consecutive
  <2>1. CASE i \in Ends(f)
    BY <1>10, <1>12, <2>1, Zenon DEF Formed, Consecutive
  <2>2. CASE i = Len(f) + Width
    <3>1. Len(f) # 0
      BY <1>1, SMT
    <3>2. t[i].text = text /\ i - t[i].of = Len(f) /\ t[Len(f)].text.revision = Len(L)
      BY <1>1, <1>13, <2>2, SMT
    <3> QED
      BY <1>7, <3>1, <3>2, Zenon
  <2> QED
    BY <1>4, <2>1, <2>2, Zenon
<1>15. Formed(t)
  <2>1. Len(t) > 0 /\ IsEnd(t[Len(t)])
    <3>1. Width \in 1..Width /\ Len(t) > 0
      BY <1>1, <1>3, SMT
    <3> QED
      BY <1>3, <1>9, <3>1, Zenon DEF IsEnd
  <2>2. ASSUME NEW i \in DOMAIN t PROVE t[i].at \in 1..t[i].of
    <3>1. CASE i \in 1..Len(f)
      BY <1>1, <1>3, <1>10, <3>1, Zenon DEF Formed
    <3>2. CASE i \notin 1..Len(f)
      <4>1. PICK j \in 1..Width : i = Len(f) + j
        BY <1>8, <2>2, <3>2, Zenon
      <4> QED
        BY <1>9, <4>1, Zenon
    <3> QED
      BY <3>1, <3>2
  <2>3. ASSUME NEW i \in Ends(t) PROVE i - t[i].of \in Ends(t) \cup {0}
    <3>1. CASE i \in Ends(f)
      BY <1>4, <1>10, <1>12, <3>1, Zenon DEF Formed
    <3>2. CASE i = Len(f) + Width
      <4>1. i - t[i].of = Len(f)
        BY <1>1, <1>13, <3>2, SMT
      <4> QED
        BY <1>1, <1>4, <4>1, Zenon
    <3> QED
      BY <1>4, <2>3, <3>1, <3>2, Zenon
  <2> QED
    BY <1>3, <1>11, <1>14, <2>1, <2>2, <2>3, Zenon DEF Formed
<1>16. Says(t, M)
  <2>1. /\ t[1] = f[1] /\ t[Len(t)].text.revision = r
    <3>1. 1 \in 1..Len(f)
      BY <1>1, SMT
    <3> QED
      BY <1>3, <1>7, <1>13, <3>1, Zenon
  <2> DEFINE n == Len(f[1].text.log)
  <2>2. /\ n \in 1..Len(L)
        /\ \A i \in 1..n : L[i] = f[1].text.log[i]
        /\ \A i \in (n + 1)..Len(L) : \E e \in Ends(f) : /\ f[e].text.revision = i
                                                         /\ f[e].text.log = <<L[i]>>
        /\ \A e, l \in Ends(f) : f[e].text.revision = f[l].text.revision =>
                                     f[e].text = f[l].text
        /\ \A e \in 1..Len(f) : f[e].text.revision <= Len(L)
    BY <1>1, <1>10, Zenon DEF Says
  <2> HIDE DEF n
  <2>3. ASSUME NEW i \in DOMAIN t PROVE t[i].text.revision <= r
    <3>1. CASE i \in 1..Len(f)
      <4>1. t[i] \in Cell /\ t[i].text.revision <= Len(L)
        BY <1>3, <2>2, <2>3, <3>1
      <4>2. t[i].text.revision \in Nat
        BY <4>1, Zenon DEF Cell
      <4> QED
        BY <1>1, <4>1, <4>2, SMT
    <3>2. CASE i \notin 1..Len(f)
      <4>1. t[i].text.revision = r
        <5>1. PICK j \in 1..Width : i = Len(f) + j
          BY <1>8, <2>3, <3>2, Zenon
        <5> QED
          BY <1>7, <1>9, <5>1, Zenon
      <4> QED
        BY <1>1, <4>1, SMT
    <3> QED
      BY <3>1, <3>2
  <2>4. /\ n \in 1..r /\ \A i \in 1..n : M[i] = f[1].text.log[i]
    <3>1. n \in 1..r /\ \A i \in 1..n : i \in 1..Len(L)
      BY <1>1, <2>2, SMT
    <3> QED
      BY <1>2, <2>2, <3>1, Zenon
  <2>5. ASSUME NEW i \in (n + 1)..r
        PROVE  \E e \in Ends(t) : t[e].text.revision = i /\ t[e].text.log = <<M[i]>>
    <3>1. CASE i = r
      BY <1>2, <1>4, <1>7, <1>13, <3>1, Zenon
    <3>2. CASE i # r
      <4>1. i \in (n + 1)..Len(L) /\ i \in 1..Len(L)
        BY <1>1, <2>2, <3>2, SMT
      <4>2. PICK e \in Ends(f) : f[e].text.revision = i /\ f[e].text.log = <<L[i]>>
        BY <2>2, <4>1, Zenon
      <4>3. e \in Ends(t) /\ t[e] = f[e] /\ M[i] = L[i]
        BY <1>2, <1>4, <1>12, <4>1, <4>2, Zenon
      <4> QED
        BY <4>2, <4>3, Zenon
    <3> QED
      BY <3>1, <3>2
  <2>6. ASSUME NEW e \in Ends(t), NEW l \in Ends(t),
               t[e].text.revision = t[l].text.revision
        PROVE  t[e].text = t[l].text
    <3>1. \A x \in Ends(f) : t[x].text.revision # r
      <4>1. \A x \in Ends(f) : t[x].text.revision <= Len(L)
        BY <1>12, <2>2, Zenon
      <4> QED
        BY <1>1, <4>1, SMT
    <3>2. t[Len(f) + Width].text.revision = r
      BY <1>7, <1>13, Zenon
    <3>3. CASE e \in Ends(f) /\ l \in Ends(f)
      <4>1. t[e] = f[e] /\ t[l] = f[l]
        BY <1>12, <3>3, Zenon
      <4>2. f[e].text.revision = f[l].text.revision => f[e].text = f[l].text
        BY <2>2, <3>3, Zenon
      <4> QED
        BY <2>6, <4>1, <4>2, Zenon
    <3>4. CASE e = Len(f) + Width
      BY <1>4, <2>6, <3>1, <3>2, <3>4, Zenon
    <3>5. CASE l = Len(f) + Width
      BY <1>4, <2>6, <3>1, <3>2, <3>5, Zenon
    <3> QED
      BY <1>4, <3>3, <3>4, <3>5, Zenon
  <2> QED
    BY <1>2, <2>1, <2>3, <2>4, <2>5, <2>6, Zenon DEF Says, n
<1> QED
  BY <1>15, <1>16 DEF Good, t, M

\* Nothing begun, a cell more, and all of the line.
LEMMA TornSteps ==
    ASSUME NEW f \in Seq(Cell), NEW r \in Nat, NEW k \in Kind
    PROVE  /\ Torn(f, r, k, 0) = f
           /\ Torn(f, r, k, Width) = f \o RecordLine(r, k)
           /\ \A n \in 0..(Width - 1) :
                 Torn(f, r, k, n + 1) = Append(Torn(f, r, k, n), RecordLine(r, k)[n + 1])
<1> DEFINE l == RecordLine(r, k)
<1>1. l \in Seq(Cell) /\ Len(l) = Width /\ Width \in Nat
  BY RecordCells, JournalAssumption, Zenon
<1> HIDE DEF l
<1>2. f \o SubSeq(l, 1, 0) = f
  BY <1>1
<1>3. f \o SubSeq(l, 1, Width) = f \o l
  <2>1. SubSeq(l, 1, Width) = l
    BY <1>1
  <2> QED
    BY <2>1, Zenon
<1>4. ASSUME NEW n \in 0..(Width - 1)
      PROVE  f \o SubSeq(l, 1, n + 1) = Append(f \o SubSeq(l, 1, n), l[n + 1])
  <2>1. n \in Nat /\ n + 1 \in Nat /\ n <= Len(l) /\ n + 1 <= Len(l)
    BY <1>1
  <2> DEFINE a == SubSeq(l, 1, n)
             b == SubSeq(l, 1, n + 1)
  <2>2. /\ a \in Seq(Cell) /\ Len(a) = n /\ \A i \in 1..n : a[i] = l[i]
    BY <1>1, <2>1, PartElements
  <2>3. /\ b \in Seq(Cell) /\ Len(b) = n + 1 /\ \A i \in 1..(n + 1) : b[i] = l[i]
    BY <1>1, <2>1, PartElements
  <2>4. l[n + 1] \in Cell
    BY <1>1, <2>1
  <2> HIDE DEF a, b
  <2>5. b = Append(a, l[n + 1])
    BY <2>1, <2>2, <2>3, <2>4
  <2>6. f \o Append(a, l[n + 1]) = Append(f \o a, l[n + 1])
    BY <2>2, <2>4
  <2> QED
    BY <2>5, <2>6, Zenon DEF a, b
<1> QED
  BY <1>2, <1>3, <1>4, Zenon DEF Torn, l

\* The journal before a torn append.
LEMMA GoodFacts ==
    ASSUME NEW f, NEW L, Good(f, L)
    PROVE  /\ f \in Seq(Cell) /\ Len(f) \in Nat /\ Len(f) > 0 /\ DOMAIN f = 1..Len(f)
           /\ L \in Seq(Kind) /\ Len(L) \in Nat /\ Len(L) > 0 /\ L # <<>>
           /\ \A i \in 1..Len(f) : f[i].text.revision <= Len(L)
<1>1. f \in Seq(Cell) /\ Len(f) > 0 /\ L \in Seq(Kind) /\ Len(f[1].text.log) \in 1..Len(L)
      /\ \A i \in DOMAIN f : f[i].text.revision <= Len(L)
  BY Zenon DEF Good, Formed, Says
<1>2. Len(f) \in Nat /\ DOMAIN f = 1..Len(f) /\ Len(L) \in Nat
  BY <1>1
<1>3. Len(L) > 0
  BY <1>1, <1>2
<1>4. L # <<>>
  BY <1>1, <1>3
<1> QED
  BY <1>1, <1>2, <1>3, <1>4, Zenon

-----------------------------------------------------------------------------
\* What a start reads.

\* A whole journal beside its side file.
LEMMA GoodSettled ==
    ASSUME NEW f, NEW s, NEW L, Good(f, L), Beside(f, s, L)
    PROVE  Settled(f, s, L)
<1>1. Complete(f) = f
  BY GoodReads, Zenon
<1>2. "none" \in Kind /\ 0 \in 0..(Width - 1) /\ Len(L) + 1 \in Nat
  BY GoodFacts, JournalAssumption DEF Kind
<1>3. f = Torn(f, Len(L) + 1, "none", 0)
  BY <1>2, GoodFacts, TornSteps, Zenon
<1> QED
  BY <1>1, <1>2, <1>3, Zenon DEF Settled

\* The parts of a settled journal.
LEMMA SettledParts ==
    ASSUME NEW f, NEW s, NEW L, Settled(f, s, L)
    PROVE  \E g, k, n : /\ g = Complete(f) /\ Good(g, L) /\ Beside(g, s, L)
                        /\ k \in Kind /\ n \in 0..Width /\ n < Width
                        /\ n \in 0..(Width - 1)
                        /\ f = Torn(g, Len(L) + 1, k, n) /\ Len(L) + 1 \in Nat
<1>1. PICK k \in Kind, n \in 0..(Width - 1) : f = Torn(Complete(f), Len(L) + 1, k, n)
  BY Zenon DEF Settled
<1>2. Good(Complete(f), L) /\ Beside(Complete(f), s, L)
  BY Zenon DEF Settled
<1>3. n \in 0..Width /\ n < Width
  BY JournalAssumption
<1>4. Len(L) + 1 \in Nat
  <2>1. Len(L) \in Nat
    BY <1>2, GoodFacts, Zenon
  <2> QED
    BY <2>1
<1> QED
  BY <1>1, <1>2, <1>3, <1>4, Zenon

LEMMA SettledReads ==
    ASSUME NEW f, NEW s, NEW L, Settled(f, s, L)
    PROVE  Read(f) = L /\ f \in Seq(Cell)
<1>1. PICK g, k, n : /\ g = Complete(f) /\ Good(g, L) /\ Beside(g, s, L)
                     /\ k \in Kind /\ n \in 0..Width /\ n < Width
                     /\ n \in 0..(Width - 1)
                     /\ f = Torn(g, Len(L) + 1, k, n) /\ Len(L) + 1 \in Nat
  BY SettledParts, Zenon
<1>2. Read(f) = L
  <2>1. Good(g, L) /\ Len(L) + 1 \in Nat /\ k \in Kind /\ n \in 0..Width /\ n < Width
    BY <1>1
  <2>2. Read(Torn(g, Len(L) + 1, k, n)) = L
    BY <2>1, TornReads
  <2> QED
    BY <1>1, <2>2, Zenon
<1>3. f \in Seq(Cell)
  BY <1>1, GoodFacts, TornCells, Zenon
<1> QED
  BY <1>2, <1>3

\* A journal that goes on behind the image with the record that follows it.
LEMMA AppendedLine ==
    ASSUME NEW f \in Seq(Cell), NEW s \in SideFile, NEW k \in Kind,
           IsPrefix(s.image \o RecordLine(s.through + 1, k), f)
    PROVE  IsPrefix(s.image, f) /\ Appended(f, s)
<1> DEFINE m == s.image
           r == s.through + 1
           l == RecordLine(r, k)
           text == [revision |-> r, log |-> <<k>>, folded |-> FALSE]
           rest == Rest(f, s)
<1>1. m \in Seq(Cell) /\ r \in Nat /\ Width \in Nat \ {0}
  BY JournalAssumption DEF SideFile
<1>2. text \in Text /\ l = Line(text, Width)
  BY <1>1, RecordCells, Zenon DEF RecordLine
<1>3. text.revision = r /\ text.folded = FALSE
  BY SMT
<1>4. IsPrefix(m \o l, f)
  BY Zenon
<1> HIDE DEF m, r, l, text
<1>5. /\ l \in Seq(Cell) /\ Len(l) = Width /\ Ends(l) = {Width} /\ Whole(l)
      /\ \A i \in 1..Width : l[i].text = text /\ l[i].at = i /\ l[i].of = Width
  BY <1>1, <1>2, LineWhole
<1>6. /\ Len(m) + Width <= Len(f) /\ Len(m) \in Nat /\ Len(f) \in Nat
      /\ \A i \in 1..Len(m) : f[i] = m[i]
      /\ \A i \in 1..Width : f[Len(m) + i] = l[i]
  <2>1. /\ m \o l \in Seq(Cell) /\ Len(m \o l) = Len(m) + Width
        /\ \A i \in 1..Len(m) : (m \o l)[i] = m[i]
        /\ \A i \in 1..Width : (m \o l)[Len(m) + i] = l[i]
    <3>1. /\ m \o l \in Seq(Cell) /\ Len(m \o l) = Len(m) + Len(l)
          /\ \A i \in 1..Len(m) : (m \o l)[i] = m[i]
          /\ \A i \in 1..Len(l) : (m \o l)[Len(m) + i] = l[i]
      <4>1. m \in Seq(Cell) /\ l \in Seq(Cell)
        BY <1>1, <1>5
      <4> QED
        BY <4>1, SMT
    <3> QED
      BY <1>5, <3>1, Zenon
  <2>2. Len(m \o l) <= Len(f) /\ \A i \in 1..Len(m \o l) : (m \o l)[i] = f[i]
    <3> DEFINE j == m \o l
    <3>1. j \in Seq(Cell) /\ IsPrefix(j, f)
      BY <1>4, <2>1, Zenon
    <3> HIDE DEF j
    <3>2. Len(j) <= Len(f) /\ \A i \in 1..Len(j) : j[i] = f[i]
      BY <3>1, PrefixElements
    <3> QED
      BY <3>2 DEF j
  <2>3. Len(m) \in Nat /\ Len(f) \in Nat
    BY <1>1
  <2>4. /\ \A i \in 1..Len(m) : i \in 1..(Len(m) + Width)
        /\ \A i \in 1..Width : Len(m) + i \in 1..(Len(m) + Width)
    BY <1>1, <2>3
  <2>5. ASSUME NEW i \in 1..Len(m) PROVE f[i] = m[i]
    BY <2>1, <2>2, <2>4, Zenon
  <2>6. ASSUME NEW i \in 1..Width PROVE f[Len(m) + i] = l[i]
    BY <2>1, <2>2, <2>4, Zenon
  <2>7. Len(m) + Width <= Len(f)
    BY <2>1, <2>2
  <2> QED
    BY <2>3, <2>5, <2>6, <2>7
<1>7. IsPrefix(m, f)
  <2>1. Len(m) <= Len(f)
    BY <1>1, <1>6
  <2> QED
    BY <1>1, <1>6, <2>1, PrefixElements
<1>8. /\ rest \in Seq(Cell) /\ Len(rest) \in Nat /\ Width <= Len(rest)
      /\ \A i \in 1..Width : rest[i] = l[i]
  <2>1. /\ SubSeq(f, Len(m) + 1, Len(f)) \in Seq(Cell)
        /\ Len(SubSeq(f, Len(m) + 1, Len(f))) = Len(f) - Len(m)
        /\ \A i \in 1..(Len(f) - Len(m)) : SubSeq(f, Len(m) + 1, Len(f))[i] = f[Len(m) + i]
    BY <1>6, RestElements, <1>1
  <2>2. rest = SubSeq(f, Len(m) + 1, Len(f))
    BY Zenon DEF Rest, m
  <2> HIDE DEF rest
  <2>3. /\ Width <= Len(f) - Len(m) /\ Len(f) - Len(m) \in Nat
        /\ \A i \in 1..Width : i \in 1..(Len(f) - Len(m))
    BY <1>1, <1>6
  <2>4. ASSUME NEW i \in 1..Width PROVE rest[i] = l[i]
    BY <1>6, <2>1, <2>2, <2>3, Zenon
  <2> QED
    BY <2>1, <2>2, <2>3, <2>4, Zenon
<1> HIDE DEF rest
<1>9. Ends(rest) # {} /\ Min(Ends(rest)) = Width
  <2>1. DOMAIN rest = 1..Len(rest) /\ Width \in 1..Len(rest) /\ Width \in 1..Width
    BY <1>1, <1>8
  <2>2. Width \in Ends(rest)
    BY <1>5, <1>8, <2>1, Zenon DEF Ends, IsEnd
  <2>3. ASSUME NEW e \in Ends(rest) PROVE Width <= e
    <3>1. e \in 1..Len(rest) /\ rest[e].at = rest[e].of
      BY <2>1, <2>3, Zenon DEF Ends, IsEnd
    <3>2. CASE e \in 1..Width
      <4>1. rest[e].at = e /\ rest[e].of = Width
        BY <1>5, <1>8, <3>2, Zenon
      <4>2. e = Width /\ Width \in Nat
        BY <1>1, <3>1, <4>1, Zenon
      <4> QED
        BY <4>2
    <3>3. CASE e \notin 1..Width
      BY <1>1, <3>1, <3>3
    <3> QED
      BY <3>2, <3>3
  <2>4. Ends(rest) \in SUBSET Nat
    BY <2>1 DEF Ends
  <2> QED
    BY <2>2, <2>3, <2>4, MinIs
<1>10. SubSeq(rest, 1, Width) = l
  <2> DEFINE line == SubSeq(rest, 1, Width)
  <2>1. line \in Seq(Cell) /\ Len(line) = Width /\ \A i \in 1..Width : line[i] = rest[i]
    BY <1>1, <1>8, PartElements
  <2> HIDE DEF line
  <2>2. \A i \in 1..Len(line) : line[i] = l[i]
    BY <1>8, <2>1, Zenon
  <2>3. Len(line) = Len(l)
    BY <1>5, <2>1
  <2>4. line = l
    BY <1>5, <2>1, <2>2, <2>3, SameSequence
  <2> QED
    BY <2>4 DEF line
<1>11. l # <<>> /\ l[1].text = text
  <2>1. 1 \in 1..Width
    BY <1>1
  <2> QED
    BY <1>5, <2>1
<1>12. Appended(f, s)
  BY <1>3, <1>5, <1>9, <1>10, <1>11, Zenon DEF Appended, rest, r
<1> QED
  BY <1>7, <1>12 DEF m

\* A prefix of a journal is one of what comes behind it.
LEMMA LongerPrefix ==
    ASSUME NEW p \in Seq(Cell), NEW g \in Seq(Cell), NEW f \in Seq(Cell),
           IsPrefix(p, g), IsPrefix(g, f)
    PROVE  IsPrefix(p, f)
<1>1. Len(p) \in Nat /\ Len(g) \in Nat /\ Len(f) \in Nat
  OBVIOUS
<1>2. /\ Len(p) <= Len(g) /\ \A i \in 1..Len(p) : p[i] = g[i]
      /\ Len(g) <= Len(f) /\ \A i \in 1..Len(g) : g[i] = f[i]
  BY PrefixElements
<1>3. Len(p) <= Len(f) /\ \A i \in 1..Len(p) : p[i] = f[i]
  BY <1>1, <1>2
<1> QED
  BY <1>3, PrefixElements

\* What recover_compaction makes of a settled journal.
LEMMA SettledVerdict ==
    ASSUME NEW f, NEW s, NEW L, Settled(f, s, L)
    PROVE  \/ Verdict(f, s) \in {"stale", "completed"}
           \/ /\ Verdict(f, s) = "truncated"
              /\ s # None /\ s \in SideFile /\ s.through = Len(L)
              /\ Good(s.image, L)
<1>1. PICK g, k, n : /\ g = Complete(f) /\ Good(g, L) /\ Beside(g, s, L)
                     /\ k \in Kind /\ n \in 0..Width /\ n < Width
                     /\ n \in 0..(Width - 1)
                     /\ f = Torn(g, Len(L) + 1, k, n) /\ Len(L) + 1 \in Nat
  BY SettledParts, Zenon
<1>2. g \in Seq(Cell) /\ Len(g) \in Nat /\ Good(g, L) /\ Beside(g, s, L)
  BY <1>1, GoodFacts, Zenon
<1>3. /\ f \in Seq(Cell) /\ Len(f) = Len(g) + n /\ n \in Nat /\ n < Width /\ Width \in Nat
      /\ \A i \in 1..Len(g) : f[i] = g[i]
      /\ \A i \in 1..n : f[Len(g) + i].at = i /\ f[Len(g) + i].of = Width
  <2>1. /\ f \in Seq(Cell) /\ Len(f) = Len(g) + n
        /\ \A i \in 1..Len(g) : f[i] = g[i]
        /\ \A i \in 1..n : f[Len(g) + i] =
              [text |-> [revision |-> Len(L) + 1, log |-> <<k>>, folded |-> FALSE],
               at |-> i, of |-> Width]
    <3> DEFINE r == Len(L) + 1
               t == Torn(g, r, k, n)
    <3>1. g \in Seq(Cell) /\ r \in Nat /\ k \in Kind /\ n \in 0..Width /\ f = t
      BY <1>1, <1>2, Zenon
    <3>2. /\ t \in Seq(Cell) /\ Len(t) = Len(g) + n
          /\ \A i \in 1..Len(g) : t[i] = g[i]
          /\ \A i \in 1..n : t[Len(g) + i] =
                [text |-> [revision |-> r, log |-> <<k>>, folded |-> FALSE],
                 at |-> i, of |-> Width]
      BY <3>1, TornCells, Zenon
    <3> QED
      BY <3>1, <3>2, Zenon
  <2>2. ASSUME NEW i \in 1..n PROVE f[Len(g) + i].at = i /\ f[Len(g) + i].of = Width
    <3>1. f[Len(g) + i] =
              [text |-> [revision |-> Len(L) + 1, log |-> <<k>>, folded |-> FALSE],
               at |-> i, of |-> Width]
      BY <2>1, Zenon
    <3> QED
      BY <3>1, SMT
  <2>3. n \in Nat /\ n < Width /\ Width \in Nat
    BY <1>1, JournalAssumption
  <2> QED
    BY <2>1, <2>2, <2>3, Zenon
<1>4. IsPrefix(g, f)
  <2>1. Len(g) <= Len(f) /\ \A i \in 1..Len(g) : g[i] = f[i]
    BY <1>2, <1>3
  <2> QED
    BY <1>2, <1>3, <2>1, PrefixElements
<1>5. CASE s = None \/ ~s.sealed \/ IsPrefix(s.predecessor, f)
  BY <1>5, Zenon DEF Verdict
<1>6. CASE ~(s = None \/ ~s.sealed \/ IsPrefix(s.predecessor, f))
  <2>1. s # None /\ s.sealed /\ ~IsPrefix(s.predecessor, f) /\ s \in SideFile
    BY <1>2, <1>6, Zenon DEF Beside
  <2>2. s.image \in Seq(Cell) /\ s.predecessor \in Seq(Cell) /\ s.through \in Nat
    BY <2>1 DEF SideFile
  <2>3. Ahead(g, s, L)
    <3>1. IsPrefix(s.predecessor, g) \/ Ahead(g, s, L)
      BY <1>2, <2>1, Zenon DEF Beside
    <3>2. ~IsPrefix(s.predecessor, g)
      BY <1>2, <1>3, <1>4, <2>1, <2>2, LongerPrefix, Zenon
    <3> QED
      BY <3>1, <3>2
  <2>4. CASE g = s.image /\ s.through = Len(L)
    <3>1. Ends(Rest(f, s)) = {}
      <4> DEFINE rest == SubSeq(f, Len(g) + 1, Len(f))
      <4>1. /\ rest \in Seq(Cell) /\ Len(rest) = Len(f) - Len(g)
            /\ \A i \in 1..(Len(f) - Len(g)) : rest[i] = f[Len(g) + i]
        <5>1. Len(g) <= Len(f)
          BY <1>2, <1>3
        <5> QED
          BY <1>2, <1>3, <5>1, RestElements
      <4>2. Len(f) - Len(g) = n
        BY <1>2, <1>3
      <4> HIDE DEF rest
      <4>3. DOMAIN rest = 1..n
        BY <4>1, <4>2
      <4>4. ASSUME NEW i \in 1..n PROVE ~IsEnd(rest[i])
        <5>1. rest[i].at = i /\ rest[i].of = Width
          BY <1>3, <4>1, <4>2, Zenon
        <5>2. i # Width
          BY <1>3
        <5> QED
          BY <5>1, <5>2, Zenon DEF IsEnd
      <4>5. Ends(rest) = {}
        BY <4>3, <4>4, Zenon DEF Ends
      <4> QED
        BY <2>4, <4>5, Zenon DEF Rest, rest
    <3>2. IsPrefix(s.image, f)
      BY <1>4, <2>4, Zenon
    <3>3. Verdict(f, s) \in {"completed", "truncated"}
      BY <2>1, <3>1, <3>2, Zenon DEF Verdict
    <3>4. Good(s.image, L)
      BY <1>2, <2>4, Zenon
    <3> QED
      BY <2>1, <2>4, <3>3, <3>4, Zenon
  <2>5. ASSUME NEW kind \in Kind, IsPrefix(s.image \o RecordLine(s.through + 1, kind), g)
        PROVE  Verdict(f, s) = "completed"
    <3> DEFINE j == s.image \o RecordLine(s.through + 1, kind)
    <3>1. j \in Seq(Cell)
      <4>1. s.through + 1 \in Nat
        BY <2>2
      <4>2. RecordLine(s.through + 1, kind) \in Seq(Cell)
        BY <4>1, RecordCells, Zenon
      <4> QED
        BY <2>2, <4>2
    <3>2. IsPrefix(j, g)
      BY <2>5, Zenon
    <3> HIDE DEF j
    <3>3. IsPrefix(j, f)
      BY <1>2, <1>3, <1>4, <3>1, <3>2, LongerPrefix, Zenon
    <3>4. IsPrefix(s.image, f) /\ Appended(f, s)
      BY <1>3, <2>1, <3>3, AppendedLine, Zenon DEF j
    <3> QED
      BY <2>1, <3>4, Zenon DEF Verdict
  <2> QED
    BY <2>3, <2>4, <2>5, Zenon DEF Ahead
<1> QED
  BY <1>5, <1>6

LEMMA LeastOf ==
    ASSUME WellOrdered, NEW T \in SUBSET Nat, T # {}
    PROVE  Min(T) \in T /\ \A n \in T : Min(T) <= n
<1>1. PICK n \in T : \A l \in T : n <= l
  BY Zenon DEF WellOrdered
<1>2. Min(T) = n
  BY <1>1, MinIs
<1> QED
  BY <1>1, <1>2

\* What a record behind the image begins with.
LEMMA AppendedFirst ==
    ASSUME WellOrdered, NEW f \in Seq(Cell), NEW s \in SideFile, Len(s.image) <= Len(f),
           Appended(f, s)
    PROVE  /\ Len(s.image) < Len(f)
           /\ f[Len(s.image) + 1].text.revision = s.through + 1
<1> DEFINE m == s.image
           rest == Rest(f, s)
           e == Min(Ends(rest))
           line == SubSeq(rest, 1, e)
<1>1. m \in Seq(Cell) /\ Len(m) \in Nat /\ Len(f) \in Nat /\ Len(m) <= Len(f)
  <2>1. m \in Seq(Cell)
    BY DEF SideFile
  <2> QED
    BY <2>1
<1>2. /\ Ends(rest) # {} /\ line # <<>> /\ line[1].text.revision = s.through + 1
  BY Zenon DEF Appended
<1>3. /\ rest \in Seq(Cell) /\ Len(rest) = Len(f) - Len(m)
      /\ \A i \in 1..(Len(f) - Len(m)) : rest[i] = f[Len(m) + i]
  <2>1. rest = SubSeq(f, Len(m) + 1, Len(f))
    BY Zenon DEF Rest
  <2> HIDE DEF rest, m
  <2> QED
    BY <1>1, <2>1, RestElements
<1> HIDE DEF m, rest
<1>4. DOMAIN rest = 1..Len(rest) /\ Len(rest) \in Nat
  BY <1>3
<1>5. Ends(rest) \in SUBSET Nat /\ Ends(rest) \in SUBSET (1..Len(rest))
  BY <1>4 DEF Ends
<1>6. e \in 1..Len(rest)
  BY <1>2, <1>5, LeastOf, Zenon
<1> HIDE DEF e
<1>7. line[1] = rest[1] /\ 1 \in 1..Len(rest)
  <2>1. e \in Nat /\ e <= Len(rest) /\ 1 \in 1..e /\ 1 \in 1..Len(rest)
    BY <1>4, <1>6
  <2> QED
    BY <1>3, <2>1, PartElements
<1>8. rest[1] = f[Len(m) + 1]
  BY <1>3, <1>7, Zenon
<1>9. Len(m) < Len(f)
  BY <1>1, <1>3, <1>7
<1> QED
  BY <1>2, <1>7, <1>8, <1>9, Zenon DEF m

\* What recover_compaction makes of a fold that has not ended.
LEMMA FoldingVerdict ==
    ASSUME WellOrdered, NEW f, NEW s, NEW L, Folding(f, s, L)
    PROVE  /\ Verdict(f, s) \in {"stale", "completed", "truncated", "rewritten"}
           /\ Verdict(f, s) = "stale" => f = s.predecessor
           /\ Verdict(f, s) = "completed" => f = s.image
<1> DEFINE m == s.image
           p == s.predecessor
<1>1. /\ s # None /\ s \in SideFile /\ s.sealed /\ s.through = Len(L)
      /\ Good(m, L) /\ Good(p, L) /\ m[1] # p[1] /\ f \in Seq(Cell) /\ Mixed(f, m, p)
  BY NoneAssumption, Zenon DEF Folding
<1>2. /\ m \in Seq(Cell) /\ Len(m) \in Nat /\ Len(m) > 0
      /\ p \in Seq(Cell) /\ Len(p) \in Nat /\ Len(p) > 0 /\ Len(L) \in Nat
      /\ \A i \in 1..Len(p) : p[i].text.revision <= Len(L)
  BY <1>1, GoodFacts, Zenon
<1>3. Len(f) \in Nat /\ DOMAIN f = 1..Len(f)
  BY <1>1
<1> HIDE DEF m, p
<1>8. f = m => Rest(f, s) = <<>>
  <2>1. SubSeq(m, Len(m) + 1, Len(m)) = <<>>
    BY <1>2
  <2> QED
    BY <2>1, Zenon DEF Rest, m
<1>4. ASSUME Len(m) <= Len(p), Len(f) \in {Len(m), Len(p)},
             \A i \in DOMAIN f : f[i] = p[i] \/ (i <= Len(m) /\ f[i] = m[i])
      PROVE  /\ Verdict(f, s) \in {"stale", "completed", "truncated", "rewritten"}
             /\ Verdict(f, s) = "stale" => f = s.predecessor
             /\ Verdict(f, s) = "completed" => f = s.image
  <2>1. ASSUME IsPrefix(p, f) PROVE f = p
    <3>1. Len(p) <= Len(f) /\ \A i \in 1..Len(p) : p[i] = f[i]
      BY <1>1, <1>2, <2>1, PrefixElements
    <3>2. Len(p) = Len(f)
      BY <1>2, <1>3, <1>4, <3>1
    <3> QED
      BY <1>1, <1>2, <3>1, <3>2, SameSequence
  <2>2. ASSUME IsPrefix(m, f)
        PROVE  \/ f = m
               \/ Len(f) = Len(p) /\ ~Appended(f, s) /\ Rest(f, s) # <<>>
    <3>1. Len(m) <= Len(f) /\ \A i \in 1..Len(m) : m[i] = f[i]
      BY <1>1, <1>2, <2>2, PrefixElements
    <3>2. CASE Len(m) = Len(f)
      BY <1>1, <1>2, <3>1, <3>2, SameSequence
    <3>3. CASE Len(m) # Len(f)
      <4>1. Len(f) = Len(p) /\ Len(m) + 1 \in 1..Len(f) /\ ~(Len(m) + 1 <= Len(m))
        BY <1>2, <1>3, <1>4, <3>1, <3>3
      <4>2. f[Len(m) + 1] = p[Len(m) + 1]
        BY <1>3, <1>4, <4>1, Zenon
      <4>3. f[Len(m) + 1].text.revision <= Len(L)
        BY <1>2, <4>1, <4>2, Zenon
      <4>4. ~(f[Len(m) + 1].text.revision = Len(L) + 1)
        BY <1>2, <4>3
      <4>5. ~Appended(f, s)
        BY <1>1, <3>1, <4>4, AppendedFirst, Zenon DEF m
      <4>6. Rest(f, s) # <<>>
        <5>1. Len(SubSeq(f, Len(m) + 1, Len(f))) = Len(f) - Len(m)
          BY <1>1, <1>2, <1>3, <3>1, RestElements
        <5>2. Len(f) - Len(m) # 0 /\ Len(<<>>) = 0
          BY <1>2, <1>3, <4>1
        <5>3. SubSeq(f, Len(m) + 1, Len(f)) # <<>>
          BY <5>1, <5>2, Zenon
        <5> QED
          BY <5>3, Zenon DEF Rest, m
      <4> QED
        BY <4>1, <4>5, <4>6, Zenon
    <3> QED
      BY <3>2, <3>3
  <2>3. Len(f) = Len(m) \/ Len(f) \in Len(p)..Max({Len(p), Len(m)})
    <3>1. Max({Len(p), Len(m)}) = Len(p)
      BY <1>2, <1>4, MaxIs
    <3> QED
      BY <1>2, <1>4, <3>1
  <2>4. CASE IsPrefix(p, f)
    BY <1>1, <2>1, <2>4, Zenon DEF Verdict, m, p
  <2>5. CASE ~IsPrefix(p, f) /\ IsPrefix(m, f)
    <3>1. CASE f = m
      BY <1>1, <1>8, <2>5, <3>1, Zenon DEF Verdict, m, p
    <3>2. CASE Len(f) = Len(p) /\ ~Appended(f, s) /\ Rest(f, s) # <<>>
      BY <1>1, <2>5, <3>2, Zenon DEF Verdict, m, p
    <3> QED
      BY <2>2, <2>5, <3>1, <3>2, Zenon
  <2>6. CASE ~IsPrefix(p, f) /\ ~IsPrefix(m, f)
    BY <1>1, <2>3, <2>6, Zenon DEF Verdict, m, p
  <2> QED
    BY <2>4, <2>5, <2>6, Zenon
<1>5. ASSUME Len(p) < Len(m), NEW j \in 0..Len(m),
             Len(f) = IF j > Len(p) THEN j ELSE Len(p),
             \A i \in DOMAIN f : f[i] = IF i <= j THEN m[i] ELSE p[i]
      PROVE  /\ IsPrefix(p, f) => f = p
             /\ IsPrefix(m, f) => f = m
             /\ Len(f) \in Len(p)..Len(m)
  <2>1. ASSUME IsPrefix(p, f) PROVE f = p
    <3>1. Len(p) <= Len(f) /\ \A i \in 1..Len(p) : p[i] = f[i]
      BY <1>1, <1>2, <2>1, PrefixElements
    <3>2. 1 \in 1..Len(p) /\ 1 \in DOMAIN f
      BY <1>2, <1>3, <3>1
    <3>3. ~(1 <= j)
      BY <1>1, <1>5, <3>1, <3>2, Zenon
    <3>4. Len(p) = Len(f)
      BY <1>2, <1>3, <1>5, <3>3
    <3> QED
      BY <1>1, <1>2, <3>1, <3>4, SameSequence
  <2>2. Len(f) \in Len(p)..Len(m)
    BY <1>2, <1>5
  <2>3. ASSUME IsPrefix(m, f) PROVE f = m
    <3>1. Len(m) <= Len(f) /\ \A i \in 1..Len(m) : m[i] = f[i]
      BY <1>1, <1>2, <2>3, PrefixElements
    <3>2. Len(m) = Len(f)
      BY <1>2, <1>3, <2>2, <3>1
    <3>3. m \in Seq(Cell) /\ f \in Seq(Cell)
      BY <1>1, <1>2
    <3> QED
      BY <3>1, <3>2, <3>3, SameSequence, Zenon
  <2> QED
    BY <2>1, <2>2, <2>3
<1>6. CASE Len(p) < Len(m) /\ Len(f) \in Len(p)..Len(m)
           /\ (IsPrefix(p, f) => f = p) /\ (IsPrefix(m, f) => f = m)
  <2>1. Max({Len(p), Len(m)}) = Len(m)
    BY <1>2, <1>6, MaxIs
  <2>2. Len(f) \in Len(p)..Max({Len(p), Len(m)})
    BY <1>6, <2>1, Zenon
  <2> QED
    BY <1>1, <1>6, <1>8, <2>2, Zenon DEF Verdict, m, p
<1> QED
  BY <1>1, <1>4, <1>5, <1>6, Zenon DEF Mixed, Shrinking, Growing

\* What a start reads of either.
LEMMA Recovers ==
    ASSUME WellOrdered, NEW f, NEW s, NEW L, Settled(f, s, L) \/ Folding(f, s, L)
    PROVE  Recovery(f, s) = L
<1>1. CASE Settled(f, s, L)
  <2>1. Read(f) = L
    BY <1>1, SettledReads, Zenon
  <2>2. CASE Verdict(f, s) \in {"stale", "completed"}
    BY <2>1, <2>2, Zenon DEF Recovery
  <2>3. CASE Verdict(f, s) = "truncated" /\ Good(s.image, L)
    <3>1. Read(s.image) = L
      BY <2>3, GoodReads, Zenon
    <3> QED
      BY <2>3, <3>1, Zenon DEF Recovery
  <2> QED
    BY <1>1, <2>2, <2>3, SettledVerdict, Zenon
<1>2. CASE Folding(f, s, L)
  <2>1. Good(s.image, L) /\ Good(s.predecessor, L)
    BY <1>2, Zenon DEF Folding
  <2>2. Read(s.image) = L /\ Read(s.predecessor) = L
    BY <2>1, GoodReads, Zenon
  <2>3. /\ Verdict(f, s) \in {"stale", "completed", "truncated", "rewritten"}
        /\ Verdict(f, s) = "stale" => f = s.predecessor
        /\ Verdict(f, s) = "completed" => f = s.image
    BY <1>2, FoldingVerdict, Zenon
  <2> QED
    BY <2>2, <2>3, Zenon DEF Recovery
<1> QED
  BY <1>1, <1>2

\* A log is one that is read.
LEMMA Logs ==
    ASSUME NEW f, NEW s, NEW L, Settled(f, s, L) \/ Folding(f, s, L)
    PROVE  L \in Seq(Kind) /\ L # Unreadable /\ Len(L) \in Nat /\ Len(L) > 0 /\ f \in Seq(Cell)
<1>1. \E g : Good(g, L)
  BY Zenon DEF Settled, Folding
<1>2. L \in Seq(Kind) /\ Len(L) \in Nat /\ Len(L) > 0
  BY <1>1, GoodFacts, Zenon
<1>3. f \in Seq(Cell)
  BY SettledReads, Zenon DEF Folding
<1> QED
  BY <1>2, <1>3, NoneAssumption, Zenon

-----------------------------------------------------------------------------
\* The steps on the disk.

\* A side file beside a journal is beside the longer one.
LEMMA BesideExtends ==
    ASSUME NEW g, NEW s, NEW L, Good(g, L), Beside(g, s, L), NEW k \in Kind
    PROVE  Beside(Torn(g, Len(L) + 1, k, Width), s, Append(L, k))
<1> DEFINE r == Len(L) + 1
           t == Torn(g, r, k, Width)
<1>1. g \in Seq(Cell) /\ r \in Nat /\ Width \in 0..Width /\ Len(g) \in Nat
  <2>1. g \in Seq(Cell) /\ Len(L) \in Nat /\ Len(g) \in Nat
    BY GoodFacts, Zenon
  <2> QED
    BY <2>1, JournalAssumption
<1>2. /\ t \in Seq(Cell) /\ Len(t) = Len(g) + Width /\ \A i \in 1..Len(g) : t[i] = g[i]
  BY <1>1, TornCells, Zenon
<1>3. t = g \o RecordLine(r, k)
  BY <1>1, TornSteps, Zenon
<1> HIDE DEF t, r
<1>4. IsPrefix(g, t)
  <2>1. Len(g) <= Len(t) /\ \A i \in 1..Len(g) : g[i] = t[i]
    BY <1>1, <1>2
  <2> QED
    BY <1>1, <1>2, <2>1, PrefixElements
<1>5. ASSUME s # None, s.sealed
      PROVE  IsPrefix(s.predecessor, t) \/ Ahead(t, s, Append(L, k))
  <2>1. s \in SideFile
    BY <1>5, Zenon DEF Beside
  <2>2. s.predecessor \in Seq(Cell) /\ s.image \in Seq(Cell) /\ s.through \in Nat
    BY <2>1 DEF SideFile
  <2>3. CASE IsPrefix(s.predecessor, g)
    BY <1>1, <1>2, <1>4, <2>2, <2>3, LongerPrefix, Zenon
  <2>4. CASE g = s.image /\ s.through = Len(L)
    <3>1. t = s.image \o RecordLine(s.through + 1, k)
      BY <1>3, <2>4, Zenon DEF r
    <3>2. IsPrefix(t, t)
      BY <1>2, PrefixElements
    <3> QED
      BY <3>1, <3>2, Zenon DEF Ahead
  <2>5. ASSUME NEW kind \in Kind, IsPrefix(s.image \o RecordLine(s.through + 1, kind), g)
        PROVE  Ahead(t, s, Append(L, k))
    <3> DEFINE j == s.image \o RecordLine(s.through + 1, kind)
    <3>1. j \in Seq(Cell)
      <4>1. s.through + 1 \in Nat
        BY <2>2
      <4>2. RecordLine(s.through + 1, kind) \in Seq(Cell)
        BY <4>1, RecordCells, Zenon
      <4> QED
        BY <2>2, <4>2
    <3>2. IsPrefix(j, g)
      BY <2>5, Zenon
    <3> HIDE DEF j
    <3>3. IsPrefix(j, t)
      BY <1>1, <1>2, <1>4, <3>1, <3>2, LongerPrefix, Zenon
    <3> QED
      BY <3>3, Zenon DEF Ahead, j
  <2> QED
    BY <1>5, <2>3, <2>4, <2>5, Zenon DEF Beside, Ahead
<1> QED
  BY <1>5, Zenon DEF Beside, t, r

\* The fold of a journal with two records or more behind its checkpoint.
LEMMA FoldedGood ==
    ASSUME NEW f, NEW L, Good(f, L), Uncompacted(f) >= 2, NEW w \in CheckpointWidth
    PROVE  LET image == CheckpointLine(Front(L), w) \o RecordLine(Len(L), Last(L)) IN
           Good(image, L) /\ image[1] # f[1]
<1> DEFINE F == Front(L)
           last == Last(L)
           text == [revision |-> Len(F), log |-> F, folded |-> TRUE]
           c == Line(text, w)
           image == CheckpointLine(F, w) \o RecordLine(Len(L), last)
<1>1. /\ f \in Seq(Cell) /\ Len(f) \in Nat /\ Len(f) > 0
      /\ L \in Seq(Kind) /\ Len(L) \in Nat /\ w \in Nat \ {0}
  BY GoodFacts, JournalAssumption, Zenon
<1>2. f[1] \in Cell /\ f # <<>> /\ f[Len(f)].text.revision = Len(L)
  <2>1. f[1] \in Cell /\ f # <<>>
    BY <1>1
  <2> QED
    BY <2>1, Zenon DEF Good, Says
<1>3. f[1].text.revision \in Nat
  BY <1>2 DEF Cell
<1>4. Len(L) - (IF f[1].text.folded THEN f[1].text.revision ELSE 0) >= 2
  BY <1>2, Zenon DEF Uncompacted
<1>5. Len(L) >= 2 /\ (f[1].text.folded => f[1].text.revision # Len(L) - 1)
  <2> DEFINE n == f[1].text.revision
  <2> HIDE DEF n
  <2>1. n \in Nat /\ Len(L) - (IF f[1].text.folded THEN n ELSE 0) >= 2
    BY <1>3, <1>4 DEF n
  <2>2. Len(L) >= 2 /\ (f[1].text.folded => n # Len(L) - 1)
    BY <1>1, <2>1
  <2> QED
    BY <2>2 DEF n
<1>6. /\ F \in Seq(Kind) /\ Len(F) = Len(L) - 1 /\ last \in Kind /\ Append(F, last) = L
  <2>0. F = SubSeq(L, 1, Len(L) - 1)
    BY DEF Front
  <2>1. last = L[Len(L)]
    BY DEF Last
  <2> HIDE DEF F, last
  <2>2. /\ F \in Seq(Kind) /\ Len(F) = Len(L) - 1
        /\ \A i \in 1..(Len(L) - 1) : F[i] = L[i]
    <3>1. Len(L) - 1 \in Nat /\ Len(L) - 1 <= Len(L)
      BY <1>1, <1>5
    <3> QED
      BY <1>1, <2>0, <3>1, PartElements, Zenon
  <2>3. last \in Kind
    BY <1>1, <1>5, <2>1
  <2>4. /\ Append(F, last) \in Seq(Kind) /\ Len(Append(F, last)) = Len(L)
        /\ \A i \in 1..Len(L) : Append(F, last)[i] = L[i]
    <3>1. /\ Append(F, last) \in Seq(Kind) /\ Len(Append(F, last)) = Len(F) + 1
          /\ \A i \in 1..Len(F) : Append(F, last)[i] = F[i]
          /\ Append(F, last)[Len(F) + 1] = last
      BY <2>2, <2>3
    <3>2. /\ Len(F) + 1 = Len(L)
          /\ \A i \in 1..Len(L) : i \in 1..Len(F) \/ i = Len(L)
      BY <1>1, <1>5, <2>2
    <3> QED
      BY <2>1, <2>2, <3>1, <3>2, Zenon
  <2>5. Append(F, last) = L
    BY <1>1, <2>4, SameSequence
  <2> QED
    BY <2>2, <2>3, <2>5
<1> HIDE DEF F, last
<1>7. /\ text \in Text /\ text.revision = Len(F) /\ text.log = F /\ text.folded = TRUE
      /\ Len(F) \in Nat /\ Len(F) > 0 /\ Len(F) + 1 = Len(L)
  <2>1. Len(F) \in Nat /\ Len(F) > 0 /\ Len(F) + 1 = Len(L)
    BY <1>1, <1>5, <1>6
  <2>2. text.revision = Len(F) /\ text.log = F /\ text.folded = TRUE
    BY SMT
  <2>3. text \in Text
    BY <1>6, <2>1 DEF Text
  <2> QED
    BY <2>1, <2>2, <2>3
<1>8. CheckpointLine(F, w) = c
  BY Zenon DEF CheckpointLine
<1> HIDE DEF text
<1>9. Good(c, F)
  <2>1. text.revision = Len(text.log) /\ Len(text.log) > 0 /\ text.folded
    BY <1>7, Zenon
  <2>2. Good(Line(text, w), text.log)
    BY <1>1, <1>7, <2>1, LineGood, Zenon
  <2> QED
    BY <1>7, <2>2, Zenon
<1>10. c \in Seq(Cell) /\ Len(c) = w /\ c[1].text = text
  <2>1. 1 \in 1..w
    BY <1>1
  <2> QED
    BY <1>1, <1>7, <2>1, LineWhole
<1> HIDE DEF c
<1>11. image = Torn(c, Len(F) + 1, last, Width)
  <2>1. Len(F) + 1 \in Nat
    BY <1>7
  <2>2. Torn(c, Len(F) + 1, last, Width) = c \o RecordLine(Len(F) + 1, last)
    BY <1>6, <1>10, <2>1, TornSteps, Zenon
  <2> QED
    BY <1>7, <1>8, <2>2, Zenon
<1>12. Good(image, L)
  <2>1. Good(Torn(c, Len(F) + 1, last, Width), Append(F, last))
    BY <1>6, <1>9, GoodExtends, Zenon
  <2> QED
    BY <1>6, <1>11, <2>1, Zenon
<1>13. image[1] = c[1]
  <2>1. RecordLine(Len(L), last) \in Seq(Cell)
    BY <1>1, <1>6, RecordCells, Zenon
  <2>2. (c \o RecordLine(Len(L), last))[1] = c[1]
    BY <1>1, <1>10, <2>1
  <2> QED
    BY <1>8, <2>2, Zenon
<1>14. c[1] # f[1]
  <2>1. f[1].text = text => f[1].text.folded /\ f[1].text.revision = Len(F)
    BY <1>7, Zenon
  <2>2. Len(F) = Len(L) - 1
    BY <1>6
  <2> QED
    BY <1>5, <1>10, <2>1, <2>2, Zenon
<1> QED
  BY <1>12, <1>13, <1>14, Zenon DEF F, last

\* The parts of a fold that has not ended.
LEMMA FoldingParts ==
    ASSUME NEW f, NEW s, NEW L, Folding(f, s, L)
    PROVE  /\ s # None /\ s \in SideFile /\ s.sealed
           /\ s.image \in Seq(Cell) /\ Len(s.image) \in Nat /\ DOMAIN s.image = 1..Len(s.image)
           /\ s.predecessor \in Seq(Cell) /\ Len(s.predecessor) \in Nat
           /\ f \in Seq(Cell) /\ Len(f) \in Nat /\ DOMAIN f = 1..Len(f)
<1>1. /\ s # None /\ s \in SideFile /\ s.sealed
      /\ Good(s.image, L) /\ Good(s.predecessor, L) /\ f \in Seq(Cell)
  BY NoneAssumption, Zenon DEF Folding
<1>2. Len(f) \in Nat /\ DOMAIN f = 1..Len(f)
  BY <1>1
<1> QED
  BY <1>1, <1>2, GoodFacts, Zenon

\* A cell is written over a file or behind it.
LEMMA Overwrite ==
    ASSUME NEW f \in Seq(Cell), NEW c \in Cell, NEW k \in 1..(Len(f) + 1), NEW h,
           h = [i \in 1..Max({k, Len(f)}) |-> IF i = k THEN c ELSE f[i]]
    PROVE  Written(h, f, k, c)
<1> DEFINE n == IF k > Len(f) THEN k ELSE Len(f)
           g == [i \in 1..n |-> IF i = k THEN c ELSE f[i]]
<1>1. /\ {k, Len(f)} \in SUBSET Nat /\ n \in {k, Len(f)} /\ \A l \in {k, Len(f)} : l <= n
      /\ n \in Nat /\ \A i \in 1..n : i = k \/ i \in 1..Len(f)
  <2>1. Len(f) \in Nat
    OBVIOUS
  <2> QED
    BY <2>1, SMT
<1>2. Max({k, Len(f)}) = n
  <2> DEFINE T == {k, Len(f)}
  <2>1. T \in SUBSET Nat /\ n \in T /\ \A l \in T : l <= n
    BY <1>1, Zenon
  <2> HIDE DEF T, n
  <2> QED
    BY <2>1, MaxIs, Zenon DEF T
<1>3. h = g
  BY <1>2, Zenon
<1>4. \A i \in 1..Len(f) : f[i] \in Cell
  OBVIOUS
<1> HIDE DEF n
<1>5. g \in [1..n -> Cell]
  BY <1>1, <1>4, Zenon
<1>6. \A i \in 1..n : g[i] = IF i = k THEN c ELSE f[i]
  BY Zenon
<1> HIDE DEF g
<1>7. n \in Nat
  BY <1>1
<1>8. g \in Seq(Cell) /\ Len(g) = n
  BY <1>5, <1>7, SMT
<1> QED
  BY <1>3, <1>6, <1>8, Zenon DEF Written, n

\* Lengths.
LEMMA Shorter ==
    ASSUME NEW a \in Nat, NEW b \in Nat, NEW k \in 1..a, NEW l \in {a, b}, a <= b
    PROVE  k <= a /\ ~(k > l)
OBVIOUS

LEMMA Longer ==
    ASSUME NEW a \in Nat, NEW b \in Nat, NEW j \in 0..a, NEW l \in Nat, b < a, l > a
    PROVE  l # j /\ l # b
OBVIOUS

\* It keeps the mix of a shrinking file.
LEMMA ShrinkingMix ==
    ASSUME NEW f \in Seq(Cell), NEW h, NEW m \in Seq(Cell), NEW p \in Seq(Cell),
           NEW k \in 1..Len(m), Written(h, f, k, m[k]), Shrinking(f, m, p)
    PROVE  Shrinking(h, m, p)
<1>1. /\ DOMAIN f = 1..Len(f) /\ Len(m) \in Nat /\ Len(p) \in Nat
  OBVIOUS
<1>2. /\ Len(m) <= Len(p) /\ Len(f) \in {Len(m), Len(p)}
      /\ \A i \in DOMAIN f : f[i] = p[i] \/ (i <= Len(m) /\ f[i] = m[i])
  BY Zenon DEF Shrinking
<1>3. k <= Len(m) /\ ~(k > Len(f))
  BY <1>1, <1>2, Shorter, Zenon
<1>4. /\ h \in Seq(Cell) /\ Len(h) = Len(f)
      /\ \A i \in 1..Len(f) : h[i] = IF i = k THEN m[k] ELSE f[i]
  BY <1>3, Zenon DEF Written
<1>5. DOMAIN h = 1..Len(f)
  BY <1>4
<1>6. ASSUME NEW i \in DOMAIN h
      PROVE  h[i] = p[i] \/ (i <= Len(m) /\ h[i] = m[i])
  <2>1. i \in 1..Len(f) /\ i \in DOMAIN f
    BY <1>1, <1>5, <1>6, Zenon
  <2>2. CASE i = k
    BY <1>3, <1>4, <2>1, <2>2, Zenon
  <2>3. CASE i # k
    BY <1>2, <1>4, <2>1, <2>3, Zenon
  <2> QED
    BY <2>2, <2>3
<1> QED
  BY <1>2, <1>4, <1>6, Zenon DEF Shrinking

\* The first cell that differs, written, keeps the mix of a growing file.
LEMMA GrowingMix ==
    ASSUME NEW f \in Seq(Cell), NEW h, NEW m \in Seq(Cell), NEW p \in Seq(Cell),
           NEW k \in 1..Len(m), Written(h, f, k, m[k]),
           NEW j \in 0..Len(m), Growing(f, m, p, j),
           k > Len(f) \/ f[k] # m[k],
           \A i \in 1..Len(m) : i < k => i \in 1..Len(f) /\ f[i] = m[i]
    PROVE  k \in 0..Len(m) /\ Growing(h, m, p, k)
<1> DEFINE n == IF k > Len(f) THEN k ELSE Len(f)
<1>0. /\ Len(p) < Len(m) /\ Len(f) = IF j > Len(p) THEN j ELSE Len(p)
      /\ \A i \in DOMAIN f : f[i] = IF i <= j THEN m[i] ELSE p[i]
  BY Zenon DEF Growing
<1>1. /\ Len(f) \in Nat /\ DOMAIN f = 1..Len(f) /\ Len(m) \in Nat /\ Len(p) \in Nat
  OBVIOUS
<1>2. k > j
  <2>1. k <= j => k \in DOMAIN f /\ ~(k > Len(f))
    BY <1>0, <1>1
  <2>2. ~(k <= j)
    BY <1>0, <2>1, Zenon
  <2> QED
    BY <2>2
<1>3. /\ n = IF k > Len(p) THEN k ELSE Len(p)
      /\ k \in 0..Len(m)
      /\ n \in Nat /\ (n = k \/ n = Len(f))
  BY <1>0, <1>1, <1>2
<1>4. /\ h \in Seq(Cell) /\ Len(h) = n
      /\ \A i \in 1..n : h[i] = IF i = k THEN m[k] ELSE f[i]
  BY Zenon DEF Written
<1> HIDE DEF n
<1>5. DOMAIN h = 1..n
  BY <1>4
<1>6. ASSUME NEW i \in 1..n PROVE h[i] = IF i <= k THEN m[i] ELSE p[i]
  <2>1. CASE i = k
    <3>1. i <= k
      BY <2>1
    <3> QED
      BY <1>4, <2>1, <3>1, Zenon
  <2>2. CASE i < k
    <3>1. i \in 1..Len(m) /\ i # k /\ i <= k
      BY <1>1, <2>2
    <3> QED
      BY <1>4, <2>2, <3>1, Zenon
  <2>3. CASE i > k
    <3>1. i # k /\ ~(i <= k) /\ ~(i <= j) /\ i \in 1..Len(f)
      BY <1>1, <1>2, <1>3, <2>3
    <3> QED
      BY <1>0, <1>1, <1>4, <3>1, Zenon
  <2>4. i < k \/ i = k \/ i > k
    BY <1>1, <1>3
  <2> QED
    BY <2>1, <2>2, <2>3, <2>4, Zenon
<1>7. /\ Len(h) = IF k > Len(p) THEN k ELSE Len(p)
      /\ \A i \in DOMAIN h : h[i] = IF i <= k THEN m[i] ELSE p[i]
  BY <1>3, <1>4, <1>5, <1>6, Zenon
<1> QED
  BY <1>0, <1>3, <1>7, Zenon DEF Growing

\* A cell of the image reaches the journal.
LEMMA WriteFolding ==
    ASSUME WellOrdered, Reorder \subseteq {"shrinks"},
           NEW L, Folding(file, side, L), NEW k \in Differing, k <= Len(file) + 1,
           Unordered \/ k = Min(Differing), NEW h,
           h = [i \in 1..Max({k, Len(file)}) |-> IF i = k THEN side.image[k] ELSE file[i]]
    PROVE  Folding(h, side, L)
<1> DEFINE m == side.image
           p == side.predecessor
<1>1. /\ m \in Seq(Cell) /\ Len(m) \in Nat /\ DOMAIN m = 1..Len(m)
      /\ p \in Seq(Cell) /\ Len(p) \in Nat
      /\ file \in Seq(Cell) /\ Len(file) \in Nat /\ DOMAIN file = 1..Len(file)
  BY FoldingParts, Zenon
<1>2. k \in 1..Len(m) /\ (k > Len(file) \/ file[k] # m[k])
  BY <1>1, Zenon DEF Differing
<1>3. m[k] \in Cell /\ k \in 1..(Len(file) + 1)
  <2> HIDE DEF m
  <2> QED
    BY <1>1, <1>2
<1>4. Written(h, file, k, m[k])
  BY <1>1, <1>3, Overwrite, Zenon
<1>5. Mixed(file, m, p)
  BY Zenon DEF Folding
<1>6. ASSUME Shrinking(file, m, p) PROVE Mixed(h, m, p)
  <2> HIDE DEF m, p
  <2> QED
    BY <1>1, <1>2, <1>4, <1>6, ShrinkingMix, Zenon DEF Mixed
<1>7. ASSUME Len(p) < Len(m)
      PROVE  \A i \in 1..Len(m) : i < k => i \in 1..Len(file) /\ file[i] = m[i]
  <2>1. k = Min(Differing)
    <3>1. ~(Len(m) <= Len(p))
      <4> HIDE DEF m, p
      <4> QED
        BY <1>1, <1>7
    <3>2. "grows" \notin Reorder
      OBVIOUS
    <3> QED
      BY <3>1, <3>2, Zenon DEF Unordered
  <2>2. Differing = {i \in 1..Len(m) : i > Len(file) \/ file[i] # m[i]}
    BY <1>1, Zenon DEF Differing
  <2>3. \A e \in Differing : k <= e
    <3> DEFINE D == Differing
    <3>1. D \in SUBSET Nat
      <4>1. D \in SUBSET (1..Len(m))
        BY <2>2, Zenon
      <4> HIDE DEF D
      <4> QED
        BY <4>1
    <3>2. D # {} /\ k = Min(D)
      BY <2>1, Zenon
    <3> HIDE DEF D
    <3>3. \A e \in D : k <= e
      BY <3>1, <3>2, LeastOf, Zenon
    <3> QED
      BY <3>3 DEF D
  <2> SUFFICES ASSUME NEW i \in 1..Len(m), i < k
               PROVE  i \in 1..Len(file) /\ file[i] = m[i]
    BY Zenon
  <2> HIDE DEF m
  <2>4. ~(k <= i)
    BY <1>1, <1>2
  <2>5. ~(i > Len(file)) /\ file[i] = m[i]
    BY <2>2, <2>3, <2>4, Zenon
  <2> QED
    BY <1>1, <2>5
<1>8. ASSUME NEW j \in 0..Len(m), Growing(file, m, p, j) PROVE Mixed(h, m, p)
  <2>1. \A i \in 1..Len(m) : i < k => i \in 1..Len(file) /\ file[i] = m[i]
    BY <1>7, <1>8, Zenon DEF Growing
  <2> HIDE DEF m, p
  <2>2. k \in 0..Len(m) /\ Growing(h, m, p, k)
    BY <1>1, <1>2, <1>4, <1>8, <2>1, GrowingMix, Zenon
  <2> QED
    BY <2>2, Zenon DEF Mixed
<1>9. Mixed(h, m, p)
  BY <1>5, <1>6, <1>8, Zenon DEF Mixed
<1>10. h \in Seq(Cell)
  BY <1>4, Zenon DEF Written
<1> QED
  BY <1>9, <1>10, Zenon DEF Folding

\* The journal is cut at the length of the image.
LEMMA CutFolding ==
    ASSUME NEW f, NEW s, NEW L, Folding(f, s, L), Len(f) > Len(s.image)
    PROVE  Folding(SubSeq(f, 1, Len(s.image)), s, L)
<1> DEFINE m == s.image
           p == s.predecessor
           h == SubSeq(f, 1, Len(m))
<1>1. /\ m \in Seq(Cell) /\ Len(m) \in Nat /\ p \in Seq(Cell) /\ Len(p) \in Nat
      /\ f \in Seq(Cell) /\ Len(f) \in Nat /\ DOMAIN f = 1..Len(f) /\ Len(f) > Len(m)
  BY FoldingParts, Zenon
<1>2. Mixed(f, m, p)
  BY Zenon DEF Folding
<1> HIDE DEF m, p
<1>3. h \in Seq(Cell) /\ Len(h) = Len(m) /\ \A i \in 1..Len(m) : h[i] = f[i]
  <2>1. Len(m) <= Len(f)
    BY <1>1
  <2> QED
    BY <1>1, <2>1, PartElements, Zenon
<1> HIDE DEF h
<1>4. DOMAIN h = 1..Len(m) /\ \A i \in 1..Len(m) : i \in DOMAIN f
  BY <1>1, <1>3
<1>5. ASSUME NEW j \in 0..Len(m) PROVE ~Growing(f, m, p, j)
  BY <1>1, <1>5, Longer, Zenon DEF Growing
<1>6. /\ Len(m) <= Len(p)
      /\ \A i \in DOMAIN f : f[i] = p[i] \/ (i <= Len(m) /\ f[i] = m[i])
  BY <1>2, <1>5, Zenon DEF Mixed, Shrinking
<1>7. Mixed(h, m, p)
  BY <1>3, <1>4, <1>6, Zenon DEF Mixed, Shrinking
<1> QED
  BY <1>3, <1>7, Zenon DEF Folding, m, p, h

-----------------------------------------------------------------------------
\* What the steps do to the disk.

\* A sequence is a prefix of itself.
LEMMA SamePrefix ==
    ASSUME NEW f \in Seq(Cell)
    PROVE  IsPrefix(f, f)
<1>1. Len(f) <= Len(f)
  OBVIOUS
<1> QED
  BY <1>1, PrefixElements, Zenon

\* A fold is settled when the journal is its predecessor or its image.
LEMMA FoldEnds ==
    ASSUME NEW f, NEW s, NEW L, Folding(f, s, L), f = s.predecessor \/ f = s.image
    PROVE  Good(f, L) /\ Complete(f) = f /\ Settled(f, s, L)
<1>1. /\ Good(s.image, L) /\ Good(s.predecessor, L) /\ s.through = Len(L) /\ s \in SideFile
      /\ f \in Seq(Cell)
  BY Zenon DEF Folding
<1>2. Good(f, L)
  BY <1>1, Zenon
<1>3. IsPrefix(f, f)
  BY <1>1, SamePrefix, Zenon
<1>4. Beside(f, s, L)
  BY <1>1, <1>3, Zenon DEF Beside, Ahead
<1> QED
  BY <1>2, <1>4, GoodSettled, GoodReads, Zenon

\* The image, put in the place of the journal.
LEMMA ImageSettled ==
    ASSUME NEW s \in SideFile, NEW L, s.through = Len(L), Good(s.image, L)
    PROVE  Settled(s.image, s, L)
<1>1. Beside(s.image, s, L)
  BY Zenon DEF Beside, Ahead
<1> QED
  BY <1>1, GoodSettled, Zenon

\* A settled journal needs no side file.
LEMMA SettledAlone ==
    ASSUME NEW f, NEW s, NEW L, Settled(f, s, L)
    PROVE  Settled(f, None, L)
<1>1. Beside(Complete(f), None, L)
  BY Zenon DEF Beside
<1> QED
  BY <1>1, Zenon DEF Settled

\* Its whole lines are settled too, and no record is begun behind them.
LEMMA SettledCut ==
    ASSUME NEW f, NEW s, NEW L, Settled(f, s, L)
    PROVE  LET g == Complete(f) IN
           /\ Good(g, L) /\ Beside(g, s, L) /\ Settled(g, s, L) /\ Complete(g) = g
           /\ \A k \in Kind : g = Torn(g, Len(L) + 1, k, 0)
<1> DEFINE g == Complete(f)
<1>1. Good(g, L) /\ Beside(g, s, L)
  BY Zenon DEF Settled
<1> HIDE DEF g
<1>2. Settled(g, s, L) /\ Complete(g) = g
  BY <1>1, GoodSettled, GoodReads, Zenon
<1>3. g \in Seq(Cell) /\ Len(L) \in Nat
  BY <1>1, GoodFacts, Zenon
<1>4. Len(L) + 1 \in Nat
  BY <1>3
<1>5. \A k \in Kind : g = Torn(g, Len(L) + 1, k, 0)
  BY <1>3, <1>4, TornSteps, Zenon
<1> QED
  BY <1>1, <1>2, <1>5, Zenon DEF g

\* The records after the checkpoint can be counted.
LEMMA UncompactedNat ==
    ASSUME NEW f, NEW L, Good(f, L)
    PROVE  Uncompacted(f) \in Nat
<1>1. f \in Seq(Cell) /\ Len(f) \in Nat /\ Len(f) > 0 /\ Len(L) \in Nat
  BY GoodFacts, Zenon
<1>2. 1 \in 1..Len(f) /\ f # <<>>
  BY <1>1
<1>3. f[1].text.revision <= Len(L) /\ f[Len(f)].text.revision = Len(L)
  BY <1>2, GoodFacts, Zenon DEF Good, Says
<1>4. f[1] \in Cell
  BY <1>1, <1>2
<1>5. f[1].text.revision \in Nat
  BY <1>4, Zenon DEF Cell
<1> DEFINE a == f[1].text.revision
<1>6. Uncompacted(f) = Len(L) - (IF f[1].text.folded THEN a ELSE 0)
  BY <1>2, <1>3, Zenon DEF Uncompacted
<1>7. a \in Nat /\ a <= Len(L)
  BY <1>3, <1>5
<1> HIDE DEF a
<1>8. Len(L) - a \in Nat /\ Len(L) - 0 \in Nat
  BY <1>1, <1>7
<1> QED
  BY <1>6, <1>8, Zenon

-----------------------------------------------------------------------------
\* The steps keep the invariant.

\* A process that ends leaves both files to the next start.
LEMMA CrashHolds ==
    ASSUME NEW L, Holds(L), Crash
    PROVE  Holds(L)'
BY Zenon DEF Crash, Holds, Knowing, Go, disk

\* The recovery of a fold.
LEMMA RecoverHolds ==
    ASSUME WellOrdered, NEW L, Holds(L), RecoverCompaction
    PROVE  Holds(L)'
<1>1. pc = "down" /\ (Settled(file, side, L) \/ Folding(file, side, L))
  BY Zenon DEF Holds, RecoverCompaction
<1> DEFINE v == Verdict(file, side)
<1>2. side' = side /\ UNCHANGED <<guard, pending, acked>>
  BY Zenon DEF RecoverCompaction
<1>3. CASE v = "truncated"
  <2>1. pc' = "clean" /\ file' = side.image
    BY <1>3 DEF RecoverCompaction, Go
  <2>2. side \in SideFile /\ side.through = Len(L) /\ Good(side.image, L)
    <3>1. CASE Settled(file, side, L)
      BY <1>3, <3>1, SettledVerdict
    <3>2. CASE Folding(file, side, L)
      BY <3>2, Zenon DEF Folding
    <3> QED
      BY <1>1, <3>1, <3>2, Zenon
  <2>3. Settled(file', side', L)
    BY <1>2, <2>1, <2>2, ImageSettled, Zenon
  <2> HIDE DEF v
  <2> QED
    BY <1>2, <2>1, <2>3 DEF Holds, Knowing, guard
<1>4. CASE v = "rewritten"
  <2>1. pc' = "repair" /\ file' = file
    BY <1>4 DEF RecoverCompaction, Go
  <2>2. Folding(file', side', L)
    <3>1. ~Settled(file, side, L)
      BY <1>4, SettledVerdict
    <3> QED
      BY <1>1, <1>2, <2>1, <3>1, Zenon
  <2> HIDE DEF v
  <2> QED
    BY <1>2, <2>1, <2>2 DEF Holds, Knowing, guard
<1>5. CASE v \in {"stale", "completed"}
  <2>1. pc' = "clean" /\ file' = file
    BY <1>5 DEF RecoverCompaction, Go
  <2>2. Settled(file, side, L)
    <3>1. CASE Folding(file, side, L)
      <4>1. file = side.predecessor \/ file = side.image
        BY <1>5, <3>1, FoldingVerdict, Zenon
      <4> QED
        BY <3>1, <4>1, FoldEnds, Zenon
    <3> QED
      BY <1>1, <3>1, Zenon
  <2>3. Settled(file', side', L)
    BY <1>2, <2>1, <2>2, Zenon
  <2> HIDE DEF v
  <2> QED
    BY <1>2, <2>1, <2>3 DEF Holds, Knowing, guard
<1>6. v \in {"stale", "completed", "truncated", "rewritten"}
  <2>1. CASE Settled(file, side, L)
    BY <2>1, SettledVerdict
  <2>2. CASE Folding(file, side, L)
    BY <2>2, FoldingVerdict, Zenon
  <2> QED
    BY <1>1, <2>1, <2>2, Zenon
<1> QED
  BY <1>3, <1>4, <1>5, <1>6

LEMMA RemoveHolds ==
    ASSUME NEW L, Holds(L), RemoveSideFile
    PROVE  Holds(L)'
<1>1. Settled(file, side, L)
  BY DEF Holds, RemoveSideFile
<1>2. Settled(file, None, L)
  BY <1>1, SettledAlone, Zenon
<1>3. /\ pc' = "read" /\ side' = None /\ file' = file
      /\ UNCHANGED <<guard, pending, acked>>
  BY Zenon DEF RemoveSideFile, Go
<1>4. Settled(file', side', L)
  BY <1>2, <1>3, Zenon
<1> QED
  BY <1>3, <1>4 DEF Holds, Knowing, guard

\* A start or an unlock reads the journal.
LEMMA ReadHolds ==
    ASSUME NEW L, Holds(L), ReadLocked
    PROVE  Holds(L)'
<1>1. Settled(file, side, L) /\ pc = "read"
  BY DEF Holds, ReadLocked
<1>2. Read(file) = L /\ L # Unreadable /\ L \in Seq(Kind) /\ Len(L) \in Nat /\ Len(L) > 0
  BY <1>1, SettledReads, Logs, Zenon
<1> DEFINE g == Complete(file)
<1>3. /\ file' = g /\ side' = side /\ pc' = "append"
      /\ revision' = Len(L) /\ tail' = Uncompacted(g) /\ acked' = L
      /\ retained' = retained /\ failed' = failed
      /\ \/ pending' = [by |-> "start", kind |-> "none", cells |-> 0]
         \/ /\ Last(L) \in {"in_use", "unconfirmed"}
            /\ pending' = [by |-> "unlock", kind |-> "confirmed_closed", cells |-> 0]
  BY <1>2, Zenon DEF ReadLocked, Go, Writing
<1>4. /\ Good(g, L) /\ Settled(g, side, L) /\ Complete(g) = g
      /\ \A k \in Kind : g = Torn(g, Len(L) + 1, k, 0)
  BY <1>1, SettledCut, Zenon
<1>5. Uncompacted(g) \in Nat
  BY <1>4, UncompactedNat, Zenon
<1> HIDE DEF g
<1>6. Settled(file', side', L) /\ Complete(file') = file' /\ tail' \in Nat
  BY <1>3, <1>4, <1>5, Zenon
<1>7. /\ pending' \in Append0 /\ Log!Follows(Last(L), pending'.kind)
      /\ pending'.kind \notin {"unconfirmed", "closed"} /\ pending'.cells = 0
      /\ pending'.kind \in Kind
  BY <1>3 DEF Append0, Kind, Log!Follows
<1>8. Allowed'
  BY <1>3, <1>7 DEF Allowed
<1>9. /\ pending'.cells < Width
      /\ file' = Torn(Complete(file'), Len(acked') + 1, pending'.kind, pending'.cells)
  <2>1. 0 < Width
    BY JournalAssumption
  <2> QED
    BY <1>3, <1>4, <1>7, <2>1, Zenon
<1>10. IsPrefix(L, L) /\ L # <<>>
  BY <1>2 DEF IsPrefix
<1> QED
  BY <1>2, <1>3, <1>6, <1>8, <1>9, <1>10 DEF Holds, Knowing

\* What a guard that still writes begins with.
LEMMA ReadyFacts ==
    ASSUME NEW L, Holds(L), pc = "ready", ~failed
    PROVE  /\ L = acked /\ acked \in Seq(Kind) /\ Last(acked) \in Kind
           /\ Settled(file, side, L) /\ Complete(file) = file
           /\ \A k \in Kind : file = Torn(Complete(file), Len(acked) + 1, k, 0)
           /\ Last(acked) # "closed" /\ (Last(acked) = "unconfirmed" => retained)
           /\ 0 < Width
<1>1. /\ L = acked /\ Settled(file, side, L) /\ Complete(file) = file
      /\ Last(acked) # "closed" /\ (Last(acked) = "unconfirmed" => retained)
      /\ acked \in Seq(Kind) /\ acked # <<>>
  BY DEF Holds, Knowing
<1>2. \A k \in Kind : file = Torn(Complete(file), Len(acked) + 1, k, 0)
  BY <1>1, SettledCut, Zenon
<1>3. Last(acked) \in Kind
  BY <1>1 DEF Last
<1>4. 0 < Width
  BY JournalAssumption
<1> QED
  BY <1>1, <1>2, <1>3, <1>4, Zenon

\* A guard begins an append.
LEMMA BeginHolds ==
    ASSUME NEW L, Holds(L), pc = "ready", ~failed, pc' = "append",
           UNCHANGED <<disk, revision, tail, failed, acked>>, retained' \in BOOLEAN,
           pending' \in Append0, pending'.cells = 0,
           Log!Follows(Last(acked), pending'.kind),
           pending'.kind = "unconfirmed" => retained',
           pending'.kind = "closed" => pending'.by = "close"
    PROVE  Holds(L)'
<1>1. /\ L = acked /\ Settled(file, side, L)
      /\ \A k \in Kind : file = Torn(Complete(file), Len(acked) + 1, k, 0)
      /\ 0 < Width
  BY ReadyFacts, Zenon
<1>2. file' = file /\ side' = side /\ acked' = acked
  BY Zenon DEF disk
<1>3. pending'.kind \in Kind
  BY DEF Append0
<1>4. /\ pending'.cells < Width
      /\ file' = Torn(Complete(file'), Len(acked') + 1, pending'.kind, pending'.cells)
  BY <1>1, <1>2, <1>3, Zenon
<1>5. Allowed' /\ Settled(file', side', L)
  BY <1>1, <1>2, Zenon DEF Allowed
<1> QED
  BY <1>1, <1>2, <1>4, <1>5 DEF Holds, Knowing

\* A change appends, or folds the journal first.
LEMMA ChangeHolds ==
    ASSUME NEW L, Holds(L), Change
    PROVE  Holds(L)'
<1>1. pc = "ready" /\ ~failed /\ UNCHANGED <<disk, guard, acked>>
  BY Zenon DEF Change
<1>2. /\ L = acked /\ Last(acked) \in Kind
      /\ Settled(file, side, L) /\ Complete(file) = file
      /\ Last(acked) # "closed" /\ (Last(acked) = "unconfirmed" => retained)
  BY <1>1, ReadyFacts, Zenon
<1>3. PICK k \in {"in_use", "confirmed_closed", Last(acked)} :
          /\ retained => k = Last(acked)
          /\ pending' = [by |-> "change", kind |-> k, cells |-> 0]
  BY Zenon DEF Change, Writing
<1>4. /\ pending' \in Append0 /\ pending'.cells = 0 /\ pending'.by = "change"
      /\ pending'.kind = k
  BY <1>2, <1>3 DEF Append0, Kind
<1>5. /\ Log!Follows(Last(acked), k)
      /\ k = "unconfirmed" => retained
      /\ k # "closed"
  BY <1>2, <1>3 DEF Log!Follows
<1>6. /\ retained' = retained /\ retained \in BOOLEAN /\ revision' = revision /\ tail' = tail
      /\ failed' = failed /\ file' = file /\ side' = side /\ acked' = acked
  BY <1>1, Zenon DEF guard, disk, Holds
<1>7. pc' = "append" \/ (pc' = "stage" /\ Uncompacted(file) >= 2)
  BY Zenon DEF Change, Go
<1>8. CASE pc' = "append"
  <2>1. UNCHANGED <<disk, revision, tail, failed, acked>>
    BY <1>6, Zenon DEF disk
  <2> QED
    BY <1>1, <1>4, <1>5, <1>6, <1>8, <2>1, BeginHolds, Zenon
<1>9. CASE pc' = "stage" /\ Uncompacted(file) >= 2
  <2>1. Allowed' /\ Settled(file', side', L) /\ Uncompacted(file') >= 2 /\ Complete(file') = file'
    BY <1>2, <1>4, <1>5, <1>6, <1>9, Zenon DEF Allowed
  <2> QED
    BY <1>1, <1>2, <1>4, <1>6, <1>9, <2>1 DEF Holds, Knowing
<1> QED
  BY <1>7, <1>8, <1>9, Zenon

LEMMA RetainHolds ==
    ASSUME NEW L, Holds(L), RetainUnconfirmed
    PROVE  Holds(L)'
<1>1. /\ pc = "ready" /\ retained' = TRUE
      /\ UNCHANGED <<disk, revision, tail, failed, acked>>
  BY Zenon DEF RetainUnconfirmed
<1>2. CASE failed
  <2>1. pc' = pc /\ failed'
    BY <1>1, <1>2, Zenon DEF RetainUnconfirmed
  <2>2. file' = file /\ side' = side
    BY <1>1, Zenon DEF disk
  <2> QED
    BY <1>1, <1>2, <2>1, <2>2, Zenon DEF Holds, Knowing
<1>3. CASE ~failed
  <2>1. /\ pc' = "append"
        /\ pending' = [by |-> "retain", kind |-> "unconfirmed", cells |-> 0]
    BY <1>3, Zenon DEF RetainUnconfirmed, Go, Writing
  <2>2. Last(acked) # "closed"
    BY <1>1, <1>3, ReadyFacts, Zenon
  <2>3. /\ pending' \in Append0 /\ pending'.cells = 0 /\ pending'.kind # "closed"
        /\ Log!Follows(Last(acked), pending'.kind)
    BY <2>1, <2>2 DEF Append0, Kind, Log!Follows
  <2>4. retained' \in BOOLEAN /\ retained'
    BY <1>1, Zenon
  <2> QED
    BY <1>1, <1>3, <2>1, <2>3, <2>4, BeginHolds, Zenon
<1> QED
  BY <1>2, <1>3, Zenon

LEMMA CloseHolds ==
    ASSUME NEW L, Holds(L), Close
    PROVE  Holds(L)'
<1>1. /\ pc = "ready" /\ ~failed /\ ~retained /\ pc' = "append"
      /\ UNCHANGED <<disk, guard, acked>>
      /\ pending' = [by |-> "close", kind |-> "closed", cells |-> 0]
  BY Zenon DEF Close, Go, Writing
<1>2. Last(acked) # "closed" /\ Last(acked) # "unconfirmed"
  BY <1>1, ReadyFacts, Zenon
<1>3. /\ pending' \in Append0 /\ pending'.cells = 0 /\ pending'.by = "close"
      /\ pending'.kind # "unconfirmed"
      /\ Log!Follows(Last(acked), pending'.kind)
  BY <1>1, <1>2 DEF Append0, Kind, Log!Follows
<1>4. /\ retained' \in BOOLEAN
      /\ UNCHANGED <<disk, revision, tail, failed, acked>>
  BY <1>1, Zenon DEF guard, Holds
<1> QED
  BY <1>1, <1>3, <1>4, BeginHolds, Zenon

\* A cell of a record is written.  The last one adds the record to the log.
LEMMA WriteHolds ==
    ASSUME NEW L, Holds(L), WriteRecord
    PROVE  \/ Holds(L)'
           \/ \E k \in Kind : Log!Follows(Last(L), k) /\ Holds(Append(L, k))'
<1>0. PICK k : k = pending.kind
  OBVIOUS
<1> DEFINE n == pending.cells
           q == n + 1
           r == Len(L) + 1
           g == Complete(file)
           h == Torn(g, r, k, q)
<1>1. /\ pc = "append" /\ L = acked /\ Settled(file, side, L) /\ Allowed /\ n < Width
      /\ file = Torn(g, r, k, n) /\ revision = Len(L)
  BY <1>0 DEF Holds, Knowing, WriteRecord
<1>2. k \in Kind /\ n \in Nat /\ Width \in Nat /\ pending \in Append0
  BY <1>0, <1>1, JournalAssumption DEF Allowed, Append0
<1>3. /\ Good(g, L) /\ Beside(g, side, L) /\ g \in Seq(Cell)
      /\ L \in Seq(Kind) /\ Len(L) \in Nat /\ L # <<>>
  BY <1>1, SettledCut, GoodFacts, Zenon
<1>4. /\ n \in 0..(Width - 1) /\ q \in 0..Width /\ r \in Nat
      /\ q # Width => q < Width /\ q \in 0..(Width - 1)
  <2> HIDE DEF n
  <2> QED
    BY <1>1, <1>2, <1>3
<1>5. file' = h
  <2>1. file' = Append(file, RecordLine(r, k)[n + 1])
    BY <1>0, <1>1, Zenon DEF WriteRecord
  <2> HIDE DEF g, n, r
  <2>2. g \in Seq(Cell) /\ r \in Nat /\ k \in Kind /\ n \in 0..(Width - 1)
    BY <1>2, <1>3, <1>4, Zenon
  <2>3. Torn(g, r, k, n + 1) = Append(Torn(g, r, k, n), RecordLine(r, k)[n + 1])
    BY <2>2, TornSteps, Zenon
  <2> QED
    BY <1>1, <2>1, <2>3, Zenon
<1>6. /\ side' = side /\ acked' = acked /\ revision' = revision /\ tail' = tail
      /\ retained' = retained /\ failed' = failed
      /\ pending' = [pending EXCEPT !.cells = @ + 1]
      /\ pc' = IF q = Width THEN "sync" ELSE "append"
  BY Zenon DEF WriteRecord, Go, guard
<1>7. pending' \in Append0 /\ pending'.kind = k /\ pending'.by = pending.by /\ pending'.cells = q
  BY <1>0, <1>2, <1>6 DEF Append0
<1>8. Allowed'
  BY <1>0, <1>1, <1>6, <1>7, Zenon DEF Allowed
<1> HIDE DEF n, q, r, g, h
<1>9. CASE q = Width
  <2> DEFINE M == Append(L, k)
  <2>1. h = Torn(g, Len(L) + 1, k, Width)
    BY <1>9, Zenon DEF h, r
  <2>2. Good(h, M) /\ Beside(h, side, M)
    BY <1>2, <1>3, <2>1, GoodExtends, BesideExtends, Zenon
  <2>3. Settled(file', side', M) /\ Complete(file') = file'
    BY <1>5, <1>6, <2>2, GoodSettled, GoodReads, Zenon
  <2>4. IsPrefix(acked, M)
    BY <1>1, <1>2, <1>3 DEF IsPrefix
  <2>5. pc' = "sync"
    BY <1>6, <1>9, Zenon
  <2>6. M = Append(acked', pending'.kind)
    BY <1>1, <1>6, <1>7, Zenon
  <2>7. Log!Follows(Last(L), k)
    BY <1>0, <1>1, Zenon DEF Allowed
  <2> HIDE DEF M
  <2>8. Holds(M)'
    BY <1>1, <1>6, <1>8, <2>3, <2>4, <2>5, <2>6 DEF Holds, Knowing
  <2> QED
    BY <1>2, <2>7, <2>8, Zenon DEF M
<1>10. CASE q # Width
  <2>1. Complete(h) = g
    <3>1. Good(g, L) /\ r \in Nat /\ k \in Kind /\ q \in 0..Width /\ q < Width
      BY <1>2, <1>3, <1>4, <1>10, Zenon
    <3> QED
      BY <3>1, TornReads, Zenon DEF h
  <2>2. Settled(h, side, L)
    BY <1>2, <1>3, <1>4, <1>10, <2>1, Zenon DEF Settled, h, r
  <2>3. /\ Settled(file', side', L) /\ pending'.cells < Width
        /\ file' = Torn(Complete(file'), Len(acked') + 1, pending'.kind, pending'.cells)
    BY <1>1, <1>4, <1>5, <1>6, <1>7, <1>10, <2>1, <2>2, Zenon DEF h, r
  <2>4. pc' = "append"
    BY <1>6, <1>10, Zenon
  <2> QED
    BY <1>1, <1>6, <1>8, <2>3, <2>4 DEF Holds, Knowing
<1> QED
  BY <1>9, <1>10, Zenon

\* The append returns.
LEMMA SyncedHolds ==
    ASSUME NEW L, Holds(L), RecordSynced
    PROVE  Holds(L)'
<1>1. /\ pc = "sync" /\ L = Append(acked, pending.kind) /\ Complete(file) = file
      /\ Settled(file, side, L) /\ Allowed /\ revision = Len(acked) /\ revision \in Nat
      /\ tail \in Nat /\ acked \in Seq(Kind) /\ retained \in BOOLEAN /\ failed \in BOOLEAN
  BY DEF Holds, Knowing, RecordSynced
<1>2. /\ file' = file /\ side' = side /\ acked' = L
      /\ retained' = retained /\ failed' = failed
  BY <1>1, Zenon DEF RecordSynced, disk
<1>3. /\ L \in Seq(Kind) /\ L # <<>> /\ IsPrefix(L, L) /\ Len(L) = revision + 1
      /\ Last(L) = pending.kind
  <2>1. pending.kind \in Kind
    BY <1>1 DEF Allowed, Append0
  <2> QED
    BY <1>1, <2>1 DEF IsPrefix, Last
<1>4. CASE pending.by \in {"close", "unlock"}
  <2>1. pc' = "down" /\ revision' = 0 /\ tail' = 0
    BY <1>4, Zenon DEF RecordSynced, Go
  <2> QED
    BY <1>1, <1>2, <1>3, <2>1 DEF Holds, Knowing
<1>5. CASE pending.by \notin {"close", "unlock"}
  <2>1. pc' = "ready" /\ revision' = revision + 1 /\ tail' = tail + 1
    BY <1>5, Zenon DEF RecordSynced, Go
  <2>2. revision' = Len(L) /\ revision' \in Nat /\ tail' \in Nat
    BY <1>1, <1>3, <2>1
  <2>3. Last(L) # "closed" /\ (Last(L) = "unconfirmed" => retained)
    BY <1>1, <1>3, <1>5, Zenon DEF Allowed
  <2> QED
    BY <1>1, <1>2, <1>3, <2>1, <2>2, <2>3 DEF Holds, Knowing
<1> QED
  BY <1>4, <1>5, Zenon

\* A failed retention or close is the guard's last write.
LEMMA FailedHolds ==
    ASSUME FailingAppends \subseteq {"retain", "close"}, NEW L, Holds(L), WriteFailed
    PROVE  Holds(L)'
<1>1. failed' = TRUE /\ pc' = "ready" /\ UNCHANGED <<disk, revision, tail, retained, acked>>
  BY Zenon DEF WriteFailed, Go
<1>2. file' = file /\ side' = side
  BY <1>1, Zenon DEF disk
<1> QED
  BY <1>1, <1>2, Zenon DEF Holds, Knowing

\* The side file of a fold is written: both files would say the same.
LEMMA StageHolds ==
    ASSUME NEW L, Holds(L), StageSideFile
    PROVE  Holds(L)'
<1>1. /\ pc = "stage" /\ L = acked /\ Settled(file, side, L) /\ Complete(file) = file
      /\ revision = Len(acked) /\ revision \in Nat /\ Uncompacted(file) >= 2
      /\ Allowed /\ pending.cells = 0
  BY DEF Holds, Knowing, StageSideFile
<1>2. PICK w \in CheckpointWidth :
          side' = [sealed |-> FALSE, image |-> Folded(w), predecessor |-> file,
                   through |-> revision]
  BY Zenon DEF StageSideFile
<1>3. Good(file, L) /\ Read(file) = L /\ file \in Seq(Cell)
  BY <1>1, SettledReads, Zenon DEF Settled
<1>4. Folded(w) = CheckpointLine(Front(L), w) \o RecordLine(Len(L), Last(L))
  BY <1>3, Zenon DEF Folded
<1>5. Good(Folded(w), L) /\ Folded(w)[1] # file[1]
  BY <1>1, <1>3, <1>4, FoldedGood, Zenon
<1>6. Folded(w) \in Seq(Cell)
  BY <1>5, GoodFacts, Zenon
<1>7. /\ side' \in SideFile /\ ~side'.sealed /\ side'.predecessor = file
      /\ side'.image = Folded(w) /\ side'.through = Len(acked)
  BY <1>1, <1>2, <1>3, <1>6 DEF SideFile
<1>8. side' # None
  BY <1>7, NoneAssumption, Zenon
<1>9. /\ pc' = "seal" /\ file' = file /\ pending' = pending /\ acked' = acked
      /\ UNCHANGED guard
  BY Zenon DEF StageSideFile, Go
<1>10. Settled(file, side', L)
  <2>1. Beside(file, side', L)
    BY <1>7, Zenon DEF Beside
  <2> QED
    BY <1>3, <2>1, GoodSettled, Zenon
<1>11. /\ Settled(file', side', L) /\ Complete(file') = file'
       /\ Good(side'.image, acked') /\ side'.image[1] # file'[1]
       /\ side'.predecessor = file' /\ side'.through = Len(acked')
  BY <1>1, <1>5, <1>7, <1>9, <1>10, Zenon
<1>12. Allowed'
  BY <1>1, <1>9, Zenon DEF Allowed, guard
<1> QED
  BY <1>1, <1>7, <1>8, <1>9, <1>11, <1>12 DEF Holds, Knowing, guard

\* A journal is a mix of itself and of what will be written over it.
LEMMA UnwrittenMix ==
    ASSUME NEW m \in Seq(Cell), NEW p \in Seq(Cell)
    PROVE  Mixed(p, m, p)
<1>1. Len(m) \in Nat /\ Len(p) \in Nat /\ DOMAIN p = 1..Len(p)
  OBVIOUS
<1>2. 0 \in 0..Len(m) /\ ~(0 > Len(p)) /\ \A i \in 1..Len(p) : ~(i <= 0)
  BY <1>1
<1>3. Len(m) <= Len(p) \/ Len(p) < Len(m)
  BY <1>1
<1>4. ASSUME Len(m) <= Len(p) PROVE Mixed(p, m, p)
  BY <1>4, Zenon DEF Mixed, Shrinking
<1>5. ASSUME Len(p) < Len(m) PROVE Growing(p, m, p, 0)
  BY <1>1, <1>2, <1>5, Zenon DEF Growing
<1> QED
  BY <1>2, <1>3, <1>4, <1>5, Zenon DEF Mixed

\* The side file as its seal leaves it.
LEMMA SealedFile ==
    ASSUME NEW s \in SideFile
    PROVE  LET t == [s EXCEPT !.sealed = TRUE] IN
           /\ t \in SideFile /\ t # None /\ t.sealed /\ t.image = s.image
           /\ t.predecessor = s.predecessor /\ t.through = s.through
<1> DEFINE t == [s EXCEPT !.sealed = TRUE]
<1>1. /\ t \in SideFile /\ t.sealed /\ t.image = s.image
      /\ t.predecessor = s.predecessor /\ t.through = s.through
  BY Zenon DEF SideFile
<1>2. t # None
  BY <1>1, NoneAssumption, Zenon
<1> QED
  BY <1>1, <1>2, Zenon

\* The state in which the side file waits for its seal.
LEMMA UnsealedFacts ==
    ASSUME NEW L, Holds(L), pc = "seal"
    PROVE  /\ L = acked /\ Settled(file, side, L) /\ Complete(file) = file /\ Good(file, L)
           /\ side \in SideFile /\ side.predecessor = file /\ side.through = Len(L)
           /\ Good(side.image, L) /\ side.image[1] # file[1]
           /\ file \in Seq(Cell) /\ side.image \in Seq(Cell)
<1>1. /\ L = acked /\ Settled(file, side, L) /\ Complete(file) = file
      /\ side # None /\ side.predecessor = file /\ side.through = Len(acked)
      /\ Good(side.image, acked) /\ side.image[1] # file[1]
  BY DEF Holds, Knowing
<1>2. Good(file, L) /\ side \in SideFile
  BY <1>1, Zenon DEF Settled, Beside
<1>3. file \in Seq(Cell) /\ side.image \in Seq(Cell)
  BY <1>1, <1>2, GoodFacts, Zenon
<1> QED
  BY <1>1, <1>2, <1>3, Zenon

LEMMA SealHolds ==
    ASSUME NEW L, Holds(L), SealSideFile
    PROVE  Holds(L)'
<1>1. /\ pc = "seal" /\ side' = [side EXCEPT !.sealed = TRUE] /\ pc' = "rewrite"
      /\ file' = file /\ pending' = pending /\ acked' = acked /\ UNCHANGED guard
  BY Zenon DEF SealSideFile, Go
<1>2. /\ Good(file, L) /\ side \in SideFile /\ side.predecessor = file
      /\ side.through = Len(L) /\ Good(side.image, L) /\ side.image[1] # file[1]
      /\ file \in Seq(Cell) /\ side.image \in Seq(Cell)
  BY <1>1, UnsealedFacts, Zenon
<1>3. /\ side' \in SideFile /\ side'.sealed /\ side'.image = side.image
      /\ side'.predecessor = file /\ side'.through = Len(L)
  BY <1>1, <1>2, SealedFile, Zenon
<1>4. Mixed(file, side.image, file)
  BY <1>2, UnwrittenMix, Zenon
<1>5. Folding(file', side', L)
  <2>1. Good(side'.image, L) /\ Good(side'.predecessor, L)
    BY <1>2, <1>3, Zenon
  <2>2. side'.image[1] # side'.predecessor[1]
    BY <1>2, <1>3, Zenon
  <2>3. file' \in Seq(Cell) /\ Mixed(file', side'.image, side'.predecessor)
    BY <1>1, <1>2, <1>3, <1>4, Zenon
  <2> QED
    BY <1>3, <2>1, <2>2, <2>3, Zenon DEF Folding
<1> QED
  BY <1>1, <1>5 DEF Holds, Knowing, Allowed, guard

\* A fold that fails before its seal counts leaves a side file that is stale.
LEMMA StageFailedHolds ==
    ASSUME NEW L, Holds(L), StageFailed
    PROVE  Holds(L)'
<1>1. /\ pc \in {"stage", "seal"} /\ pc' = "ready" /\ file' = file /\ acked' = acked
      /\ UNCHANGED guard
      /\ \/ side' = None \/ side' = side
         \/ pc = "seal" /\ side' = [side EXCEPT !.sealed = TRUE]
  BY DEF StageFailed, Go
<1>2. L = acked /\ Settled(file, side, L) /\ Complete(file) = file
  BY <1>1 DEF Holds, Knowing
<1>3. Settled(file, side', L)
  <2>1. CASE side' = None
    BY <1>2, <2>1, SettledAlone, Zenon
  <2>2. CASE side' = side
    BY <1>2, <2>2, Zenon
  <2>3. CASE pc = "seal" /\ side' = [side EXCEPT !.sealed = TRUE]
    <3>1. Good(file, L) /\ side \in SideFile /\ side.predecessor = file /\ file \in Seq(Cell)
      BY <2>3, UnsealedFacts, Zenon
    <3>2. side' \in SideFile /\ side'.predecessor = file
      BY <2>3, <3>1, SealedFile, Zenon
    <3>3. IsPrefix(side'.predecessor, file)
      BY <3>1, <3>2, SamePrefix, Zenon
    <3>4. Beside(file, side', L)
      BY <3>2, <3>3, Zenon DEF Beside
    <3> QED
      BY <3>1, <3>4, GoodSettled, Zenon
  <2> QED
    BY <1>1, <2>1, <2>2, <2>3, Zenon
<1>4. Settled(file', side', L) /\ Complete(file') = file'
  BY <1>1, <1>2, <1>3, Zenon
<1> QED
  BY <1>1, <1>2, <1>4 DEF Holds, Knowing, guard

\* A step of S3 keeps the fold.
LEMMA RewriteHolds ==
    ASSUME NEW L, Holds(L), pc \in {"rewrite", "repair"}, Folding(file', side, L),
           UNCHANGED <<side, pc, guard, pending, acked>>
    PROVE  Holds(L)'
<1>1. Folding(file', side', L)
  BY Zenon
<1> QED
  BY <1>1 DEF Holds, Knowing, Allowed, guard

LEMMA ImageHolds ==
    ASSUME WellOrdered, Reorder \subseteq {"shrinks"}, NEW L, Holds(L), WriteImage
    PROVE  Holds(L)'
<1>1. pc \in {"rewrite", "repair"} /\ Folding(file, side, L)
  BY Zenon DEF Holds, WriteImage
<1>2. PICK k \in Differing :
          /\ k <= Len(file) + 1
          /\ Unordered \/ k = Min(Differing)
          /\ file' = [i \in 1..Max({k, Len(file)}) |->
                         IF i = k THEN side.image[k] ELSE file[i]]
  BY Zenon DEF WriteImage
<1>3. Folding(file', side, L)
  BY <1>1, <1>2, WriteFolding, Zenon
<1>4. UNCHANGED <<side, pc, guard, pending, acked>>
  BY Zenon DEF WriteImage
<1> QED
  BY <1>1, <1>3, <1>4, RewriteHolds, Zenon

LEMMA LengthHolds ==
    ASSUME NEW L, Holds(L), SetLength
    PROVE  Holds(L)'
<1>1. /\ pc \in {"rewrite", "repair"} /\ Folding(file, side, L)
      /\ Len(file) > Len(side.image) /\ file' = SubSeq(file, 1, Len(side.image))
      /\ UNCHANGED <<side, pc, guard, pending, acked>>
  BY Zenon DEF Holds, SetLength
<1>2. Folding(file', side, L)
  BY <1>1, CutFolding, Zenon
<1> QED
  BY <1>1, <1>2, RewriteHolds, Zenon

\* The rewrite is done: the journal is the image.
LEMMA ImageSyncedHolds ==
    ASSUME NEW L, Holds(L), ImageSynced
    PROVE  Holds(L)'
<1>1. /\ pc \in {"rewrite", "repair"} /\ Folding(file, side, L) /\ file = side.image
      /\ file' = file /\ side' = side /\ pending' = pending /\ acked' = acked
      /\ UNCHANGED <<revision, retained, failed>>
      /\ \/ pc = "rewrite" /\ pc' = "unlink" /\ tail' = 1
         \/ pc = "repair" /\ pc' = "clean" /\ tail' = tail
  BY DEF Holds, ImageSynced, Go, disk
<1>2. Settled(file, side, L) /\ Complete(file) = file
  BY <1>1, FoldEnds, Zenon
<1>3. Settled(file', side', L) /\ Complete(file') = file' /\ side'.image = file'
  BY <1>1, <1>2, Zenon
<1>4. side' # None /\ side'.sealed
  BY <1>1, FoldingParts, Zenon
<1>5. CASE pc = "rewrite" /\ pc' = "unlink" /\ tail' = 1
  BY <1>1, <1>3, <1>4, <1>5 DEF Holds, Knowing, Allowed
<1>6. CASE pc = "repair" /\ pc' = "clean" /\ tail' = tail
  BY <1>1, <1>3, <1>6 DEF Holds, Knowing
<1> QED
  BY <1>1, <1>5, <1>6, Zenon

\* A failure of S3 is kept.
LEMMA RewriteFailedHolds ==
    ASSUME NEW L, Holds(L), RewriteFailed
    PROVE  Holds(L)'
<1>1. /\ pc = "rewrite" /\ pc' = "ready" /\ failed' = TRUE /\ file' = file /\ side' = side
      /\ UNCHANGED <<revision, tail, retained, acked>>
  BY Zenon DEF RewriteFailed, Go, disk
<1> QED
  BY <1>1, Zenon DEF Holds, Knowing

LEMMA UnlinkHolds ==
    ASSUME NEW L, Holds(L), UnlinkSideFile
    PROVE  Holds(L)'
<1>1. /\ pc = "unlink" /\ L = acked /\ Settled(file, side, L) /\ Complete(file) = file
      /\ Allowed /\ pending.cells = 0
  BY DEF Holds, Knowing, UnlinkSideFile
<1>2. /\ pc' = "append" /\ side' = None /\ file' = file /\ pending' = pending
      /\ acked' = acked /\ UNCHANGED guard
  BY Zenon DEF UnlinkSideFile, Go
<1>3. \A k \in Kind : file = Torn(Complete(file), Len(acked) + 1, k, 0)
  BY <1>1, SettledCut, Zenon
<1>4. 0 < Width /\ pending.kind \in Kind
  BY <1>1, JournalAssumption DEF Allowed, Append0
<1>5. Settled(file, None, L)
  BY <1>1, SettledAlone, Zenon
<1>6. /\ pending'.cells < Width /\ Settled(file', side', L) /\ Allowed'
      /\ file' = Torn(Complete(file'), Len(acked') + 1, pending'.kind, pending'.cells)
  BY <1>1, <1>2, <1>3, <1>4, <1>5, Zenon DEF Allowed, guard
<1> QED
  BY <1>1, <1>2, <1>6 DEF Holds, Knowing, guard

LEMMA UnlinkFailedHolds ==
    ASSUME NEW L, Holds(L), UnlinkFailed
    PROVE  Holds(L)'
<1>1. /\ pc = "unlink" /\ pc' = "ready" /\ file' = file /\ side' = side
      /\ acked' = acked /\ UNCHANGED guard
  BY Zenon DEF UnlinkFailed, Go, disk
<1> QED
  BY <1>1 DEF Holds, Knowing, guard

-----------------------------------------------------------------------------
\* The journal keeps what it says.

\* A log with one more record.
LEMMA AppendElements ==
    ASSUME NEW L \in Seq(Kind), NEW k \in Kind
    PROVE  /\ Append(L, k) \in Seq(Kind) /\ Len(Append(L, k)) = Len(L) + 1
           /\ Append(L, k)[Len(L) + 1] = k
           /\ \A i \in 1..Len(L) : Append(L, k)[i] = L[i]
OBVIOUS

\* The log of an ended epoch.
LEMMA EndedLog ==
    /\ Len(<<"none">>) + 1 = 2
    /\ Append(<<"none">>, "closed") = <<"none", "closed">>
<1> DEFINE u == <<"none">>
           s == Append(u, "closed")
           t == <<"none", "closed">>
<1>1. u \in Seq(Kind) /\ Len(u) = 1 /\ u[1] = "none"
  BY DEF Kind
<1>2. t \in Seq(Kind) /\ Len(t) = 2 /\ t[1] = "none" /\ t[2] = "closed"
  BY DEF Kind
<1> HIDE DEF u, t
<1>3. s \in Seq(Kind) /\ Len(s) = 2 /\ s[1] = "none" /\ s[2] = "closed"
  <2>1. "closed" \in Kind
    BY DEF Kind
  <2>2. /\ s \in Seq(Kind) /\ Len(s) = Len(u) + 1 /\ s[Len(u) + 1] = "closed"
        /\ \A i \in 1..Len(u) : s[i] = u[i]
    BY <1>1, <2>1, AppendElements, Zenon
  <2> HIDE DEF s
  <2>3. Len(u) + 1 = 2 /\ 1 \in 1..Len(u)
    BY <1>1
  <2> QED
    BY <1>1, <2>2, <2>3, Zenon
<1> HIDE DEF s
<1>4. \A i \in 1..Len(s) : s[i] = t[i]
  BY <1>2, <1>3
<1>5. s = t
  BY <1>2, <1>3, <1>4, SameSequence, Zenon
<1>6. Len(u) + 1 = 2
  BY <1>1
<1> QED
  BY <1>5, <1>6, Zenon DEF u, s, t

\* The journal of an ended epoch.
LEMMA InitHolds ==
    ASSUME Init
    PROVE  Holds(<<"none", "closed">>)
<1> DEFINE text == [revision |-> 1, log |-> <<"none">>, folded |-> FALSE]
           f == Line(text, Width)
           L == <<"none">>
<1>1. /\ text \in Text /\ text.revision = Len(text.log) /\ Len(text.log) > 0
      /\ text.revision = 1 /\ text.log = L
  BY DEF Text, Kind
<1>2. Width \in Nat \ {0} /\ "closed" \in Kind /\ 2 \in Nat
  BY JournalAssumption DEF Kind
<1>3. Good(f, L)
  <2> HIDE DEF text, L
  <2>1. Good(Line(text, Width), text.log)
    BY <1>1, <1>2, LineGood, Zenon
  <2> QED
    BY <1>1, <2>1, Zenon
<1>4. f = RecordLine(1, "none")
  BY Zenon DEF RecordLine
<1>5. Len(L) + 1 = 2 /\ Append(L, "closed") = <<"none", "closed">>
  BY EndedLog, Zenon
<1> HIDE DEF L, f
<1>6. f \in Seq(Cell)
  BY <1>3, GoodFacts, Zenon
<1>7. Torn(f, 2, "closed", Width) = file
  <2>1. Torn(f, 2, "closed", Width) = f \o RecordLine(2, "closed")
    BY <1>2, <1>6, TornSteps, Zenon
  <2> QED
    BY <1>4, <2>1, Zenon DEF Init
<1>8. Good(file, <<"none", "closed">>)
  <2>1. Good(Torn(f, Len(L) + 1, "closed", Width), Append(L, "closed"))
    BY <1>2, <1>3, GoodExtends, Zenon
  <2> QED
    BY <1>5, <1>7, <2>1, Zenon
<1> DEFINE M == <<"none", "closed">>
<1>9. M \in Seq(Kind) /\ M # <<>> /\ IsPrefix(M, M)
  BY DEF Kind, IsPrefix
<1> HIDE DEF M
<1>10. Settled(file, None, M)
  <2>1. Beside(file, None, M)
    BY Zenon DEF Beside
  <2> QED
    BY <1>8, <2>1, GoodSettled, Zenon DEF M
<1>11. acked = M
  BY <1>8, GoodReads, Zenon DEF Init, M
<1>12. Holds(M)
  BY <1>9, <1>10, <1>11, Zenon DEF Init, Holds, Knowing
<1> QED
  BY <1>12, Zenon DEF M

\* A step keeps the log or adds one record that the log allows.
LEMMA StepHolds ==
    ASSUME WellOrdered, Orderly, NEW L, Holds(L), [Next]_vars
    PROVE  \/ Holds(L)'
           \/ \E k \in Kind : Log!Follows(Last(L), k) /\ Holds(Append(L, k))'
<1>1. CASE UNCHANGED vars
  BY <1>1, Zenon DEF Holds, Knowing, Allowed, vars, disk, guard
<1>2. CASE Start
  BY <1>2, RecoverHolds, RemoveHolds, ReadHolds, Zenon DEF Start
<1>3. CASE Fold
  BY <1>3, StageHolds, SealHolds, StageFailedHolds, ImageHolds, LengthHolds,
     ImageSyncedHolds, RewriteFailedHolds, UnlinkHolds, UnlinkFailedHolds, Zenon
     DEF Fold, Orderly
<1>4. CASE Change \/ RetainUnconfirmed \/ Close \/ RecordSynced \/ WriteFailed \/ Crash
  BY <1>4, ChangeHolds, RetainHolds, CloseHolds, SyncedHolds, FailedHolds, CrashHolds, Zenon
     DEF Orderly
<1>5. CASE WriteRecord
  BY <1>5, WriteHolds, Zenon
<1> QED
  BY <1>1, <1>2, <1>3, <1>4, <1>5, Zenon DEF Next

\* The log is what the next start would read.
LEMMA HoldsRecovered ==
    ASSUME WellOrdered
    PROVE  /\ \A L : Holds(L) => Recovered = L
           /\ \A L : Holds(L)' => Recovered' = L
<1>1. ASSUME NEW L, Holds(L) PROVE Recovered = L
  <2>1. Settled(file, side, L) \/ Folding(file, side, L)
    BY <1>1, Zenon DEF Holds
  <2> QED
    BY <2>1, Recovers, Zenon DEF Recovered
<1>2. ASSUME NEW L, Holds(L)' PROVE Recovered' = L
  <2>1. Settled(file', side', L) \/ Folding(file', side', L)
    BY <1>2, Zenon DEF Holds
  <2>2. Recovery(file', side') = L
    BY <2>1, Recovers, Zenon
  <2> QED
    BY <2>2, Zenon DEF Recovered
<1> QED
  BY <1>1, <1>2, Zenon

INSTANCE WellFoundedInduction

\* Of several numbers one is the least.
LEMMA Least == WellOrdered
<1>1. ASSUME NEW T \in SUBSET Nat, T # {}
      PROVE  \E n \in T : \A l \in T : n <= l
  <2>1. PICK n \in T : \A l \in T : ~(<<l, n>> \in OpToRel(<, Nat))
    BY <1>1, NatLessThanWellFounded, WFMin, Zenon
  <2>2. \A l \in T : <<l, n>> \in OpToRel(<, Nat) <=> l < n
    BY DEF OpToRel
  <2>3. \A l \in T : ~(l < n)
    BY <2>1, <2>2, Zenon
  <2>4. \A l \in T : n <= l
    BY <2>3, SMT
  <2> QED
    BY <2>4, Zenon
<1> QED
  BY <1>1, Zenon DEF WellOrdered

LEMMA JournalKept ==
    ASSUME Orderly
    PROVE  Spec => []JournalInv
<1>1. Init => JournalInv
  BY InitHolds, Least, HoldsRecovered, Zenon DEF JournalInv
<1>2. ASSUME JournalInv, [Next]_vars PROVE JournalInv'
  <2>1. PICK L : L = Recovered
    OBVIOUS
  <2>2. Holds(L)
    BY <1>2, <2>1, Zenon DEF JournalInv
  <2>3. \E M : Holds(M)'
    BY <1>2, <2>2, Least, StepHolds, Zenon
  <2>4. PICK M : Holds(M)'
    BY <2>3
  <2>5. Recovered' = M
    BY <2>4, Least, HoldsRecovered, Zenon
  <2> QED
    BY <2>4, <2>5, Zenon DEF JournalInv
<1> QED
  BY <1>1, <1>2, PTL DEF Spec

\* The guard and the two files keep their types through every append, fold, failure,
\* crash and recovery (OwnerGuard, owner.lock, owner.lock.compact).
THEOREM JournalTyped ==
    ASSUME Orderly
    PROVE  Spec => []JournalTypeOK
<1>1. ASSUME NEW L, Holds(L) PROVE JournalTypeOK
  <2>1. Settled(file, side, L) \/ Folding(file, side, L)
    BY <1>1, Zenon DEF Holds
  <2>2. file \in Seq(Cell)
    BY <2>1, Logs, Zenon
  <2>3. side \in SideFile \cup {None}
    BY <2>1, Zenon DEF Settled, Beside, Folding
  <2> QED
    BY <1>1, <2>2, <2>3 DEF Holds, JournalTypeOK
<1>2. JournalInv => JournalTypeOK
  BY <1>1, Zenon DEF JournalInv
<1> QED
  BY <1>2, JournalKept, PTL

\* Wherever the process ends, between two cells of an append, inside a fold or inside
\* the recovery of one, the next start reads the journal, and reads every record
\* whose append had returned (write_record, compact, recover_compaction_locked).
THEOREM AckedIsDurable ==
    ASSUME Orderly
    PROVE  Spec => []AckedDurable
<1>1. ASSUME NEW L, Holds(L), Recovered = L PROVE AckedDurable
  <2>1. (Settled(file, side, L) \/ Folding(file, side, L)) /\ IsPrefix(acked, L)
    BY <1>1, Zenon DEF Holds
  <2>2. L # Unreadable
    BY <2>1, Logs, Zenon
  <2> QED
    BY <1>1, <2>1, <2>2, Zenon DEF AckedDurable
<1>2. JournalInv => AckedDurable
  BY <1>1, Zenon DEF JournalInv
<1> QED
  BY <1>2, JournalKept, PTL

\* A guard that still writes has the revision of the last record in the journal, so
\* that the next one it gives is the one the reader expects, also behind a failed
\* fold (OwnerGuard.record, journal_gate).
THEOREM GuardKnowsJournal ==
    ASSUME Orderly
    PROVE  Spec => []GuardKnows
<1>1. ASSUME NEW L, Holds(L), Recovered = L, pc = "ready", ~failed
      PROVE  Recovered # Unreadable /\ revision = Len(Recovered)
  <2>1. /\ Settled(file, side, L) /\ L = acked /\ revision = Len(acked)
    BY <1>1 DEF Holds, Knowing
  <2>2. L # Unreadable
    BY <2>1, Logs, Zenon
  <2> QED
    BY <1>1, <2>1, <2>2, Zenon
<1>2. JournalInv => GuardKnows
  BY <1>1, Zenon DEF JournalInv, GuardKnows
<1> QED
  BY <1>2, JournalKept, PTL

\* It follows the log as OwnerLog has it.
LEMMA AppendRecords ==
    ASSUME NEW L \in Seq(Kind), L # <<>>, NEW k \in Kind, Log!Follows(Last(L), k)
    PROVE  LET M == Append(L, k) IN
           /\ Len(M) = Len(L) + 1
           /\ SubSeq(M, 1, Len(L)) = L
           /\ M[Len(M)] \in Kind
           /\ Log!Follows(IF Len(M) = 1 THEN "closed" ELSE M[Len(M) - 1], M[Len(M)])
<1> DEFINE M == Append(L, k)
<1>1. /\ Len(L) \in Nat /\ Len(L) > 0 /\ M \in Seq(Kind) /\ Len(M) = Len(L) + 1
      /\ M[Len(L) + 1] = k /\ \A i \in 1..Len(L) : M[i] = L[i]
  <2>1. Len(L) \in Nat /\ Len(L) > 0
    OBVIOUS
  <2> QED
    BY <2>1, AppendElements, Zenon
<1> HIDE DEF M
<1>2. /\ Len(L) <= Len(M) /\ Len(M) # 1 /\ Len(M) - 1 = Len(L) /\ Len(L) \in 1..Len(L)
  BY <1>1
<1>3. SubSeq(M, 1, Len(L)) = L
  <2> DEFINE N == SubSeq(M, 1, Len(L))
  <2>1. N \in Seq(Kind) /\ Len(N) = Len(L) /\ \A i \in 1..Len(L) : N[i] = M[i]
    BY <1>1, <1>2, PartElements, Zenon
  <2> HIDE DEF N
  <2>2. \A i \in 1..Len(N) : N[i] = L[i]
    BY <1>1, <2>1, Zenon
  <2>3. N = L
    BY <2>1, <2>2, SameSequence, Zenon
  <2> QED
    BY <2>3, Zenon DEF N
<1>4. M[Len(M)] = k /\ M[Len(M) - 1] = Last(L)
  BY <1>1, <1>2, Zenon DEF Last
<1> QED
  BY <1>1, <1>2, <1>3, <1>4, Zenon DEF M

\* What a start would read begins as a log and changes only by one whole record that
\* may follow the last: the journal implements OwnerLog, whatever folds, crashes and
\* recoveries do to its files in between.
THEOREM JournalImplementsLog ==
    ASSUME Orderly
    PROVE  Spec => ImplementsLog
<1>1. ASSUME NEW L, Holds(L) PROVE L \in Seq(Kind) /\ L # <<>>
  <2>1. (Settled(file, side, L) \/ Folding(file, side, L)) /\ acked # <<>>
    BY <1>1, Zenon DEF Holds
  <2>2. L \in Seq(Kind) /\ Len(L) > 0
    BY <2>1, Logs, Zenon
  <2> QED
    BY <2>2
<1>2. JournalInv => Log!Init
  BY <1>1, Zenon DEF JournalInv, Log!Init
<1>3. ASSUME JournalInv, [Next]_vars PROVE [Log!Next]_Recovered
  <2>1. PICK L : L = Recovered
    OBVIOUS
  <2>2. Holds(L)
    BY <1>3, <2>1, Zenon DEF JournalInv
  <2>3. L \in Seq(Kind) /\ L # <<>>
    BY <1>1, <2>2, Zenon
  <2>4. CASE Holds(L)'
    <3>1. Recovered' = L
      BY <2>4, Least, HoldsRecovered, Zenon
    <3> QED
      BY <2>1, <3>1, Zenon
  <2>5. ASSUME NEW k \in Kind, Log!Follows(Last(L), k), Holds(Append(L, k))'
        PROVE  Log!Next
    <3>1. Recovered' = Append(L, k)
      BY <2>5, Least, HoldsRecovered, Zenon
    <3>2. Log!Record(Append(L, k))
      BY <2>1, <2>3, <2>5, AppendRecords, Zenon DEF Log!Record
    <3> QED
      BY <3>1, <3>2, Zenon DEF Log!Next
  <2> QED
    BY <1>3, <2>2, <2>4, <2>5, Least, StepHolds, Zenon
<1> QED
  <2>1. Init => JournalInv
    BY InitHolds, Least, HoldsRecovered, Zenon DEF JournalInv
  <2> QED
    BY <1>2, <1>3, <2>1, JournalKept, PTL DEF Spec, ImplementsLog, Log!Spec

=============================================================================
