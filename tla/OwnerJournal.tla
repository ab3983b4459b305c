---------------------------- MODULE OwnerJournal ----------------------------
(***************************************************************************)
(* The owner journal on disk (runtime-host/src/owner.rs and                *)
(* ledger/src/owner_journal.rs): appends of one line, the fold of every    *)
(* record but the last into a leading checkpoint (S1-S4), and what a start *)
(* makes of the file and the side file a crash left (R1-R4).               *)
(*                                                                         *)
(* A file is a sequence of cells; a line is a run of cells, the last of    *)
(* which carries its newline.  file and side are what the next start would *)
(* find, so a crash changes nothing but the process.                       *)
(***************************************************************************)
EXTENDS Integers, Sequences, FiniteSetsExt

CONSTANTS
    None,
    Unreadable,       \* the reader's refusal: owner_record_invalid and the like
    Width,            \* cells of a record's line
    CheckpointWidth,  \* the cells a checkpoint's line may have
    CompactTail,      \* OWNER_JOURNAL_COMPACT_TAIL_BYTES, in records
    Reorder,          \* the folds whose cells may reach the disk in any order
    FailingAppends,   \* the writers of the guard whose append may fail half way
    MaxRevision       \* bound: records ever written

ASSUME JournalAssumption ==
    /\ Width \in Nat \ {0}
    /\ CheckpointWidth \subseteq Nat \ {0}
    /\ CompactTail \in Nat \ {0}
    /\ FailingAppends \subseteq {"change", "retain", "close"}
    /\ Reorder \subseteq {"shrinks", "grows"}
    /\ MaxRevision \in Nat

\* What a record says: the disposition of an active owner's resources, or that the
\* epoch closed.
Kind == {"none", "in_use", "confirmed_closed", "unconfirmed", "closed"}

\* A cell of a line: what the line says, and which of its cells it is.
Cell == [text : [revision : Nat, log : Seq(Kind), folded : BOOLEAN], at : Nat, of : Nat]
SideFile == [sealed : BOOLEAN, image : Seq(Cell), predecessor : Seq(Cell), through : Nat]

ASSUME NoneAssumption == None \notin SideFile /\ Unreadable \notin Seq(Kind)

VARIABLES
    file,      \* owner.lock
    side,      \* owner.lock.compact, or None
    pc,        \* where the process is; "down" without one
    revision,  \* OwnerGuard.record.revision
    tail,      \* OwnerGuard.uncompacted_bytes, in records
    retained,  \* OwnerGuard.retained_unconfirmed
    failed,    \* OwnerGuard.journal_failure, or the error a retention or close keeps
    pending,   \* the append under way, or None
    acked      \* the log as the last read or append to return left it

disk == <<file, side>>
guard == <<revision, tail, retained, failed>>
vars == <<disk, pc, guard, pending, acked>>

-----------------------------------------------------------------------------
\* Lines and reading (parse_journal, read_locked).

Last(s) == s[Len(s)]
Front(s) == SubSeq(s, 1, Len(s) - 1)
IsPrefix(s, t) == Len(s) <= Len(t) /\ SubSeq(s, 1, Len(s)) = SubSeq(t, 1, Len(s))

Line(text, w) == [k \in 1..w |-> [text |-> text, at |-> k, of |-> w]]
RecordLine(r, k) == Line([revision |-> r, log |-> <<k>>, folded |-> FALSE], Width)
CheckpointLine(log, w) ==
    Line([revision |-> Len(log), log |-> log, folded |-> TRUE], w)

IsEnd(cell) == cell.at = cell.of
Ends(f) == {k \in DOMAIN f : IsEnd(f[k])}
\* The content up to the last newline.
Complete(f) == SubSeq(f, 1, Max(Ends(f) \cup {0}))
\* Every line is whole.
Whole(f) ==
    \A k \in DOMAIN f :
        IF f[k].at = 1 THEN k = 1 \/ IsEnd(f[k - 1])
        ELSE k > 1 /\ f[k - 1] = [f[k] EXCEPT !.at = @ - 1]
\* A checkpoint leads or is not there; revisions are consecutive from its own.
Consecutive(f) ==
    \A k \in Ends(f) :
        LET text == f[k].text
            before == k - f[k].of
        IN  IF before = 0 THEN text.folded \/ text.revision = 1
            ELSE ~text.folded /\ text.revision = f[before].text.revision + 1
\* What a journal that parses says: its first line, and behind it a record a line.
Entries(f) ==
    LET lead == f[1].text.log
        last == f[Len(f)].text.revision
        At(r) == CHOOSE k \in Ends(f) : f[k].text.revision = r
    IN  lead \o [i \in 1..(last - Len(lead)) |-> f[At(Len(lead) + i)].text.log[1]]

\* read_locked: an incomplete final line is cut, unless there is no other.
Read(f) ==
    LET g == Complete(f) IN
    IF f = <<>> THEN <<>>
    ELSE IF g = <<>> \/ ~Whole(g) \/ ~Consecutive(g) THEN Unreadable
    ELSE Entries(g)

\* The records after the checkpoint.
Uncompacted(f) ==
    IF f = <<>> THEN 0
    ELSE f[Len(f)].text.revision - (IF f[1].text.folded THEN f[1].text.revision ELSE 0)

-----------------------------------------------------------------------------
\* recover_compaction_locked, as a function of the file and the side file.

Rest(f, s) == SubSeq(f, Len(s.image) + 1, Len(f))
\* The line after the image is the record that follows it.
Appended(f, s) ==
    LET rest == Rest(f, s)
        line == IF Ends(rest) = {} THEN <<>> ELSE SubSeq(rest, 1, Min(Ends(rest)))
    IN  /\ line # <<>>
        /\ Whole(line)
        /\ ~line[1].text.folded
        /\ line[1].text.revision = s.through + 1

\* Mutant: what follows the image is cut whenever it is not a next record.
VerdictCutting(f, s) ==
    IF s = None \/ ~s.sealed THEN "stale"
    ELSE IF IsPrefix(s.predecessor, f) THEN "stale"
    ELSE IF IsPrefix(s.image, f)
         THEN IF Rest(f, s) = <<>> THEN "completed" ELSE "truncated"
    ELSE "rewritten"
Verdict(f, s) ==
    IF s = None \/ ~s.sealed THEN "stale"
    ELSE IF IsPrefix(s.predecessor, f) THEN "stale"
    ELSE IF IsPrefix(s.image, f)
         THEN IF Rest(f, s) = <<>> \/ Appended(f, s) THEN "completed"
              ELSE IF Len(f) = Len(s.predecessor) THEN "truncated"
              ELSE IF Ends(Rest(f, s)) = {} THEN "completed"
              ELSE "unrecoverable"
    ELSE IF \/ Len(f) = Len(s.image)
            \/ Len(f) \in Len(s.predecessor)..Max({Len(s.predecessor), Len(s.image)})
         THEN "rewritten"
    ELSE "unrecoverable"

\* What a start would read.
Recovery(f, s) ==
    LET verdict == Verdict(f, s) IN
    IF verdict \in {"stale", "completed"} THEN Read(f)
    ELSE IF verdict \in {"truncated", "rewritten"} THEN Read(s.image)
    ELSE Unreadable
Recovered == Recovery(file, side)

-----------------------------------------------------------------------------
\* The journal of an ended epoch.
Init ==
    /\ file = RecordLine(1, "none") \o RecordLine(2, "closed")
    /\ side = None
    /\ pc = "down"
    /\ revision = 0
    /\ tail = 0
    /\ retained = FALSE
    /\ failed = FALSE
    /\ pending = None
    /\ acked = Read(file)

Go(p) == pc' = p

\* A process that ends, killed or by its own error, leaves the disk as it is.
Crash ==
    /\ pc \notin {"down", "refused"}
    /\ Go("down")
    /\ revision' = 0 /\ tail' = 0 /\ retained' = FALSE /\ failed' = FALSE
    /\ pending' = None
    /\ UNCHANGED <<disk, acked>>

-----------------------------------------------------------------------------
\* A start (OwnerGuard::acquire) or actingd unlock-owner, under the owner lock.

\* recover_compaction: by the verdict the journal stays, is cut at the image, or is
\* written again; the side file goes last.
RecoverCompaction ==
    /\ pc = "down"
    /\ CASE Verdict(file, side) = "unrecoverable" -> Go("refused") /\ UNCHANGED file
         [] Verdict(file, side) = "truncated" -> Go("clean") /\ file' = side.image
         [] Verdict(file, side) = "rewritten" -> Go("repair") /\ UNCHANGED file
         [] OTHER -> Go("clean") /\ UNCHANGED file
    /\ UNCHANGED <<side, guard, pending, acked>>
RemoveSideFile ==
    /\ pc = "clean"
    /\ side' = None
    /\ Go("read")
    /\ UNCHANGED <<file, guard, pending, acked>>

\* The append of a record: who writes it, what it says, the cells written so far.
Writing(by, kind) == pending' = [by |-> by, kind |-> kind, cells |-> 0]

\* read_locked cuts an incomplete final line.  A start records a new epoch; an
\* unlock confirms the release of what the last record leaves open.
ReadLocked ==
    /\ pc = "read"
    /\ IF Read(file) = Unreadable
       THEN Go("refused") /\ UNCHANGED <<file, guard, pending, acked>>
       ELSE /\ Len(Read(file)) < MaxRevision
            /\ \/ Writing("start", "none")
               \/ /\ Read(file) # <<>>
                  /\ Last(Read(file)) \in {"in_use", "unconfirmed"}
                  /\ Writing("unlock", "confirmed_closed")
            /\ file' = Complete(file)
            /\ revision' = Len(Read(file))
            /\ tail' = Uncompacted(Complete(file))
            /\ acked' = Read(file)
            /\ Go("append")
            /\ UNCHANGED <<retained, failed>>
    /\ UNCHANGED side

-----------------------------------------------------------------------------
\* The guard's writes, under the host's lock of the owner.

\* The journal as compaction_locked takes it: every line complete and valid.
Foldable == Complete(file) = file /\ Read(file) # Unreadable

\* set_active_instances, which says again what the last record said, and
\* set_resource_disposition, through append_in_epoch: past the threshold, two or
\* more records are folded first.
Change ==
    LET last == Last(acked)
        over == ~retained /\ tail + 1 > CompactTail
    IN
    /\ pc = "ready"
    /\ ~failed
    /\ revision < MaxRevision
    /\ \E k \in {"in_use", "confirmed_closed", last} :
           /\ retained => k = last
           /\ Writing("change", k)
    /\ over => Foldable
    /\ Go(IF over /\ Uncompacted(file) >= 2 THEN "stage" ELSE "append")
    /\ UNCHANGED <<disk, guard, acked>>
\* retain_unconfirmed: the handle is kept for the life of the process; no fold.
RetainUnconfirmed ==
    /\ pc = "ready"
    /\ ~retained
    /\ revision < MaxRevision
    /\ retained' = TRUE
    /\ IF failed THEN UNCHANGED <<pc, pending>>
                 ELSE Writing("retain", "unconfirmed") /\ Go("append")
    /\ UNCHANGED <<disk, revision, tail, failed, acked>>
\* Mutant: a retained owner closes its epoch.
CloseRetained ==
    /\ pc = "ready"
    /\ ~failed
    /\ revision < MaxRevision
    /\ Writing("close", "closed")
    /\ Go("append")
    /\ UNCHANGED <<disk, guard, acked>>
Close ==
    /\ pc = "ready"
    /\ ~failed
    /\ ~retained
    /\ revision < MaxRevision
    /\ Writing("close", "closed")
    /\ Go("append")
    /\ UNCHANGED <<disk, guard, acked>>

\* write_record: the line at the end of the file, then sync_data.
WriteRecord ==
    /\ pc = "append"
    /\ file' = Append(file, RecordLine(revision + 1, pending.kind)[pending.cells + 1])
    /\ pending' = [pending EXCEPT !.cells = @ + 1]
    /\ Go(IF pending.cells + 1 = Width THEN "sync" ELSE "append")
    /\ UNCHANGED <<side, guard, acked>>
\* The record in memory follows; a closed owner, or an unlock, lets the lock go.
RecordSynced ==
    /\ pc = "sync"
    /\ acked' = Append(acked, pending.kind)
    /\ IF pending.by \in {"close", "unlock"}
       THEN /\ Go("down")
            /\ revision' = 0 /\ tail' = 0 /\ UNCHANGED <<retained, failed>>
       ELSE /\ Go("ready")
            /\ revision' = revision + 1 /\ tail' = tail + 1
            /\ UNCHANGED <<retained, failed>>
    /\ pending' = None
    /\ UNCHANGED disk
\* Mutant: a failed retention leaves the guard writing.
WriteFailedOpen ==
    /\ pc \in {"append", "sync"}
    /\ pending.by \in FailingAppends
    /\ pending' = None
    /\ Go("ready")
    /\ UNCHANGED <<disk, guard, acked>>
\* write_all or sync_data fails, and the record in memory stays the old one.  A
\* failed retention or close is the guard's last write; a failed change is not.
WriteFailed ==
    /\ pc \in {"append", "sync"}
    /\ pending.by \in FailingAppends
    /\ failed' = (pending.by # "change")
    /\ pending' = None
    /\ Go("ready")
    /\ UNCHANGED <<disk, revision, tail, retained, acked>>

-----------------------------------------------------------------------------
\* compact, before an in-epoch append.

Folded(w) ==
    LET log == Read(file) IN
    CheckpointLine(Front(log), w) \o RecordLine(Len(log), Last(log))

\* S1 and S2: the side file is truncated and written; only its last line, the seal,
\* makes it count, and it is synchronised before the journal is touched.
StageSideFile ==
    /\ pc = "stage"
    /\ \E w \in CheckpointWidth :
           side' = [sealed |-> FALSE, image |-> Folded(w),
                    predecessor |-> file, through |-> revision]
    /\ Go("seal")
    /\ UNCHANGED <<file, guard, pending, acked>>
SealSideFile ==
    /\ pc = "seal"
    /\ side' = [side EXCEPT !.sealed = TRUE]
    /\ Go("rewrite")
    /\ UNCHANGED <<file, guard, pending, acked>>
\* The append is not written.  The side file is removed, or that fails as well,
\* sealed or not.
StageFailed ==
    /\ pc \in {"stage", "seal"}
    /\ side' \in {None, side} \cup
                 IF pc = "seal" THEN {[side EXCEPT !.sealed = TRUE]} ELSE {}
    /\ pending' = None
    /\ Go("ready")
    /\ UNCHANGED <<file, guard, acked>>

\* S3, and the rewrite of a recovery: the image over the journal, then its length.
\* Cells beyond the end are added in order; the others may reach the disk in any
\* order, and the length before them: nothing synchronises in between.
Unordered ==
    (IF Len(side.image) <= Len(side.predecessor) THEN "shrinks" ELSE "grows") \in Reorder
Differing == {k \in DOMAIN side.image : k > Len(file) \/ file[k] # side.image[k]}
WriteImage ==
    /\ pc \in {"rewrite", "repair"}
    /\ \E k \in Differing :
           /\ k <= Len(file) + 1
           /\ Unordered \/ k = Min(Differing)
           /\ file' = [i \in 1..Max({k, Len(file)}) |->
                          IF i = k THEN side.image[k] ELSE file[i]]
    /\ UNCHANGED <<side, pc, guard, pending, acked>>
SetLength ==
    /\ pc \in {"rewrite", "repair"}
    /\ Len(file) > Len(side.image)
    /\ Unordered \/ Differing = {}
    /\ file' = SubSeq(file, 1, Len(side.image))
    /\ UNCHANGED <<side, pc, guard, pending, acked>>
\* Mutant: the tail is reduced by the length of the file that was replaced.
ImageSyncedReduced ==
    /\ pc \in {"rewrite", "repair"}
    /\ file = side.image
    /\ IF pc = "rewrite" THEN Go("unlink") /\ tail' = tail - Len(side.predecessor)
                         ELSE Go("clean") /\ UNCHANGED tail
    /\ UNCHANGED <<disk, revision, retained, failed, pending, acked>>
\* sync_all returned.
ImageSynced ==
    /\ pc \in {"rewrite", "repair"}
    /\ file = side.image
    /\ IF pc = "rewrite" THEN Go("unlink") /\ tail' = 1
                         ELSE Go("clean") /\ UNCHANGED tail
    /\ UNCHANGED <<disk, revision, retained, failed, pending, acked>>
\* Only a failure of S3 is kept: no write of this guard follows it.
RewriteFailed ==
    /\ pc = "rewrite"
    /\ failed' = TRUE
    /\ pending' = None
    /\ Go("ready")
    /\ UNCHANGED <<disk, revision, tail, retained, acked>>

\* S4, and the append it was for; when the removal fails, the append is not written.
UnlinkSideFile ==
    /\ pc = "unlink"
    /\ side' = None
    /\ Go("append")
    /\ UNCHANGED <<file, guard, pending, acked>>
UnlinkFailed ==
    /\ pc = "unlink"
    /\ pending' = None
    /\ Go("ready")
    /\ UNCHANGED <<disk, guard, acked>>

-----------------------------------------------------------------------------
Start == RecoverCompaction \/ RemoveSideFile \/ ReadLocked
Fold ==
    \/ StageSideFile \/ SealSideFile \/ StageFailed
    \/ WriteImage \/ SetLength \/ ImageSynced \/ RewriteFailed
    \/ UnlinkSideFile \/ UnlinkFailed
Next ==
    \/ Start \/ Fold
    \/ Change \/ RetainUnconfirmed \/ Close
    \/ WriteRecord \/ RecordSynced \/ WriteFailed
    \/ Crash

Spec == Init /\ [][Next]_vars

-----------------------------------------------------------------------------
\* Every variable keeps its type: OwnerGuard and the two files.
JournalTypeOK ==
    /\ file \in Seq(Cell) /\ side \in SideFile \cup {None}
    /\ pc \in {"down", "clean", "repair", "read", "ready", "append", "sync",
               "stage", "seal", "rewrite", "unlink", "refused"}
    /\ {revision, tail} \subseteq Nat
    /\ {retained, failed} \subseteq BOOLEAN

\* Whenever the process ends, the next start reads every record whose append had
\* returned: an append, a fold, a failed fold and an interrupted recovery lose none
\* (write_record, compact, recover_compaction_locked).
AckedDurable == Recovered # Unreadable /\ IsPrefix(acked, Recovered)

\* A guard that still writes knows the journal's length: the revision it gives the
\* next record is the one the reader expects (OwnerGuard.record, journal_gate).
GuardKnows == pc = "ready" /\ ~failed => Recovered # Unreadable /\ revision = Len(Recovered)

\* What a start would read only grows, by whole records in a legal order: the
\* journal implements the log of OwnerLog through folds, crashes and recoveries.
Log == INSTANCE OwnerLog WITH log <- Recovered
ImplementsLog == Log!Spec
=============================================================================
