------------------------------ MODULE Watchdog ------------------------------
(***************************************************************************)
(* The Runtime watchdog (apps/actingctl/src/watchdog): Task Scheduler, or  *)
(* a person, runs one tick at a time under run.lock.  A tick loads         *)
(* state.json, observes owner.lock, the owner journal and the start logs,  *)
(* decides, perhaps starts the Runtime and waits for it, and saves         *)
(* state.json.  It is killed at any point: the task's time limit, the end  *)
(* of a session, a reboot.                                                 *)
(*                                                                         *)
(* Beside it run the processes it watches: Runtimes that it, `actingctl    *)
(* start` or anyone else (a logon script, the console, the installer)      *)
(* started, and `ledger-maintenance`, an owner without a log.  They race   *)
(* for owner.lock, write the journal and their logs, and end in every way  *)
(* the decision rows tell apart.                                           *)
(*                                                                         *)
(* Times are units of one clock; 0 stands for a time that is not set, as   *)
(* unwrap_or(0) and None do in the code.                                   *)
(***************************************************************************)
EXTENDS Integers, Sequences, FiniteSets

CONSTANTS
    BudgetWindow,   \* BUDGET_WINDOW_MS
    BudgetStarts,   \* BUDGET_STARTS
    Gap,            \* GAP_MS
    Grace,          \* GRACE_MS
    StartWindow,    \* watchdog.start_window_ms
    Slack,          \* CLOCK_SLACK_MS
    KeptStarts,     \* KEPT_STARTS
    LookbackOwners, \* LOOKBACK_OWNERS
    MaxTime,        \* bound: the clock
    MaxProcs,       \* bound: processes ever started
    MaxFaults       \* bound: kills, reboots and failures the model injects

ASSUME WatchdogAssumption ==
    /\ {BudgetWindow, BudgetStarts, Gap, Grace, StartWindow, Slack,
        KeptStarts, LookbackOwners, MaxTime, MaxProcs, MaxFaults} \subseteq Nat
    /\ KeptStarts >= BudgetStarts
    /\ Grace > 0

VARIABLES
    now,       \* the clock
    boot,      \* the last boot
    procs,     \* every process ever started, in order; its number is its owner epoch
    journal,   \* owner.lock's content: one record per owner, the last one newest
    logs,      \* the start logs in the order they were last written
    disk,      \* state.json
    mem,       \* the tick's state
    tick,      \* the tick in flight
    command,   \* the process `actingctl start` waits for, or 0
    faults,    \* the kinds of faults injected so far, each at most once
    ended,     \* history: how the last process that ended did
    graced     \* history: the first task tick after a boot (see GraceKept)

vars == <<now, boot, procs, journal, logs, disk, mem, tick, command, faults, ended, graced>>
runtime == <<procs, journal, logs, ended>>
watchdog == <<disk, mem, tick, graced>>

Procs == DOMAIN procs
Alive(p) == procs[p].st # "gone"
Owners == {p \in Procs : procs[p].st \in {"locked", "serving"}}
Locked == Owners # {}
LastOwner == journal[Len(journal)]
Active(record) == record.closed = 0
Later(a, b) == IF a > b THEN a ELSE b
RunLockHeld == tick.pc # "idle" \/ command # 0

\* A fault the model injects: something unread, unsaved, unstarted or unwatched, the
\* installer in the way, a kill or a reboot.
Fault(kind) ==
    /\ kind \notin faults /\ Cardinality(faults) < MaxFaults
    /\ faults' = faults \union {kind}

(***************************************************************************)
(* The processes.                                                          *)
(***************************************************************************)

\* A process that has closed the journal writes its terminal outcome next, within
\* the clock slack and before another process acts.
NoneEnding == \A p \in Procs : procs[p].st # "ending"

\* The logs without the i-th.
Without(i) == [j \in 1..(Len(logs) - 1) |-> IF j < i THEN logs[j] ELSE logs[j + 1]]

\* A log written now is the newest, and the process has no other.
Written(p, cat) ==
    LET own == {i \in DOMAIN logs : logs[i].proc = p}
    IN  Append(IF own = {} THEN logs ELSE Without(CHOOSE i \in own : TRUE),
               [proc |-> p, at |-> now, cat |-> cat])

\* The logs from the first one on that was written at `since` or later.
LogsSince(all, since) ==
    LET found == {i \in DOMAIN all : all[i].at >= since}
    IN  SubSeq(all, CHOOSE i \in found : \A j \in found : i <= j, Len(all))

\* A new owner's record.
Owned(p) ==
    Append(journal, [epoch |-> p, started |-> now, closed |-> 0, retained |-> FALSE])

\* A start: the process and its log.
Started(by, at) ==
    /\ Len(procs) < MaxProcs /\ NoneEnding
    /\ procs' = Append(procs, [by |-> by, at |-> at, st |-> "starting", why |-> "none"])
    /\ logs' = Written(Len(procs) + 1, "none")
    /\ ended' = "none"

\* A logon script, the console or the installer starts the Runtime.
other_start ==
    /\ Started("other", 0)
    /\ UNCHANGED <<now, boot, journal, watchdog, command, faults>>

\* ledger-maintenance: an owner that never answers and writes no log.  The log of a
\* start refused after the last owner closed is no owner's, so row 6' does not see it.
maintenance ==
    /\ ~Locked /\ Len(procs) < MaxProcs /\ NoneEnding
    /\ procs' = Append(procs, [by |-> "maintenance", at |-> 0, st |-> "locked", why |-> "none"])
    /\ journal' = Owned(Len(procs) + 1)
    /\ ended' = IF ended = "refused" /\ journal # <<>> /\ ~Active(LastOwner) THEN "none"
                ELSE ended
    /\ UNCHANGED <<now, boot, logs, watchdog, command, faults>>

take_lock(p) ==
    /\ procs[p].st = "starting" /\ ~Locked /\ NoneEnding
    /\ procs' = [procs EXCEPT ![p].st = "locked"]
    /\ journal' = Owned(p)
    /\ UNCHANGED <<now, boot, logs, ended, watchdog, command, faults>>

\* A start that is refused, a lost race for owner.lock among them.
refuse(p, cat) ==
    /\ procs[p].st = "starting" /\ NoneEnding
    /\ procs' = [procs EXCEPT ![p].st = "gone"]
    /\ logs' = Written(p, cat)
    /\ ended' = IF cat = "fatal" THEN "refused" ELSE cat
    /\ UNCHANGED <<now, boot, journal, watchdog, command, faults>>

\* The owner answers, and its log says so: no tick looks back past it any more, so
\* the owners and the logs from before it are left out of the state.
serve(p) ==
    /\ procs[p].st = "locked" /\ procs[p].by # "maintenance"
    /\ procs' = [procs EXCEPT ![p].st = "serving"]
    /\ logs' = LogsSince(Written(p, "none"), LastOwner.started - Slack)
    /\ journal' = <<LastOwner>>
    /\ UNCHANGED <<now, boot, ended, watchdog, command, faults>>

\* A requested stop (info) or a stop by a condition closes the journal and frees
\* owner.lock; the terminal outcome is written after it.
close(p, why) ==
    /\ \/ procs[p].st = "serving"
       \/ procs[p].by = "maintenance" /\ procs[p].st = "locked" /\ why = "info"
    /\ procs' = IF procs[p].by = "maintenance" THEN [procs EXCEPT ![p].st = "gone"]
                ELSE [procs EXCEPT ![p].st = "ending", ![p].why = why]
    /\ journal' = [journal EXCEPT ![Len(journal)].closed = now]
    /\ UNCHANGED <<now, boot, logs, ended, watchdog, command, faults>>

last_line(p) ==
    /\ procs[p].st = "ending"
    /\ procs' = [procs EXCEPT ![p].st = "gone", ![p].why = "none"]
    /\ logs' = Written(p, procs[p].why)
    /\ ended' = procs[p].why
    /\ UNCHANGED <<now, boot, journal, watchdog, command, faults>>

\* A stop that retains the owner: its resources are unconfirmed.
retain(p) ==
    /\ procs[p].st = "serving"
    /\ procs' = [procs EXCEPT ![p].st = "gone"]
    /\ journal' = [journal EXCEPT ![Len(journal)].retained = TRUE]
    /\ logs' = Written(p, "error")
    /\ ended' = "retained"
    /\ UNCHANGED <<now, boot, watchdog, command, faults>>

\* A crash, a closed window, an end in Task Manager.
crash(p) ==
    /\ Alive(p)
    /\ procs' = [procs EXCEPT ![p].st = "gone", ![p].why = "none"]
    /\ ended' = "crashed"
    /\ UNCHANGED <<now, boot, journal, logs, watchdog, command, faults>>

(***************************************************************************)
(* `actingctl start`: a formal start that holds run.lock until the Runtime *)
(* is ready, ends or times out, or the command is interrupted.             *)
(***************************************************************************)

command_start ==
    /\ ~RunLockHeld /\ ~Locked
    /\ Started("command", 0)
    /\ command' = Len(procs')
    /\ UNCHANGED <<now, boot, journal, watchdog, faults>>

command_end ==
    /\ command # 0
    /\ command' = 0
    /\ UNCHANGED <<now, boot, runtime, watchdog, faults>>

(***************************************************************************)
(* What a tick observes, and decides from it (rows 2 to 6').               *)
(***************************************************************************)

Categories == {"none", "info", "error", "fatal"}

\* The newest of the logs found, 0 when there is none.
NewestLog(found) == IF found = {} THEN 0 ELSE CHOOSE i \in found : \A j \in found : j <= i

\* The category of the newest terminal outcome written at `since` or later.
newest_terminal(since) ==
    LET i == NewestLog({l \in DOMAIN logs : logs[l].at >= since /\ logs[l].cat # "none"}) IN
    IF i = 0 THEN "none" ELSE logs[i].cat

logged_during(started, closed) ==
    \E i \in DOMAIN logs : logs[i].at >= started /\ logs[i].at <= closed + Slack

\* The newest log written while the owner of record k was the owner.
CoveringLog(k) ==
    LET end == IF journal[k].closed # 0 THEN journal[k].closed ELSE journal[k + 1].started IN
    NewestLog({l \in DOMAIN logs : logs[l].at >= journal[k].started /\ logs[l].at <= end + Slack})

\* The terminal outcome of the newest earlier owner that a log covers.
earlier_owner_terminal ==
    LET covered == {k \in 1..(Len(journal) - 1) :
                        k >= Len(journal) - LookbackOwners /\ CoveringLog(k) # 0}
    IN  IF covered = {} THEN "none"
        ELSE logs[CoveringLog(CHOOSE k \in covered : \A j \in covered : j <= k)].cat

\* Row 6' is read only when row 5 finds nothing and no log covers the close.
Terminals ==
    LET newest == newest_terminal(Later(LastOwner.started, LastOwner.closed) - Slack) IN
    <<newest,
      IF /\ newest = "none"
         /\ ~Active(LastOwner)
         /\ ~logged_during(LastOwner.started, LastOwner.closed)
      THEN earlier_owner_terminal ELSE "none">>

terminal_stage(cat) ==
    CASE cat = "fatal" -> "fatal_hold"
      [] cat = "error" -> "consider_start"
      [] OTHER         -> "none"

\* A start record, and whether it is the live owner's own.  It is open while its
\* result is watchdog_start_pending or start_timeout.
StartRecord(at) == [at |-> at, open |-> TRUE, epoch |-> 0]

OpenFor(p, s) ==
    /\ s.epoch = 0
    /\ s.open
    /\ LastOwner.started >= s.at - Slack
    /\ LastOwner.started <= s.at + StartWindow

started_by_watchdog(p, starts) ==
    \E i \in DOMAIN starts : starts[i].epoch = p \/ OpenFor(p, starts[i])

\* Mutant: an owner that is active in the journal is started again before its last
\* terminal outcome is looked at.
active_before_outcome ==
    IF Locked
    THEN IF \E p \in Owners : procs[p].st = "serving" THEN "alive" ELSE "owner_lock_held"
    ELSE IF journal = <<>> THEN "never_started"
    ELSE IF Active(LastOwner)
    THEN IF LastOwner.retained THEN "owner_retained_unconfirmed" ELSE "consider_start"
    ELSE IF terminal_stage(Terminals[1]) # "none" THEN terminal_stage(Terminals[1])
    ELSE IF terminal_stage(Terminals[2]) # "none" THEN terminal_stage(Terminals[2])
    ELSE "formal_close"

decide_observed ==
    IF Locked
    THEN IF \E p \in Owners : procs[p].st = "serving" THEN "alive" ELSE "owner_lock_held"
    ELSE IF journal = <<>> THEN "never_started"
    ELSE IF Active(LastOwner) /\ LastOwner.retained THEN "owner_retained_unconfirmed"
    ELSE LET newest == terminal_stage(Terminals[1])
             earlier == terminal_stage(Terminals[2])
         IN  IF newest # "none" THEN newest
             ELSE IF Active(LastOwner) THEN "consider_start"
             ELSE IF earlier # "none" THEN earlier
             ELSE "formal_close"

(***************************************************************************)
(* state.json and the rows 7a to 7f.                                       *)
(***************************************************************************)

FreshState ==
    [starts |-> <<>>, exhausted |-> FALSE, formal |-> 0, grace |-> 0, lastEnd |-> 0]

NoTick == [pc |-> "idle", task |-> FALSE, at |-> 0, proc |-> 0, since |-> 0, ended |-> "none"]

\* The tick goes on to save; `at` is kept when it has reached the start rows.
Saving(at) == [NoTick EXCEPT !.pc = "save", !.task = tick.task, !.at = at]

push_start(starts, s) ==
    LET pushed == Append(starts, s)
        excess == IF Len(pushed) > KeptStarts THEN Len(pushed) - KeptStarts ELSE 0
    IN  SubSeq(pushed, excess + 1, Len(pushed))

starts_since(state, floor) ==
    Cardinality({i \in DOMAIN state.starts : state.starts[i].at > Later(floor, state.formal)})

starts_in_budget(state, at) == starts_since(state, at - BudgetWindow)

\* Mutant: a reboot within the gap opens no grace.
gap_only(lastEnd, at, booted) == lastEnd # 0 /\ at - lastEnd > Gap

grace_after_gap(lastEnd, at, booted) ==
    lastEnd # 0 /\ (at - lastEnd > Gap \/ lastEnd < booted)

\* Mutant: no look at the processes under the root.
start_beside(processes, state, at, task) ==
    IF state.exhausted THEN "budget_exhausted"
    ELSE IF task /\ state.grace > at THEN "grace"
    ELSE IF starts_in_budget(state, at) >= BudgetStarts THEN "budget_exhausted"
    ELSE "start"

\* Rows 7b to 7f; processes are those alive under the root.  How long they have been
\* there (row 7b') is left out: it changes only what is reported.
decide_start(processes, state, at, task) ==
    IF processes # {} THEN "runtime_process_present"
    ELSE IF state.exhausted THEN "budget_exhausted"
    ELSE IF task /\ state.grace > at THEN "grace"
    ELSE IF starts_in_budget(state, at) >= BudgetStarts THEN "budget_exhausted"
    ELSE "start"

(***************************************************************************)
(* One tick.                                                               *)
(***************************************************************************)

run_once(task) ==
    /\ ~RunLockHeld
    /\ mem' = disk
    /\ tick' = [NoTick EXCEPT !.pc = "observe", !.task = task, !.at = now]
    /\ UNCHANGED <<now, boot, runtime, disk, graced, command, faults>>

\* Mutant: a formal start clears the exhaustion and leaves the time it counts from.
recognised_without_time(p, state) ==
    IF started_by_watchdog(p, state.starts) THEN state ELSE [state EXCEPT !.exhausted = FALSE]

\* What a live owner changes: an owner of the watchdog's own is named by its open
\* records, any other is a formal start.
Recognised(p, state) ==
    IF started_by_watchdog(p, state.starts)
    THEN [state EXCEPT !.starts =
             [i \in DOMAIN state.starts |->
                 IF OpenFor(p, state.starts[i]) THEN [state.starts[i] EXCEPT !.epoch = p]
                 ELSE state.starts[i]]]
    ELSE [state EXCEPT !.formal = LastOwner.started, !.exhausted = FALSE]

observe ==
    /\ tick.pc = "observe"
    /\ tick' = IF decide_observed = "consider_start"
               THEN [tick EXCEPT !.pc = "probe", !.ended = ended] ELSE Saving(0)
    /\ mem' = IF decide_observed = "alive" THEN Recognised(LastOwner.epoch, mem) ELSE mem
    /\ UNCHANGED <<now, boot, runtime, disk, graced, command, faults>>

\* The tick ends without a decision of the rows: something cannot be read, or
\* an installer's operation is unfinished.
early_return ==
    /\ tick.pc \in {"observe", "probe"} /\ Fault("unread")
    /\ tick' = Saving(0)
    /\ UNCHANGED <<now, boot, runtime, disk, mem, graced, command>>

\* The grace a task tick opens.
Graced(booted) ==
    IF tick.task /\ grace_after_gap(mem.lastEnd, tick.at, booted)
    THEN [mem EXCEPT !.grace = tick.at + Grace] ELSE mem

\* Rows 7a and 7a': the installer holds its writer lock, or the selection changed.
stand_aside ==
    /\ tick.pc = "probe" /\ Fault("aside")
    /\ tick' = Saving(0)
    /\ mem' = Graced(0)
    /\ UNCHANGED <<now, boot, runtime, disk, graced, command>>

\* Mutant: a start is recorded only with the rest of the tick.
recorded_late ==
    /\ tick.pc = "probe"
    /\ LET processes == {p \in Procs : Alive(p)}
           probed    == Graced(boot)
           decision  == decide_start(processes, probed, tick.at, tick.task)
       IN  IF decision = "start"
           THEN /\ mem' = [probed EXCEPT !.starts = push_start(@, StartRecord(tick.at))]
                /\ tick' = [tick EXCEPT !.pc = "spawn"]
           ELSE /\ mem' = IF decision = "budget_exhausted"
                          THEN [probed EXCEPT !.exhausted = TRUE] ELSE probed
                /\ tick' = Saving(tick.at)
    /\ UNCHANGED <<now, boot, runtime, disk, graced, command, faults>>

\* Mutant: an exhausted budget is found and not recorded.
exhaustion_unrecorded ==
    /\ tick.pc = "probe"
    /\ LET processes == {p \in Procs : Alive(p)}
           probed    == Graced(boot)
           decision  == decide_start(processes, probed, tick.at, tick.task)
       IN  IF decision = "start"
           THEN /\ mem' = [probed EXCEPT !.starts = push_start(@, StartRecord(tick.at))]
                /\ tick' = [tick EXCEPT !.pc = "spawn"]
                /\ disk' = mem'
           ELSE mem' = probed /\ tick' = Saving(tick.at) /\ UNCHANGED disk
    /\ UNCHANGED <<now, boot, runtime, graced, command, faults>>

\* A start is recorded in state.json before it is made.
probe_start ==
    /\ tick.pc = "probe"
    /\ LET processes == {p \in Procs : Alive(p)}
           probed    == Graced(boot)
           decision  == decide_start(processes, probed, tick.at, tick.task)
       IN  \/ /\ decision = "start"
              /\ mem' = [probed EXCEPT !.starts = push_start(@, StartRecord(tick.at))]
              /\ \/ tick' = [tick EXCEPT !.pc = "spawn"] /\ disk' = mem' /\ UNCHANGED faults
                 \/ tick' = Saving(tick.at) /\ UNCHANGED disk /\ Fault("unsaved")
           \/ /\ decision # "start"
              /\ mem' = IF decision = "budget_exhausted"
                        THEN [probed EXCEPT !.exhausted = TRUE] ELSE probed
              /\ tick' = Saving(tick.at)
              /\ UNCHANGED <<disk, faults>>
    /\ UNCHANGED <<now, boot, runtime, graced, command>>

\* The result replaces watchdog_start_pending in the last record.
Ended(open, epoch) ==
    /\ mem' = [mem EXCEPT !.starts[Len(mem.starts)].open = open,
                          !.starts[Len(mem.starts)].epoch = epoch]
    /\ tick' = Saving(tick.at)

\* A failed start may have created the process all the same: the query that asks
\* for it timed out.
spawn ==
    /\ tick.pc = "spawn"
    /\ \/ /\ Started("tick", tick.at)
          /\ \/ /\ tick' = [tick EXCEPT !.pc = "wait", !.ended = "none",
                                         !.proc = Len(procs'), !.since = now]
                /\ UNCHANGED <<mem, faults>>
             \/ Ended(FALSE, 0) /\ Fault("unstarted")
       \/ /\ Ended(FALSE, 0)
          /\ IF Len(procs) = MaxProcs THEN UNCHANGED faults ELSE Fault("unstarted")
          /\ UNCHANGED <<procs, logs, ended>>
    /\ UNCHANGED <<now, boot, journal, disk, graced, command>>

wait_ready ==
    /\ tick.pc = "wait"
    /\ LET ready == {p \in Owners : procs[p].st = "serving"
                                    /\ LastOwner.started >= tick.at - Slack}
       IN  \/ /\ ready # {}
              /\ \E p \in ready : Ended(FALSE, p)
              /\ UNCHANGED faults
           \/ /\ ready = {} /\ ~Alive(tick.proc)
              /\ Ended(FALSE, 0) /\ UNCHANGED faults
           \/ /\ ready = {} /\ Alive(tick.proc) /\ now >= tick.since + StartWindow
              /\ Ended(TRUE, 0) /\ UNCHANGED faults
           \/ ready = {} /\ Ended(FALSE, 0) /\ Fault("unwatched")
    /\ UNCHANGED <<now, boot, runtime, disk, graced, command>>

\* record_decision, the end of a task tick, the save and the end of run.lock.
save ==
    /\ tick.pc = "save"
    /\ \/ /\ disk' = [mem EXCEPT !.lastEnd = IF tick.task THEN now ELSE @]
          /\ graced' = IF tick.task /\ graced = -1 THEN tick.at ELSE graced
          /\ UNCHANGED faults
       \/ Fault("unsaved") /\ UNCHANGED <<disk, graced>>
    /\ tick' = NoTick /\ mem' = FreshState
    /\ UNCHANGED <<now, boot, runtime, command>>

(***************************************************************************)
(* Around the ticks.                                                       *)
(***************************************************************************)

\* The task's time limit, `watchdog uninstall` or the end of a session.
killed ==
    /\ tick.pc # "idle" /\ Fault("killed")
    /\ tick' = NoTick /\ mem' = FreshState
    /\ UNCHANGED <<now, boot, runtime, disk, graced, command>>

reboot ==
    /\ now < MaxTime /\ Fault("rebooted")
    /\ now' = now + 1 /\ boot' = now'
    /\ procs' = [p \in Procs |-> [procs[p] EXCEPT !.st = "gone", !.why = "none"]]
    /\ ended' = IF \E p \in Procs : Alive(p) THEN "crashed" ELSE ended
    /\ tick' = NoTick /\ mem' = FreshState /\ command' = 0
    /\ graced' = IF disk.lastEnd # 0 THEN -1 ELSE 0
    /\ UNCHANGED <<journal, logs, disk>>

\* `watchdog install`: the first task tick opens no grace.
install ==
    /\ ~RunLockHeld /\ disk.lastEnd # now
    /\ disk' = [disk EXCEPT !.lastEnd = now]
    /\ graced' = 0
    /\ UNCHANGED <<now, boot, runtime, mem, tick, command, faults>>

pass ==
    /\ now < MaxTime /\ NoneEnding
    /\ now' = now + 1
    /\ UNCHANGED <<boot, runtime, watchdog, command, faults>>

Init ==
    /\ now = 1 /\ boot = 1
    /\ procs = <<>> /\ journal = <<>> /\ logs = <<>> /\ ended = "none"
    /\ disk = FreshState /\ mem = FreshState /\ tick = NoTick
    /\ command = 0 /\ faults = {} /\ graced = 0

TickStep == observe \/ probe_start \/ spawn \/ wait_ready \/ save

Process(p) ==
    \/ take_lock(p) \/ serve(p) \/ last_line(p) \/ retain(p) \/ crash(p)
    \/ \E cat \in {"error", "fatal"} : refuse(p, cat)
    \/ \E why \in {"info", "error", "fatal"} : close(p, why)

Next ==
    \/ pass \/ reboot \/ install
    \/ other_start \/ maintenance \/ command_start \/ command_end
    \/ \E p \in Procs : Process(p)
    \/ \E task \in BOOLEAN : run_once(task)
    \/ TickStep \/ early_return \/ stand_aside \/ killed

Spec == Init /\ [][Next]_vars

(***************************************************************************)
(* Properties.                                                             *)
(***************************************************************************)

\* The ticks of any BudgetWindow start the Runtime at most BudgetStarts times after
\* the last owner they took for a formal start, whichever of them were killed or
\* failed to save: a start is in state.json before it is made (decide_start,
\* start_runtime).
BudgetKept ==
    Cardinality({p \in Procs : /\ procs[p].by = "tick"
                               /\ procs[p].at > Later(now - BudgetWindow, disk.formal)})
        <= BudgetStarts

\* A tick that starts the Runtime does so while no process that a tick or
\* `actingctl start` began is left: an earlier start that hangs, was given up on or
\* lost its tick keeps it aside (row 7b), and run.lock keeps `actingctl start` out
\* between the look and the start.
SpawnsAlone ==
    tick.pc = "spawn" =>
        \A p \in Procs : Alive(p) => procs[p].by \in {"other", "maintenance"}

\* No tick starts the Runtime when the process that ended last before it looked had
\* been asked to stop, had stopped with a fatal outcome or had been refused with one:
\* neither a start that failed before it, nor a maintenance owner that closed after
\* it, hides that from the rows, but for a refusal after the last close (rows 5, 5',
\* 6 and 6').
HoldsStay == tick.pc = "spawn" => tick.ended \notin {"info", "fatal", "refused"}

\* A task tick starts nothing from the first task tick after a reboot that reached
\* the start rows until Grace later, so that a logon starter comes first; a tick
\* that is killed or fails to save after it opened the grace does not cut it short
\* (grace_after_gap, the end of a task tick in run_once).
GraceKept ==
    tick.pc = "spawn" /\ tick.task =>
        /\ graced # -1
        /\ graced > 0 => tick.at >= graced + Grace

\* Exhaustion leaves state.json only with a formal start that all its start records
\* precede, so no start from before it counts against the budget again (tick_once).
FormalClears ==
    [][disk.exhausted /\ ~disk'.exhausted =>
           \A i \in DOMAIN disk'.starts : disk'.starts[i].at <= disk'.formal]_vars

\* The Runtime is gone without a close or a fatal outcome, and nothing is left of it.
Unattended ==
    /\ decide_observed = "consider_start"
    /\ \A p \in Procs : ~Alive(p)
    /\ ~disk.exhausted
=============================================================================
