------------------------------ MODULE Installer ------------------------------
(***************************************************************************)
(* The single-location installer of actingctl (`actingctl install`): the   *)
(* journalled operations of apps/actingctl/src/install, the commands that  *)
(* run, resume and undo them, and the two parties that start the Runtime   *)
(* beside them, the watchdog's tick and `actingctl start`.                 *)
(*                                                                         *)
(* The disk is the state: the program files with the names a swap moves    *)
(* them through (part, old), state.json's live build, current.json, one    *)
(* journal per operation, the writer lock.  A command is a process with a  *)
(* copy of its journal in memory; every action changes at most one file of *)
(* the disk, so a process may end (Crash) between any two of them.         *)
(***************************************************************************)
EXTENDS Naturals, Sequences, SequencesExt, FiniteSets, FiniteSetsExt

CONSTANTS
    Files,      \* the program files of the builds
    NewFiles,   \* the files only build "B" lists
    Cmds,       \* the processes that run an installer command
    Overlap,    \* whether two commands may run at the same time
    LockFile,   \* whether install\writer.lock exists from the start
    MaxOps,     \* bound: operations opened, in any of the Bounds
    Bounds      \* the bounds of a run: the forms of update and rollback applied (shapes), the
                \* other commands used (others), operations opened (ops), and processes that
                \* end early, starts that exit or steps that fail (faults)

ASSUME InstallerAssumption ==
    /\ NewFiles \subseteq Files
    /\ Files \ NewFiles # {}
    /\ Overlap \in BOOLEAN /\ LockFile \in BOOLEAN
    /\ \A b \in Bounds :
          /\ b.shapes \subseteq [kind : {"update", "rollback"}, stop : BOOLEAN, start : BOOLEAN,
                                 release : BOOLEAN, verify : BOOLEAN]
          /\ b.others \subseteq {"stop", "start", "release"}
          /\ b.ops \in 1..MaxOps /\ b.faults \in Nat

VARIABLES
    dst,        \* the program file in place: a build's content, or None
    part,       \* the staged <file>.new-<ms>.part of each operation
    old,        \* the displaced <file>.old-<ms> of each operation
    live,       \* state.json's live build and the operation that installed it
    current,    \* the operation install\current.json names, 0 when there is none
    journal,    \* the operation journals, oldest first
    cmd,        \* the command processes
    writer,     \* the holder of writer.lock: a command, "tick" (shared) or None
    lockFile,   \* whether writer.lock exists
    tick,       \* the watchdog's tick (or `actingctl start`)
    runtime,    \* the tree the running Runtime was started from, None when none runs
    held,       \* whether the hold's pauses are in effect
    deadEnd,    \* whether the operation in progress met a tree it cannot complete
    faults,     \* how many faults have happened
    bounds      \* the bounds of this behaviour

vars == <<dst, part, old, live, current, journal, cmd, writer, lockFile, tick,
          runtime, held, deadEnd, faults, bounds>>
disk == <<dst, part, old, live>>
around == <<lockFile, tick, faults, bounds>>

None == "none"
Builds == {"A", "B"}
Ops == 1..MaxOps

\* The files a build's manifests list.
Listed(b) == IF b = "A" THEN Files \ NewFiles ELSE Files

-----------------------------------------------------------------------------
(* The program tree.                                                        *)

\* manifest::verify_build: every listed file holds the build's content.
Whole(b) == \A f \in Listed(b) : dst[f] = b
Tree == IF Whole("B") THEN "B" ELSE IF Whole("A") THEN "A" ELSE "mixed"

\* The listed files whose live content differs (`Planned::changes`).
Changes(b) == {f \in Listed(b) : dst[f] # b}

-----------------------------------------------------------------------------
(* Journals.                                                                *)

Step(kind, file, hasOld, rollback) ==
    [kind |-> kind, file |-> file, hasOld |-> hasOld, rollback |-> rollback,
     st |-> "planned", ev |-> None]

Plain(kind) == Step(kind, None, FALSE, FALSE)

\* The steps of an update: an optional ledger verification, every changed file staged, then
\* every changed file swapped, the tree verified, state.json rewritten.
update_steps(target, verify) ==
    LET files == SetToSeq(Changes(target))
    IN (IF verify THEN <<Plain("ledger_verify")>> ELSE <<>>)
       \o [i \in DOMAIN files |-> Step("stage_file", files[i], FALSE, FALSE)]
       \o [i \in DOMAIN files |-> Step("swap_file", files[i], dst[files[i]] # None, FALSE)]
       \o <<Plain("verify_tree"), Plain("record_state")>>

\* A composite holds and closes the Runtime first; with --start it starts and checks it after,
\* and releases the hold unless the configuration keeps it.
composite_steps(target, shape) ==
    (IF shape.stop THEN <<Plain("pause"), Plain("close")>> ELSE <<>>)
    \o update_steps(target, shape.verify)
    \o (IF shape.start THEN <<Plain("start"), Plain("post_check")>> ELSE <<>>)
    \o (IF shape.start /\ shape.release THEN <<Plain("release_hold")>> ELSE <<>>)

rollback_steps ==
    <<Step("close", None, FALSE, TRUE), Step("reverse_files", None, FALSE, TRUE),
      Step("start", None, FALSE, TRUE), Step("post_check", None, FALSE, TRUE),
      Step("release_hold", None, FALSE, TRUE)>>

\* A new journal; `previous` is what its undo restores: the verified tree and state.json.
Journal(kind, target, steps) ==
    [kind |-> kind, target |-> target, previous |-> [live |-> Tree, state |-> live],
     steps |-> steps, undo |-> None, rollback |-> FALSE, result |-> None]

NoJournal == [kind |-> None, target |-> None, steps |-> <<>>]

ChangesProgram(j) == j.kind \in {"update", "rollback"}
finished(j) == j.result # None

\* Operation::ended: the operation's own end, or its undo's once one began.
ended(j) == IF j.undo = None THEN finished(j) ELSE j.undo = "finished"

\* deploy::composite_update: the only operation that rolls back by itself.
composite_update(j) ==
    /\ j.kind = "update"
    /\ \E n \in DOMAIN j.steps : j.steps[n].kind = "pause"
    /\ \E n \in DOMAIN j.steps : j.steps[n].kind = "start"

\* The step the loop of `run` is at: steps done or reversed are passed over.
Pending(j) == {n \in DOMAIN j.steps : j.steps[n].st \in {"planned", "started"}}
At(j) == Min(Pending(j))

\* Mutant: a step that began and is not done is not reversed.
ToReverseDone(j, all) ==
    {n \in DOMAIN j.steps :
        /\ j.steps[n].st = "done"
        /\ all \/ j.steps[n].kind \in {"stage_file", "swap_file", "record_state"}}

\* The newest step that `undo`, or an automatic rollback's reversal, has still to reverse.
ToReverse(j, all) ==
    {n \in DOMAIN j.steps :
        /\ j.steps[n].st \in {"started", "done"}
        /\ all \/ j.steps[n].kind \in {"stage_file", "swap_file", "record_state"}}

\* deploy::reversal_after.
reversal_after(j, n) ==
    Min({m \in DOMAIN j.steps : m > n /\ j.steps[m].kind = "reverse_files"})

\* undo::started_inside: the operation itself may have run the new build.
started_inside(j) ==
    \E n \in DOMAIN j.steps :
        LET s == j.steps[n] IN
        /\ s.kind = "start" /\ ~s.rollback
        /\ \/ s.st = "started" /\ s.ev = None /\ ~finished(j)
           \/ s.st \in {"started", "done"} /\ s.ev \in {"sampled", "ready", "failed", "left_running"}

-----------------------------------------------------------------------------
(* Commands.  `pc` is where the process is, `op` and `j` the operation it   *)
(* runs and its copy of that journal.                                       *)

Idle == [pc |-> "idle", op |-> 0, j |-> NoJournal]

Init ==
    /\ dst = [f \in Files |-> IF f \in Listed("A") THEN "A" ELSE None]
    /\ part = [o \in Ops |-> [f \in Files |-> None]]
    /\ old = [o \in Ops |-> [f \in Files |-> None]]
    /\ live = [commit |-> "A", op |-> 0]
    /\ current = 0
    /\ journal = <<>>
    /\ cmd = [c \in Cmds |-> Idle]
    /\ writer = None
    /\ lockFile = LockFile
    /\ tick = "idle"
    /\ runtime \in {None, "A"}
    /\ held = FALSE
    /\ deadEnd = FALSE
    /\ faults = 0
    /\ bounds \in Bounds

Goto(c, pc) == cmd' = [cmd EXCEPT ![c].pc = pc]

\* Operation::write: the command's copy replaces the journal on disk.
write(c, j, pc) ==
    /\ journal' = [journal EXCEPT ![cmd[c].op] = j]
    /\ cmd' = [cmd EXCEPT ![c].j = j, ![c].pc = pc]

\* The process ends; the operating system releases the lock it holds.
Leave(c) ==
    /\ cmd' = [cmd EXCEPT ![c] = Idle]
    /\ writer' = IF writer = c THEN None ELSE writer

MayRun(c) == cmd[c] = Idle /\ (Overlap \/ \A d \in Cmds : cmd[d] = Idle)

\* plan::plan refuses a tree that is no whole build and any staged file left behind.
NoParts == \A o \in Ops, f \in Files : part[o][f] = None
Plannable == Tree # "mixed" /\ NoParts

\* The first half of Operation::open: the new journal is written.
Open(c, kind, target, steps) ==
    /\ Len(journal) < bounds.ops
    /\ LET j == Journal(kind, target, steps) IN
       /\ journal' = Append(journal, j)
       /\ cmd' = [cmd EXCEPT ![c] = [pc |-> "create", op |-> Len(journal) + 1, j |-> j]]

-----------------------------------------------------------------------------
(* The commands up to the operation's first step.                           *)

\* refuse_unfinished of `update apply`, `rollback apply` and `install start`, before the lock.
Begin(c) ==
    /\ MayRun(c) /\ current = 0
    /\ \E pc \in {"apply"} \cup ({"start"} \cap bounds.others) : cmd' = [cmd EXCEPT ![c].pc = pc]
    /\ UNCHANGED <<disk, current, journal, writer, around, runtime, held, deadEnd>>

\* WriterLock::take: exclusive, so it waits for a tick; the file is created when missing.
take(c) ==
    /\ cmd[c].pc \in {"apply", "start", "resume", "undo"}
    /\ writer = None
    /\ writer' = c /\ lockFile' = TRUE
    /\ Goto(c, CASE cmd[c].pc = "apply"  -> "plan"
                 [] cmd[c].pc = "start"  -> "plan_start"
                 [] cmd[c].pc = "resume" -> "step"
                 [] cmd[c].pc = "undo"   -> "begin_undo")
    /\ UNCHANGED <<disk, current, journal, tick, runtime, held, deadEnd, faults, bounds>>

\* The lock's wait passes (`lock_wait_ms`): refused, nothing changed.  It outlasts a tick that
\* only probes; a tick that starts the Runtime keeps the lock for the start's whole window.
take_refused(c) ==
    /\ cmd[c].pc \in {"apply", "start", "resume", "undo"}
    /\ writer # None /\ (writer = "tick" => tick = "start")
    /\ Leave(c)
    /\ UNCHANGED <<disk, current, journal, around, runtime, held, deadEnd>>

\* apply_command under the lock: refuse_unfinished again, the plan, the opening.  With --stop
\* the Runtime runs (hold_start), without it must not (plan::refuse).
apply_command(c) ==
    /\ cmd[c].pc = "plan"
    /\ current = 0 /\ Plannable
    /\ \E shape \in bounds.shapes, target \in Builds :
          /\ Changes(target) # {} \/ Tree # target
          /\ shape.stop <=> runtime # None
          /\ Open(c, shape.kind, target, composite_steps(target, shape))
    /\ UNCHANGED <<disk, current, writer, around, runtime, held, deadEnd>>

\* start_command under the lock: a verified tree and no running Runtime.
start_command(c) ==
    /\ cmd[c].pc = "plan_start"
    /\ current = 0 /\ Tree # "mixed" /\ runtime = None
    /\ Open(c, "start", Tree, <<Plain("start"), Plain("post_check")>>)
    /\ UNCHANGED <<disk, current, writer, around, runtime, held, deadEnd>>

\* A plan, a gate, a guard or a given plan id refuses before anything is opened.
plan_refused(c) ==
    /\ cmd[c].pc \in {"plan", "plan_start"}
    /\ Leave(c)
    /\ UNCHANGED <<disk, current, journal, around, runtime, held, deadEnd>>

\* stop_command: without the writer lock.
stop_command(c) ==
    /\ "stop" \in bounds.others
    /\ MayRun(c) /\ current = 0 /\ runtime # None
    /\ Open(c, "stop", None, <<Plain("pause"), Plain("close")>>)
    /\ UNCHANGED <<disk, current, writer, around, runtime, held, deadEnd>>

\* release_hold_command: without the writer lock.
release_hold_command(c) ==
    /\ "release" \in bounds.others
    /\ MayRun(c) /\ current = 0 /\ runtime # None
    /\ Open(c, "release", None, <<Plain("release_hold")>>)
    /\ UNCHANGED <<disk, current, writer, around, runtime, held, deadEnd>>

\* The second half of Operation::open: current.json is created, or found and the new journal
\* ends refused.
create_current(c) ==
    /\ cmd[c].pc = "create"
    /\ IF current = 0
       THEN current' = cmd[c].op /\ Goto(c, "step") /\ UNCHANGED <<journal, writer>>
       ELSE /\ journal' = [journal EXCEPT ![cmd[c].op].result = "refused"]
            /\ Leave(c) /\ UNCHANGED current
    /\ UNCHANGED <<disk, around, runtime, held, deadEnd>>

\* Mutant: resume goes on with an operation whose undo began.
resume_undone(c) ==
    /\ MayRun(c) /\ current # 0
    /\ LET j == journal[current] IN
       cmd' = [cmd EXCEPT ![c] = [pc |-> IF ended(j) THEN "retire" ELSE "resume", op |-> current, j |-> j]]
    /\ UNCHANGED <<disk, current, journal, writer, around, runtime, held, deadEnd>>

\* mod::resume: current.json must name the operation; an ended one is only retired.
resume(c) ==
    /\ MayRun(c) /\ current # 0
    /\ LET j == journal[current] IN
       /\ ended(j) \/ (~finished(j) /\ j.undo = None)
       /\ cmd' = [cmd EXCEPT ![c] =
                    [pc |-> IF ended(j) THEN "retire"
                            ELSE IF j.kind \in {"stop", "release"} THEN "step" ELSE "resume",
                     op |-> current, j |-> j]]
    /\ UNCHANGED <<disk, current, journal, writer, around, runtime, held, deadEnd>>

\* Mutant: an undo under way is refused like one of an ended operation.
undo_once(c) ==
    /\ MayRun(c)
    /\ \E o \in DOMAIN journal :
          LET j == journal[o] IN
          /\ current \in {0, o}
          /\ j.undo = None
          /\ ChangesProgram(j) => runtime = None
          /\ finished(j) => o = Len(journal) /\ (ChangesProgram(j) => live.op = o)
          /\ cmd' = [cmd EXCEPT ![c] = [pc |-> IF ChangesProgram(j) THEN "undo" ELSE "begin_undo",
                                        op |-> o, j |-> j]]
    /\ UNCHANGED <<disk, current, journal, writer, around, runtime, held, deadEnd>>

\* undo::undo up to its lock: the unfinished operation, or the last finished one that installed
\* the live build; no actingd runs; the rollback gate once the operation ran its build.  (The same
\* gate over an owner that started after the end plans over a tree the operation left whole.)
undo(c) ==
    /\ MayRun(c)
    /\ \E o \in DOMAIN journal :
          LET j == journal[o] IN
          /\ current \in {0, o}
          /\ ChangesProgram(j) => runtime = None
          /\ j.undo = None /\ finished(j) =>
                o = Len(journal) /\ (ChangesProgram(j) => live.op = o)
          /\ j.undo = None /\ ChangesProgram(j) /\ started_inside(j) /\ ~j.rollback => Plannable
          /\ cmd' = [cmd EXCEPT ![c] = [pc |-> IF ChangesProgram(j) THEN "undo" ELSE "begin_undo",
                                        op |-> o, j |-> j]]
    /\ UNCHANGED <<disk, current, journal, writer, around, runtime, held, deadEnd>>

-----------------------------------------------------------------------------
(* update::run: the step the process is at.                                 *)

Running(c, pc) == cmd[c].pc = pc
J(c) == cmd[c].j
N(c) == At(J(c))
S(c) == J(c).steps[N(c)]
MyPart(c) == part[cmd[c].op][S(c).file]
MyOld(c) == old[cmd[c].op][S(c).file]

AtStep(c) == Running(c, "step") /\ Pending(J(c)) # {}
Acting(c, kind) == Running(c, "act") /\ S(c).kind = kind

\* Operation::done, ::progress: the step's state and evidence.
Done(c, ev) == write(c, [J(c) EXCEPT !.steps[N(c)].st = "done", !.steps[N(c)].ev = ev], "step")
progress(c, ev, pc) == write(c, [J(c) EXCEPT !.steps[N(c)].ev = ev], pc)

\* Mutant: a staged file counts as staged as soon as it exists.
HoldsAnyPart(c) == S(c).kind = "stage_file" /\ MyPart(c) # None

\* What a step finds already true: the file staged or in place, the start of an earlier process
\* answering, the hold of a rollback whose previous build failed its checks.
Holds(c) ==
    LET s == S(c)
        checks == {m \in 1..(N(c) - 1) : J(c).steps[m].kind = "post_check"}
    IN \/ s.kind = "stage_file" /\ J(c).target \in {MyPart(c), dst[s.file]}
       \/ s.kind = "swap_file" /\ dst[s.file] = J(c).target
       \/ s.kind = "start" /\ s.st = "started" /\ s.ev # None /\ runtime # None
       \/ s.kind = "release_hold" /\ s.rollback /\ J(c).steps[Max(checks)].ev = "failed"

\* deploy::gate_passed: the rollback's close, and its reversal, wait for the gate's pass.
NeedsGate(c) ==
    \/ /\ S(c).kind = "close" /\ S(c).rollback
       /\ J(c).steps[reversal_after(J(c), N(c))].ev # "gate_passed"
    \/ S(c).kind = "reverse_files" /\ S(c).ev # "gate_passed"

\* The step is skipped and recorded done.
skip_step(c) ==
    /\ AtStep(c) /\ Holds(c)
    /\ Done(c, IF S(c).kind = "start" THEN "ready" ELSE S(c).ev)
    /\ UNCHANGED <<disk, current, writer, around, runtime, held, deadEnd>>

\* Operation::start: the intent is journalled before the step acts.
start_step(c) ==
    /\ AtStep(c) /\ ~Holds(c) /\ ~NeedsGate(c)
    /\ write(c, [J(c) EXCEPT !.steps[N(c)].st = "started"], "act")
    /\ UNCHANGED <<disk, current, writer, around, runtime, held, deadEnd>>

\* Operation::done after the act.
mark_done(c) ==
    /\ Running(c, "mark")
    /\ Done(c, S(c).ev)
    /\ UNCHANGED <<disk, current, writer, around, runtime, held, deadEnd>>

\* Operation::interrupted over a file or tree that is not what its step must leave: the operation
\* stays unfinished and no later resume can find it otherwise.
Interrupted(c) ==
    /\ Leave(c)
    /\ deadEnd' = (deadEnd \/ current = cmd[c].op)
    /\ UNCHANGED journal

\* Verified, refused before anything changed, or left running at its deadline: the operation then
\* stays unfinished.
ledger_verify(c) ==
    /\ Acting(c, "ledger_verify")
    /\ \/ \E pc \in {"mark", "end"} : Goto(c, pc) /\ UNCHANGED <<writer, faults>>
       \/ faults < bounds.faults /\ faults' = faults + 1 /\ Leave(c)
    /\ UNCHANGED <<disk, current, journal, lockFile, tick, runtime, held, deadEnd, bounds>>

\* files::copy_file: the part is there, incomplete, before it is complete.
stage_file(c) ==
    /\ Acting(c, "stage_file")
    /\ LET full == MyPart(c) = "half" IN
       /\ part' = [part EXCEPT ![cmd[c].op][S(c).file] = IF full THEN J(c).target ELSE "half"]
       /\ Goto(c, IF full THEN "mark" ELSE "act")
    /\ UNCHANGED <<dst, old, live, current, journal, writer, around, runtime, held, deadEnd>>

\* update::swap, the first rename: the displaced file becomes .old-<ms>.
NeedsOut(c) == dst[S(c).file] # None /\ S(c).hasOld /\ MyOld(c) = None

swap_out(c) ==
    /\ Acting(c, "swap_file") /\ NeedsOut(c)
    /\ old' = [old EXCEPT ![cmd[c].op][S(c).file] = dst[S(c).file]]
    /\ dst' = [dst EXCEPT ![S(c).file] = None]
    /\ UNCHANGED <<part, live, current, journal, cmd, writer, around, runtime, held, deadEnd>>

\* update::swap, the second rename; a swap that finds nothing to rename leaves its check to tell.
swap_in(c) ==
    /\ Acting(c, "swap_file") /\ ~NeedsOut(c)
    /\ IF dst[S(c).file] = None /\ MyPart(c) # None
       THEN /\ dst' = [dst EXCEPT ![S(c).file] = MyPart(c)]
            /\ part' = [part EXCEPT ![cmd[c].op][S(c).file] = None]
       ELSE UNCHANGED <<dst, part>>
    /\ Goto(c, "swapped")
    /\ UNCHANGED <<old, live, current, journal, writer, around, runtime, held, deadEnd>>

\* The check after the swap.
swap_checked(c) ==
    /\ Running(c, "swapped")
    /\ IF dst[S(c).file] = J(c).target
       THEN Done(c, None) /\ UNCHANGED <<writer, deadEnd>>
       ELSE Interrupted(c)
    /\ UNCHANGED <<disk, current, around, runtime, held>>

verify_tree(c) ==
    /\ Acting(c, "verify_tree")
    /\ IF Tree = J(c).target
       THEN Done(c, None) /\ UNCHANGED <<writer, deadEnd>>
       ELSE Interrupted(c)
    /\ UNCHANGED <<disk, current, around, runtime, held>>

\* state::write_state with the operation's build as the live one.
record_state(c) ==
    /\ Acting(c, "record_state")
    /\ live' = [commit |-> J(c).target, op |-> cmd[c].op]
    /\ Goto(c, "mark")
    /\ UNCHANGED <<dst, part, old, current, journal, writer, around, runtime, held, deadEnd>>

-----------------------------------------------------------------------------
(* The INST-2 steps (deploy.rs).                                            *)

\* hold::run_pause: a Runtime that no longer runs keeps the pauses it has.
pause(c) ==
    /\ Acting(c, "pause")
    /\ held' = (held \/ runtime # None)
    /\ Goto(c, "mark")
    /\ UNCHANGED <<disk, current, journal, writer, around, runtime, deadEnd>>

\* A pause refused after it held some instances, or none.
pause_refused(c) ==
    /\ Acting(c, "pause") /\ runtime # None
    /\ held' \in {held, TRUE}
    /\ Goto(c, "unhold")
    /\ UNCHANGED <<disk, current, journal, writer, around, runtime, deadEnd>>

\* The refused pause releases the hold; a release that fails keeps it.
pause_released(c) ==
    /\ Running(c, "unhold")
    /\ held' \in (IF runtime # None THEN {FALSE} ELSE {}) \cup {held}
    /\ Goto(c, "end")
    /\ UNCHANGED <<disk, current, journal, writer, around, runtime, deadEnd>>

\* Mutant: the close does not wait for the Runtime to stop.
close_unwaited(c) ==
    /\ Acting(c, "close")
    /\ Goto(c, "mark")
    /\ UNCHANGED <<disk, current, journal, writer, around, runtime, held, deadEnd>>

\* hold::run_close: request-shutdown and its wait; already stopped is closed.
close(c) ==
    /\ Acting(c, "close")
    /\ \/ runtime' = None /\ Goto(c, "closed")
       \/ runtime # None /\ Goto(c, "end") /\ UNCHANGED runtime
    /\ UNCHANGED <<disk, current, journal, writer, around, held, deadEnd>>

\* After the close: the ledger head (not in a rollback), then nothing may still run.
closed(c) ==
    /\ Running(c, "closed")
    /\ \/ runtime = None /\ Goto(c, "mark")
       \/ (runtime # None \/ ~S(c).rollback) /\ Goto(c, "end")
    /\ UNCHANGED <<disk, current, journal, writer, around, runtime, held, deadEnd>>

\* deploy::rollback_gate: a pass records the rollback, then the pass; a failure ends the command.
rollback_gate(c) ==
    /\ AtStep(c) /\ NeedsGate(c)
    /\ \/ Plannable /\ write(c, [J(c) EXCEPT !.rollback = TRUE], "gate")
       \/ Goto(c, "end") /\ UNCHANGED journal
    /\ UNCHANGED <<disk, current, writer, around, runtime, held, deadEnd>>

gate_recorded(c) ==
    /\ Running(c, "gate")
    /\ LET r == IF S(c).kind = "close" THEN reversal_after(J(c), N(c)) ELSE N(c)
       IN write(c, [J(c) EXCEPT !.steps[r].ev = "gate_passed"], "step")
    /\ UNCHANGED <<disk, current, writer, around, runtime, held, deadEnd>>

\* launch::start refuses before it spawns: a guard, or a Runtime that runs.
launch_refused(c) ==
    /\ Acting(c, "start")
    /\ Goto(c, "end")
    /\ UNCHANGED <<disk, current, journal, writer, around, runtime, held, deadEnd>>

\* launch::start spawns actingd from the tree as it is, under the watchdog's run lock.
spawn(c) ==
    /\ Acting(c, "start") /\ runtime = None /\ tick = "idle"
    /\ runtime' = Tree
    /\ Goto(c, "spawned")
    /\ UNCHANGED <<disk, current, journal, writer, around, held, deadEnd>>

\* The wait for readiness: answered, sampled, or its deadline passed with actingd left running.
await_ready(c) ==
    /\ Running(c, "spawned") /\ runtime # None
    /\ \/ progress(c, "ready", "mark")
       \/ S(c).ev = None /\ progress(c, "sampled", "spawned")
       \/ progress(c, "left_running", "end")
    /\ UNCHANGED <<disk, current, writer, around, runtime, held, deadEnd>>

\* actingd exited before it was ready (or was never spawned): another attempt, or the start failed.
start_exited(c) ==
    /\ \/ Running(c, "spawned") /\ runtime = None
       \/ Acting(c, "start") /\ runtime = None
    /\ \/ faults < bounds.faults /\ faults' = faults + 1 /\ Running(c, "spawned") /\ progress(c, "failed", "act")
       \/ progress(c, "failed", "failed") /\ UNCHANGED faults
    /\ UNCHANGED <<disk, current, writer, lockFile, tick, runtime, held, deadEnd, bounds>>

\* A start that failed: the composite update rolls back, anything else ends refused.
start_failed(c) ==
    /\ Running(c, "failed")
    /\ Goto(c, IF composite_update(J(c)) /\ ~S(c).rollback THEN "skip_planned" ELSE "end")
    /\ UNCHANGED <<disk, current, journal, writer, around, runtime, held, deadEnd>>

\* postcheck::evaluate; only a Runtime that answers passes.
post_check(c) ==
    /\ Acting(c, "post_check")
    /\ \/ runtime # None /\ Done(c, "passed")
       \/ (S(c).rollback \/ J(c).kind = "start") /\ Done(c, "failed")
       \/ /\ ~S(c).rollback /\ J(c).kind # "start"
          /\ Goto(c, IF composite_update(J(c)) THEN "skip_planned" ELSE "end")
          /\ UNCHANGED journal
    /\ UNCHANGED <<disk, current, writer, around, runtime, held, deadEnd>>

\* begin_rollback's first write: the planned steps not begun are done, skipped.
skip_planned(c) ==
    /\ Running(c, "skip_planned")
    /\ write(c, [J(c) EXCEPT !.steps = [m \in DOMAIN @ |->
                    IF m > N(c) /\ @[m].st = "planned"
                    THEN [@[m] EXCEPT !.st = "done", !.ev = "skipped"] ELSE @[m]]], "append_steps")
    /\ UNCHANGED <<disk, current, writer, around, runtime, held, deadEnd>>

\* begin_rollback's second write: the rollback's own steps.
append_steps(c) ==
    /\ Running(c, "append_steps")
    /\ write(c, [J(c) EXCEPT !.steps = @ \o rollback_steps], "mark")
    /\ UNCHANGED <<disk, current, writer, around, runtime, held, deadEnd>>

\* reverse_files: no actingd may run; one that does leaves the operation for `resume`.
reverse_files(c) ==
    /\ Acting(c, "reverse_files")
    /\ \/ runtime = None /\ Goto(c, "reverse_files") /\ UNCHANGED writer
       \/ runtime # None /\ Leave(c)
    /\ UNCHANGED <<disk, current, journal, around, runtime, held, deadEnd>>

\* hold::release needs a Runtime that answers.
release_hold(c) ==
    /\ Acting(c, "release_hold")
    /\ \/ runtime # None /\ held' = FALSE /\ Goto(c, "mark")
       \/ Goto(c, "end") /\ UNCHANGED held
    /\ UNCHANGED <<disk, current, journal, writer, around, runtime, deadEnd>>

-----------------------------------------------------------------------------
(* The end of an operation.                                                 *)

\* deploy::finish: every step is done; refused `deploy_rolled_back` after an automatic rollback.
finish(c) ==
    /\ Running(c, "step") /\ Pending(J(c)) = {}
    /\ write(c, [J(c) EXCEPT !.result = IF J(c).rollback THEN "refused" ELSE "done"], "retire")
    /\ UNCHANGED <<disk, current, writer, around, runtime, held, deadEnd>>

\* deploy::end: the operation ends refused.
end(c) ==
    /\ Running(c, "end")
    /\ write(c, [J(c) EXCEPT !.result = "refused"], "retire")
    /\ UNCHANGED <<disk, current, writer, around, runtime, held, deadEnd>>

\* retire_current: current.json is renamed away, whatever operation it names.
retire_current(c) ==
    /\ Running(c, "retire")
    /\ current' = 0
    /\ Leave(c)
    /\ UNCHANGED <<disk, journal, around, runtime, held, deadEnd>>

-----------------------------------------------------------------------------
(* Undo.                                                                    *)

\* Mutant: the undo of a finished operation does not name it in current.json again.
begin_undo_unnamed(c) ==
    /\ Running(c, "begin_undo")
    /\ Goto(c, IF J(c).undo # None THEN "reverse" ELSE "mark_undo")
    /\ UNCHANGED <<disk, current, journal, writer, around, runtime, held, deadEnd>>

\* begin_undo: an undo under way goes on; a finished operation is named by current.json again,
\* or refused while another one is; then the undo is journalled.
begin_undo(c) ==
    /\ Running(c, "begin_undo")
    /\ \/ /\ J(c).undo # None \/ ~finished(J(c))
          /\ Goto(c, IF J(c).undo # None THEN "reverse" ELSE "mark_undo")
          /\ UNCHANGED <<current, writer>>
       \/ /\ J(c).undo = None /\ finished(J(c)) /\ current = 0
          /\ current' = cmd[c].op
          /\ Goto(c, "mark_undo")
          /\ UNCHANGED writer
       \/ /\ J(c).undo = None /\ finished(J(c)) /\ current # 0
          /\ Leave(c)
          /\ UNCHANGED current
    /\ UNCHANGED <<disk, journal, around, runtime, held, deadEnd>>

mark_undo(c) ==
    /\ Running(c, "mark_undo")
    /\ write(c, [J(c) EXCEPT !.undo = "started"], "reverse")
    /\ UNCHANGED <<disk, current, writer, around, runtime, held, deadEnd>>

\* The steps an undo, or an automatic rollback's reversal, still reverses; newest first.
Left(c) == IF Running(c, "reverse") THEN ToReverse(J(c), TRUE)
           ELSE IF Running(c, "reverse_files") THEN ToReverse(J(c), FALSE) ELSE {}
R(c) == J(c).steps[Max(Left(c))]

\* Mutants: state.json keeps the build that is being undone; only a swap that is done puts the
\* displaced file back.
RestoreNever(c) == FALSE
PutBackDone(c) ==
    /\ R(c).kind = "swap_file" /\ R(c).st = "done"
    /\ dst[R(c).file] = None /\ R(c).hasOld /\ old[cmd[c].op][R(c).file] # None

\* reverse_step of a swap: the new file is set aside, the displaced one put back, the part set
\* aside; of a staged file: the part set aside; of the state record: state.json restored.
SetAside(c) ==
    R(c).kind = "swap_file" /\ dst[R(c).file] = J(c).target
PutBack(c) ==
    R(c).kind = "swap_file" /\ dst[R(c).file] = None /\ R(c).hasOld /\ old[cmd[c].op][R(c).file] # None
Abandon(c) ==
    R(c).kind \in {"swap_file", "stage_file"} /\ part[cmd[c].op][R(c).file] # None
Restore(c) ==
    R(c).kind = "record_state" /\ live # J(c).previous.state

reverse_set_aside(c) ==
    /\ Left(c) # {} /\ SetAside(c)
    /\ dst' = [dst EXCEPT ![R(c).file] = None]
    /\ UNCHANGED <<part, old, live>>
    /\ UNCHANGED <<current, journal, cmd, writer, around, runtime, held, deadEnd>>

reverse_put_back(c) ==
    /\ Left(c) # {} /\ PutBack(c)
    /\ dst' = [dst EXCEPT ![R(c).file] = old[cmd[c].op][R(c).file]]
    /\ old' = [old EXCEPT ![cmd[c].op][R(c).file] = None]
    /\ UNCHANGED <<part, live>>
    /\ UNCHANGED <<current, journal, cmd, writer, around, runtime, held, deadEnd>>

reverse_abandon(c) ==
    /\ Left(c) # {} /\ ~SetAside(c) /\ ~PutBack(c) /\ Abandon(c)
    /\ part' = [part EXCEPT ![cmd[c].op][R(c).file] = None]
    /\ UNCHANGED <<dst, old, live>>
    /\ UNCHANGED <<current, journal, cmd, writer, around, runtime, held, deadEnd>>

reverse_state(c) ==
    /\ Left(c) # {} /\ Restore(c)
    /\ live' = J(c).previous.state
    /\ UNCHANGED <<dst, part, old>>
    /\ UNCHANGED <<current, journal, cmd, writer, around, runtime, held, deadEnd>>

\* Operation::undone, once nothing of the step is left on disk.
undone(c) ==
    /\ Left(c) # {} /\ ~SetAside(c) /\ ~PutBack(c) /\ ~Abandon(c) /\ ~Restore(c)
    /\ write(c, [J(c) EXCEPT !.steps[Max(Left(c))].st = "undone"], cmd[c].pc)
    /\ UNCHANGED <<disk, current, writer, around, runtime, held, deadEnd>>

\* The previous build verified in place, then finish_undo or the reversal's own end.
Restored(c) == ChangesProgram(J(c)) => Tree = J(c).previous.live

finish_undo(c) ==
    /\ Running(c, "reverse") /\ Left(c) = {}
    /\ IF Restored(c)
       THEN write(c, [J(c) EXCEPT !.undo = "finished"], "retire") /\ UNCHANGED <<writer, deadEnd>>
       ELSE Interrupted(c)
    /\ UNCHANGED <<disk, current, around, runtime, held>>

files_reversed(c) ==
    /\ Running(c, "reverse_files") /\ Left(c) = {}
    /\ IF Restored(c) THEN Goto(c, "mark") /\ UNCHANGED <<journal, writer, deadEnd>> ELSE Interrupted(c)
    /\ UNCHANGED <<disk, current, around, runtime, held>>

-----------------------------------------------------------------------------
(* The parties beside the commands.                                         *)

\* Tick::probe_start (and refuse_installer_busy of `actingctl start`): a free writer lock is
\* held shared; a missing lock file is taken for free and nothing is held.
probe_writer ==
    /\ tick = "idle" /\ \A c \in Cmds : cmd[c].pc # "spawned"
    /\ lockFile => writer = None
    /\ tick' = "probed"
    /\ writer' = IF lockFile THEN "tick" ELSE writer
    /\ UNCHANGED <<disk, current, journal, cmd, lockFile, runtime, held, deadEnd, faults, bounds>>

EndTick ==
    /\ tick' = "idle"
    /\ writer' = IF writer = "tick" THEN None ELSE writer

\* Mutant: an operation is told by the build on disk, which a half-swapped tree does not name.
unfinished_by_tree ==
    current # 0 /\ ChangesProgram(journal[current]) /\ Tree # "mixed"

\* state::unfinished_operation: only an update or rollback refuses a start.
unfinished_operation == current # 0 /\ ChangesProgram(journal[current])

probe_start ==
    /\ tick = "probed"
    /\ IF unfinished_operation \/ runtime # None
       THEN EndTick
       ELSE tick' = "start" /\ UNCHANGED writer
    /\ UNCHANGED <<disk, current, journal, cmd, lockFile, runtime, held, deadEnd, faults, bounds>>

start_runtime ==
    /\ tick = "start"
    /\ runtime' = IF runtime = None THEN Tree ELSE runtime
    /\ EndTick
    /\ UNCHANGED <<disk, current, journal, cmd, lockFile, held, deadEnd, faults, bounds>>

\* The Runtime ends by itself or is closed by a person.
RuntimeExits ==
    /\ runtime # None /\ runtime' = None
    /\ UNCHANGED <<disk, current, journal, cmd, writer, around, held, deadEnd>>

\* A command's process ends between two writes, or one of them fails.
Crash(c) ==
    /\ cmd[c] # Idle
    /\ faults < bounds.faults /\ faults' = faults + 1
    /\ Leave(c)
    /\ UNCHANGED <<disk, current, journal, lockFile, tick, runtime, held, deadEnd, bounds>>

-----------------------------------------------------------------------------

Opening(c) ==
    \/ take(c) \/ take_refused(c) \/ apply_command(c) \/ start_command(c) \/ plan_refused(c)
    \/ create_current(c)

FileStep(c) ==
    \/ skip_step(c) \/ start_step(c) \/ mark_done(c) \/ ledger_verify(c) \/ stage_file(c)
    \/ swap_out(c) \/ swap_in(c) \/ swap_checked(c)
    \/ verify_tree(c) \/ record_state(c) \/ finish(c) \/ end(c) \/ retire_current(c)

DeployStep(c) ==
    \/ pause(c) \/ pause_refused(c) \/ pause_released(c) \/ close(c) \/ closed(c)
    \/ rollback_gate(c) \/ gate_recorded(c) \/ launch_refused(c) \/ spawn(c) \/ await_ready(c)
    \/ start_exited(c) \/ start_failed(c) \/ post_check(c) \/ skip_planned(c) \/ append_steps(c)
    \/ reverse_files(c) \/ release_hold(c)

UndoStep(c) ==
    \/ begin_undo(c) \/ mark_undo(c)
    \/ reverse_set_aside(c) \/ reverse_put_back(c) \/ reverse_abandon(c) \/ reverse_state(c)
    \/ undone(c) \/ finish_undo(c) \/ files_reversed(c)

\* The steps of a command once a person called it.
Advance(c) == Opening(c) \/ FileStep(c) \/ DeployStep(c) \/ UndoStep(c)

Next ==
    \/ \E c \in Cmds :
          \/ Begin(c) \/ stop_command(c) \/ release_hold_command(c) \/ resume(c) \/ undo(c)
          \/ Advance(c) \/ Crash(c)
    \/ probe_writer \/ probe_start \/ start_runtime
    \/ RuntimeExits

Spec == Init /\ [][Next]_vars

\* What the liveness below takes for granted: a command, once called, goes on (the lock is polled
\* while a tick probes); a tick ends; a person resumes or undoes an operation left unfinished and
\* closes the Runtime a refusal names; they do not answer every refusal with another undo, nor
\* call `resume` only while a tick holds the lock.
Attend(c) == current # 0 /\ (resume(c) \/ undo(c))

Fairness ==
    /\ \A c \in Cmds :
          /\ WF_vars(Advance(c)) /\ SF_vars(take(c))
          /\ SF_vars(Attend(c)) /\ SF_vars(resume(c)) /\ SF_vars(writer = None /\ resume(c))
    /\ WF_vars(probe_start \/ start_runtime)
    /\ WF_vars(current # 0 /\ ChangesProgram(journal[current]) /\ RuntimeExits)

LiveSpec == Spec /\ Fairness

-----------------------------------------------------------------------------
(* Properties.                                                              *)

Steps == [kind : {"ledger_verify", "stage_file", "swap_file", "verify_tree", "record_state", "pause",
                  "close", "start", "post_check", "release_hold", "reverse_files"},
          file : Files \cup {None}, hasOld : BOOLEAN, rollback : BOOLEAN,
          st : {"planned", "started", "done", "undone"},
          ev : {None, "skipped", "sampled", "ready", "failed", "left_running", "passed", "gate_passed"}]

\* The type of the state: what the files, journals and processes may hold.
InstallTypeOK ==
    /\ dst \in [Files -> Builds \cup {None}]
    /\ part \in [Ops -> [Files -> Builds \cup {None, "half"}]]
    /\ old \in [Ops -> [Files -> Builds \cup {None}]]
    /\ live \in [commit : Builds, op : 0..MaxOps]
    /\ current \in 0..Len(journal) /\ Len(journal) <= MaxOps
    /\ \A o \in DOMAIN journal :
          /\ \A n \in DOMAIN journal[o].steps : journal[o].steps[n] \in Steps
          /\ journal[o].undo \in {None, "started", "finished"}
          /\ journal[o].result \in {None, "done", "refused"}
    /\ \A c \in Cmds : cmd[c].op \in 0..Len(journal)
    /\ writer \in Cmds \cup {None, "tick"}
    /\ tick \in {"idle", "probed", "start"}
    /\ runtime \in Builds \cup {None, "mixed"}

\* A Runtime is only ever started from one whole build: neither the watchdog's tick nor
\* `actingctl start` nor the installer itself spawns actingd while the program files are part one
\* build and part the other, whatever processes ended in between (rows 7a and 7a'' of the
\* watchdog, the writer lock, current.json).
StartsWhole == runtime # "mixed"

\* No operation that current.json names ever meets a tree it cannot complete: the check after a
\* swap, verify_tree and the verification at the end of an undo or a reversal succeed after every
\* sequence of ended processes, resumes and undos ("a step repeated after a crash is either
\* already true or done again safely").
NoDeadEnd == ~deadEnd

\* Without an operation in progress the tree is the one build state.json records, and no staged
\* file is left that would refuse the next plan (foreign_part).
SettledAgrees == current = 0 => Tree = live.commit /\ NoParts

\* An update or rollback that began a step and has not ended is the one current.json names, so the
\* watchdog and every other command see it.
NamedWhileOpen ==
    \A o \in DOMAIN journal :
        LET j == journal[o] IN
        ChangesProgram(j) /\ ~ended(j) /\ (\E n \in DOMAIN j.steps : j.steps[n].st # "planned")
            => current = o

\* What an operation's end says is what is on disk: `done` the target in place and recorded, an
\* automatic rollback or a finished undo the build of before, recorded again.
EndsAsSaid ==
    [][\A o \in DOMAIN journal :
          LET j == journal[o]
              k == journal'[o]
          IN ChangesProgram(j) =>
             /\ ~finished(j) /\ k.result = "done" => Tree = j.target /\ live = [commit |-> j.target, op |-> o]
             /\ ~finished(j) /\ k.result = "refused" /\ j.rollback
                   /\ (\E n \in DOMAIN j.steps :
                          j.steps[n].kind = "reverse_files" /\ j.steps[n].st = "done" /\ j.steps[n].ev # "skipped")
                   => Tree = j.previous.live /\ live = j.previous.state
             /\ j.undo = "started" /\ k.undo = "finished"
                   => Tree = j.previous.live /\ live.commit = j.previous.live]_vars

\* An operation goes one way: once its undo is journalled, or an automatic rollback reversed one of
\* its files, none of its file steps runs forward again (resume refuses an operation being undone).
OneDirection ==
    [][\A o \in DOMAIN journal :
          LET j == journal[o]
              k == journal'[o]
              file == {n \in DOMAIN j.steps : j.steps[n].kind \in {"stage_file", "swap_file", "record_state"}}
          IN j.undo # None \/ (\E n \in file : j.steps[n].st = "undone")
             => \A n \in file : k.steps[n].st \in {j.steps[n].st, "undone"}]_vars

\* No program file is swapped in, or reversed by an automatic rollback, under a running actingd.
SwapsAtRest ==
    [][(\E c \in Cmds : cmd[c].pc \in {"act", "reverse_files"} /\ dst' # dst) => runtime = None]_vars

\* Once an automatic rollback began (the steps it replaces are journalled as skipped), a process
\* that ends does not undo that: the operation never ends `done` with the condemned build.
RollbackKept ==
    \A o \in DOMAIN journal :
        (\E n \in DOMAIN journal[o].steps : journal[o].steps[n].ev = "skipped")
            => journal[o].result # "done"

\* Every operation comes to an end: while a person attends to it, current.json is retired again.
Settles == []<>(current = 0)

=============================================================================
