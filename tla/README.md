# A TLA+ model of ActingCommand Runtime

ActingCommand Runtime is a resident daemon that runs automation on Android emulators and
devices.  Many clients, the daemon's own workers and a periodic sweep share a few device
instances; the daemon must give each instance to one holder at a time, keep a record of who
owned it across crashes, and never leave an instance in a state nobody will ever end.

The specifications here model that core: the lease scheduler, the threads of the host that
use it, the owner journal on disk, and the fences that keep an instance out of use when its
resources may still be live.  Around it they model the two tools that start, replace and
restart the daemon: the installer and the watchdog.  TLC checks each module on small
instances; TLAPS proves the scheduler's properties for every number of instances, holders and
claims, those of the host's threads that use it for every number of threads and claims, the
service of a fence's rechecks for every number of attempts, the owner journal's durability for
every number of records, folds and crashes, and the watchdog's properties for every budget,
window and number of processes and faults.

`PROJECT.json` maps every definition to the source lines it models, and lists the runs, the
mutants that show that each property can fail, the hazards, the disagreements found between
the code and its documentation, and the theorems.

## The system and its parts

| Part | Source | State | Operations that change it | Here |
|---|---|---|---|---|
| Lease scheduler | `crates/scheduler/src/lib.rs` | per instance: lease, queue, cooldown, replay records; the lease index | acquire, queue, grant, poll, cancel, begin/finish a step, transfer, hand-off, renew, release, expire, rollback | `Scheduler`, `SchedulerClients` and their proofs |
| Lease admission | `crates/runtime-host/src/host/lease.rs`, `input.rs` | admission guard and queue-order lock per instance, queued contexts, terminal records | the requests of a connection, the pump, the lease sweep, a disconnect | `HostLease` and its proofs |
| Owner journal | `runtime-host/src/owner.rs`, `ledger/src/owner_journal.rs` | `owner.lock`, its side file, the guard | start, append, retention, close, fold, recovery | `OwnerJournal`, `OwnerLog` and their proofs |
| Resource fences | `runtime-host/src/host/resource_fence.rs` | per instance: stage, wait for a person, recheck | fence, hand on, await a person, recheck, lift | `ResourceFence` and its proofs |
| Instance workers | `runtime-host/src/host/host_claims.rs` | one job at a time per instance | request a host claim, take a job, release its key | `ResourceFence` |
| Recovery ladder | `runtime-host/src/host/recovery_ladder.rs` | queued ladders, cool-down, the climb | admit, queue, climb, drill, drop, end | its admission and its end, in `ResourceFence` |
| Resource close, kernel sessions | `runtime-host/src/host/resource_close.rs`, `execution-kernel/src/session.rs` | open sessions, the owner's disposition | open, close, retain | only the outcome of a close |
| Pause and blackout | `scheduling_pause.rs`, `blackout_silence.rs` | who is paused, the blackouts | pause, resume, silence | blackouts, in `ResourceFence` |
| Policy dispatch | `policy_dispatch.rs`, `policy_outcome.rs`, `policy_lanes.rs` | lanes, runs, outcomes | hand a run to a worker, settle it | not modelled |
| Global ledger | `crates/ledger` | the event log in SQLite | append at two durability classes, retain, export | not modelled |
| Artifact store | `crates/artifact-store` | frames on disk, the pipeline's queue | publish, drop, export | not modelled |
| Runtime state | `crates/runtime-state`, `runtime-database` | revisions of state | write, release | not modelled |
| Watchdog | `apps/actingctl/src/watchdog`, `runtime_start.rs` | `state.json`: start records, exhaustion, last formal start, grace, end of the last task tick | a tick, `actingctl start`, `watchdog install` | `Watchdog` and its proofs |
| Installer | `apps/actingctl/src/install` | the program files, `current.json`, operation journals, `state.json`, the writer lock | update, rollback, stop, start, release-hold, resume, undo | `Installer` |
| Execution kernel, device chain, recognition, policy evaluators | their crates | data | none of the protocol's | not modelled |
| Daemon, CLI, MCP entry, client, lab | `apps`, `crates/runtime-client`, `crates/lab` | none of the production state | requests | the requests, in `HostLease` |

How they meet: a request arrives on a connection's thread, which takes the instance's
*admission guard*, asks the *scheduler* under its lock, and records what happened in the
ledger.  A request that cannot be served waits in the instance's one queue; whoever lets the
guard go *pumps* the queue, and the *lease sweep* does so every tick.  The daemon's own work
(startup packages, ladders, rechecks) queues claims there too and runs on the instance's
worker once granted.  A holder's writes to the device run under a *destructive step* that
holds none of the locks.  When a lease ends the holder's device session is closed; a close
that cannot be confirmed *fences* the instance, and the sweep hands the fence to a recovery
ladder or to a person.  The *owner journal* records which process owns the instances, for
the next start.  Task Scheduler runs a *tick* of the watchdog every minute: it reads the owner
journal, `owner.lock` and the start logs, and starts the daemon when it is gone without having
been asked to stop.  The *installer* replaces the program files under the daemon; its writer
lock and `current.json` keep the tick from starting what is half replaced.

## Modules

| Module | Models | Extends |
|---|---|---|
| `Scheduler` | the state of `Scheduler` and one operator per call | library only |
| `SchedulerClients` | callers that make any call at any time, with any token, witness or preparation they were ever given | `Scheduler` |
| `MCSchedulerClients` | small instances | `SchedulerClients` |
| `SchedulerProofs` | the inductive invariant, the shapes of a step, that each shape keeps each part of it, and the theorems | `SchedulerClients`, `TLAPS` |
| `HostLease` | the host's threads between their locks | `Scheduler` |
| `MCHostLease` | small instances | `HostLease` |
| `HostSafety` | the inductive invariants of the waiting requests and of the lease; what a call does to the scheduler; the pump, the cleanups, the sweep, the clock and the calls on a held lease keep the second | `HostLease`, `TLAPS` |
| `HostBooks` | the kinds of step by what they do to the books; the pump, the cleanups, acquisitions and the calls on a held lease keep the first | `HostSafety` |
| `HostProofs` | the remaining steps, every step together, and the theorems | `HostBooks` |
| `OwnerLog` | what the journal promises: a log that grows by one legal record | library only |
| `OwnerJournal` | the file, the side file, the process, and crashes | instantiates `OwnerLog` |
| `OwnerJournalProofs` | what a torn line and a half-written fold still say, the inductive invariant, the theorems and the refinement | `OwnerJournal`, `TLAPS` |
| `ResourceFence` | one instance's fence, the sweep, the worker and the claims for the key | library only |
| `ResourceFenceProofs` | lemmas about the queue, the inductive invariant and the theorems | `ResourceFence`, `TLAPS` |
| `Installer` | the disk, the commands as processes, ticks that start the Runtime | library only |
| `MCInstaller` | small instances | `Installer` |
| `Watchdog` | ticks step by step, and the processes they observe and start | library only |
| `MCWatchdog` | the situations TLC explores, and the fairness | `Watchdog` |
| `WatchdogHolds` | what a step changes; lemmas about the journal and the start logs, and that every step keeps the invariant of what they tell of the last end | `Watchdog`, `TLAPS` |
| `WatchdogProofs` | lemmas about start records, the inductive invariant of the budget, and the theorems | `WatchdogHolds` |

### Scheduler and SchedulerClients

`lease`, `queue` and `cooldown` are functions of the instance; `locations` is
`lease_locations`; `nextLease`, `nextArrival` and `nextStep` are the counters.  A queue is a
set of entries with the strict order `Before`, the comparison of `sort_queue`; its first
entry is the head.  A claim (request, instance, holder, kind, priority, timeout, lifetime) is
what a caller asks with, and stands for its request id.  A gate is the set of kinds it holds
back.  Every operator is a whole call: `SetQueue` for example includes the refresh of the
preemption flag that every change of a queue ends with.

`SchedulerClients` keeps what callers were given: `tokens`, `writes` (witnesses of open
steps) and `prepared` (leases and transfers prepared and not committed).  A preparation may
be committed at any later time, or never.  That is more than the host does with its locks,
and it is what the scheduler's own checks must withstand.

### HostLease

One thread per holder, and the sweep.  `pc` says between which locks or scheduler calls a
thread is and `job` what it carries across them: the claim, the token, the prepared lease or
transfer, the open step.  `admission` and `order` are the two locks of the instance; the
scheduler's own lock is held within a step.  `contexts` is `queued_requests`, and `settled`
counts the terminal records each request got.  A host error that is fatal sets `fault` and
stops every thread; a failure that is not fatal and reaches the sweep's loop ends the sweep
(`pc[Sweep] = "dead"`).

The module follows one instance: no thread holds locks of two, and the scheduler treats them
apart.  It leaves out the gate (always open), the performance and ladder-release checks of
the pump, the hand-off of a key to a ladder, the install drain and the shutdown.

### OwnerJournal and OwnerLog

A file is a sequence of cells and a line a run of them, so that a write can stop in the
middle.  `file` and `side` are what the next start would find; a crash therefore changes
only the process.  `Read` is `read_locked` with `parse_journal`, `Verdict` the classification
R1-R4 of `recover_compaction_locked`, and `Recovered` the log a start would derive from the
present disk.  Appends reach the disk in order.  The cells of the in-place rewrite reach it
in order, or in any order with the length first (`Reorder`).  `acked` is the log as the last
call that returned left it.  `OwnerLog` is the abstract promise and `ImplementsLog` the
refinement, with `Recovered` in the place of the log.

A failed directory sync, the process probe (a start that may be refused) and what a takeover
does with the previous owner's instances are not modelled.

### ResourceFence

`fence` is the instance's entry in `resource_fences`, `key` the claim that holds the
instance, `queue` the waiting claims in grant order and `posted` the worker's channel.
`worker`, `sweep`, `pump` and `fencing` are the four actors that read under one lock and act
under the next: the state keeps where each is and what it read.  Time is abstract: a recheck
becomes due (`IntervalPasses`), a key may lapse under its holder (`KeyLapses`).  A close that
fails is a nondeterministic outcome of any holder and, with `LadderFences`, of a ladder and
of its own lease end.

Several instances (whose fences are independent), a panic of a worker's payload, the drain,
the shutdown and `direct_runs = trigger` are left out.

### Installer

`dst`, `part` and `old` are the names a program file goes through in a swap, by operation;
`live` is the build `state.json` records, `current` what `current.json` names, `journal` the
operation journals.  `cmd` holds the command processes, each with its own copy of its journal.
Every action writes or renames one file, so `Crash` ends a process between any two writes, and
the disk is what the next `resume` or `undo` finds.  A step of an operation is journalled as
started, acted on and journalled as done, as `update::run` does; `N(c)` is the step a run of
the operation takes next.  The plan's steps, the composite around them (pause, close, start,
checks, release), the two writes that begin an automatic rollback, its gate, and the reversal
in the opposite order are actions or operators with the source's names.

A file's content is the build it belongs to, or `half` while it is copied; the tree is build
A, build B or `mixed`.  Whether a plan, a guard, a gate or a post-start check passes is a
nondeterministic answer.  `probe_writer`, `probe_start` and `start_runtime` are the tick and
`actingctl start` as the installer meets them.  `deadEnd` is a history variable: an operation
in progress found a tree it cannot complete.

`release stage`, `adopt` and the MCP entry write only `install\` and are left out, as are the
contents of manifests, the guards and the answers on standard output; `current.json` and
`state.json` are written whole.

### Watchdog

A tick loads `state.json` into `mem` under `run.lock`, observes, decides, records the start on
disk, spawns, waits for the Runtime and saves; `tick.pc` says between which of these it is, and
it may be killed anywhere.  `decide_observed` is rows 2 to 6' of the decision table with the
terminal outcomes read from the logs, `decide_start` rows 7b to 7f.  `procs` is every process
ever started, by whom and at which tick time; `journal` and `logs` are what it leaves for the
rows to read.  An owner's record is open until `closed`; the terminal line is written a step
later (`last_line`).

`ended` remembers how the last process ended (`refused` for a start refused with a fatal
outcome) and `graced` the first task tick after a boot; both are history for the properties.
When a maintenance owner takes the lock after such a refusal and the last owner had closed,
`ended` forgets the refusal: its log lies in no owner's time, so row 6' does not look at it.
Owners and logs from before an owner that answers leave the state (`serve`, `LogsSince`),
since no row looks back past it.  The clock and the boot time are the only times, and 0 is
a time that is not set, as in the code.  Left out: a `state.json` of another schema, a
`run.lock` that cannot be opened, what `status` and `uninstall` do, and the decision log.

## What is checked

The passing runs take one to four minutes each on two workers; `installer` has 165,796 distinct
states, `scheduler` 159,363 and `watchdog` 665,073.

| Run | Question | Result |
|---|---|---|
| `scheduler` | two clients of different priority with every stale token and preparation; a client that also waits on another instance; a ladder and its continuation; a startup package and a dedicated close | types, exact lease index and preemption flag, one place per request, no expired entry lost, visible writes, a close-only lease never writes business input, hand-over between steps, no revival |
| `host_contended` | the threads of two clients, or of a client and an operator's capped claim, and the sweep, at every lock | no halt, one terminal record per request, exact contexts, writes only under the current lease |
| `host_liveness` | the same threads under fairness | operations end, waits end, a free instance is granted |
| `owner_journal` | appends, folds, failures and crashes anywhere, recovery included | no acknowledged record lost; refines `OwnerLog` |
| `fence` | sweep, worker, pump and holders on one fence, under fairness | a counted recheck always has someone who settles it; a fence is handed on; a wait is rechecked |
| `installer` | updates, rollbacks, composites, stops and starts that end anywhere, are resumed or undone, beside ticks | no start from a mixed tree, no swap under a Runtime, an unfinished operation stays named and can be completed, an ended one left what it says, nothing runs forward again after an undo; every operation ends |
| `watchdog` | ticks that are killed, fail or are cut off by a reboot, beside processes that crash, hang, stop and are started by others | the restart budget, no start beside an earlier one, no start against a stop or a fatal outcome, the grace after a reboot, only a formal start clears exhaustion; a Runtime that is gone comes back |

### Where the code and its documentation disagree

Each of these is a run that TLC refutes; the finding in `PROJECT.json` quotes the sentence.

| Run | What happens |
|---|---|
| `host_sweep` | a lease that ends between the sweep's two reads ends the sweep's thread, and the Runtime goes on without it |
| `host_ladder` | a client behind a ladder's claim is told it preempts, the holder is not; recording it halts the Runtime |
| `host_capacity` | a preemption without capacity ends a lease under a write that began after the check |
| `installer_rollback` | a process that ends between the two journal writes that begin an automatic rollback: `resume` finishes with the build whose start or checks failed |
| `fence_blackout` | a blackout drops the ladder a fence waits for; nothing ever decides the fence |

`LadderDecides`, the property of `fence_blackout`, fails in two more ways without a blackout:
a fence made by a ladder's own lease end is handed to the ladder that is ending, and a fence
is handed to a plan drill, which decides nothing.

Smaller disagreements and limits met while modelling, which no run asks about:

- Scheduler: a dedicated close lease is judged with the caller's gate and with the open gate
  (`scheduler/src/lib.rs:1102`), so a routine entry the pause
  holds back refuses it after all.
- Owner journal: after an append that fails half way the same process may append again
  (`FailingAppends` with `"change"`); a fold whose longer image reaches the disk added part
  first is taken as not begun (`Reorder` with `"grows"`); a torn first record of a fresh journal
  is refused rather than cut.
- Fences: the sweep overwrites a wait for a person that has just begun; a failed recheck
  gives up its key before it settles, so another holder may lift the fence in between; a recheck is known by its attempt number only; a
  panic drops the payload of a granted claim; an install drain cancels a fence's claim and
  settles nothing; the owner's disposition is computed at a close and does not follow a
  fence made at another time.
- Watchdog: a task tick that returns before the start rows opens no grace and still records its
  end; a start whose result is closed but whose process comes up later counts as formal; a formal
  start within the window of an open record counts as the watchdog's own; a maintenance owner
  that is killed makes a closed Runtime start again; an error stop killed between its journal's
  close and its terminal line looks like a formal close.
- Installer: `undo` looks for a running actingd before it has the writer lock, and reverses
  files under one that a tick starts while it waits; a root without a writer lock file has
  nothing to hold (`LockFile = FALSE`); two commands at once act on journals loaded before the
  lock (`Overlap = TRUE`); a torn `current.json` refuses every command; a journal that never got
  its `current.json` refuses the undo of the operation before it.

The passing runs of a module keep these behaviours: `HostLease` for example goes on with a
dead sweep, and its liveness properties say "or the sweep has ended".  The instances of
`host_contended` hold no ladder, and no preemption without capacity, so that `NeverHalts` and
`WritesFenced` speak of everything but what `host_ladder` and `host_capacity` show.

### Bounds

Every bound is a named constant.  `MaxLeases`, `MaxPrepared`, `MaxArrivals` and `MaxSteps`
cap the counters of `SchedulerClients`; with two leases and two outstanding preparations a
stale preparation meets a lease that replaced the one it was made from, and with lifetimes
of 1 every lease and wait both runs and ends by time 1; a takeover cooldown of 2 outlasts a wait
and elapses at `MaxTime` 2.  The constraint `OneGroup` keeps a
behaviour to one of six groups of callers, each with its own bounds; the properties are proved
without any of these bounds.  `HostLease` has
the like in `Setting`: which claims a behaviour makes and what capacity answers.  It needs no
cap on calls: each claim is made once, and `MaxTime` 2 with `LeaseTtl` 2 lets a wait expire
behind a lease and the lease lapse under a write and be granted anew; the same properties held
with `MaxTime` 3 (2.1 million states) and with `LeaseTtl` 1 (1.4 million).  The liveness instance is smaller (no
destructive step, one unit of time), since TLC's check of a temporal formula costs more than
the states themselves.  `OwnerJournal` with five
records reaches a fold, appends behind it and a second fold; lines of two cells are enough to
be torn, and checkpoints of 1, 2 and 5 cells give images shorter and longer than the file;
the shorter ones reach the disk in any order (`Reorder`), the longer ones in sequence, and only
a retention or a close fails half way, after which nothing is appended (`FailingAppends`): see above for the other values.
`ResourceFence` with two fences and two attempts has a second fence meet what the first left
behind, and a queue of two is full with one other claim waiting.

`Installer` has two builds and two files, one of which only the new build lists, so that a swap
replaces and adds, an undo puts back and sets aside, and a tree can be mixed.  `AllBounds` gives
a behaviour one of four mixtures of commands: up to three plain updates with two processes that
end early, one composite update with two, a composite rollback beside stop, start and release
with one, plain updates around a stop with one.  Two ends are what it takes to interrupt an
operation and then its undo.

`Watchdog` has a budget of one start in a window of two units, one record kept and a grace of
one unit: the smallest values at which a second start is refused, a record is dropped and a
grace outlasts a tick.  `Situations` says for each of six kinds of behaviour who starts which
process, how processes end, what goes wrong and how long it lasts, so that crash loops, the
rows, refusals, `actingctl start`, failing ticks and reboots are each explored with up to three
processes.  The situation of the rows has every way to end and two units of time; that of the
refusals leaves out crashes and requested stops and has three, the least at which a start
refused with a fatal outcome is followed by a maintenance owner that closes outside the slack.
The safety properties are proved without any of these bounds.

Deadlock is not checked where the bounded clock, a halt or a disconnected client really ends
a behaviour (`HostLease`, `SchedulerClients`, `OwnerJournal`, `Watchdog`); it is checked for
`ResourceFence`, whose sweep ticks for ever, and for `Installer`, whose ticks do.

### Fairness

`HostLease`: weak fairness of every thread's next step, of the sweep and of the clock.  The
threads are operating-system threads that block only on the modelled locks.  A mutex promises
no turn to a thread that others keep overtaking, so the properties are about behaviours in
which clients, at some time, begin no more operations.  Nobody has to begin an operation, to
poll, or to release.

`ResourceFence`: weak fairness of the sweep, the worker, a pump's two steps, a fencing under
way, a holder's release and the recheck's interval.  The sweep is a loop with a fixed sleep,
a worker takes the next job when one ends, and every key is released or lapses.  Requests,
failures and lapses are not fair and are bounded; the last blackout is over at some time.

`Installer`: weak fairness of a command once called and of a tick once begun, strong fairness
of taking the writer lock, which `WriterLock::take` polls while ticks come and go.  The rest is
about the person who operates the root: an operation left unfinished is attended to (resumed or
undone), not always while a tick has the lock, and not with an undo each time; the Runtime that
makes a command refuse is closed.  Nobody has to begin an operation.

`Watchdog`: weak fairness of the task's tick, which Task Scheduler begins every minute, of the
steps of a tick, of the end of `actingctl start` and of the clock.  The steps of processes,
kills, reboots and failures are not fair.  `ComesBack` is about the situations with task ticks,
and excuses a grace that ends after the instance's clock.

## What is proved

`SchedulerProofs` proves, for every set of instances, holders and claims, every lifetime,
depth and bound, and every sequence of calls with any token, witness or preparation ever
handed out:

| Theorem | Statement |
|---|---|
| `TypeCorrect` | the state keeps its type |
| `LocationsCorrect` | the lease index names exactly the current leases |
| `PreemptionCorrect` | the preemption flag is set exactly when a client of higher priority heads the queue |
| `QueueCorrect` | no queue exceeds its depth and no request waits twice |
| `FencingCorrect` | a write authority whose lease is held is the step that lease records |
| `CloseOnlyCorrect` | a close-only lease never opens a business step |
| `ExpiryCorrect` | a refused request drops no expired entry |
| `HandoverCorrect` | an instance changes hands only when no write of the old lease is outstanding |
| `RevivalCorrect` | a lease id that becomes current was never handed out before |

The assumptions of these are `ConfigAssumption` (claims are well-formed, a client's lifetime is the
configured one, a dedicated claim has the lowest priority, lifetimes, cooldown and depth are
positive), `NoneAssumption` and `ClientsAssumption` (the bounds are numbers).  TLC evaluates
them in every run of `MCSchedulerClients`.

The argument rests on the inductive invariant `IInv`.  The properties alone are not
inductive: that a committed preparation revives no lease needs that its id is fresh
(`PreparedFresh`), which needs that ids are issued once (`TokensSound`); that a commit keeps
`WritesVisible` needs that the lease it was prepared from had no open step (`PreparedSound`)
and that the commit compares the whole lease; that a refused request drops nothing needs
that no entry with a deadline waits in a cooldown (`CooldownSound`).  The proof first sorts
the actions of `Next` into nine shapes (`StepShape`): prepare, remove, insert, commit, begin,
finish, renew, end, clock.  Then each conjunct of `IInv` is shown to be preserved shape by
shape, so that a call added later needs one lemma, that it has one of the shapes.

`WatchdogProofs` proves, for every budget, window, gap, grace, start window, slack and number
of kept records, and any number of processes, ticks and faults:

| Theorem | Statement |
|---|---|
| `TypesAreKept` | the state keeps its type, and whoever holds `owner.lock` has a record |
| `BudgetIsKept` | the ticks of any window start the Runtime at most `BudgetStarts` times after the last formal start |
| `SpawnsAreAlone` | a tick about to start the Runtime has no live process of an earlier tick or of `actingctl start` beside it |
| `GraceIsKept` | no task tick starts before the grace opened after a reboot is over |
| `OnlyFormalClears` | exhaustion leaves `state.json` only with a formal start that every start record precedes |
| `HoldsAreKept` | no tick starts the Runtime when the process that ended last had been asked to stop, or had stopped or been refused with a fatal outcome |

The assumption is `WatchdogAssumption`: the constants are numbers, as many records are kept as
the budget allows starts, and the grace is positive.  The first is what a file that drops its
oldest record needs: without it the budget would be lost.

The budget counts processes, and the tick decides from records, in memory, some steps before it
spawns.  The inductive invariant (`IInv` in `WatchdogProofs`) therefore relates the two:
`Sound` says of `state.json`, and of the state a tick carries, that from any time in the window
and after its last formal start on, it has at least as many records as ticks started
processes, the one about to be spawned included (`Covers`), and no more than the budget.  That
survives a dropped record (the oldest of more than a full budget), a kill after the save and
before the spawn (a record too many, never one too few), a save that fails (the older file is
still sound), and a formal start, which moves the time counted from.  It needs that records are
in the order of time and no later than now, that a live owner is later than all of them, and
that an owner which takes the lock while a tick probes is later than that tick
(`tick.pc = "probe" /\ Owners # {} => tick.at <= LastStarted`).  `FormalInv` says when a tick's
copy may differ from the file in its exhaustion, and `GraceInv` that the grace opened by the
first task tick after a boot is on disk and with every tick that follows.  Each action has a
lemma that it keeps `IInv`; the steps of the processes share one (`RuntimeKeeps`), since they
start nothing that counts.

`HoldsAreKept` has an invariant of its own (`HoldInv` in `WatchdogHolds`), about what the files
still tell of the last end.  The rows read a journal and the logs; `ended` is what happened.
`HeldOK` relates them: after an end that holds, the newest terminal outcome among the logs is that end's
(`Told`); the last owner has closed (`ToldClosed`), or the end was a refusal after that owner's
start (`ToldSince`); and once nobody but a maintenance owner is there, its log covers an owner
of the journal (`ToldDuring`), which is what row 6' looks for when a later owner has closed
without a log.  That needs the logs and the owners in the order of time (`LogsOK`,
`JournalOK`), one owner at a time whose record is the open one, and a log since an answering
owner's start (`OwnersOK`).  `Stays` then shows that rows 2 to 6' never come to a start, and
one lemma for each action of a process that it keeps the files telling.  `Slack` and
`LookbackOwners` are any numbers: the lookback can only miss an outcome, and then the answer
is a formal close.

`HostProofs` proves, for every number of holders, claims and settings, every lifetime,
depth and capacity, and every interleaving of their threads with the sweep:

| Theorem | Statement |
|---|---|
| `HostTyped` | the locks, jobs, contexts and records keep their types |
| `ContextsAreExact` | while the queue-order lock is free, the contexts are exactly those of the waiting entries |
| `WaitsSettledOnce` | a wait gets at most one terminal record, and none while it waits |

and, for prudent settings:

| Theorem | Statement |
|---|---|
| `RuntimeNeverHalts` | no interleaving reaches an invariant error that halts the Runtime |
| `WritesAreFenced` | while a write is in flight its step is open in the current lease |

The assumption of the first three is `HostAssumption` (one instance; the sweep, `None` and the
holders differ; a setting is a set of claims and the answers of capacity) with the scheduler's.
The last two assume `Prudent` as well: no claim of the host's own has the high priority or
continues a lease, and where capacity may be missing no client preempts.  Without it the two
theorems are false: a claim of high priority before a client gives the halt of `host_ladder`, a
preemption without capacity the write under an ended lease of `host_capacity`.  In the code the
ladders, their continuations and the startup packages ask with the high priority, so the theorems speak of the times none of them waits.  TLC evaluates
that the settings of `host_contended` are prudent (`ContendedPrudent`).

The books come first because everything else reads them.  `ContextsExact` is not inductive: it
says nothing while a thread holds the order lock, which is when the books change.  `BookInv`
says what holds then: the one entry that waits without a context is that of the thread at
"visible", which has the lock and whose claim nobody else asked for (`Placed`); a thread that
asked has neither context nor record yet (`Unwaited`), so that whichever of poll, cancel, pump,
sweep and disconnect removes the entry writes the first record.  A step is sorted by what it
does to the books (nothing, a claim asked for, entries removed with a record each, an entry
inserted, its context shown); each kind keeps the invariant of every other thread.

`HaltInv` adds what a thread may rely on across its steps (`Safe`): where it holds the
admission guard; that a grant it prepared still finds the instance free, and a transfer the
very lease it was prepared from, with no step open and no way to open one (`Unwritable`: the
lease is the thread's own, or lapsed, or asked to yield), although the durable fact is written
in between and inputs begin under no lock; that a token carried to the end of a lapsed lease is
still lapsed; that a witness carried through a write is the step the lease records.  On the side
of the lease (`LeaseSound`) the preemption flag is exact and an open step belongs to a thread
that writes.  Again the steps are sorted by kind: the lease stays, is refreshed with its queue,
is replaced under both locks, renewed by its holder, or has a step opened or closed by it.
Two facts about finite sets are hypotheses of the lemmas and proved once for `HostProofs`: that
a set of numbers has a least one (`WellOrdered`) and that a queue as large as `MaxDepth` is the
whole queue (`Brim`).

`ResourceFenceProofs` proves, for every number of attempts, claims, fences and requests and
every queue limit:

| Theorem | Statement |
|---|---|
| `FenceTyped` | the types, the queue within its limit, a wait's fields only in a wait |
| `RecheckIsServed` | a recheck that is queued or prepares has a claim that waits, is posted or runs, or a sweep that is requesting it |

`RecheckServed` is not inductive, because attempts are the only names a recheck has: the
invariant says in addition that ladders carry no attempt number (`LaddersUnnumbered`), that a
worker has the claim it runs and that one which failed is not settled yet (`WorkerRuns`), and
that a recheck under way has a number and one that prepares is the worker's (`RecheckOwned`).

`OwnerJournalProofs` proves, for every width of a line and of a checkpoint, every limit of the
fold, and any number of records, folds, failures and crashes:

| Theorem | Statement |
|---|---|
| `JournalTyped` | the guard and the two files keep their types |
| `AckedIsDurable` | wherever the process ends, the next start reads the journal and every record whose append had returned |
| `GuardKnowsJournal` | a guard that still writes gives the next record the revision the reader expects |
| `JournalImplementsLog` | what a start would read begins as a log of `OwnerLog` and changes by one legal record at a time |

Besides the assumptions on the constants each has the hypothesis `Orderly`: a rewrite that makes
the file longer reaches the disk in order (`Reorder` holds at most `"shrinks"`), and an append
that fails half way is the guard's last (`FailingAppends` holds at most `"retain"` and
`"close"`).  Without it the theorems are false, in the two ways listed above under the smaller
disagreements; the run's constants satisfy it.

The invariant `JournalInv` is `Holds(Recovered)`: what the disk says is one log L throughout.
`Settled` says how it may say it outside a fold: whole lines that follow each other, the first
of them L's beginning, perhaps with a torn line behind them, and beside it no side file or
one that a start removes.  `Folding` is the rewrite: image and predecessor in the sealed side
file both say L and differ in their first line, and every cell of the journal is the one's or
the other's.  The work is in the lemmas that `Read` and `Verdict` find L in each of these files:
a torn line is cut and nothing else; a mixture never reads as a journal with a record behind
the image; a side file that is not sealed is never needed.  Each action then leaves L, or ends
it with the record being appended, at the very cell that completes the line; the refinement is
that step.

Only model-checked: `Installer`, whose invariants range over the steps of several operations
and their reversals at once; `LadderDecides`, `PreemptionsAgree`, `SweepAlive` and
`NoEndUnderWrite`, which are false; all liveness, which is out of the prover's reach, as are
facts about recursive definitions over data of any length.
