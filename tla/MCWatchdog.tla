----------------------------- MODULE MCWatchdog -----------------------------
(***************************************************************************)
(* Instances of Watchdog for TLC.  Each behaviour is one of a few          *)
(* situations: who runs ticks, who starts processes, how they end, what    *)
(* goes wrong, and how long it lasts.                                      *)
(***************************************************************************)
EXTENDS Watchdog

VARIABLE situation

\* Who may start the first process, the second and so on; `beside` of them live at once.
Situation(name, ticks, starters, ends, mishaps, beside, time) ==
    [name |-> name, ticks |-> ticks, starters |-> starters, ends |-> ends,
     mishaps |-> mishaps, beside |-> beside, time |-> time]

Situations ==
    { \* Starts that crash or hang use the budget up, and a formal start clears it.
      Situation("budget", {FALSE}, <<{"other"}, {"tick"}, {"other", "tick"}>>,
                {"crashed"}, {"killed"}, 2, 3),
      \* Every way to stop, before and after a maintenance owner.
      Situation("rows", {FALSE}, <<{"other"}, {"other", "maintenance"}, {"maintenance"}>>,
                {"crashed", "info", "error", "fatal", "refused"}, {}, 2, 2),
      \* A start that is refused later than the owner before it closed, and a maintenance
      \* owner later than both.
      Situation("refusals", {FALSE}, <<{"other"}, {"other"}, {"maintenance"}>>,
                {"error", "fatal", "refused"}, {}, 2, 3),
      \* `actingctl start` beside the ticks.
      Situation("command", {FALSE}, <<{"command"}, {"command", "tick"}, {"command", "tick"}>>,
                {"crashed"}, {"killed"}, 2, 2),
      \* What a tick does when a step of it fails.
      Situation("failures", {TRUE}, <<{"other"}, {"tick"}>>, {"crashed", "retained"},
                {"unread", "aside", "unsaved", "unstarted", "unwatched"}, 1, 2),
      \* Task ticks around a reboot.
      Situation("reboot", {TRUE}, <<{"other"}, {"tick"}>>,
                {"crashed"}, {"rebooted", "killed"}, 1, 4) }

\* What a step may do in the situation.
InSituation ==
    /\ now' <= situation.time
    /\ faults' \subseteq situation.mishaps
    /\ tick.pc = "idle" /\ tick'.pc # "idle" =>
           /\ tick'.task \in situation.ticks
           /\ situation.name \in {"rows", "refusals"} => disk = FreshState
           /\ \/ tick'.task
              \/ Len(procs) < Len(situation.starters)
              \/ \E p \in Procs : Alive(p)
    /\ tick.pc = "idle" /\ disk' # disk => situation.name = "reboot"
    /\ Len(procs') > Len(procs) =>
           /\ Len(procs') <= Len(situation.starters)
           /\ Cardinality({p \in Procs : Alive(p)}) < situation.beside
           /\ procs'[Len(procs')].by \in situation.starters[Len(procs')]
    /\ \A p \in Procs : procs[p].st # "ending" /\ procs'[p].st = "ending"
                            => procs'[p].why \in situation.ends
    /\ ended' # ended => ended' \in situation.ends \union {"none"}

MCInit == Init /\ situation \in Situations

Within(A) == A /\ InSituation /\ UNCHANGED situation

MCNext == Within(Next)

\* Task Scheduler runs the task every minute, and a tick's steps, a wait for
\* run.lock and the clock go on.
MCSpec ==
    /\ MCInit /\ [][MCNext]_<<vars, situation>>
    /\ WF_<<vars, situation>>(Within(run_once(TRUE)))
    /\ WF_<<vars, situation>>(Within(TickStep))
    /\ WF_<<vars, situation>>(Within(command_end))
    /\ WF_<<vars, situation>>(Within(pass))

\* A Runtime that is gone without a close or a fatal outcome, with nothing left of it,
\* does not stay down unattended while the task is scheduled: a tick comes to start it
\* or records that the budget is exhausted, unless the clock of the instance ends
\* before the grace does.
ComesBack ==
    Unattended /\ TRUE \in situation.ticks
        ~> (~Unattended \/ tick.pc = "spawn" \/ disk.grace > situation.time)
=============================================================================
