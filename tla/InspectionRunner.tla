---------------------------- MODULE InspectionRunner ----------------------------
(***************************************************************************)
(* inspection.Runner (pkg/inspection/runner.go): the goroutine that waits  *)
(* for the next time of its schedule, makes an inspection, and schedules   *)
(* again when that has ended, until the controller shuts down.  Here an    *)
(* inspection is an interval of any length: while it lasts no other can    *)
(* begin.  It may end late or early, and a shutdown may fall anywhere.     *)
(*                                                                         *)
(* A tick is short against a minute: timers fire and the loop goes round   *)
(* within the tick in which they can.                                      *)
(***************************************************************************)
EXTENDS Schedule

CONSTANTS
  Expressions, \* what Config.Inspection.Schedule may hold: [minute, hour, rest]
  MaxTime      \* bound on time

ASSUME TimeAssumption == MaxTime \in Nat

VARIABLES
  now,       \* the clock
  cron,      \* the parsed schedule
  pc,        \* where the goroutine is
  next,      \* the time it waits for, or waited for last
  cancelled, \* the context is done
  started,   \* history: when the goroutine started
  served,    \* history: the times inspections began for
  busy       \* history: its times that passed during inspections

vars == <<now, cron, pc, next, cancelled, started, served, busy>>

Init ==
  /\ now \in 0..(Day - 1)
  /\ cron \in {ParseCron5(e) : e \in Expressions}
  /\ pc = "scheduling"
  /\ next = now
  /\ cancelled = FALSE
  /\ started = now
  /\ served = {}
  /\ busy = {}

\* Mutant: the loop schedules from the time it waited for, not from the clock.
ScheduleFromLast ==
  /\ pc = "scheduling"
  /\ next' = NextTime(cron, next)
  /\ pc' = "waiting"
  /\ UNCHANGED <<now, cron, cancelled, started, served, busy>>

\* The timer is set for the next time; for a time that has passed it fires at once.
Schedule ==
  /\ pc = "scheduling"
  /\ next' = NextTime(cron, now)
  /\ pc' = "waiting"
  /\ UNCHANGED <<now, cron, cancelled, started, served, busy>>

\* Mutant: the wait is a tick short.
FiresEarly == pc = "waiting" /\ now + 1 >= next

TimerFires == pc = "waiting" /\ now >= next

\* runOnce begins; when the context is done too, select may take either.
RunOnce ==
  /\ TimerFires
  /\ pc' = "running"
  /\ served' = served \cup {next}
  /\ UNCHANGED <<now, cron, next, cancelled, started, busy>>

\* runOnce returns, with or without an error, in time or after its timeout.
RunReturns ==
  /\ pc = "running"
  /\ pc' = "scheduling"
  /\ UNCHANGED <<now, cron, next, cancelled, started, served, busy>>

\* Mutant: the wait does not look at the context.
StopUnlessWaiting ==
  /\ pc = "scheduling" /\ cancelled
  /\ pc' = "stopped"
  /\ UNCHANGED <<now, cron, next, cancelled, started, served, busy>>

Stop ==
  /\ pc = "waiting" /\ cancelled
  /\ pc' = "stopped"
  /\ UNCHANGED <<now, cron, next, cancelled, started, served, busy>>

\* The signal handler in main cancels the context.
Cancel ==
  /\ ~cancelled
  /\ cancelled' = TRUE
  /\ UNCHANGED <<now, cron, pc, next, started, served, busy>>

Tick ==
  /\ now < MaxTime
  /\ pc # "scheduling" /\ ~TimerFires
  /\ now' = now + 1
  /\ busy' = IF pc = "running" /\ Matches(cron, now') THEN busy \cup {now'} ELSE busy
  /\ UNCHANGED <<cron, pc, next, cancelled, started, served>>

Next ==
  \/ Schedule
  \/ RunOnce
  \/ RunReturns
  \/ Stop
  \/ Cancel
  \/ Tick

\* The goroutine goes on, inspections end, and select is fair.
Fairness == WF_vars(Schedule) /\ WF_vars(RunReturns) /\ SF_vars(Stop)

Spec     == Init /\ [][Next]_vars
FairSpec == Spec /\ Fairness

-----------------------------------------------------------------------------
(* Properties.                                                             *)

\* The variables keep their types, and no inspection is ahead of its time.
TypeOK ==
  /\ now       \in Nat
  /\ cron      \in Crons
  /\ pc        \in {"scheduling", "waiting", "running", "stopped"}
  /\ next      \in Nat
  /\ cancelled \in BOOLEAN
  /\ started   \in 0..now
  /\ served    \subseteq 0..now
  /\ busy      \subseteq 0..now

\* The runner never waits for a time it has inspected already, nor for one that
\* passed: a time of the schedule gets at most one inspection.
OneRunPerTime == pc = "waiting" => \A t \in served : t < next

\* Every time of the schedule since the start gets its inspection, unless one
\* is in progress then, or the controller is shutting down.
EveryTimeServed ==
  \A t \in started + 1 .. now :
     Matches(cron, t) => \/ t \in served \cup busy
                         \/ pc = "waiting" /\ t = next
                         \/ cancelled

\* A shutdown stops the runner, from wherever it is.
ShutdownStops == cancelled ~> pc = "stopped"

=============================================================================
