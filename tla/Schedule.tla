-------------------------------- MODULE Schedule --------------------------------
(***************************************************************************)
(* The schedule of the inspections (pkg/inspection/schedule.go): a cron    *)
(* expression of which only minute and hour may be restricted, and the     *)
(* next time it names.  Times are seconds since a midnight in the runner's *)
(* fixed time zone, so no day is longer than another.  The sizes of a      *)
(* minute, an hour and a day are constants: TLC takes small ones.          *)
(***************************************************************************)
EXTENDS Integers

CONSTANTS SecondsPerMinute, MinutesPerHour, HoursPerDay

ASSUME CalendarAssumption ==
  /\ SecondsPerMinute \in Nat \ {0}
  /\ MinutesPerHour \in Nat \ {0}
  /\ HoursPerDay \in Nat /\ HoursPerDay > 2

Minute == SecondsPerMinute
Hour   == MinutesPerHour * Minute
Day    == HoursPerDay * Hour

\* When the minute, hour or day that t is in began.
StartOf(unit, t) == t - (t % unit)

MinuteOf(t) == (t % Hour) \div Minute
HourOf(t)   == (t % Day) \div Hour

-----------------------------------------------------------------------------

Any == -1

\* A parsed schedule: a minute and an hour, or any.
Crons == [minute: 0..(MinutesPerHour - 1) \cup {Any}, hour: 0..(HoursPerDay - 1) \cup {Any}]

Fallback == [minute |-> 0, hour |-> 2]

\* An expression has a minute, an hour, and three fields that must be stars;
\* numbers may be out of range.  The runner falls back to two o'clock.
ParseCron5(expr) ==
  LET cron == [minute |-> expr.minute, hour |-> expr.hour] IN
  IF expr.rest = "stars" /\ cron \in Crons THEN cron ELSE Fallback

\* Mutant: a time that is now counts as later.
Bump(n, t, unit) == IF n >= t THEN n ELSE n + unit

\* Mutant: the first time is skipped.
AlwaysLater(n, t, unit) == n + unit

\* n, or a unit later if n is not after t.
Later(n, t, unit) == IF n > t THEN n ELSE n + unit

\* With an hour and any minute: the current minute of that hour, today.
NextInHour(hour, t) ==
  LET n     == StartOf(Day, t) + hour * Hour + MinuteOf(t) * Minute
      first == StartOf(Day, t) + hour * Hour IN
  IF n > t THEN n
  ELSE IF HourOf(n + Minute) = hour THEN n + Minute
  ELSE Later(first, t, Day)

NextTime(cron, t) ==
  IF cron.hour = Any /\ cron.minute = Any THEN StartOf(Minute, t) + Minute
  ELSE IF cron.hour = Any
    THEN Later(StartOf(Hour, t) + cron.minute * Minute, t, Hour)
  ELSE IF cron.minute = Any
    THEN NextInHour(cron.hour, t)
  ELSE Later(StartOf(Day, t) + cron.hour * Hour + cron.minute * Minute, t, Day)

-----------------------------------------------------------------------------

\* What a cron expression means: the times that match it.
Matches(cron, t) ==
  /\ t % Minute = 0
  /\ cron.minute \in {Any, MinuteOf(t)}
  /\ cron.hour   \in {Any, HourOf(t)}

=============================================================================
