------------------------------- MODULE CronSimple -------------------------------
(***************************************************************************)
(* How the inspection reads the schedules of the cluster's CronJobs        *)
(* (pkg/inspection/cron_simple.go), and what it concludes from them        *)
(* (runner.go, collectWorkloads): whether a CronJob has missed a run.      *)
(* Times are seconds since a midnight in the runner's time zone, which is  *)
(* the one the code reads every schedule in.                               *)
(***************************************************************************)
EXTENDS Schedule

CONSTANTS
  SearchMinutes,  \* how far next looks: 48 hours of minutes
  Grace,          \* how late a run may be: 3 minutes
  NeverRunAge     \* when a CronJob without a run is suspicious: 2 hours

ASSUME CronAssumption ==
  /\ SearchMinutes \in Nat /\ Grace \in Nat /\ NeverRunAge \in Nat
  /\ HoursPerDay * MinutesPerHour <= SearchMinutes

NoTime == -1

\* A field as it is written: a star, a step, a number, or a list, a range, a
\* name.  An expression has two such fields and a rest that must be stars.
Parses(field, max) ==
  \/ field.form = "star"
  \/ field.form = "step"  /\ field.n > 0
  \/ field.form = "value" /\ field.n \in 0..max

ParseCronSimple5(expr) ==
  /\ expr.rest = "stars"
  /\ Parses(expr.minute, MinutesPerHour - 1)
  /\ Parses(expr.hour, HoursPerDay - 1)

FieldMatch(field, v) ==
  \/ field.form = "star"
  \/ field.form = "step"  /\ v % field.n = 0
  \/ field.form = "value" /\ v = field.n

CronMatch(expr, t) ==
  FieldMatch(expr.minute, MinuteOf(t)) /\ FieldMatch(expr.hour, HourOf(t))

\* Mutant: the minute the search starts from is a candidate itself.
SearchedFrom(after) ==
  {StartOf(Minute, after) + i * Minute : i \in 0..(SearchMinutes - 1)}

\* The minutes next tries, from the one after the given time.
Searched(after) ==
  {StartOf(Minute, after) + (i + 1) * Minute : i \in 0..(SearchMinutes - 1)}

CronNext(expr, after) ==
  LET hits == {t \in Searched(after) : CronMatch(expr, t)} IN
  IF hits = {} THEN NoTime ELSE CHOOSE t \in hits : \A u \in hits : t <= u

-----------------------------------------------------------------------------
(* The CronJobs' part of collectWorkloads.                                 *)

\* The time the next run is counted from.
Base(cj) == IF cj.last # NoTime THEN cj.last ELSE cj.created

\* Has the next run come and passed by more than the grace?
NextPassed(cj, now) ==
  LET next == CronNext(cj.expr, Base(cj)) IN
  next # NoTime /\ next < now - Grace

NeverRun(cj, now) ==
  ~cj.suspended /\ cj.last = NoTime /\ now - cj.created > NeverRunAge

\* A CronJob without any run is only looked at when it is old enough.
Overdue(cj, now) ==
  /\ ~cj.suspended
  /\ cj.last # NoTime \/ NeverRun(cj, now)
  /\ ParseCronSimple5(cj.expr)
  /\ NextPassed(cj, now)

-----------------------------------------------------------------------------

\* What the expression means, whatever the search does: a time at which the
\* CronJob should have run lies after its last run and before the grace.
MissedARun(cj, now) ==
  \E t \in (Base(cj) + 1)..(now - Grace - 1) :
    t % Minute = 0 /\ CronMatch(cj.expr, t)

=============================================================================
