------------------------- MODULE InspectionRunnerProofs -------------------------
(* Proofs about InspectionRunner. *)
EXTENDS InspectionRunner, TLAPS

\* A remainder is at most what is divided, and a quotient is a natural number.
LEMMA DivMod ==
  ASSUME NEW a \in Nat, NEW b \in Nat \ {0}
  PROVE  a % b <= a /\ a \div b \in Nat
OBVIOUS

\* A remainder is a natural number below the modulus.
LEMMA ModRange ==
  ASSUME NEW a \in Int, NEW b \in Nat \ {0}
  PROVE  a % b \in Nat /\ a % b < b
OBVIOUS

\* A unit of time begins at most one unit before any time in it.
LEMMA StartOfBounds ==
  ASSUME NEW unit \in Nat \ {0}, NEW t \in Nat
  PROVE  /\ StartOf(unit, t) \in Int
         /\ StartOf(unit, t) <= t
         /\ t < StartOf(unit, t) + unit
BY ModRange DEF StartOf

\* The product of two positive numbers is positive.
LEMMA ProductPositive ==
  ASSUME NEW a \in Nat \ {0}, NEW b \in Nat \ {0}
  PROVE  a * b \in Nat \ {0}
OBVIOUS

\* The product of two natural numbers is one.
LEMMA ProductNat ==
  ASSUME NEW a \in Nat, NEW b \in Nat
  PROVE  a * b \in Nat
OBVIOUS

\* The units of time are positive.
LEMMA Units ==
  /\ Minute \in Nat \ {0}
  /\ Hour \in Nat \ {0}
  /\ Day \in Nat \ {0}
<1>1. Minute \in Nat \ {0}
  BY CalendarAssumption DEF Minute
<1>2. Hour \in Nat \ {0}
  BY <1>1, ProductPositive, CalendarAssumption DEF Hour
<1>3. Day \in Nat \ {0}
  BY <1>2, ProductPositive, CalendarAssumption DEF Day
<1> QED
  BY <1>1, <1>2, <1>3

\* The fallback, two o'clock, is a schedule.
LEMMA FallbackIsCron == Fallback \in Crons
BY CalendarAssumption DEF Fallback, Crons

\* Whatever the text, parseCron5 yields a schedule: its errors are the fallback.
LEMMA ParsedIsCron ==
  ASSUME NEW e
  PROVE  ParseCron5(e) \in Crons
BY FallbackIsCron DEF ParseCron5

\* Whatever was computed, a unit more is later if the unit reaches beyond t.
LEMMA LaterIsLater ==
  ASSUME NEW n \in Nat, NEW t \in Nat, NEW unit \in Nat \ {0}, t < n + unit
  PROVE  Later(n, t, unit) \in Nat /\ Later(n, t, unit) > t
BY DEF Later

\* An offset from the start of the unit does not matter to that.
LEMMA Offset ==
  ASSUME NEW s \in Nat, NEW t \in Nat, NEW unit \in Nat, NEW p \in Nat, t < s + unit
  PROVE  s + p \in Nat /\ t < s + p + unit
OBVIOUS

\* The fields of a schedule are numbers, and the current minute is one.
LEMMA CronNumbers ==
  ASSUME NEW c \in Crons
  PROVE  /\ c.minute # Any => c.minute \in Nat
         /\ c.hour # Any => c.hour \in Nat
BY CalendarAssumption DEF Crons, Any

\* The beginning of a unit of time is a time.
LEMMA StartOfNat ==
  ASSUME NEW unit \in Nat \ {0}, NEW t \in Nat
  PROVE  StartOf(unit, t) \in Nat
BY DivMod DEF StartOf

\* The shapes of schedule that next treats as cron does: all but every minute
\* of one hour.
Regular(c) == c.minute = Any => c.hour = Any

\* The next time of a regular schedule is after the time it is computed at.
THEOREM NextIsLater ==
  ASSUME NEW c \in Crons, NEW t \in Nat, Regular(c)
  PROVE  NextTime(c, t) \in Nat /\ NextTime(c, t) > t
<1> USE Units
<1>1. CASE c.hour = Any /\ c.minute = Any
  <2>1. NextTime(c, t) = StartOf(Minute, t) + Minute
    BY <1>1 DEF NextTime
  <2> QED
    BY <2>1, StartOfBounds, StartOfNat
<1>2. CASE c.hour = Any /\ c.minute # Any
  <2> DEFINE n == StartOf(Hour, t) + c.minute * Minute
  <2>1. c.minute * Minute \in Nat
    BY <1>2, CronNumbers, ProductNat
  <2>0. StartOf(Hour, t) \in Nat /\ t < StartOf(Hour, t) + Hour
    BY StartOfBounds, StartOfNat
  <2>2. n \in Nat /\ t < n + Hour
    BY <2>0, <2>1, Offset
  <2>3. NextTime(c, t) = Later(n, t, Hour)
    BY <1>2 DEF NextTime
  <2> HIDE DEF n
  <2> QED
    BY <2>2, <2>3, LaterIsLater
<1>3. CASE c.hour # Any /\ c.minute # Any
  <2> DEFINE n == StartOf(Day, t) + c.hour * Hour + c.minute * Minute
  <2>1. c.hour * Hour \in Nat /\ c.minute * Minute \in Nat
    BY <1>3, CronNumbers, ProductNat
  <2>0. StartOf(Day, t) \in Nat /\ t < StartOf(Day, t) + Day
    BY StartOfBounds, StartOfNat
  <2>a. /\ StartOf(Day, t) + c.hour * Hour \in Nat
        /\ t < StartOf(Day, t) + c.hour * Hour + Day
    BY <2>0, <2>1, Offset
  <2>2. n \in Nat /\ t < n + Day
    BY <2>a, <2>1, Offset
  <2>3. NextTime(c, t) = Later(n, t, Day)
    BY <1>3 DEF NextTime
  <2> HIDE DEF n
  <2> QED
    BY <2>2, <2>3, LaterIsLater
<1> QED
  BY <1>1, <1>2, <1>3 DEF Regular

\* In one hour of the day, too, the next time is a time.
LEMMA NextInHourNat ==
  ASSUME NEW h \in Nat, NEW t \in Nat
  PROVE  NextInHour(h, t) \in Nat
<1> USE Units
<1> DEFINE first == StartOf(Day, t) + h * Hour
           n     == first + MinuteOf(t) * Minute
<1>1. StartOf(Day, t) \in Nat /\ h * Hour \in Nat
  BY StartOfNat, ProductNat
<1>2. MinuteOf(t) \in Nat
  BY ModRange, DivMod DEF MinuteOf
<1>3. MinuteOf(t) * Minute \in Nat
  BY <1>2, ProductNat
<1>4. first \in Nat
  BY <1>1
<1> HIDE DEF first
<1>5. n \in Nat
  BY <1>3, <1>4
<1>6. NextInHour(h, t) = IF n > t THEN n
                         ELSE IF HourOf(n + Minute) = h THEN n + Minute
                         ELSE Later(first, t, Day)
  BY DEF NextInHour, first
<1> HIDE DEF n
<1>7. Later(first, t, Day) \in Nat
  BY <1>4 DEF Later
<1> QED
  BY <1>5, <1>6, <1>7

\* What nextTime returns is a time.
LEMMA NextIsTime ==
  ASSUME NEW c \in Crons, NEW t \in Nat
  PROVE  NextTime(c, t) \in Nat
<1>1. CASE Regular(c)
  BY <1>1, NextIsLater
<1>2. CASE ~Regular(c)
  <2>1. c.hour \in Nat
    BY <1>2, CronNumbers DEF Regular
  <2>2. NextTime(c, t) = NextInHour(c.hour, t)
    BY <1>2 DEF NextTime, Regular
  <2> QED
    BY <2>1, <2>2, NextInHourNat
<1> QED
  BY <1>1, <1>2

-----------------------------------------------------------------------------

\* The initial state is well typed.
LEMMA TypeInit == Init => TypeOK
<1> SUFFICES ASSUME Init
             PROVE  TypeOK
  OBVIOUS
<1>1. now \in Nat
  BY Units DEF Init
<1>2. cron \in Crons
  BY ParsedIsCron DEF Init
<1>3. /\ pc = "scheduling" /\ next = now /\ cancelled = FALSE
      /\ started = now /\ served = {} /\ busy = {}
  BY DEF Init
<1>4. started \in 0..now /\ next \in Nat
  BY <1>1, <1>3
<1>5. served \subseteq 0..now /\ busy \subseteq 0..now
  BY <1>3
<1>6. cancelled \in BOOLEAN /\ pc \in {"scheduling", "waiting", "running", "stopped"}
  BY <1>3
<1> QED
  BY <1>1, <1>2, <1>4, <1>5, <1>6, Zenon DEF TypeOK

\* Every action keeps the types: one step per action of Next.
LEMMA TypeStep == TypeOK /\ [Next]_vars => TypeOK'
<1> SUFFICES ASSUME TypeOK, [Next]_vars
             PROVE  TypeOK'
  OBVIOUS
<1> USE DEF TypeOK
<1>1. CASE Schedule
  <2>1. next' \in Nat
    BY <1>1, NextIsTime DEF Schedule
  <2> QED
    BY <1>1, <2>1 DEF Schedule
<1>2. CASE RunOnce
  BY <1>2 DEF RunOnce, TimerFires
<1>3. CASE RunReturns
  BY <1>3 DEF RunReturns
<1>4. CASE Stop
  BY <1>4 DEF Stop
<1>5. CASE Cancel
  BY <1>5 DEF Cancel
<1>6. CASE Tick
  BY <1>6 DEF Tick
<1>7. CASE UNCHANGED vars
  BY <1>7 DEF vars
<1> QED
  BY <1>1, <1>2, <1>3, <1>4, <1>5, <1>6, <1>7 DEF Next

\* The variables keep their types, whatever schedule is configured.
THEOREM TypeCorrect == Spec => []TypeOK
BY TypeInit, TypeStep, PTL DEF Spec

\* With regular schedules no time is inspected twice: the loop schedules from
\* the clock, which no inspection is ahead of.
THEOREM NoTimeTwice ==
  ASSUME \A e \in Expressions : Regular(ParseCron5(e))
  PROVE  Spec => []OneRunPerTime
<1> DEFINE Inv == TypeOK /\ Regular(cron) /\ OneRunPerTime
<1>1. Init => Inv
  BY TypeInit DEF Init, OneRunPerTime
<1>2. Inv /\ [Next]_vars => Inv'
  <2> SUFFICES ASSUME Inv, [Next]_vars
               PROVE  Inv'
    OBVIOUS
  <2>1. TypeOK'
    BY TypeStep
  <2>2. Regular(cron)'
    <3>1. cron' = cron
      BY DEF Next, vars, Schedule, RunOnce, RunReturns, Stop, Cancel, Tick
    <3> QED
      BY <3>1 DEF Regular
  <2>3. OneRunPerTime'
    <3>1. CASE Schedule
      <4>1. next' \in Nat /\ next' > now
        BY <3>1, NextIsLater DEF Schedule, TypeOK
      <4>2. served' \subseteq 0..now /\ now \in Nat
        BY <3>1 DEF Schedule, TypeOK
      <4> QED
        BY <4>1, <4>2 DEF OneRunPerTime
    <3>2. CASE RunOnce
      BY <3>2 DEF RunOnce, OneRunPerTime
    <3>3. CASE RunReturns
      BY <3>3 DEF RunReturns, OneRunPerTime
    <3>4. CASE Stop
      BY <3>4 DEF Stop, OneRunPerTime
    <3>5. CASE Cancel
      BY <3>5 DEF Cancel, OneRunPerTime
    <3>6. CASE Tick
      BY <3>6 DEF Tick, OneRunPerTime
    <3>7. CASE UNCHANGED vars
      BY <3>7 DEF vars, OneRunPerTime
    <3> QED
      BY <3>1, <3>2, <3>3, <3>4, <3>5, <3>6, <3>7 DEF Next
  <2> QED
    BY <2>1, <2>2, <2>3
<1>3. Inv => OneRunPerTime
  OBVIOUS
<1> QED
  BY <1>1, <1>2, <1>3, PTL DEF Spec

-----------------------------------------------------------------------------
(* Division: what the first match of a schedule rests on.                  *)

\* A number is its quotient times the divisor plus its remainder.
LEMMA Decompose ==
  ASSUME NEW a \in Nat, NEW u \in Nat \ {0}
  PROVE  a = (a \div u) * u + (a % u)
<1>1. a = u * (a \div u) + (a % u)
  OBVIOUS
<1>2. \A x \in Nat : x * u = u * x
  OBVIOUS
<1>3. a \div u \in Nat
  BY DivMod
<1> QED
  BY <1>1, <1>2, <1>3

\* Multiples grow with their factor.
LEMMA MultipleMonotone ==
  ASSUME NEW i \in Nat, NEW j \in Nat, NEW u \in Nat, i <= j
  PROVE  i * u <= j * u
<1>1. PICK d \in Nat : j = i + d
  <2>1. j - i \in Nat /\ j = i + (j - i)
    OBVIOUS
  <2> QED
    BY <2>1
<1>2. j * u = i * u + d * u
  BY <1>1
<1>3. d * u \in Nat /\ i * u \in Nat
  BY ProductNat
<1> QED
  BY <1>2, <1>3

\* Of two multiples the larger is larger by a unit.
LEMMA NextMultiple ==
  ASSUME NEW i \in Nat, NEW j \in Nat, NEW u \in Nat \ {0}, i * u > j * u
  PROVE  i * u >= j * u + u
<1>1. i >= j + 1
  <2>1. SUFFICES ASSUME i <= j
                 PROVE  FALSE
    OBVIOUS
  <2>2. i * u <= j * u
    BY <2>1, MultipleMonotone
  <2>3. i * u \in Nat /\ j * u \in Nat
    BY ProductNat
  <2> QED
    BY <2>2, <2>3
<1>2. (j + 1) * u <= i * u
  BY <1>1, MultipleMonotone
<1>3. (j + 1) * u = j * u + u
  OBVIOUS
<1> QED
  BY <1>2, <1>3

\* Quotient and remainder are unique.
LEMMA Unique ==
  ASSUME NEW q \in Nat, NEW p \in Nat, NEW u \in Nat \ {0},
         NEW v \in Nat, NEW w \in Nat, v < u, w < u, q * u + v = p * u + w
  PROVE  v = w /\ q * u = p * u
<1>1. q * u \in Nat /\ p * u \in Nat
  BY ProductNat
<1>2. ~(q * u > p * u)
  BY <1>1, NextMultiple
<1>3. ~(p * u > q * u)
  BY <1>1, NextMultiple
<1> QED
  BY <1>1, <1>2, <1>3

\* The beginning of a unit of time is a multiple of the unit.
LEMMA StartOfMultiple ==
  ASSUME NEW u \in Nat \ {0}, NEW t \in Nat
  PROVE  t \div u \in Nat /\ StartOf(u, t) = (t \div u) * u
BY Decompose, DivMod, ModRange, ProductNat DEF StartOf

\* The remainder by a unit is that of the remainder by a multiple of it.
LEMMA RemainderOfRemainder ==
  ASSUME NEW k \in Nat \ {0}, NEW u \in Nat \ {0}, NEW t \in Nat
  PROVE  (t % (k * u)) % u = t % u
<1> DEFINE big == k * u
           r   == t % big
           q   == t \div big
<1>1. big \in Nat \ {0}
  BY ProductPositive
<1> HIDE DEF big
<1>2. r \in Nat /\ q \in Nat /\ t = q * big + r
  BY <1>1, Decompose, ModRange, DivMod
<1> HIDE DEF r, q
<1>3. /\ r = (r \div u) * u + (r % u)
      /\ r \div u \in Nat /\ r % u \in Nat /\ r % u < u
  BY <1>2, Decompose, ModRange, DivMod
<1>4. /\ t = (t \div u) * u + (t % u)
      /\ t \div u \in Nat /\ t % u \in Nat /\ t % u < u
  BY Decompose, ModRange, DivMod
<1>5. q * big = (q * k) * u /\ q * k \in Nat
  BY <1>2, ProductNat DEF big
<1> DEFINE s == q * k + r \div u
<1>6. s \in Nat /\ t = s * u + (r % u)
  <2>0. \A x, y \in Nat : (x + y) * u = x * u + y * u
    OBVIOUS
  <2>1. s * u = (q * k) * u + (r \div u) * u
    BY <2>0, <1>3, <1>5
  <2> DEFINE x == (q * k) * u
             y == (r \div u) * u
             v == r % u
  <2>2. x \in Nat /\ y \in Nat /\ v \in Nat
    BY <1>3, <1>5, ProductNat
  <2>3. r = y + v /\ q * big = x /\ s * u = x + y
    BY <1>3, <1>5, <2>1
  <2>4. t = x + r
    BY <1>2, <2>3
  <2>5. s \in Nat
    BY <1>3, <1>5 DEF s
  <2> HIDE DEF x, y, v
  <2>6. t = s * u + v
    BY <2>2, <2>3, <2>4
  <2> QED
    BY <2>5, <2>6 DEF v
<1> HIDE DEF s
<1>7. r % u = t % u
  <2>1. s * u + (r % u) = (t \div u) * u + (t % u)
    BY <1>4, <1>6
  <2> DEFINE v == r % u
             w == t % u
             p == t \div u
  <2>2. /\ v \in Nat /\ v < u /\ w \in Nat /\ w < u
        /\ s \in Nat /\ p \in Nat /\ s * u + v = p * u + w
    BY <2>1, <1>3, <1>4, <1>6
  <2> HIDE DEF v, w, p
  <2>3. v = w
    BY <2>2, Unique
  <2> QED
    BY <2>3 DEF v, w
<1> QED
  BY <1>7 DEF r, big

-----------------------------------------------------------------------------

\* A time that matches lies where its schedule says in its minute, hour or day.
LEMMA MatchInHour ==
  ASSUME NEW c \in Crons, NEW m \in Nat, Matches(c, m), c.minute # Any
  PROVE  m % Hour = c.minute * Minute
<1> USE Units
<1> DEFINE r == m % Hour
<1>1. r \in Nat
  BY ModRange
<1>2. r % Minute = 0
  BY RemainderOfRemainder, CalendarAssumption DEF Hour, Matches
<1>3. r \div Minute = c.minute
  BY DEF Matches, MinuteOf
<1> HIDE DEF r
<1>4. r = (r \div Minute) * Minute + (r % Minute)
  BY <1>1, Decompose
<1>5. (r \div Minute) * Minute \in Nat
  BY <1>1, DivMod, ProductNat
<1>6. r = (r \div Minute) * Minute
  BY <1>2, <1>4, <1>5
<1> QED
  BY <1>3, <1>6 DEF r

\* A time a daily schedule matches has that hour and minute as its offset in the
\* day.
LEMMA MatchInDay ==
  ASSUME NEW c \in Crons, NEW m \in Nat, Matches(c, m), c.minute # Any, c.hour # Any
  PROVE  m % Day = c.hour * Hour + c.minute * Minute
<1> USE Units
<1> DEFINE r == m % Day
<1>1. r \in Nat
  BY ModRange
<1>2. r % Hour = c.minute * Minute
  BY RemainderOfRemainder, MatchInHour, CalendarAssumption DEF Day
<1>3. r \div Hour = c.hour
  BY DEF Matches, HourOf
<1> HIDE DEF r
<1>4. r = (r \div Hour) * Hour + (r % Hour)
  BY <1>1, Decompose
<1> QED
  BY <1>2, <1>3, <1>4 DEF r

\* Of the times a fixed offset into a unit, Later is the first after t.
LEMMA LaterIsFirst ==
  ASSUME NEW unit \in Nat \ {0}, NEW t \in Nat, NEW m \in Nat, NEW off \in Nat,
         m > t, m % unit = off
  PROVE  m >= Later(StartOf(unit, t) + off, t, unit)
<1> DEFINE a == StartOf(unit, m)
           b == StartOf(unit, t)
<1>1. a \in Nat /\ m = a + off /\ m < a + unit
  BY ModRange, StartOfNat DEF StartOf
<1>2. b \in Nat /\ b <= t /\ t < b + unit
  BY StartOfNat, StartOfBounds
<1>3. /\ a = (m \div unit) * unit /\ m \div unit \in Nat
      /\ b = (t \div unit) * unit /\ t \div unit \in Nat
  BY StartOfMultiple
<1>4. a > b => a >= b + unit
  BY <1>3, NextMultiple
<1>5. b > a => b >= a + unit
  BY <1>3, NextMultiple
<1> HIDE DEF a, b
<1>6. a >= b
  BY <1>1, <1>2, <1>5
<1>7. m >= Later(b + off, t, unit)
  BY <1>1, <1>2, <1>4, <1>6 DEF Later
<1> QED
  BY <1>7 DEF b

\* The next time of a regular schedule is the first later time that matches.
THEOREM NextIsFirst ==
  ASSUME NEW c \in Crons, NEW t \in Nat, Regular(c),
         NEW m \in Nat, m > t, Matches(c, m)
  PROVE  NextTime(c, t) <= m
<1> USE Units
<1>0. NextTime(c, t) \in Nat
  BY NextIsLater
<1>1. CASE c.hour = Any /\ c.minute = Any
  <2>1. NextTime(c, t) = StartOf(Minute, t) + Minute
    BY <1>1 DEF NextTime
  <2>2. m >= Later(StartOf(Minute, t) + 0, t, Minute)
    BY LaterIsFirst DEF Matches
  <2>3. StartOf(Minute, t) \in Nat /\ StartOf(Minute, t) <= t
    BY StartOfNat, StartOfBounds
  <2> QED
    BY <2>1, <2>2, <2>3 DEF Later
<1>2. CASE c.hour = Any /\ c.minute # Any
  <2>1. c.minute * Minute \in Nat
    BY <1>2, CronNumbers, ProductNat
  <2>2. NextTime(c, t) = Later(StartOf(Hour, t) + c.minute * Minute, t, Hour)
    BY <1>2 DEF NextTime
  <2>3. m % Hour = c.minute * Minute
    BY <1>2, MatchInHour
  <2>4. m >= NextTime(c, t)
    BY <2>1, <2>2, <2>3, LaterIsFirst
  <2> QED
    BY <1>0, <2>4
<1>3. CASE c.hour # Any /\ c.minute # Any
  <2> DEFINE off == c.hour * Hour + c.minute * Minute
  <2>1. c.hour * Hour \in Nat /\ c.minute * Minute \in Nat
    BY <1>3, CronNumbers, ProductNat
  <2>2. off \in Nat /\ StartOf(Day, t) \in Nat
    BY <2>1, StartOfNat
  <2>3. StartOf(Day, t) + c.hour * Hour + c.minute * Minute = StartOf(Day, t) + off
    BY <2>1, <2>2
  <2>4. NextTime(c, t) = Later(StartOf(Day, t) + off, t, Day)
    BY <1>3, <2>3 DEF NextTime
  <2>5. m % Day = off
    BY <1>3, MatchInDay
  <2> HIDE DEF off
  <2>6. m >= NextTime(c, t)
    BY <2>2, <2>4, <2>5, LaterIsFirst
  <2> QED
    BY <1>0, <2>6
<1> QED
  BY <1>1, <1>2, <1>3 DEF Regular

\* With regular schedules every time of the schedule gets its inspection: none
\* lies between the clock and the time the loop waits for.
THEOREM EveryTimeInspected ==
  ASSUME \A e \in Expressions : Regular(ParseCron5(e))
  PROVE  Spec => []EveryTimeServed
<1> DEFINE NoneSkipped == pc = "waiting" =>
             \A m \in Nat : m > now /\ Matches(cron, m) => m >= next
           Inv == /\ TypeOK /\ Regular(cron) /\ NoneSkipped /\ EveryTimeServed
                  /\ (pc = "stopped" => cancelled)
<1>1. Init => Inv
  BY TypeInit DEF Init, EveryTimeServed, TypeOK
<1>2. Inv /\ [Next]_vars => Inv'
  <2> SUFFICES ASSUME Inv, [Next]_vars
               PROVE  Inv'
    OBVIOUS
  <2>1. TypeOK'
    BY TypeStep
  <2>2. cron' = cron
    BY DEF Next, vars, Schedule, RunOnce, RunReturns, Stop, Cancel, Tick
  <2>3. CASE Schedule
    <3>1. NoneSkipped'
      BY <2>3, NextIsFirst DEF Schedule, TypeOK
    <3>2. EveryTimeServed'
      BY <2>3 DEF Schedule, EveryTimeServed
    <3> QED
      BY <2>1, <2>2, <2>3, <3>1, <3>2 DEF Schedule, Regular
  <2>4. CASE RunOnce
    BY <2>1, <2>2, <2>4 DEF RunOnce, EveryTimeServed, Regular
  <2>5. CASE RunReturns
    BY <2>1, <2>2, <2>5 DEF RunReturns, EveryTimeServed, Regular
  <2>6. CASE Stop
    BY <2>1, <2>2, <2>6 DEF Stop, EveryTimeServed, Regular
  <2>7. CASE Cancel
    BY <2>1, <2>2, <2>7 DEF Cancel, EveryTimeServed, Regular
  <2>8. CASE Tick
    <3>1. now' = now + 1 /\ now \in Nat /\ next \in Nat /\ started \in Nat
      BY <2>8 DEF Tick, TypeOK
    <3>2. NoneSkipped'
      BY <2>2, <2>8, <3>1 DEF Tick
    <3>3. EveryTimeServed'
      <4> SUFFICES ASSUME NEW t \in started + 1 .. now + 1, Matches(cron, t)
                   PROVE  \/ t \in served \cup busy'
                          \/ pc = "waiting" /\ t = next
                          \/ cancelled
        BY <2>2, <2>8, <3>1 DEF Tick, EveryTimeServed
      <4>1. CASE t <= now
        BY <2>8, <3>1, <4>1 DEF Tick, EveryTimeServed
      <4>2. CASE t = now + 1
        BY <2>2, <2>8, <3>1, <4>2 DEF Tick, TimerFires, TypeOK
      <4> QED
        BY <3>1, <4>1, <4>2
    <3> QED
      BY <2>1, <2>2, <2>8, <3>2, <3>3 DEF Tick, Regular
  <2>9. CASE UNCHANGED vars
    BY <2>1, <2>9 DEF vars, EveryTimeServed, Regular
  <2> QED
    BY <2>3, <2>4, <2>5, <2>6, <2>7, <2>8, <2>9 DEF Next
<1>3. Inv => EveryTimeServed
  OBVIOUS
<1> QED
  BY <1>1, <1>2, <1>3, PTL DEF Spec

=============================================================================
