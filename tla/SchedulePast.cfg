\* All schedules there are.
SPECIFICATION Spec
CONSTANTS
  SecondsPerMinute = 2
  MinutesPerHour = 3
  HoursPerDay = 3
  Expressions <- AllExpressions
  MaxTime = 26
INVARIANT OneRunPerTime
CHECK_DEADLOCK FALSE
