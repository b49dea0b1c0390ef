\* All schedules but those of every minute in one hour, through a day and a half of
\* three hours, of three minutes, of two seconds.
SPECIFICATION FairSpec
CONSTANTS
  SecondsPerMinute = 2
  MinutesPerHour = 3
  HoursPerDay = 3
  Expressions <- Everyday
  MaxTime = 26
INVARIANTS TypeOK OneRunPerTime EveryTimeServed
PROPERTY ShutdownStops
CHECK_DEADLOCK FALSE
