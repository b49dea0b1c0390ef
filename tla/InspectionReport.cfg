\* Clusters of at most two objects in trouble, and one change during the run;
\* a day has three hours of three minutes of two seconds.
SPECIFICATION FairSpec
CONSTANTS
  SecondsPerMinute = 2
  MinutesPerHour = 3
  HoursPerDay = 3
  SearchMinutes = 18
  Grace = 3
  NeverRunAge = 8
  PendingAge = 4
  OrphanAge = 10
  OldJobAge = 12
  EventWindow = 18
  ClockSlack = 2
  SoonDays = 1
  LaterDays = 2
  WorkloadLimit = 2
  PodLimit = 1
  SecretLimit = 1
  Now = 30
  Clusters <- SmallClusters
  Changing = {"pvcs", "services", "pods", "secrets", "slices"}
  Newcomers <- SomeNewcomers
  Troubles <- SomeTroubles
  Forbidden <- Unreadable
  HasTimeout = TRUE
  NotifyOnSuccess = FALSE
  FocusLimit = 2
  GeneralActions = 1
  ActionLimit = 2
  MaxChanges = 1
INVARIANTS TypeOK LevelsAgree UrgentShown OverdueMeansMissed JoinsTruthful TroubleNeverHelps
PROPERTY RunReturns
CHECK_DEADLOCK FALSE
