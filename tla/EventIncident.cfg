\* Two Events of any kinds, one occurrence each or two, a deleted incident, a
\* failed creation and a restart.
SPECIFICATION FairSpec
CONSTANTS
  e1 = e1
  e2 = e2
  NoKey = NoKey
  Events = {e1, e2}
  Descriptions <- SomeDescriptions
  Digest <- Triple
  MaxAge = 0
  MaxTime = 1
  MaxOccurrences = 2
  MaxDeletes = 1
  MaxErrors = 1
  MaxCrashes = 1
INVARIANTS TypeOK NoEventForgotten
PROPERTY EventuallySettled
CHECK_DEADLOCK FALSE
