\* Scheduling is fair and every level the LLM answers with is one the CRD accepts.
SPECIFICATION FairSpec
CONSTANTS
  i1 = i1
  i2 = i2
  NoKey = NoKey
  Incidents <- OneIncident
  RetryLimit = 1
  UpdateSteps = 2
  LLMLevels = {"Critical"}
  MaxCreates = 2
  MaxEdits = 0
  MaxErrors = 1
  MaxCrashes = 1
PROPERTIES EventuallySettled FollowsLifecycle
CHECK_DEADLOCK FALSE
