\* One incident, one restart of the controller, no other fault.
SPECIFICATION Spec
CONSTANTS
  i1 = i1
  i2 = i2
  NoKey = NoKey
  Incidents <- OneIncident
  RetryLimit = 1
  UpdateSteps = 2
  LLMLevels = {"Critical"}
  MaxCreates = 1
  MaxEdits = 0
  MaxErrors = 0
  MaxCrashes = 1
INVARIANT DeliveredOnce
CHECK_DEADLOCK FALSE
