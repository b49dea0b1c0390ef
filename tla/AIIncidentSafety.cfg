\* One incident, deleted and created again, with an edit, a failed update and
\* a restart.
SPECIFICATION Spec
CONSTANTS
  i1 = i1
  i2 = i2
  NoKey = NoKey
  Incidents <- OneIncident
  RetryLimit = 2
  UpdateSteps = 2
  LLMLevels = {"Critical", "High"}
  MaxCreates = 2
  MaxEdits = 1
  MaxErrors = 1
  MaxCrashes = 1
INVARIANTS TypeOK BoundedStaleness RetryBound NeverForgotten ResolvedAfterWork IndInv
PROPERTY NoLostUpdate
CHECK_DEADLOCK FALSE
