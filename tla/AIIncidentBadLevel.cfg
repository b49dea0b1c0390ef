\* The LLM may answer with a level the CRD's enum does not have.
SPECIFICATION FairSpec
CONSTANTS
  i1 = i1
  i2 = i2
  NoKey = NoKey
  Incidents <- OneIncident
  RetryLimit = 1
  UpdateSteps = 2
  LLMLevels = {"Critical", "High"}
  MaxCreates = 1
  MaxEdits = 0
  MaxErrors = 0
  MaxCrashes = 0
PROPERTY EventuallySettled
CHECK_DEADLOCK FALSE
