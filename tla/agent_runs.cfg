SPECIFICATION FairSpec
CONSTANTS
  Runs <- OneRun
  Calls <- Racing
  Workers <- OneThread
  MaxIterations = 2
  MaxRestarts = 1
INVARIANTS OneExecution PassedIsSaved PassedOnEvidence InFlightOwned
PROPERTIES ExecutionsEnd
CHECK_DEADLOCK FALSE
