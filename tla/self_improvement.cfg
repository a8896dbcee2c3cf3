SPECIFICATION FairSpec
CONSTANTS
  Cases <- OneCase
  Ids <- RunIds
  Base = "base"
  OldReferences <- SealedOrNot
  MaxEvals = 2
  MaxCallTokens = 2
  MaxDisturbances = 1
  MaxProposals = 2
  MaxCalls = 2
  Budget = 1
  Baselines <- TwoBaselines
  Attempts <- OneAttempt
  SealedRepeats = 2
  Diffs <- SomeDiffs
CHECK_DEADLOCK FALSE
INVARIANTS PassedMeetsReference QualifiedOnEvidence UnfinishedIsOwned
PROPERTY EvaluationsEnd
