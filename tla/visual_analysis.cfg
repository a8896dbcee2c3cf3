SPECIFICATION Spec
CONSTANTS
  Images <- ThreeImages
  Texts <- OneText
  Near <- NearPair
  Works <- SomeWorks
  Requests <- Three
  Revisions = 2
  MaxRestarts = 1
  MaxFaults = 1
  Analyses <- OneAnalysis
  References <- OtherNamespace
  Namespace <- TwoNamespaces
  MaxReferences = 1
CHECK_DEADLOCK FALSE
INVARIANTS IndexIsStore SequencesLinked ReferenceSent
PROPERTY ImplementsImageStore
