SPECIFICATION FairSpec
CONSTANTS
  MaxTurns <- TwoTurns
  MaxChunks <- TwoChunks
INVARIANTS HistoryHeard HistoryOrdered
PROPERTIES ImplementsConversation TurnsEvaluated HandlerEnds
CHECK_DEADLOCK FALSE
