SPECIFICATION FairSpec
CONSTANTS
  h1 = h1
  h2 = h2
  Handlers <- TwoHandlers
  MaxSessions = 1
  MaxCreated = 2
INVARIANTS
  ServedWithinCapacity
  PeersReleased
PROPERTY
  ConnectedEnds
CHECK_DEADLOCK FALSE
