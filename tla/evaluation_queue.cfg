SPECIFICATION FairRequestsSpec
CONSTANTS
  w1 = w1
  w2 = w2
  call = call
  turn = turn
  Workers <- TwoWorkers
  Requests <- OneCall
  VoiceTurns <- OneTurn
  Events <- Both
  TurnEvents <- SomeTurns
  MaxSlow = 1
  MaxStops = 1
INVARIANTS
  ResultByClaimant
  RequestsSettled
PROPERTIES
  EscalationsEnd
  CleanupsEnd
CHECK_DEADLOCK FALSE
