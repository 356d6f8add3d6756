\* A chat view and a turn, two models, one retry, two pings, three calls.
SPECIFICATION CatalogueSpec
CONSTANTS
  panel = panel  turn = turn  modelA = modelA  modelB = modelB
  Callers <- MCCallers
  Listed <- MCModels
  Gateways <- MCGateways
  MaxRetries = 1
  MaxPings = 2
  MaxCalls = 3
  NoModel = NoModel
INVARIANTS VerdictIsTrueUnlessUnread
PROPERTIES NothingSentAfterAbort CallsEnd
CHECK_DEADLOCK FALSE
