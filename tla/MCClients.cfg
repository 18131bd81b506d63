CONSTANTS
  MaxClients = 2
  Filter <- MCFilter
  Topic <- MCTopic
  OpId <- MCOpId
  Kind = {"subscribe", "unsubscribe"}
  None = None
  MaxInflight = 2
  MaxCommands = 3
  MaxMessages = 1
  MaxLosses = 1
  Budget = 4
SPECIFICATION MCSpec
CHECK_DEADLOCK FALSE
INVARIANTS ClientsTypeOK RoutesAsTold CompletedOnce RouteBacked MistakenBecause EndedBecause
PROPERTIES PromiseKept Answered
