CONSTANTS
  MaxClients = 2
  Filter <- MCFilter
  Topic <- MCTopic
  OpId <- MCOpId
  Kind = {"subscribe", "unsubscribe"}
  None = None
  MaxInflight = 3
  MaxCommands = 3
  MaxMessages = 0
  MaxLosses = 0
  Budget = 3
SPECIFICATION ClientsSpec
CHECK_DEADLOCK FALSE
INVARIANT StillServed
