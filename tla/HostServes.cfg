CONSTANTS
  MaxClients = 1
  Filter <- MCFilter
  Topic <- MCTopic
  OpId <- MCOpId
  Kind = {"subscribe", "unsubscribe"}
  None = None
  MaxInflight = 2
  MaxCommands = 1
  MaxMessages = 0
  MaxLosses = 0
  Budget = 2
SPECIFICATION ClientsSpec
CHECK_DEADLOCK FALSE
PROPERTY HostServes
