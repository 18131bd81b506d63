CONSTANTS
  KeepAlive = 3
  TickInterval = 2
  MaxPieces = 4
SPECIFICATION FairSpec
CHECK_DEADLOCK FALSE
PROPERTY MissingPingRespNoticed
