CONSTANTS
  KeepAlive = 3
  TickInterval = 2
  MaxPieces = 4
SPECIFICATION FairSpec
CHECK_DEADLOCK FALSE
INVARIANTS TypeOK IdleBounded
PROPERTIES OnePingAtATime Patient SilenceNoticed
