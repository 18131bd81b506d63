CONSTANTS
  MaxInflight = 2
  OpId = {a, e, f}
  Kind = {"qos1", "qos2", "subscribe"}
  None = None
  AtLeastOnce = {a}
  ExactlyOnce = {e, f}
  MaxLosses = 1
SPECIFICATION EndToEndSpec
CHECK_DEADLOCK FALSE
INVARIANT TakenOnce
