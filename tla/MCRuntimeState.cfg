CONSTANTS
  MaxInflight = 2
  OpId = {o1, o2, o3}
  Kind = {"qos0", "qos1", "qos2", "subscribe", "unsubscribe"}
  None = None
SPECIFICATION Spec
SYMMETRY Symmetry
CHECK_DEADLOCK FALSE
INVARIANTS TypeOK StoreConsistent SingleOwner FinishedOnce
PROPERTIES DupOnResend LedgerSpec
