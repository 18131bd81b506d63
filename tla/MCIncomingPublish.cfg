CONSTANTS
  MaxInflight = 2
  AtLeastOnce = {a1}
  ExactlyOnce = {e1, e2}
  None = None
  MaxReconnects = 2
SPECIFICATION FairSpec
CHECK_DEADLOCK FALSE
INVARIANTS TypeOK DeliveredOnce AcknowledgedAfterDelivery RefusedOnlyAfterLoss
PROPERTIES SettledEventually
