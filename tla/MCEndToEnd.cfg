CONSTANTS
  MaxInflight = 2
  OpId = {1, 2, 3, 4, 5, 6, 7, 8}
  Kind = {"qos1", "qos2", "subscribe"}
  None = None
  AtLeastOnce = {1, 5, 6, 7, 8}
  ExactlyOnce = {2, 3}
  MaxLosses = 1
SPECIFICATION MCSpec
CHECK_DEADLOCK FALSE
INVARIANTS EndToEndTypeOK EndedOnlyAfterTimeout ReportedMeansTaken TakenPerLoss MarkTruthful CollisionBlocked
PROPERTIES CompletedUnlessDeferred
