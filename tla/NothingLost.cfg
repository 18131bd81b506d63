CONSTANTS
  MaxInflight = 2
  OpId = {o1, o2, o3, o4}
  Kind = {"qos1"}
  None = None
SPECIFICATION Spec
SYMMETRY Symmetry
CHECK_DEADLOCK FALSE
INVARIANT NothingLost
