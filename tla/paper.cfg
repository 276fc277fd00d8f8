SPECIFICATION Spec
CONSTANTS
  Orders = {o1, o2, o3}
  Longs = {o1, o2}
  NoOrder = NoOrder
  MaxTrades = 3
  MaxCrashes = 2
  MaxLoopCrashes = 0
  MaxFailures = 1
SYMMETRY SameSide
INVARIANTS TypeOK OneTaskInStep NothingTwice
CHECK_DEADLOCK FALSE
