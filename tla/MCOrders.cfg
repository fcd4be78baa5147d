SPECIFICATION Spec
CONSTANTS
  Asks <- MCAsks
  OrderSize = 500
  MinProfit = 20
  TickSize = 1
INVARIANT NoLoneLeg
CHECK_DEADLOCK FALSE
