SPECIFICATION Spec
CONSTANTS
  t1 = t1
  t2 = t2
  m1 = m1
  m2 = m2
  Operator = operator
  Traders <- MCTraders
  Markets <- MCMarkets
  MaxContracts = 2
  MaxLossPerTrade = 1
  MaxPositionPerMarket = 1
  MaxTotalPosition = 3
  MaxDailyLoss = 1
  MaxConsecutiveErrors = 2
SYMMETRY Symmetry
INVARIANTS
  TypeOK
  LimitsOverrunByTradesUnderWay
  TripLasts
  ErrorsHalt
CHECK_DEADLOCK FALSE
