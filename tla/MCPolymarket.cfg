SPECIFICATION FairSpec
CONSTANTS
  LastCycle = 1
  MaxTrades = 3
  PageSize = 2
  Anonymous <- MCAnonymous
  None = None
INVARIANTS
  TypeOK
  NoFillTwice
  NothingSkipped
  NothingAstray
  CursorOfMarket
PROPERTIES
  StaysInItsMarket
  EveryTradeIsFilled
CHECK_DEADLOCK FALSE
