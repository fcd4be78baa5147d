SPECIFICATION Spec
CONSTANTS
  OrderIds = {c1, c2}
  NoId = NoId
  Markets = {mA, mB}
  NoMarket = NoMarket
  Prices <- MCPrices
  Deployments <- AllDeployments
  TransitionTimeout = 1
  QuietWindow = 0
SYMMETRY Symmetry
INVARIANTS
  TypeOK
  NoOrphans
  OneOpenOrder
  SimulationClosesAtOnce
  OnlyOwnStates
  KilledBookIsClosing
  OneBuyPerSide
PROPERTIES
  OrdersNeedPermission
  SwitchFindsBookClosed
  ImplementsSession
