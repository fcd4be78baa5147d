SPECIFICATION Spec
CONSTANTS
  OrderIds = {c1}
  NoId = NoId
  Markets = {mA, mB}
  NoMarket = NoMarket
  Prices <- MCPrices
  Deployments <- OnlyPolymarket
  TransitionTimeout = 1
  QuietWindow = 0
PROPERTIES
  PollErrorsOnlyDegrade
