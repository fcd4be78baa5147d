SPECIFICATION FairSpec
CONSTANTS
  OrderIds = {c1}
  NoId = NoId
  Markets = {mA, mB}
  NoMarket = NoMarket
  Prices <- TwoPrices
  Deployments <- LiveDeployments
  TransitionTimeout = 1
  QuietWindow = 0
PROPERTIES
  TransitionEnds
