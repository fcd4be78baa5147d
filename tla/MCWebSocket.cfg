SPECIFICATION FairSpec
CONSTANTS
  LastCycle = 1
  Conns <- MCConns
  MaxReconnectAttempts = 2
  None = None
INVARIANTS
  TypeOK
  NeverBehind
  OneInForce
  LateOnce
  SubscribedToItsTokens
PROPERTIES
  TicksOfTheirMarket
  
CHECK_DEADLOCK FALSE
