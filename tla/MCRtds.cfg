SPECIFICATION FairSpec
CONSTANTS
  Topics <- MCTopics
  MaxReconnect = 10
  LastConn = 2
  None = None
PROPERTIES
  ReconnectsAfterLoss
CHECK_DEADLOCK FALSE
