SPECIFICATION FairSpec
CONSTANTS
  Threshold = 2
  MaxBought = 5
  MaxPool = 3
PROPERTIES
  PairsAreMerged
CHECK_DEADLOCK FALSE
