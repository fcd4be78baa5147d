SPECIFICATION FairSpec
CONSTANTS
  Ids = {e1}
  Acqs = {a1, a2, a3}
  None = None
INVARIANTS
  NoStuckBit
  NoLostTimer
PROPERTIES
  EveryBitIsReleased
