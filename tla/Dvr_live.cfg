CONSTANTS
  MaxQueue = 1
  Manual = TRUE
  Inputs = {"button", "card", "dirtyCard"}
SPECIFICATION FairSpec
INVARIANT NoOrphan
PROPERTIES Agreement EveryCallEnds PendingHonoured RecorderBack
CHECK_DEADLOCK FALSE
