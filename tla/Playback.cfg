CONSTANTS
  MaxPipelines = 2
  MaxBytes = 3
  Runtime = 2
  MaxTries = 2
  Tiers = 2
  Inputs = {"exit", "pause", "badFile", "leave", "fails"}
SPECIFICATION FairSpec
INVARIANTS TypeOK StreamReleased WayOut
PROPERTIES BufferingEnds MovieEnds
CHECK_DEADLOCK FALSE
