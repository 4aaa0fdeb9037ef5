CONSTANTS
  MissLimit = 2
  MaxPolls = 1
  MaxLine = 1
  MaxSem = 1
  Inputs = {"wifi", "power", "track", "hang", "vtx", "query"}
SPECIFICATION FairSpec
INVARIANT PowerFollowsSwitch
PROPERTIES ClickReturns Healed
CHECK_DEADLOCK FALSE
