CONSTANTS
  MissLimit = 2
  MaxPolls = 1
  MaxLine = 1
  MaxSem = 2
  Inputs = {"power", "bind", "enter", "version", "readError", "channel", "slow"}
SPECIFICATION Spec
INVARIANTS TypeOK OneReader PowerFollowsSwitch
PROPERTIES SuccessIsReal BindUndisturbed
CHECK_DEADLOCK FALSE
