CONSTANTS
  MaxQueue = 1
  Manual = FALSE
  Inputs = {"menu", "button", "retune", "backpack", "timer", "signal", "full"}
SPECIFICATION Spec
INVARIANTS TypeOK NoOrphan
CHECK_DEADLOCK FALSE
