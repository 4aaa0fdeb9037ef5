CONSTANTS
  MaxIndex = 1
  MaxQueue = 2
  Faults = {"split"}
SPECIFICATION Spec
PROPERTIES FootageKept ServiceKept
CHECK_DEADLOCK FALSE
