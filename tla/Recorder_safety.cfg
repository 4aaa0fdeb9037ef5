CONSTANTS
  MaxIndex = 1
  MaxQueue = 1
  Faults = {"prepare", "header", "video", "audio", "mkdir", "encoder"}
SPECIFICATION Spec
INVARIANTS TypeOK ContainerInPlace StatusIsTrue
PROPERTIES NoOverwrite ServiceKept
CHECK_DEADLOCK FALSE
