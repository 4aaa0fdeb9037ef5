CONSTANTS
  MaxIndex = 0
  MaxQueue = 1
  Faults = {"encoder"}
SPECIFICATION FairSpec
PROPERTIES StopWins LostCardStops SilenceReported SessionResumes SessionEnds
CHECK_DEADLOCK FALSE
