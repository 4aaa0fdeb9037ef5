CONSTANTS
  AutoDetect = TRUE
  Inputs = {"menu", "sleep", "saver", "idle", "vtx"}
SPECIFICATION FairSpec
PROPERTY Reacquired
INVARIANTS TypeOK AnalogStaysOn
