CONSTANTS
  Slots = 3
  MaxParts = 2
  Faults = {}
SPECIFICATION FairSpec
INVARIANT TypeOK
PROPERTIES StreamKept StreamFlows
