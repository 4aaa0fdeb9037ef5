CONSTANTS
  Slots = 3
  MaxParts = 1
  Faults = {}
SPECIFICATION Spec
PROPERTY BegunAnew
