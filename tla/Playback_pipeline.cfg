CONSTANTS
  MaxPipelines = 2
  MaxBytes = 2
  Runtime = 2
  MaxTries = 1
  Tiers = 1
  Inputs = {}
SPECIFICATION Spec
PROPERTY OnePipeline
CHECK_DEADLOCK FALSE
