SPECIFICATION Spec
CONSTANTS
  Scenarios <- TwoSamples
  MaxActivations = 4
  Growth = 10
  None = None
INVARIANT AllTimeIsIntegrated
CHECK_DEADLOCK FALSE
