SPECIFICATION Spec
CONSTANTS
  Scenarios <- SharedCoefficients
  MaxActivations = 4
  Growth = 2
  None = None
CHECK_DEADLOCK FALSE
INVARIANT EquationsAreCurrent
