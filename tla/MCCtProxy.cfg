SPECIFICATION Spec
CONSTANTS
  Scenarios <- MCScenarios
  MaxActivations = 4
  Growth = 2
  None = None
\* a module is called a bounded number of times
CHECK_DEADLOCK FALSE
INVARIANTS
  UsesContinue
  AllTimeIsIntegrated
  EquationsAreCurrent
PROPERTIES
  InputIsDelayedCurve
