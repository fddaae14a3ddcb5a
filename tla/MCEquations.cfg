SPECIFICATION EqSpec
CONSTANTS
  Unity = 2
  Scenarios <- Scenarios_
  StepBound = 3
  Timesteps = {1, 2}
CHECK_DEADLOCK FALSE
INVARIANTS
  EquationsInForce
  LawsHold
  StepsSolveTable
PROPERTIES
  EulerAfterJump
