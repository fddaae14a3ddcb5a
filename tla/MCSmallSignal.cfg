SPECIFICATION MCSpec
CONSTANTS
  Lines = 2
  Columns = 2
  Entered <- MCEntered
  NoValue = NoValue
  Systems <- MCSystems
  Sweeps <- MCSweeps
CHECK_DEADLOCK FALSE
INVARIANTS
  AcSolvesSystem
  NoiseIsComplete
  MatricesAndFunctionsAgree
