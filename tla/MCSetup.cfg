CONSTANTS
    Scenarios <- MCScenarios
    Designs <- MCDesigns
    Bases <- Derived
SPECIFICATION MCSetupSpec
INVARIANTS
  SystemIsSetUp
  ClustersBalanced
  TimesFitOrRefused
PROPERTIES
  EachStepProgresses
