SPECIFICATION FairSpec
CONSTANTS
    Modules <- MCModules
    InPorts <- MCInPorts
    OutPorts <- MCOutPorts
    Owner <- MCOwner
    Driver <- MCDriver
    Position <- MCPosition
    FromPorts <- MCFromPorts
    ToPorts <- MCToPorts
    ScOwner <- MCScOwner
    ScPortSeq <- MCScPortSeq
    Graphs <- ExactGraphs
    Dynamic <- DynamicGraphs
    CutPorts = {"tC"}
    MaxPasses = 2
    NoModule = "none"
INVARIANTS
  TypeOK
  TokensConserved
  RingSuffices
  PeriodRestoresTokens
  ProgramIsCausalPeriod
  SchedulableIffAcyclic
PROPERTIES
  SchedulingTerminates
