CONSTANTS
  Scenarios <- MCScenarios
  WordBits = 3
  MaxTime = 5
  MaxEvents = 3
  Characters = 3
  StringLength = 2
  TraceScenarios <- ObservedAhead
  TraceHorizon = 24
SPECIFICATION TracingSpec
INVARIANTS
  FilesAreTrue
  ClosedIsComplete
  TracesArePresent
CHECK_DEADLOCK FALSE
