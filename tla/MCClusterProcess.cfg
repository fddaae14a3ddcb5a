SPECIFICATION FairSpec
CONSTANTS
  a = a
  b = b
  Modules = {a, b}
  Horizon = 24
  Scenarios <- Clusters
INVARIANTS
  TimesAsAsked
PROPERTIES
  StepsAsScheduled
  PeriodCompletes
