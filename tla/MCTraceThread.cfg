SPECIFICATION FairSpec
CONSTANTS
  Data = {h1, h2, h3, h4}
  NULL = NULL
  Sync = Sync
  Stop = Stop
  Chunk = 1
  BufferMax = 2
  PreMax = 2
  MaxStamps = 4
  Scenarios <- Files
INVARIANTS
  StampsSafe
  ExclusiveFileAccess
PROPERTIES
  PoolIsFifo
  CallsReturn
