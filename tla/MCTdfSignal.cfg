CONSTANTS
  a = a
  b = b
  Readers = {a, b}
  Driver = d
  Preset = 100
  Forced = 200
  Unset = 300
  Scenarios <- AllScenarios
  MaxSamples = 5
SPECIFICATION Spec
INVARIANTS
  BuffersSound
  RingIsLargeEnough
PROPERTIES
  ImplementsStream
  
