CONSTANTS
    Initial = Initial
    Preset = Preset
    Forced = Forced
    Unset = Unset
    Uninitialized = Uninitialized
    Scale = 12
    MaxTime = 12
    Scenarios <- MCScenarios
    MaxSamples = 8
    AttrScenarios <- AskedAttributes
    MaxExecutions = 5
    HandleScenarios <- UsedHandles
    HandleHorizon = 4
    MaxEvents = 4
SPECIFICATION PortsSpec
PROPERTIES
  ConverterPortsDeliver
  AttributesFit
  HandlesKeepTime
  CutPortsDeliver
