SPECIFICATION Spec
CONSTANTS
  BufferLines = 2
  LowWater = 1
  CounterModulus = 1
  WireFrames <- TwoSessions
  Keys = {}
  BufferPackets = 1
  LowWater0 = 1
  MaxEvents = 2
INVARIANT
  NumberOfOwnFrame
