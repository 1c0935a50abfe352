SPECIFICATION Spec
CONSTANTS
  BufferLines = 2
  LowWater = 1
  CounterModulus = 1
  WireFrames <- TwoSessions
  Keys = {"filter"}
  BufferPackets = 1
  LowWater0 = 1
  MaxEvents = 2
INVARIANTS
  TypeOK
  InsertedUnderIdOfStoring
  OnlyStraysUnderShutdown
  NumberOfNewestFrame
PROPERTIES
  ShutdownIsPublished
  NeverSpins
  EveryPassEnds
  InterruptEndsLoop
  BackPressureEnds
