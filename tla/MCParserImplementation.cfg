SPECIFICATION Spec
CONSTANTS
  BufferLines = 4
  LowWater = 3
  CounterModulus = 1
  WireFrames <- AllFrames
  Keys = {"timing", "filter"}
INVARIANTS
  TypeOK
  DrainedBeforeShutdown
  SessionsStayApart
  GateSuffices
PROPERTY
  ImplementsStream
