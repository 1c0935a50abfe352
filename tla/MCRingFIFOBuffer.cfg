SPECIFICATION Spec
CONSTANTS
  BufferLines = 6
  LowWater = 2
  CounterModulus = 2
  Frames <- MixedFrames
INVARIANTS
  TypeOK
  StoredFramesIntact
  NeverUndercounts
  EmptyAcceptsAll
  MarksCoverState
PROPERTY
  ImplementsQueue
